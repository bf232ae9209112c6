------------------------------- MODULE S3File -------------------------------
(***************************************************************************)
(* The files an agent keeps in S3 (awsadp/s3_file.go): s3File buffers one  *)
(* object.  Opening touches nothing; the object is read into the buffer by *)
(* the first Read or by the first Write of an appending handle, reading    *)
(* consumes the buffer, and Close or Flush puts the whole buffer.  Every   *)
(* method locks the handle, so a call is one step (Read takes the lock for *)
(* readers only: one goroutine reads through a handle); handles on one     *)
(* object know nothing of each other.  The n-th byte written through a     *)
(* handle h is <<h, n>>: what counts is where each byte ends up.           *)
(***************************************************************************)
EXTENDS Naturals, Sequences

CONSTANTS Handles,     \* open files on one object
          ContentLen,  \* bound: length of the object that exists at first
          MaxBytes,    \* bound: bytes read and written through a handle
          MaxPutFails  \* bound: puts that fail

ASSUME S3FileAssumption ==
  ContentLen \in Nat /\ MaxBytes \in Nat /\ MaxPutFails \in Nat

VARIABLES object,    \* the object: its bytes, or Missing
          handle,    \* handle[h]: the s3File
          wrote,     \* history: what was written through h
          base,      \* history: the bytes of the object at the first write through h
          got,       \* history: what was read through h
          touched,   \* history: handles whose object changed, or that wrote
          flushed,   \* history: handles that were flushed
          putFails   \* puts that have failed

fileVars == <<object, handle, wrote, base, got, touched, flushed, putFails>>

Missing == [exists |-> FALSE, data |-> <<>>]

Stored(d) == [exists |-> TRUE, data |-> d]

\* os.O_RDONLY is 0, so a handle without the other two access flags is read-only.
Flags == {"rdonly", "wronly", "append", "trunc", "rdwr", "rdwr append", "rdwr trunc"}

Appending == {"append", "rdwr append"}

Truncating == {"trunc", "rdwr trunc"}

Unopened == [state |-> "unopened", flag |-> "rdonly", buffer |-> <<>>, dirty |-> FALSE]

IsOpen(h) == handle[h].state = "open"

\* A change of the object concerns every handle.
Touch == touched' = IF object' # object THEN Handles ELSE touched

-----------------------------------------------------------------------------
Open(h, flag) ==
  /\ handle[h].state = "unopened"
  /\ handle' = [handle EXCEPT ![h] = [Unopened EXCEPT !.state = "open", !.flag = flag]]
  /\ touched' = touched \ {h}
  /\ UNCHANGED <<object, wrote, base, got, flushed, putFails>>

NeedsContentAlways(h) == ~handle[h].dirty

\* f.buffer.Len() == 0 && !f.dirty
NeedsContent(h) == handle[h].buffer = <<>> /\ ~handle[h].dirty

(***************************************************************************)
(* Read into a buffer of any size: a missing object is an error; an empty  *)
(* buffer is the end of the file.  A buffer that was read to its end looks *)
(* like one that was never filled, so the next Read loads the object again.*)
(***************************************************************************)
Read(h) ==
  LET buffer == IF NeedsContent(h) THEN object.data ELSE handle[h].buffer IN
  /\ IsOpen(h) /\ handle[h].flag \notin {"wronly", "append", "trunc"}
  /\ NeedsContent(h) => object.exists
  /\ \E n \in 1 .. Len(buffer) :
       /\ Len(got[h]) + Len(wrote[h]) + n <= MaxBytes
       /\ got' = [got EXCEPT ![h] = @ \o SubSeq(buffer, 1, n)]
       /\ handle' = [handle EXCEPT ![h].buffer = SubSeq(buffer, n + 1, Len(buffer))]
  /\ UNCHANGED <<object, wrote, base, touched, flushed, putFails>>

NothingLoaded(h) == handle[h].buffer

NextByte(h) == <<h, Len(wrote[h]) + 1>>

\* What Write finds in the buffer: the object for the first append, nothing to truncate.
Loaded(h) ==
  IF handle[h].flag \in Appending /\ NeedsContent(h) THEN object.data
  ELSE IF handle[h].flag \in Truncating /\ ~handle[h].dirty THEN <<>>
  ELSE handle[h].buffer

WriteInto(h) == Append(Loaded(h), NextByte(h))

\* f.flag&os.O_RDONLY != 0 is never true: Write refuses no open handle.
Write(h) ==
  /\ IsOpen(h)
  /\ Len(got[h]) + Len(wrote[h]) < MaxBytes
  /\ handle' = [handle EXCEPT ![h].buffer = WriteInto(h), ![h].dirty = TRUE]
  /\ wrote' = [wrote EXCEPT ![h] = Append(@, NextByte(h))]
  /\ base' = [base EXCEPT ![h] = IF wrote[h] = <<>> THEN object.data ELSE @]
  /\ touched' = touched \cup {h}
  /\ UNCHANGED <<object, got, flushed, putFails>>

\* PutObject of the buffer.  A put that fails leaves the handle dirty.
Put(h, state) ==
  \/ /\ object' = Stored(handle[h].buffer)
     /\ handle' = [handle EXCEPT ![h].state = state, ![h].dirty = FALSE]
     /\ UNCHANGED putFails
  \/ /\ putFails < MaxPutFails
     /\ putFails' = putFails + 1
     /\ handle' = [handle EXCEPT ![h].state = state]
     /\ UNCHANGED object

\* Flush puts whatever is dirty, through a read-only handle too.
Flush(h) ==
  /\ IsOpen(h) /\ handle[h].dirty
  /\ Put(h, "open")
  /\ flushed' = IF handle'[h].dirty THEN flushed ELSE flushed \cup {h}
  /\ Touch
  /\ UNCHANGED <<wrote, base, got>>

\* f.dirty, and the handle was opened for writing.
FlushOnClose(h) == handle[h].dirty /\ handle[h].flag # "rdonly"

\* Close: closed for good, also when the put fails.
Close(h) ==
  /\ IsOpen(h)
  /\ \/ FlushOnClose(h) /\ Put(h, "closed")
     \/ /\ ~FlushOnClose(h)
        /\ handle' = [handle EXCEPT ![h].state = "closed"]
        /\ UNCHANGED <<object, putFails>>
  /\ Touch
  /\ UNCHANGED <<wrote, base, got, flushed>>

\* DeleteTaskFile, DeleteContextFile: deleting what is not there succeeds.
Delete ==
  /\ object' = Missing
  /\ touched' = IF object.exists THEN Handles ELSE touched
  /\ UNCHANGED <<handle, wrote, base, got, flushed, putFails>>

-----------------------------------------------------------------------------
FileInit ==
  /\ object \in {Missing, Stored([i \in 1 .. ContentLen |-> <<"old", i>>])}
  /\ handle = [h \in Handles |-> Unopened]
  /\ wrote = [h \in Handles |-> <<>>]
  /\ base = [h \in Handles |-> <<>>]
  /\ got = [h \in Handles |-> <<>>]
  /\ touched = {}
  /\ flushed = {}
  /\ putFails = 0

FileNext ==
  \/ \E h \in Handles :
       \/ \E flag \in Flags : Open(h, flag)
       \/ Read(h)
       \/ Write(h) \/ Flush(h) \/ Close(h)
  \/ Delete

FileSpec == FileInit /\ [][FileNext]_fileVars

-----------------------------------------------------------------------------
(* Properties. *)

\* What h has to store: what was there when it appends, and what was written.
Prefixed(h) == (IF handle[h].flag \in Appending THEN base[h] ELSE <<>>) \o wrote[h]

(***************************************************************************)
(* A writer that closes without an error has stored everything it wrote,   *)
(* in order: after what the object held at the first write if it appends,  *)
(* else alone.  The file was not read through the same handle (reading     *)
(* consumes the buffer that is stored), and a truncating handle was not    *)
(* flushed before its last write (the next write empties the buffer).      *)
(* What other handles stored meanwhile is overwritten and not looked at.   *)
(***************************************************************************)
WritersStoreAll ==
  [][\A h \in Handles :
       /\ IsOpen(h) /\ handle'[h].state = "closed" /\ ~handle'[h].dirty
       /\ handle[h].dirty /\ got[h] = <<>>
       /\ ~(handle[h].flag \in Truncating /\ h \in flushed)
       => object' = Stored(Prefixed(h))]_fileVars

(***************************************************************************)
(* Who only reads an object that nobody changes gets the bytes of the      *)
(* object, in order and none left out, whatever the sizes of the reads.    *)
(* This is about the first pass: a reader that goes on is the subject of   *)
(* the next property.                                                      *)
(***************************************************************************)
Undisturbed(h) == handle[h].state # "unopened" /\ h \notin touched

ReadersSeeContent ==
  \A h \in Handles : Undisturbed(h) =>
    \A i \in 1 .. Len(got[h]) : i <= Len(object.data) => got[h][i] = object.data[i]

(***************************************************************************)
(* s3File implements fs.File and its Read io.Reader (s3_file.go:20, :46):  *)
(* a reader comes to the end of the object and gets no more than its bytes.*)
(***************************************************************************)
ReadersReachTheEnd ==
  \A h \in Handles : Undisturbed(h) => Len(got[h]) <= Len(object.data)

=============================================================================
