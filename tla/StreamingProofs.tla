-------------------------- MODULE StreamingProofs --------------------------
(***************************************************************************)
(* Proofs about Streaming, for any number of pollers, any channel and any  *)
(* page size: what a client gets is the beginning of the stream as long as *)
(* the stream fits into one page of Load.                                  *)
(***************************************************************************)
EXTENDS Streaming, TLAPS

-----------------------------------------------------------------------------
(* The inductive invariant. *)

\* The stream file of the task is never torn here, and its version counts its events.
FileInv ==
  /\ streams[Task].file # "torn"
  /\ streams[Task].version = Len(events)

\* A poller has a batch exactly while it sends.
Sending(u) == u.pc = "send" <=> u.batch # <<>>

\* How many events are in the hands of the client, in the channel, and still to be sent.
GotLen(u) == Len(u.got)

ChanLen(u) == Len(u.chan)

BatchLen(u) == Len(u.batch)

\* How many events the poller with record u has taken off the stream.
TakenLen(u) == GotLen(u) + ChanLen(u) + BatchLen(u)

\* The first n elements of q are the n positions after `from'.
Run(q, from, n) == \A i \in 1 .. n : q[i] = from + i

\* got, chan and batch follow one another: each holds the positions after the one before it.
InOrder(u) ==
  /\ Run(u.got, 0, GotLen(u))
  /\ Run(u.chan, GotLen(u), ChanLen(u))
  /\ Run(u.batch, GotLen(u) + ChanLen(u), BatchLen(u))

(***************************************************************************)
(* lastVersion of a poller that is between two polls, nextVersion of one   *)
(* that is sending, is the number of events it has taken from the stream   *)
(* es; one that has not subscribed to it has taken none.                   *)
(***************************************************************************)
Cursor(u, es) ==
  /\ u.pc \in {"idle", "wait", "returned"} => TakenLen(u) = 0
  /\ u.pc = "idle" => u.last = 0
  /\ u.pc = "poll" => TakenLen(u) = u.last
  /\ u.pc = "send" => TakenLen(u) = u.next
  /\ TakenLen(u) <= Len(es)

\* A stream that was not left by its client is closed after a final status, and only then.
EndInv(u, es) ==
  /\ u.pc = "send" /\ u.final => Final(es[TakenLen(u)])
  /\ u.pc = "closed" /\ ~u.gone => TakenLen(u) > 0 /\ Final(es[TakenLen(u)])

\* What the invariant says of one poller.
SubInv(u, es) == InOrder(u) /\ Cursor(u, es) /\ EndInv(u, es)

ShortStream == Len(events) <= Limit

StreamInv ==
  /\ TypeOK
  /\ FileInv
  /\ \A s \in Subs : Sending(sub[s])
  /\ ShortStream => \A s \in Subs : SubInv(sub[s], events)

-----------------------------------------------------------------------------
\* A Load from a position in a stream that fits into one page returns all the rest of it.
LEMMA LoadShort ==
  ASSUME TypeOK, FileInv, ShortStream, NEW from \in Nat, from <= Len(events)
  PROVE  LET loaded == Load(Task, from, Limit) IN
         /\ loaded.events \in Seq(Event)
         /\ Len(loaded.events) = Len(events) - from
         /\ \A i \in 1 .. Len(events) - from : loaded.events[i] = events[from + i]
         /\ loaded.next = Len(events)
<1>1. events \in Seq(Event) /\ Len(events) \in Nat
  BY StreamingAssumption DEF TypeOK, StorageTypeOK, StreamFile, events
<1>2. Load(Task, from, Limit).events = SubSeq(events, from + 1, Len(events))
  BY <1>1, StreamingAssumption DEF Load, events, ShortStream
<1>3. Load(Task, from, Limit).next = Len(events)
  BY DEF Load, FileInv
<1>4. /\ SubSeq(events, from + 1, Len(events)) \in Seq(Event)
      /\ Len(SubSeq(events, from + 1, Len(events))) = Len(events) - from
      /\ \A i \in 1 .. Len(events) - from :
           SubSeq(events, from + 1, Len(events))[i] = events[from + i]
  BY <1>1
<1>5. QED
  BY <1>2, <1>3, <1>4

\* Any Load returns a sequence of events and a version.
LEMMA LoadType ==
  ASSUME TypeOK, NEW from \in Nat
  PROVE  /\ Load(Task, from, Limit).events \in Seq(Event)
         /\ Load(Task, from, Limit).next \in Nat
<1>1. /\ streams[Task] \in StreamFile
      /\ streams[Task].events \in Seq(Event)
      /\ streams[Task].version \in Nat
  BY StreamingAssumption DEF TypeOK, StorageTypeOK, StreamFile
<1> DEFINE len == Len(streams[Task].events)
           last == IF Limit > 0 /\ from + Limit < len THEN from + Limit ELSE len
<1>2. len \in Nat /\ last \in Nat /\ last <= len
  BY <1>1, StreamingAssumption
<1>3. SubSeq(streams[Task].events, from + 1, last) \in Seq(Event)
  <2> HIDE DEF last
  <2>1. QED
    BY <1>1, <1>2
<1>4. QED
  BY <1>1, <1>3 DEF Load

\* The values sub[s] takes, as TypeOK has them.
SubRec == [pc : SubPCs, last : Nat, batch : Seq(Nat), next : Nat,
           final : BOOLEAN, chan : Seq(Nat), got : Seq(Nat), gone : BOOLEAN]

\* The fields of a poller's record.
LEMMA SubType ==
  ASSUME NEW u \in SubRec
  PROVE  /\ u.pc \in SubPCs
         /\ u.last \in Nat /\ u.next \in Nat
         /\ u.got \in Seq(Nat) /\ GotLen(u) \in Nat
         /\ u.chan \in Seq(Nat) /\ ChanLen(u) \in Nat
         /\ u.batch \in Seq(Nat) /\ BatchLen(u) \in Nat
         /\ TakenLen(u) \in Nat
         /\ u.batch = <<>> <=> BatchLen(u) = 0
         /\ u.chan = <<>> <=> ChanLen(u) = 0
<1>1. /\ u.pc \in SubPCs
      /\ u.last \in Nat /\ u.next \in Nat
      /\ u.got \in Seq(Nat) /\ u.chan \in Seq(Nat) /\ u.batch \in Seq(Nat)
  BY DEF SubRec
<1>2. GotLen(u) \in Nat /\ ChanLen(u) \in Nat /\ BatchLen(u) \in Nat
  BY <1>1 DEF GotLen, ChanLen, BatchLen
<1>3. TakenLen(u) \in Nat
  BY <1>2 DEF TakenLen
<1>4. u.batch = <<>> <=> BatchLen(u) = 0
  BY <1>1 DEF BatchLen
<1>5. u.chan = <<>> <=> ChanLen(u) = 0
  BY <1>1 DEF ChanLen
<1>6. QED
  BY <1>1, <1>2, <1>3, <1>4, <1>5

\* A poller's step that replaces its record by another one, and nothing else, keeps the types.
LEMMA SubStepType ==
  ASSUME TypeOK, NEW s \in Subs, NEW v \in SubRec,
         sub' = [sub EXCEPT ![s] = v], UNCHANGED storageVars
  PROVE  TypeOK'
<1>1. sub \in [Subs -> SubRec]
  BY DEF TypeOK, SubRec
<1>2. sub' \in [Subs -> SubRec]
  BY <1>1
<1>3. QED
  BY <1>2 DEF TypeOK, StorageTypeOK, storageVars, SubRec

(***************************************************************************)
(* What each step of a poller writes into its record u.                    *)
(***************************************************************************)
PollWrites(u, loaded) ==
  IF loaded.events = <<>>
  THEN [u EXCEPT !.last = Advance(u.last, loaded)]
  ELSE [u EXCEPT !.pc = "send",
                 !.batch = Positions(u.last, loaded.events),
                 !.next = Advance(u.last, loaded),
                 !.final = EndsFinal(loaded.events)]

SendWrites(u) ==
  IF Len(u.batch) > 1
  THEN [u EXCEPT !.chan = Append(u.chan, Head(u.batch)), !.batch = Tail(u.batch)]
  ELSE [u EXCEPT !.chan = Append(u.chan, Head(u.batch)), !.batch = Tail(u.batch),
                 !.last = u.next, !.next = 0, !.final = FALSE,
                 !.pc = IF u.final THEN "closed" ELSE "poll"]

ReceiveWrites(u) == [u EXCEPT !.chan = Tail(u.chan), !.got = Append(u.got, Head(u.chan))]

DisconnectWrites(u) ==
  [u EXCEPT !.pc = IF u.pc = "wait" THEN "returned" ELSE "closed",
            !.gone = TRUE, !.batch = <<>>]

WaitWrites(u, loaded) ==
  IF \E i \in DOMAIN loaded.events : Final(loaded.events[i])
  THEN [u EXCEPT !.pc = "returned"]
  ELSE [u EXCEPT !.last = Advance(u.last, loaded)]

\* A step of a poller replaces its record.
LEMMA SubSteps ==
  ASSUME TypeOK, NEW s \in Subs
  PROVE  LET loaded == Load(Task, sub[s].last, Limit) IN
         /\ Subscribe(s) => sub' = [sub EXCEPT ![s] = [sub[s] EXCEPT !.pc = "poll"]]
         /\ StartWait(s) => sub' = [sub EXCEPT ![s] = [sub[s] EXCEPT !.pc = "wait"]]
         /\ Poll(s) => sub' = [sub EXCEPT ![s] = PollWrites(sub[s], loaded)]
         /\ Send(s) => sub' = [sub EXCEPT ![s] = SendWrites(sub[s])]
         /\ Receive(s) => sub' = [sub EXCEPT ![s] = ReceiveWrites(sub[s])]
         /\ Disconnect(s) => sub' = [sub EXCEPT ![s] = DisconnectWrites(sub[s])]
         /\ WaitPoll(s) => sub' = [sub EXCEPT ![s] = WaitWrites(sub[s], loaded)]
<1> DEFINE loaded == Load(Task, sub[s].last, Limit)
<1>1. Subscribe(s) => sub' = [sub EXCEPT ![s] = [sub[s] EXCEPT !.pc = "poll"]]
  BY DEF Subscribe
<1>2. StartWait(s) => sub' = [sub EXCEPT ![s] = [sub[s] EXCEPT !.pc = "wait"]]
  BY DEF StartWait
<1>3. sub \in [Subs -> SubRec] /\ sub[s] \in SubRec
  BY DEF TypeOK, SubRec
<1>4. ASSUME Poll(s)
      PROVE  sub' = [sub EXCEPT ![s] = PollWrites(sub[s], loaded)]
  <2>1. CASE loaded.events = <<>>
    BY <1>4, <2>1 DEF Poll, PollWrites
  <2>2. CASE loaded.events # <<>>
    <3>1. sub' = [sub EXCEPT ![s].pc = "send",
                             ![s].batch = Positions(sub[s].last, loaded.events),
                             ![s].next = Advance(sub[s].last, loaded),
                             ![s].final = EndsFinal(loaded.events)]
      BY <1>4, <2>2 DEF Poll
    <3>2. PollWrites(sub[s], loaded) =
            [sub[s] EXCEPT !.pc = "send",
                           !.batch = Positions(sub[s].last, loaded.events),
                           !.next = Advance(sub[s].last, loaded),
                           !.final = EndsFinal(loaded.events)]
      BY <2>2 DEF PollWrites
    <3>3. QED
      <4> HIDE DEF loaded
      <4>1. QED
        BY <1>3, <3>1, <3>2
  <2>3. QED
    BY <2>1, <2>2
<1>5. ASSUME Send(s)
      PROVE  sub' = [sub EXCEPT ![s] = SendWrites(sub[s])]
  <2>1. CASE Len(sub[s].batch) > 1
    BY <1>5, <2>1 DEF Send, SendWrites
  <2>2. CASE ~(Len(sub[s].batch) > 1)
    BY <1>5, <2>2 DEF Send, SendWrites
  <2>3. QED
    BY <2>1, <2>2
<1>6. ASSUME Receive(s)
      PROVE  sub' = [sub EXCEPT ![s] = ReceiveWrites(sub[s])]
  BY <1>3, <1>6 DEF Receive, ReceiveWrites
<1>7. ASSUME Disconnect(s)
      PROVE  sub' = [sub EXCEPT ![s] = DisconnectWrites(sub[s])]
  BY <1>3, <1>7 DEF Disconnect, DisconnectWrites
<1>8. ASSUME WaitPoll(s)
      PROVE  sub' = [sub EXCEPT ![s] = WaitWrites(sub[s], loaded)]
  BY <1>8 DEF WaitPoll, WaitWrites
<1>9. QED
  BY <1>1, <1>2, <1>4, <1>5, <1>6, <1>7, <1>8

\* The records the steps write are records of a poller.
LEMMA WritesType ==
  ASSUME NEW u \in SubRec, NEW loaded, loaded.events \in Seq(Event), loaded.next \in Nat
  PROVE  /\ [u EXCEPT !.pc = "poll"] \in SubRec /\ [u EXCEPT !.pc = "wait"] \in SubRec
         /\ PollWrites(u, loaded) \in SubRec
         /\ u.batch # <<>> => SendWrites(u) \in SubRec
         /\ u.chan # <<>> => ReceiveWrites(u) \in SubRec
         /\ DisconnectWrites(u) \in SubRec
         /\ WaitWrites(u, loaded) \in SubRec
<1> USE SubType
<1>1. [u EXCEPT !.pc = "poll"] \in SubRec /\ [u EXCEPT !.pc = "wait"] \in SubRec
  BY DEF SubRec, SubPCs
<1>2. Advance(u.last, loaded) \in Nat
  BY DEF Advance
<1>3. Positions(u.last, loaded.events) \in Seq(Nat)
  BY DEF Positions
<1>4. EndsFinal(loaded.events) \in BOOLEAN
  BY DEF EndsFinal
<1>5. PollWrites(u, loaded) \in SubRec
  BY <1>2, <1>3, <1>4 DEF PollWrites, SubRec, SubPCs
<1>6. ASSUME u.batch # <<>>
      PROVE  SendWrites(u) \in SubRec
  <2>1. /\ Append(u.chan, Head(u.batch)) \in Seq(Nat)
        /\ Tail(u.batch) \in Seq(Nat)
    BY <1>6
  <2>2. QED
    BY <2>1 DEF SendWrites, SubRec, SubPCs
<1>7. ASSUME u.chan # <<>>
      PROVE  ReceiveWrites(u) \in SubRec
  <2>1. /\ Append(u.got, Head(u.chan)) \in Seq(Nat)
        /\ Tail(u.chan) \in Seq(Nat)
    BY <1>7
  <2>2. QED
    BY <2>1 DEF ReceiveWrites, SubRec
<1>8. DisconnectWrites(u) \in SubRec
  <2>1. <<>> \in Seq(Nat)
    OBVIOUS
  <2>2. QED
    BY <2>1 DEF DisconnectWrites, SubRec, SubPCs
<1>9. WaitWrites(u, loaded) \in SubRec
  BY <1>2 DEF WaitWrites, SubRec, SubPCs
<1>10. QED
  BY <1>1, <1>5, <1>6, <1>7, <1>8, <1>9

\* A step keeps Sending, whatever the length of the stream.
LEMMA WritesSending ==
  ASSUME NEW u \in SubRec, NEW loaded, loaded.events \in Seq(Event), Sending(u)
  PROVE  /\ u.pc = "idle" => Sending([u EXCEPT !.pc = "poll"]) /\ Sending([u EXCEPT !.pc = "wait"])
         /\ u.pc = "poll" => Sending(PollWrites(u, loaded))
         /\ u.pc = "send" => Sending(SendWrites(u))
         /\ Sending(ReceiveWrites(u))
         /\ u.pc \in {"poll", "send", "wait"} => Sending(DisconnectWrites(u))
         /\ u.pc = "wait" => Sending(WaitWrites(u, loaded))
<1> USE SubType
<1>1. u.pc = "idle" => Sending([u EXCEPT !.pc = "poll"]) /\ Sending([u EXCEPT !.pc = "wait"])
  BY DEF Sending, SubRec
<1>2. ASSUME u.pc = "poll" PROVE Sending(PollWrites(u, loaded))
  <2>1. CASE loaded.events = <<>>
    BY <1>2, <2>1 DEF Sending, PollWrites, SubRec
  <2>2. CASE loaded.events # <<>>
    <3>1. Len(Positions(u.last, loaded.events)) = Len(loaded.events) /\ Len(loaded.events) > 0
      BY <2>2 DEF Positions
    <3>2. Positions(u.last, loaded.events) # <<>>
      BY <3>1
    <3>3. QED
      BY <2>2, <3>2 DEF Sending, PollWrites, SubRec
  <2>3. QED
    BY <2>1, <2>2
<1>3. ASSUME u.pc = "send" PROVE Sending(SendWrites(u))
  <2>1. CASE Len(u.batch) > 1
    <3>1. Tail(u.batch) # <<>>
      <4>1. PICK t : t = Tail(u.batch)
        OBVIOUS
      <4>2. t \in Seq(Nat) /\ Len(t) = Len(u.batch) - 1
        BY <2>1, <4>1
      <4>3. t # <<>>
        BY <2>1, <4>2
      <4>4. QED
        BY <4>1, <4>3
    <3>2. QED
      BY <1>3, <2>1, <3>1 DEF Sending, SendWrites, SubRec
  <2>2. CASE ~(Len(u.batch) > 1)
    <3>1. u.batch # <<>>
      BY <1>3 DEF Sending
    <3>2. Tail(u.batch) = <<>>
      BY <2>2, <3>1
    <3>3. QED
      BY <1>3, <2>2, <3>2 DEF Sending, SendWrites, SubRec
  <2>3. QED
    BY <2>1, <2>2
<1>4. Sending(ReceiveWrites(u))
  BY DEF Sending, ReceiveWrites, SubRec
<1>5. u.pc \in {"poll", "send", "wait"} => Sending(DisconnectWrites(u))
  BY DEF Sending, DisconnectWrites, SubRec
<1>6. u.pc = "wait" => Sending(WaitWrites(u, loaded))
  BY DEF Sending, WaitWrites, SubRec
<1>7. QED
  BY <1>1, <1>2, <1>3, <1>4, <1>5, <1>6

\* A step keeps the types and Sending.
LEMMA StreamType ==
  ASSUME TypeOK, \A s \in Subs : Sending(sub[s]), [Next]_streamVars
  PROVE  TypeOK' /\ (\A s \in Subs : Sending(sub[s]))'
<1> USE StreamingAssumption
<1>1. ASSUME NEW e \in StreamEvents, Record(e)
      PROVE  TypeOK' /\ (\A s \in Subs : Sending(sub[s]))'
  <2>1. /\ streams \in [Tasks -> StreamFile] /\ streams[Task] \in StreamFile
        /\ streams[Task].events \in Seq(Event) /\ streams[Task].version \in Nat
    BY DEF TypeOK, StorageTypeOK, StreamFile
  <2>2. <<e>> \in Seq(Event) /\ Len(<<e>>) = 1
    BY <1>1
  <2>3. streams[Task].events \o <<e>> \in Seq(Event)
    BY <2>1, <2>2
  <2>4. [file |-> "intact", events |-> streams[Task].events \o <<e>>,
         version |-> streams[Task].version + Len(<<e>>)] \in StreamFile
    BY <2>1, <2>2, <2>3 DEF StreamFile, FileStates
  <2>5. streams' \in [Tasks -> StreamFile]
    BY <1>1, <2>1, <2>4 DEF Record, Appended
  <2>6. QED
    BY <1>1, <2>5 DEF Record, TypeOK, StorageTypeOK
<1>2. ASSUME NEW s \in Subs,
             Subscribe(s) \/ StartWait(s) \/ Poller(s) \/ Receive(s) \/ Disconnect(s)
      PROVE  TypeOK' /\ (\A x \in Subs : Sending(sub[x]))'
  <2> DEFINE u == sub[s]
             loaded == Load(Task, u.last, Limit)
  <2>1. u \in SubRec /\ sub \in [Subs -> SubRec] /\ Sending(u)
    BY DEF TypeOK, SubRec
  <2>2. loaded.events \in Seq(Event) /\ loaded.next \in Nat
    BY <2>1, LoadType, SubType
  <2>3. UNCHANGED storageVars
    BY <1>2 DEF Subscribe, StartWait, Poller, Poll, Send, WaitPoll, Receive, Disconnect
  <2>4. PICK v \in SubRec : sub' = [sub EXCEPT ![s] = v] /\ Sending(v)
    <3>1. CASE Subscribe(s) \/ StartWait(s)
      <4>1. u.pc = "idle"
        BY <3>1 DEF Subscribe, StartWait
      <4>2. QED
        BY <2>1, <2>2, <3>1, <4>1, SubSteps, WritesType, WritesSending
    <3>2. CASE Poll(s)
      <4>1. u.pc = "poll"
        BY <3>2 DEF Poll
      <4>2. PollWrites(u, loaded) \in SubRec
        BY <2>1, <2>2, WritesType
      <4>3. Sending(PollWrites(u, loaded))
        BY <2>1, <2>2, <4>1, WritesSending
      <4>4. sub' = [sub EXCEPT ![s] = PollWrites(u, loaded)]
        BY <3>2, SubSteps
      <4>5. QED
        BY <4>2, <4>3, <4>4
    <3>3. CASE Send(s)
      <4>1. u.pc = "send" /\ u.batch # <<>>
        BY <2>1, <3>3 DEF Send, Sending
      <4>2. QED
        BY <2>1, <2>2, <3>3, <4>1, SubSteps, WritesType, WritesSending
    <3>4. CASE WaitPoll(s)
      <4>1. u.pc = "wait"
        BY <3>4 DEF WaitPoll
      <4>2. WaitWrites(u, loaded) \in SubRec
        BY <2>1, <2>2, WritesType
      <4>3. Sending(WaitWrites(u, loaded))
        BY <2>1, <2>2, <4>1, WritesSending
      <4>4. sub' = [sub EXCEPT ![s] = WaitWrites(u, loaded)]
        BY <3>4, SubSteps
      <4>5. QED
        BY <4>2, <4>3, <4>4
    <3>5. CASE Receive(s)
      <4>1. u.chan # <<>>
        BY <3>5 DEF Receive
      <4>2. QED
        BY <2>1, <2>2, <3>5, <4>1, SubSteps, WritesType, WritesSending
    <3>6. CASE Disconnect(s)
      <4>1. u.pc \in {"poll", "send", "wait"}
        BY <3>6 DEF Disconnect
      <4>2. QED
        BY <2>1, <2>2, <3>6, <4>1, SubSteps, WritesType, WritesSending
    <3>7. QED
      BY <1>2, <3>1, <3>2, <3>3, <3>4, <3>5, <3>6 DEF Poller
  <2>5. TypeOK'
    BY <2>3, <2>4, SubStepType
  <2>6. \A x \in Subs : Sending(sub'[x])
    BY <2>1, <2>4
  <2>7. QED
    BY <2>5, <2>6
<1>3. CASE UNCHANGED streamVars
  BY <1>3 DEF streamVars, storageVars, TypeOK, StorageTypeOK
<1>4. QED
  BY <1>1, <1>2, <1>3 DEF Next

-----------------------------------------------------------------------------
\* p1 and q1 are p, of length m, and q, of length n, with the head of q moved to the end of p.
Moved(p, q, p1, q1, m, n) ==
  /\ \A i \in 1 .. m : p1[i] = p[i]
  /\ p1[m + 1] = q[1]
  /\ \A i \in 1 .. n - 1 : q1[i] = q[i + 1]

\* Moving the first of n consecutive numbers behind the m before it keeps all in order.
LEMMA MoveOne ==
  ASSUME NEW g \in Nat, NEW m \in Nat, NEW n \in Nat, n >= 1,
         NEW p, NEW q, NEW p1, NEW q1,
         Run(p, g, m), Run(q, g + m, n), Moved(p, q, p1, q1, m, n)
  PROVE  Run(p1, g, m + 1) /\ Run(q1, g + (m + 1), n - 1)
<1> USE DEF Run, Moved
<1>1. ASSUME NEW i \in 1 .. m + 1 PROVE p1[i] = g + i
  <2>1. q[1] = g + m + 1
    OBVIOUS
  <2>2. CASE i = m + 1
    BY <2>1, <2>2
  <2>3. CASE i # m + 1
    <3>1. i \in 1 .. m
      BY <2>3
    <3>2. QED
      BY <3>1
  <2>4. QED
    BY <2>2, <2>3
<1>2. ASSUME NEW i \in 1 .. n - 1 PROVE q1[i] = g + (m + 1) + i
  <2>1. i + 1 \in 1 .. n
    OBVIOUS
  <2>2. q[i + 1] = g + m + (i + 1)
    BY <2>1
  <2>3. QED
    BY <2>2
<1>3. QED
  BY <1>1, <1>2

\* A poll of a stream that fits into one page takes all that is left of it.
LEMMA PollInv ==
  ASSUME NEW u \in SubRec, NEW es \in Seq(Event), NEW loaded, Sending(u), SubInv(u, es),
         u.pc = "poll",
         loaded.events \in Seq(Event), Len(loaded.events) = Len(es) - u.last,
         \A i \in 1 .. Len(es) - u.last : loaded.events[i] = es[u.last + i],
         loaded.next = Len(es)
  PROVE  SubInv(PollWrites(u, loaded), es)
<1> DEFINE v == PollWrites(u, loaded)
           n == Len(es)
<1>1. /\ u.last \in Nat /\ GotLen(u) \in Nat /\ ChanLen(u) \in Nat /\ BatchLen(u) = 0
      /\ TakenLen(u) = u.last /\ u.last <= n /\ n \in Nat
  BY SubType DEF SubInv, Cursor, Sending
<1>2. GotLen(u) + ChanLen(u) = u.last
  BY <1>1 DEF TakenLen
<1>3. CASE loaded.events = <<>>
  <2>1. v = [u EXCEPT !.last = n] /\ u.last = n
    BY <1>1, <1>3 DEF PollWrites, Advance
  <2>2. v = u
    BY <2>1 DEF SubRec
  <2>3. QED
    BY <2>2
<1>4. CASE loaded.events # <<>>
  <2>1. n - u.last > 0
    BY <1>4
  <2>2. Advance(u.last, loaded) = n
    BY <1>1, <2>1 DEF Advance
  <2>3. /\ v.pc = "send" /\ v.last = u.last /\ v.next = n
        /\ v.batch = Positions(u.last, loaded.events)
        /\ v.got = u.got /\ v.chan = u.chan
        /\ v.final = EndsFinal(loaded.events)
    BY <1>4, <2>2 DEF PollWrites, SubRec
  <2>4. /\ Len(Positions(u.last, loaded.events)) = n - u.last
        /\ \A i \in 1 .. n - u.last : Positions(u.last, loaded.events)[i] = u.last + i
    BY <1>1 DEF Positions
  <2> HIDE DEF v
  <2>5. /\ BatchLen(v) = n - u.last /\ GotLen(v) = GotLen(u) /\ ChanLen(v) = ChanLen(u)
        /\ \A i \in 1 .. n - u.last : v.batch[i] = u.last + i
    BY <2>3, <2>4 DEF BatchLen, GotLen, ChanLen
  <2>6. TakenLen(v) = n
    <3> HIDE DEF n
    <3>1. QED
      BY <1>1, <1>2, <2>5 DEF TakenLen
  <2>7. InOrder(v)
    <3>1. Run(v.batch, GotLen(v) + ChanLen(v), BatchLen(v))
      BY <1>2, <2>5 DEF Run
    <3>2. QED
      BY <2>3, <2>5, <3>1 DEF SubInv, InOrder
  <2>8. Cursor(v, es)
    BY <1>1, <2>3, <2>6 DEF Cursor
  <2>9. EndInv(v, es)
    <3>1. ASSUME NEW k \in Nat, k = n - u.last
          PROVE  loaded.events[k] = es[n]
      <4>1. k \in 1 .. n - u.last /\ u.last + k = n
        BY <1>1, <2>1, <3>1
      <4>2. QED
        BY <4>1
    <3>2. loaded.events[Len(loaded.events)] = es[n]
      BY <1>1, <2>1, <3>1
    <3>3. v.final => Final(es[n])
      BY <2>3, <3>2 DEF EndsFinal
    <3>4. QED
      BY <2>3, <2>6, <3>3 DEF EndInv
  <2>10. QED
    BY <2>7, <2>8, <2>9 DEF SubInv, v
<1>5. QED
  BY <1>3, <1>4

\* Sending moves the head of the batch to the end of the channel.
LEMMA SendInv ==
  ASSUME NEW u \in SubRec, NEW es \in Seq(Event), Sending(u), SubInv(u, es), u.pc = "send"
  PROVE  SubInv(SendWrites(u), es)
<1> DEFINE v == SendWrites(u)
<1>1. /\ GotLen(u) \in Nat /\ ChanLen(u) \in Nat /\ BatchLen(u) \in Nat /\ BatchLen(u) >= 1
      /\ u.chan \in Seq(Nat) /\ u.batch \in Seq(Nat) /\ u.batch # <<>>
  BY SubType DEF Sending
<1>2. /\ v.got = u.got /\ v.chan = Append(u.chan, Head(u.batch)) /\ v.batch = Tail(u.batch)
      /\ v.gone = u.gone
  BY DEF SendWrites, SubRec
<1>3. \/ v.pc = "send" /\ v.next = u.next /\ v.final = u.final
      \/ v.last = u.next /\ v.pc = "closed" /\ u.final
      \/ v.last = u.next /\ v.pc = "poll"
  <2>1. CASE Len(u.batch) > 1
    BY <2>1 DEF SendWrites, SubRec
  <2>2. CASE ~(Len(u.batch) > 1)
    <3>1. v.last = u.next /\ v.pc = IF u.final THEN "closed" ELSE "poll"
      BY <2>2 DEF SendWrites, SubRec
    <3>2. QED
      BY <3>1
  <2>3. QED
    BY <2>1, <2>2
<1> HIDE DEF v
<1>lens. GotLen(v) = GotLen(u) /\ ChanLen(v) = ChanLen(u) + 1 /\ BatchLen(v) = BatchLen(u) - 1
  BY <1>1, <1>2 DEF GotLen, ChanLen, BatchLen
<1>4. Moved(u.chan, u.batch, v.chan, v.batch, ChanLen(u), BatchLen(u))
  BY <1>1, <1>2 DEF ChanLen, BatchLen, Moved
<1>nats. GotLen(u) \in Nat /\ ChanLen(u) \in Nat /\ BatchLen(u) \in Nat /\ BatchLen(u) >= 1
  BY <1>1
<1>5. TakenLen(v) = TakenLen(u) /\ TakenLen(u) > 0
  BY <1>lens, <1>nats DEF TakenLen
<1>6. Run(v.chan, GotLen(u), ChanLen(u) + 1)
      /\ Run(v.batch, GotLen(u) + (ChanLen(u) + 1), BatchLen(u) - 1)
  BY <1>nats, <1>4, MoveOne DEF SubInv, InOrder
<1>7. InOrder(v)
  BY <1>2, <1>lens, <1>6 DEF SubInv, InOrder
<1>8. Cursor(v, es)
  BY <1>3, <1>5 DEF SubInv, Cursor
<1>9. EndInv(v, es)
  BY <1>3, <1>5 DEF SubInv, EndInv
<1>10. QED
  BY <1>7, <1>8, <1>9 DEF SubInv, v

\* Receiving moves the head of the channel to the end of what the client has.
LEMMA ReceiveInv ==
  ASSUME NEW u \in SubRec, NEW es \in Seq(Event), SubInv(u, es), u.chan # <<>>
  PROVE  SubInv(ReceiveWrites(u), es)
<1> DEFINE v == ReceiveWrites(u)
<1>1. /\ GotLen(u) \in Nat /\ ChanLen(u) \in Nat /\ BatchLen(u) \in Nat /\ ChanLen(u) >= 1
      /\ u.chan \in Seq(Nat) /\ u.got \in Seq(Nat)
  BY SubType
<1>2. /\ v.got = Append(u.got, Head(u.chan)) /\ v.chan = Tail(u.chan) /\ v.batch = u.batch
      /\ v.pc = u.pc /\ v.last = u.last /\ v.next = u.next
      /\ v.final = u.final /\ v.gone = u.gone
  BY DEF ReceiveWrites, SubRec
<1> HIDE DEF v
<1>lens. GotLen(v) = GotLen(u) + 1 /\ ChanLen(v) = ChanLen(u) - 1 /\ BatchLen(v) = BatchLen(u)
  BY <1>1, <1>2 DEF GotLen, ChanLen, BatchLen
<1>3. Moved(u.got, u.chan, v.got, v.chan, GotLen(u), ChanLen(u))
  BY <1>1, <1>2 DEF GotLen, ChanLen, Moved
<1>nats. GotLen(u) \in Nat /\ ChanLen(u) \in Nat /\ BatchLen(u) \in Nat /\ ChanLen(u) >= 1
  BY <1>1
<1>4. TakenLen(v) = TakenLen(u)
  BY <1>lens, <1>nats DEF TakenLen
<1>5. Run(v.got, 0, GotLen(u) + 1) /\ Run(v.chan, 0 + (GotLen(u) + 1), ChanLen(u) - 1)
  <2>1. Run(u.got, 0, GotLen(u)) /\ Run(u.chan, 0 + GotLen(u), ChanLen(u))
    BY <1>nats DEF SubInv, InOrder
  <2>2. QED
    BY <1>nats, <1>3, <2>1, MoveOne
<1>6. GotLen(v) + ChanLen(v) = GotLen(u) + ChanLen(u) /\ 0 + (GotLen(u) + 1) = GotLen(v)
  BY <1>lens, <1>nats
<1>7. InOrder(v)
  BY <1>2, <1>lens, <1>5, <1>6 DEF SubInv, InOrder
<1>8. Cursor(v, es)
  BY <1>2, <1>4 DEF SubInv, Cursor
<1>9. EndInv(v, es)
  BY <1>2, <1>4 DEF SubInv, EndInv
<1>10. QED
  BY <1>7, <1>8, <1>9 DEF SubInv, v

\* The other steps of a poller take nothing from the stream; leaving it drops the batch.
LEMMA QuietInv ==
  ASSUME NEW u \in SubRec, NEW es \in Seq(Event), NEW loaded, SubInv(u, es), Sending(u)
  PROVE  /\ u.pc = "idle" => SubInv([u EXCEPT !.pc = "poll"], es)
                             /\ SubInv([u EXCEPT !.pc = "wait"], es)
         /\ u.pc = "wait" => SubInv(WaitWrites(u, loaded), es)
         /\ u.pc \in {"poll", "send", "wait"} => SubInv(DisconnectWrites(u), es)
<1> USE SubType
<1>1. ASSUME NEW v, v.got = u.got, v.chan = u.chan, v.batch = u.batch,
             u.pc \in {"idle", "wait"}, v.pc \in {"poll", "wait", "returned"},
             v.pc = "poll" => u.pc = "idle" /\ v.last = u.last
      PROVE  SubInv(v, es)
  <2>1. GotLen(v) = GotLen(u) /\ ChanLen(v) = ChanLen(u) /\ BatchLen(v) = BatchLen(u)
    BY <1>1 DEF GotLen, ChanLen, BatchLen
  <2>2. TakenLen(v) = TakenLen(u)
    BY <2>1 DEF TakenLen
  <2>3. InOrder(v)
    BY <1>1, <2>1 DEF SubInv, InOrder
  <2>4. Cursor(v, es) /\ EndInv(v, es)
    BY <1>1, <2>2 DEF SubInv, Cursor, EndInv
  <2>5. QED
    BY <2>3, <2>4 DEF SubInv
<1>2. ASSUME u.pc = "idle"
      PROVE  SubInv([u EXCEPT !.pc = "poll"], es) /\ SubInv([u EXCEPT !.pc = "wait"], es)
  <2>1. ASSUME NEW pc \in {"poll", "wait"}
        PROVE  SubInv([u EXCEPT !.pc = pc], es)
    <3> DEFINE v == [u EXCEPT !.pc = pc]
    <3>1. v.got = u.got /\ v.chan = u.chan /\ v.batch = u.batch /\ v.pc = pc /\ v.last = u.last
      BY DEF SubRec
    <3> HIDE DEF v
    <3>2. SubInv(v, es)
      BY <1>1, <1>2, <3>1
    <3>3. QED
      BY <3>2 DEF v
  <2>2. QED
    BY <2>1
<1>3. ASSUME u.pc = "wait"
      PROVE  SubInv(WaitWrites(u, loaded), es)
  <2> DEFINE v == WaitWrites(u, loaded)
  <2>1. v.got = u.got /\ v.chan = u.chan /\ v.batch = u.batch /\ v.pc \in {"wait", "returned"}
    BY <1>3 DEF WaitWrites, SubRec
  <2> HIDE DEF v
  <2>2. SubInv(v, es)
    BY <1>1, <1>3, <2>1
  <2>3. QED
    BY <2>2 DEF v
<1>4. ASSUME u.pc \in {"poll", "send", "wait"}
      PROVE  SubInv(DisconnectWrites(u), es)
  <2> DEFINE v == DisconnectWrites(u)
  <2>1. /\ v.got = u.got /\ v.chan = u.chan /\ v.batch = <<>> /\ v.gone = TRUE
        /\ v.pc = IF u.pc = "wait" THEN "returned" ELSE "closed"
    BY DEF DisconnectWrites, SubRec
  <2>2. BatchLen(v) = 0 /\ GotLen(v) = GotLen(u) /\ ChanLen(v) = ChanLen(u)
    BY <2>1 DEF GotLen, ChanLen, BatchLen
  <2> HIDE DEF v
  <2>3. TakenLen(v) <= TakenLen(u) /\ TakenLen(v) \in Nat
    BY <2>1, <2>2 DEF TakenLen
  <2>4. InOrder(v)
    BY <2>1, <2>2 DEF SubInv, InOrder, Run
  <2>5. Cursor(v, es) /\ EndInv(v, es)
    BY <1>4, <2>1, <2>3 DEF SubInv, Cursor, EndInv
  <2>6. QED
    BY <2>4, <2>5 DEF SubInv, v
<1>5. QED
  BY <1>2, <1>3, <1>4

\* A longer stream with the same beginning keeps what was said of a poller.
LEMMA GrowInv ==
  ASSUME NEW u \in SubRec, NEW es \in Seq(Event), NEW e \in Event, SubInv(u, es), Sending(u)
  PROVE  SubInv(u, es \o <<e>>)
<1> USE SubType
<1>1. /\ Len(es \o <<e>>) = Len(es) + 1
      /\ \A i \in 1 .. Len(es) : (es \o <<e>>)[i] = es[i]
  OBVIOUS
<1>2. Cursor(u, es \o <<e>>)
  BY <1>1 DEF SubInv, Cursor
<1>3. u.pc = "send" => TakenLen(u) > 0
  <2>1. u.batch # <<>> => BatchLen(u) > 0
    OBVIOUS
  <2>2. QED
    BY <2>1 DEF Sending, TakenLen
<1>4. TakenLen(u) <= Len(es)
  BY DEF SubInv, Cursor
<1>5. EndInv(u, es \o <<e>>)
  BY <1>1, <1>3, <1>4 DEF SubInv, EndInv
<1>6. QED
  BY <1>2, <1>5 DEF SubInv

-----------------------------------------------------------------------------
\* The invariant is kept by every step.
LEMMA StreamStep ==
  ASSUME StreamInv, [Next]_streamVars
  PROVE  StreamInv'
<1>1. TypeOK /\ FileInv /\ (\A s \in Subs : Sending(sub[s]))
  BY DEF StreamInv
<1>2. TypeOK' /\ (\A s \in Subs : Sending(sub[s]))'
  BY <1>1, StreamType
<1>3. /\ sub \in [Subs -> SubRec] /\ streams \in [Tasks -> StreamFile]
      /\ streams[Task] \in StreamFile /\ events \in Seq(Event) /\ Len(events) \in Nat
  BY <1>1, StreamingAssumption DEF TypeOK, StorageTypeOK, StreamFile, SubRec, events
<1>4. ASSUME NEW e \in StreamEvents, Record(e)
      PROVE  FileInv' /\ (ShortStream => \A s \in Subs : SubInv(sub[s], events))'
  <2>1. /\ streams'[Task] = [file |-> "intact", events |-> events \o <<e>>,
                             version |-> streams[Task].version + Len(<<e>>)]
        /\ sub' = sub
    BY <1>3, <1>4, StreamingAssumption DEF Record, Appended, events
  <2>2. e \in Event /\ Len(<<e>>) = 1 /\ Len(events \o <<e>>) = Len(events) + 1
    BY <1>3, StreamingAssumption
  <2>3. events' = events \o <<e>>
    BY <2>1 DEF events
  <2>4. FileInv'
    BY <1>1, <2>1, <2>2, <2>3 DEF FileInv
  <2>5. ASSUME ShortStream'
        PROVE  \A s \in Subs : SubInv(sub'[s], events')
    <3>1. ShortStream
      BY <1>3, <2>2, <2>3, <2>5, StreamingAssumption DEF ShortStream
    <3>2. \A s \in Subs : SubInv(sub[s], events)
      BY <3>1 DEF StreamInv
    <3>3. QED
      BY <1>1, <1>3, <2>1, <2>2, <2>3, <3>2, GrowInv
  <2>6. QED
    BY <2>4, <2>5
<1>5. ASSUME NEW s \in Subs,
             Subscribe(s) \/ StartWait(s) \/ Poller(s) \/ Receive(s) \/ Disconnect(s)
      PROVE  FileInv' /\ (ShortStream => \A x \in Subs : SubInv(sub[x], events))'
  <2> DEFINE u == sub[s]
             loaded == Load(Task, u.last, Limit)
  <2>1. UNCHANGED storageVars
    BY <1>5 DEF Subscribe, StartWait, Poller, Poll, Send, WaitPoll, Receive, Disconnect
  <2>2. streams' = streams /\ events' = events
    BY <2>1 DEF storageVars, events
  <2>3. FileInv'
    BY <1>1, <2>2 DEF FileInv
  <2>4. ASSUME ShortStream
        PROVE  \A x \in Subs : SubInv(sub'[x], events)
    <3>1. u \in SubRec /\ Sending(u) /\ SubInv(u, events)
      BY <1>1, <1>3, <2>4 DEF StreamInv
    <3>2. PICK v : sub' = [sub EXCEPT ![s] = v] /\ SubInv(v, events)
      <4>1. CASE Subscribe(s) \/ StartWait(s)
        <5>1. u.pc = "idle"
          BY <4>1 DEF Subscribe, StartWait
        <5>2. QED
          BY <1>1, <1>3, <3>1, <4>1, <5>1, SubSteps, QuietInv
      <4>2. CASE Poll(s)
        <5>1. u.pc = "poll"
          BY <4>2 DEF Poll
        <5>2. u.last \in Nat /\ u.last <= Len(events)
          BY <1>3, <3>1, <5>1, SubType DEF SubInv, Cursor
        <5>3. /\ loaded.events \in Seq(Event)
              /\ Len(loaded.events) = Len(events) - u.last
              /\ \A i \in 1 .. Len(events) - u.last : loaded.events[i] = events[u.last + i]
              /\ loaded.next = Len(events)
          BY <1>1, <2>4, <5>2, LoadShort
        <5>4. sub' = [sub EXCEPT ![s] = PollWrites(u, loaded)]
          BY <1>1, <4>2, SubSteps
        <5>5. SubInv(PollWrites(u, loaded), events)
          <6> HIDE DEF u, loaded
          <6>1. QED
            BY <1>3, <3>1, <5>1, <5>3, PollInv
        <5>6. QED
          BY <5>4, <5>5
      <4>3. CASE Send(s)
        <5>1. u.pc = "send"
          BY <4>3 DEF Send
        <5>2. QED
          BY <1>1, <1>3, <3>1, <4>3, <5>1, SubSteps, SendInv
      <4>4. CASE WaitPoll(s)
        <5>1. u.pc = "wait"
          BY <4>4 DEF WaitPoll
        <5>2. sub' = [sub EXCEPT ![s] = WaitWrites(u, loaded)]
          BY <1>1, <4>4, SubSteps
        <5>3. SubInv(WaitWrites(u, loaded), events)
          BY <1>3, <3>1, <5>1, QuietInv
        <5>4. QED
          BY <5>2, <5>3
      <4>5. CASE Receive(s)
        <5>1. u.chan # <<>>
          BY <4>5 DEF Receive
        <5>2. QED
          BY <1>1, <1>3, <3>1, <4>5, <5>1, SubSteps, ReceiveInv
      <4>6. CASE Disconnect(s)
        <5>1. u.pc \in {"poll", "send", "wait"}
          BY <4>6 DEF Disconnect
        <5>2. QED
          BY <1>1, <1>3, <3>1, <4>6, <5>1, SubSteps, QuietInv
      <4>7. QED
        BY <1>5, <4>1, <4>2, <4>3, <4>4, <4>5, <4>6 DEF Poller
    <3>3. QED
      BY <1>3, <2>4, <3>2 DEF StreamInv
  <2>5. ShortStream' <=> ShortStream
    BY <2>2 DEF ShortStream
  <2>6. QED
    BY <2>2, <2>3, <2>4, <2>5
<1>6. CASE UNCHANGED streamVars
  BY <1>2, <1>6 DEF streamVars, storageVars, StreamInv, FileInv, ShortStream, events
<1>7. QED
  BY <1>2, <1>4, <1>5, <1>6 DEF Next, StreamInv

\* In every state: pollers have a batch only while they send, and as long as the stream fits into a page, in order.
THEOREM StreamInvariant == Spec => []StreamInv
<1>1. Init => StreamInv
  <2> SUFFICES ASSUME Init PROVE StreamInv
    OBVIOUS
  <2>1. /\ streams[Task] = NoStream /\ events = <<>>
        /\ \A s \in Subs : sub[s] = NotSubscribed
    BY StreamingAssumption DEF Init, StorageInit, events, NoStream
  <2>2. NotSubscribed \in SubRec
    <3>1. <<>> \in Seq(Nat)
      OBVIOUS
    <3>2. QED
      BY <3>1 DEF NotSubscribed, SubRec, SubPCs
  <2>3. NoStream \in StreamFile /\ NoSnapshot \in SnapshotFile
    <3>1. <<>> \in Seq(Event) /\ <<>> \in Seq(Messages) /\ <<>> \in Seq(Artifacts)
      OBVIOUS
    <3>2. QED
      BY <3>1 DEF NoStream, StreamFile, NoSnapshot, SnapshotFile, FileStates, BlankTask,
                  TaskValue, TaskStates
  <2>4. TypeOK
    BY <2>2, <2>3 DEF Init, StorageInit, TypeOK, StorageTypeOK, SubRec
  <2>5. FileInv
    BY <2>1 DEF FileInv, NoStream
  <2>6. /\ NotSubscribed.pc = "idle" /\ NotSubscribed.last = 0 /\ NotSubscribed.batch = <<>>
        /\ NotSubscribed.got = <<>> /\ NotSubscribed.chan = <<>>
    BY DEF NotSubscribed
  <2>7. GotLen(NotSubscribed) = 0 /\ ChanLen(NotSubscribed) = 0 /\ BatchLen(NotSubscribed) = 0
    BY <2>6 DEF GotLen, ChanLen, BatchLen
  <2>8. TakenLen(NotSubscribed) = 0
    BY <2>7 DEF TakenLen
  <2>9. InOrder(NotSubscribed)
    BY <2>7 DEF InOrder, Run
  <2>10. Cursor(NotSubscribed, <<>>) /\ EndInv(NotSubscribed, <<>>) /\ Sending(NotSubscribed)
    BY <2>6, <2>8 DEF Cursor, EndInv, Sending
  <2>11. QED
    BY <2>1, <2>4, <2>5, <2>9, <2>10 DEF StreamInv, SubInv
<1>2. StreamInv /\ [Next]_streamVars => StreamInv'
  BY StreamStep
<1>3. QED
  BY <1>1, <1>2, PTL DEF Spec

\* The positions a poller has taken, put together, are 1, 2, 3 and so on.
LEMMA OrderedIsPrefix ==
  ASSUME NEW u \in SubRec, InOrder(u)
  PROVE  \A i \in DOMAIN (u.got \o u.chan \o u.batch) : (u.got \o u.chan \o u.batch)[i] = i
<1>1. /\ u.got \in Seq(Nat) /\ u.chan \in Seq(Nat) /\ u.batch \in Seq(Nat)
      /\ GotLen(u) \in Nat /\ ChanLen(u) \in Nat /\ BatchLen(u) \in Nat
  BY SubType
<1>2. PICK g \in Seq(Nat), c \in Seq(Nat), b \in Seq(Nat) :
        /\ g = u.got /\ c = u.chan /\ b = u.batch
        /\ Len(g) = GotLen(u) /\ Len(c) = ChanLen(u) /\ Len(b) = BatchLen(u)
  BY <1>1 DEF GotLen, ChanLen, BatchLen
<1>3. Run(g, 0, Len(g)) /\ Run(c, Len(g), Len(c)) /\ Run(b, Len(g) + Len(c), Len(b))
  BY <1>2 DEF InOrder
<1>4. PICK h \in Seq(Nat) : h = g \o c
  <2>1. g \o c \in Seq(Nat)
    OBVIOUS
  <2>2. QED
    BY <2>1
<1>5. Len(h) = Len(g) + Len(c) /\ \A i \in 1 .. Len(h) : h[i] = i
  BY <1>3, <1>4 DEF Run
<1>6. \A i \in 1 .. Len(h) + Len(b) : (h \o b)[i] = i
  <2> SUFFICES ASSUME NEW i \in 1 .. Len(h) + Len(b)
               PROVE  (h \o b)[i] = i
    OBVIOUS
  <2>1. CASE i \in 1 .. Len(h)
    BY <1>5, <2>1
  <2>2. CASE i \notin 1 .. Len(h)
    <3>1. PICK k \in 1 .. Len(b) : i = Len(h) + k
      <4>1. i - Len(h) \in 1 .. Len(b) /\ i = Len(h) + (i - Len(h))
        BY <2>2
      <4>2. QED
        BY <4>1
    <3>2. (h \o b)[i] = b[k]
      BY <2>2, <3>1
    <3>3. b[k] = Len(h) + k
      BY <1>3, <1>5, <3>1 DEF Run
    <3>4. QED
      BY <3>1, <3>2, <3>3
  <2>3. QED
    BY <2>1, <2>2
<1>7. DOMAIN (h \o b) = 1 .. Len(h) + Len(b)
  OBVIOUS
<1>8. QED
  BY <1>2, <1>4, <1>6, <1>7

(***************************************************************************)
(* As long as the stream fits into one page of Load, a client misses no    *)
(* event, sees none twice and no two in the wrong order, for any number of *)
(* clients, any channel size and any interleaving.                         *)
(***************************************************************************)
THEOREM ShortStreamComplete == Spec => [](Len(events) <= Limit => NoEventSkipped)
<1>1. StreamInv => (Len(events) <= Limit => NoEventSkipped)
  <2> SUFFICES ASSUME StreamInv, Len(events) <= Limit, NEW s \in Subs
               PROVE  \A i \in DOMAIN Taken(s) : Taken(s)[i] = i
    BY DEF NoEventSkipped
  <2>1. sub[s] \in SubRec /\ InOrder(sub[s])
    BY DEF StreamInv, ShortStream, SubInv, TypeOK, SubRec
  <2>2. QED
    BY <2>1, OrderedIsPrefix DEF Taken
<1>2. QED
  BY <1>1, StreamInvariant, PTL

(***************************************************************************)
(* A stream that fits into a page and that its client did not leave is     *)
(* closed only after a final status, which the client was sent.            *)
(***************************************************************************)
THEOREM ClosedAfterFinal ==
  Spec => [](\A s \in Subs :
               ShortStream /\ sub[s].pc = "closed" /\ ~sub[s].gone =>
                 TakenLen(sub[s]) > 0 /\ Final(events[TakenLen(sub[s])]))
<1>1. StreamInv => (\A s \in Subs :
               ShortStream /\ sub[s].pc = "closed" /\ ~sub[s].gone =>
                 TakenLen(sub[s]) > 0 /\ Final(events[TakenLen(sub[s])]))
  BY DEF StreamInv, SubInv, EndInv
<1>2. QED
  BY <1>1, StreamInvariant, PTL

=============================================================================
