------------------------------- MODULE Prompt -------------------------------
(***************************************************************************)
(* The prompt builder (prompt/builder.go, formatter.go, options.go) and    *)
(* the tool through which a model fetches what the prompt abbreviated      *)
(* (tools.go).  A file or an artifact that is left out is shown as a       *)
(* reference, an ID to call get_task_data with.  Every block is formatted  *)
(* with a formatter, a counter and a tool of its own, and the builder      *)
(* keeps the tool that was set last.  Wording and formats are left out.    *)
(***************************************************************************)
EXTENDS Naturals, Sequences, SequencesExt

CONSTANTS Files,         \* file parts of messages
          TaskArtifacts, \* artifacts of a task
          MaxMessages,   \* bound: messages of a task's history
          MaxBlocks,     \* bound: blocks of a prompt
          MaxBuilds      \* bound: calls of String and Messages

ASSUME PromptAssumption == {MaxMessages, MaxBlocks, MaxBuilds} \subseteq Nat

VARIABLES content,   \* blocks of the builder
          tool,      \* taskDataTool
          shown,     \* references in the texts built since the last Reset
          formatted  \* number of blocks formatted since the last Reset

promptVars == <<content, tool, shown, formatted>>

NoTool == [files |-> {}, artifacts |-> {}, history |-> <<>>, by |-> 0]

-----------------------------------------------------------------------------
(* Formatting one block.  A message is the sequence of its file parts. *)

Truncated(b) == b.history /\ b.max > 0 /\ Len(b.messages) > b.max

ShownMessages(b) ==
  CASE ~b.history -> <<>>
    [] Truncated(b) -> SubSeq(b.messages, Len(b.messages) - b.max + 1, Len(b.messages))
    [] OTHER -> b.messages

\* The files that become references: formatMessageContent and optimizeMessage.
FileParts(b) == IF b.fileParts THEN <<>> ELSE FlattenSeq(ShownMessages(b))

\* Only the system prompt lists artifacts.
ArtifactParts(b, mode) == IF mode = "system" /\ ~b.inlineArtifacts THEN b.artifacts ELSE <<>>

\* generateID: one counter for the files and then the artifacts of a block.
GenerateID(i, before) == before + i

FileMap(b) == {<<i, FileParts(b)[i]>> : i \in 1 .. Len(FileParts(b))}

ArtifactMap(b, mode) ==
  LET as == ArtifactParts(b, mode)
  IN  {<<GenerateID(i, Len(FileParts(b))), as[i]>> : i \in 1 .. Len(as)}

\* A tool that knows the messages that are shown.
BlockToolOfShown(b, mode, run) ==
  [files |-> FileMap(b), artifacts |-> ArtifactMap(b, mode), history |-> ShownMessages(b), by |-> run]

\* formatTask..., formatMessage...: the tool of the block, made whether or not it is kept.
BlockTool(b, mode, run) ==
  [files |-> FileMap(b), artifacts |-> ArtifactMap(b, mode),
   history |-> IF b.type = "task" THEN b.messages ELSE <<>>, by |-> run]

\* The references of the text: the hint about a cut history has no ID.
References(b, mode, run) ==
  {[kind |-> "file", mode |-> mode, id |-> f[1], data |-> f[2], by |-> run] : f \in FileMap(b)} \cup
  {[kind |-> "artifact", mode |-> mode, id |-> a[1], data |-> a[2], by |-> run] : a \in ArtifactMap(b, mode)} \cup
  (IF Truncated(b) THEN {[kind |-> "history", mode |-> mode, id |-> 0, data |-> b.messages, by |-> run]} ELSE {})

\* Is the block's tool kept?  The system prompt of a task keeps it for a history that was
\* left out, not for one that was cut.
SetsTool(b, mode) ==
  \/ FileMap(b) # {} \/ ArtifactMap(b, mode) # {}
  \/ b.type = "task" /\ (IF mode = "system" THEN ~b.history ELSE Truncated(b))

-----------------------------------------------------------------------------
(* The builder. *)

Task(messages, artifacts, fileParts, inlineArtifacts, history, max) ==
  [type |-> "task", messages |-> messages, artifacts |-> artifacts, fileParts |-> fileParts,
   inlineArtifacts |-> inlineArtifacts, history |-> history, max |-> max]

WriteBlock(b) ==
  /\ Len(content) < MaxBlocks
  /\ content' = Append(content, b)
  /\ UNCHANGED <<tool, shown, formatted>>

WriteTask(messages, artifacts, fileParts, inlineArtifacts, history, max) ==
  WriteBlock(Task(messages, artifacts, fileParts, inlineArtifacts, history, max))

WriteMessage(m, fileParts) ==
  WriteBlock([Task(<<m>>, <<>>, fileParts, TRUE, TRUE, 0) EXCEPT !.type = "message"])

\* WriteString, WriteTaskStatus, WriteArtifact and WritePart: no references.
WriteOther == WriteBlock([Task(<<>>, <<>>, TRUE, TRUE, TRUE, 0) EXCEPT !.type = "other"])

\* String (mode "system") and Messages: every block in order; the last tool set is kept.
Build(mode) ==
  LET Blocks == 1 .. Len(content)
      setters == {i \in Blocks : SetsTool(content[i], mode)}
  IN  /\ Blocks # {}
      /\ formatted + Len(content) <= MaxBuilds * MaxBlocks
      /\ formatted' = formatted + Len(content)
      /\ shown' = shown \cup UNION {References(content[i], mode, formatted + i) : i \in Blocks}
      /\ tool' = IF setters = {} THEN tool
                 ELSE LET i == CHOOSE i \in setters : \A j \in setters : j <= i
                      IN  BlockTool(content[i], mode, formatted + i)
      /\ UNCHANGED content

Reset ==
  /\ content # <<>>
  /\ content' = <<>> /\ tool' = NoTool /\ shown' = {} /\ formatted' = 0

\* Execute, getFileData, getArtifactData, getFullHistory: what the tool has for a reference.
Resolves(ref) ==
  CASE ref.kind = "file" -> <<ref.id, ref.data>> \in tool.files
    [] ref.kind = "artifact" -> <<ref.id, ref.data>> \in tool.artifacts
    [] ref.kind = "history" -> tool.history = ref.data

-----------------------------------------------------------------------------
PromptInit == content = <<>> /\ tool = NoTool /\ shown = {} /\ formatted = 0

Message == {<<>>} \cup {<<f>> : f \in Files}

Histories == UNION {[1 .. n -> Message] : n \in 1 .. MaxMessages}

PromptNext ==
  \/ \E ms \in Histories, as \in {<<>>} \cup {<<a>> : a \in TaskArtifacts},
        fileParts, inlineArtifacts, history \in BOOLEAN, max \in 0 .. 1 :
       WriteTask(ms, as, fileParts, inlineArtifacts, history, max)
  \/ \E m \in Message, fileParts \in BOOLEAN : WriteMessage(m, fileParts)
  \/ WriteOther
  \/ Build("system") \/ Build("messages")
  \/ Reset

PromptSpec == PromptInit /\ [][PromptNext]_promptVars

-----------------------------------------------------------------------------
(* Properties. *)

(***************************************************************************)
(* Every reference of the block whose tool the builder returns can be      *)
(* followed, and leads to the file, the artifact or the history it stands  *)
(* for.  With one task or message in the prompt, however often it is built *)
(* by String alone or by Messages alone, that goes for all references,     *)
(* but for the hint a system prompt gives about a cut history: String      *)
(* keeps no tool for its sake (formatter.go:101), so there may be none to  *)
(* follow it with.  With two such blocks, or with String and Messages of   *)
(* one task, references dangle or lead elsewhere, of which nothing is said.*)
(***************************************************************************)
ReferencesResolve ==
  LET sources == {i \in 1 .. Len(content) : content[i].type # "other"}
      alone   == (\A i, j \in sources : i = j) /\ (\A r1, r2 \in shown : r1.mode = r2.mode)
  IN  \A ref \in shown :
        /\ ref.by = tool.by => Resolves(ref)
        /\ alone /\ ~(ref.kind = "history" /\ ref.mode = "system") => Resolves(ref)

=============================================================================
