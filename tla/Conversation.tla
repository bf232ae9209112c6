---------------------------- MODULE Conversation ----------------------------
(***************************************************************************)
(* The tool loop of a language model (model/runner.go), the resolver of    *)
(* its tools (tool_resolver.go, and the parts of model.go that carry calls *)
(* and results), and what the three text providers make of a conversation  *)
(* and of an answer (bedrock/model.go, ollama/model.go and                 *)
(* openai/text_model.go).  A call is its ID and its tool; texts, images    *)
(* and options are left out.  Tools are registered, and the context is     *)
(* canceled, at any time.                                                  *)
(***************************************************************************)
EXTENDS Naturals, Sequences, SequencesExt, Filter

CONSTANTS Providers,    \* subset of {"bedrock", "openai", "ollama"}
          Tools,        \* names of tools the model may ask for
          MaxSteps,     \* bound: responses of the model
          MaxCalls,     \* bound: tool calls of one response
          MaxFails      \* bound: failed generations

ASSUME ConversationAssumption ==
  /\ Providers \subseteq {"bedrock", "openai", "ollama"}
  /\ {MaxSteps, MaxCalls, MaxFails} \subseteq Nat

VARIABLES provider,   \* the provider of the model
          registered, \* handlers of the tool resolver
          messages,   \* GenerateRequest.Messages
          last,       \* lastStep of the runner
          todo,       \* tool calls of the current step that were not made yet
          phase,      \* where the loop over Steps is
          canceled,   \* the context is done
          nextID,     \* IDs given out so far
          executed,   \* IDs whose handler ran, in order
          fails       \* failed generations

convVars == <<provider, registered, messages, last, todo, phase,
              canceled, nextID, executed, fails>>

NoID == 0

NoStep == [index |-> 0, attempt |-> 0, stop |-> "no step", calls |-> <<>>, results |-> <<>>]

UserMessage(results) == [role |-> "user", stop |-> "none", calls |-> <<>>, results |-> results]

-----------------------------------------------------------------------------
(* Conversions. *)

\* AsToolResultPart wants an ID, AsToolUsePart does not.
GetToolResultParts(m) == Kept(m.results, {x \in ToSet(m.results) : x.id # NoID})

(***************************************************************************)
(* convertMessage: the tool results of one message, as a sequence of       *)
(* messages on the wire.  Bedrock carries everything in one message,       *)
(* OpenAI one result per message, Ollama the first result.                 *)
(***************************************************************************)
BedrockMessages(results) == IF results = <<>> THEN <<>> ELSE <<results>>

OpenAIMessages(results) == [i \in 1 .. Len(results) |-> <<results[i]>>]

OllamaMessages(results) == IF results = <<>> THEN <<>> ELSE <<<<results[1]>>>>

ToolMessages(results) ==
  CASE provider = "bedrock" -> BedrockMessages(results)
    [] provider = "openai" -> OpenAIMessages(results)
    [] provider = "ollama" -> OllamaMessages(results)

\* Tool results that reach the provider: the loop of Generate over req.Messages.
Delivered(m) == FlattenSeq(ToolMessages(GetToolResultParts(m)))

(***************************************************************************)
(* convertResponse: the tool calls, the stop reason, and whether the       *)
(* answer is an error.  Calls whose arguments do not decode are an error,  *)
(* but for Bedrock, where they lose their arguments or are dropped.  The   *)
(* stop reason comes from the calls, unless the service gave one.          *)
(***************************************************************************)
Decodes(a) == \A i \in 1 .. Len(a.calls) : a.calls[i].args = "ok"

StopOf(calls) == IF calls # <<>> THEN "tool_use" ELSE "end_turn"

Given(a, calls) == IF a.finish # "other" THEN a.finish ELSE StopOf(calls)

Named(calls) == [i \in 1 .. Len(calls) |-> [id |-> calls[i].id, tool |-> calls[i].tool]]

BedrockResponse(a) ==
  LET calls == Named(Kept(a.calls, {c \in ToSet(a.calls) : c.args # "broken"}))
  IN  [ok |-> TRUE, calls |-> calls, stop |-> Given(a, calls)]

OpenAIResponse(a) == [ok |-> Decodes(a), calls |-> Named(a.calls), stop |-> Given(a, a.calls)]

\* generateRandomID: Ollama often gives no ID.
GeneratedID(c, i) == IF c.id = NoID THEN nextID + i ELSE c.id

OllamaResponse(a) ==
  [ok    |-> Decodes(a),
   calls |-> [i \in 1 .. Len(a.calls) |-> [id |-> GeneratedID(a.calls[i], i), tool |-> a.calls[i].tool]],
   stop  |-> StopOf(a.calls)]

Response(a) ==
  CASE provider = "bedrock" -> BedrockResponse(a)
    [] provider = "openai" -> OpenAIResponse(a)
    [] provider = "ollama" -> OllamaResponse(a)

-----------------------------------------------------------------------------
(* Registration. *)

\* RegisterTool panics on a name that is taken.
RegisterTool(t) ==
  /\ t \notin registered
  /\ registered' = registered \cup {t}
  /\ UNCHANGED <<provider, messages, last, todo, phase, canceled, nextID, executed, fails>>

Cancel ==
  /\ ~canceled
  /\ canceled' = TRUE
  /\ UNCHANGED <<provider, registered, messages, last, todo, phase, nextID, executed, fails>>

-----------------------------------------------------------------------------
(* Runner.Next. *)

\* A retry that takes the step before for an answered one.
Answers(step) == step # NoStep

HasResponse(step) == step.stop \notin {"no step", "no response"}

(***************************************************************************)
(* The beginning of Next: the step before is put into the conversation,    *)
(* also when it was final (its tool result message is empty then), and a   *)
(* step without a response is tried again.                                 *)
(***************************************************************************)
StartStep ==
  /\ phase = "ready" /\ ~canceled
  /\ messages' = IF ~HasResponse(last) THEN messages
                 ELSE messages \o <<[role |-> "agent", stop |-> last.stop, calls |-> last.calls,
                                     results |-> <<>>], UserMessage(last.results)>>
  /\ last' = [NoStep EXCEPT !.stop = "no response",
                !.index = IF HasResponse(last) THEN last.index + 1 ELSE last.index,
                !.attempt = IF last = NoStep \/ HasResponse(last) THEN 0 ELSE last.attempt + 1]
  /\ phase' = "generate"
  /\ UNCHANGED <<provider, registered, todo, canceled, nextID, executed, fails>>

\* A pre-generate hook, the conversion, the service or the decoding of its answer fails.
GenerateFails ==
  /\ phase = "generate" /\ fails < MaxFails
  /\ fails' = fails + 1
  /\ phase' = "yield"
  /\ UNCHANGED <<provider, registered, messages, last, todo, canceled, nextID, executed>>

\* The model answers; the tool calls of the step are those of AsToolUsePart.
Generate(a) ==
  LET response == Response(a) IN
  /\ phase = "generate" /\ response.ok
  /\ last' = [last EXCEPT !.stop = response.stop, !.calls = response.calls]
  /\ nextID' = nextID + Len(a.calls)
  /\ todo' = IF response.stop = "tool_use" THEN response.calls ELSE <<>>
  /\ phase' = IF response.stop = "tool_use" THEN "tools" ELSE "yield"
  /\ UNCHANGED <<provider, registered, messages, canceled, executed, fails>>

\* Results only of the calls that went well.
AddsIfDone(outcome) == outcome = "done"

\* A call that cannot be resolved, or that fails, has a result that says so.
AddsResult(outcome) == TRUE

\* Trying a failed call again at once.
RepeatsFailed(outcome) == IF outcome = "failed" THEN todo ELSE Tail(todo)

RemainingCalls(outcome) == Tail(todo)

\* One round of the loop over the tool calls: Resolve and the handler.
CallTool(outcome) ==
  /\ phase = "tools" /\ todo # <<>>
  /\ (outcome = "unresolved") <=> (Head(todo).tool \notin registered)
  /\ last' = IF AddsResult(outcome)
             THEN [last EXCEPT !.results = Append(@, [id |-> Head(todo).id, outcome |-> outcome])]
             ELSE last
  /\ executed' = IF outcome = "unresolved" THEN executed ELSE Append(executed, Head(todo).id)
  /\ todo' = RemainingCalls(outcome)
  /\ UNCHANGED <<provider, registered, messages, phase, canceled, nextID, fails>>

ToolsDone ==
  /\ phase = "tools" /\ todo = <<>>
  /\ phase' = "yield"
  /\ UNCHANGED <<provider, registered, messages, last, todo, canceled, nextID, executed, fails>>

-----------------------------------------------------------------------------
(* Steps. *)

Final == HasResponse(last) /\ last.stop # "tool_use"

\* The consumer goes on after a step and its error; a final step ends the loop.
Continue ==
  /\ phase = "yield"
  /\ phase' = IF Final THEN "stopped" ELSE "ready"
  /\ UNCHANGED <<provider, registered, messages, last, todo, canceled, nextID, executed, fails>>

\* The consumer breaks, or the context is done before the next step.
Stop ==
  /\ phase = "yield" \/ (phase = "ready" /\ canceled)
  /\ phase' = "stopped"
  /\ UNCHANGED <<provider, registered, messages, last, todo, canceled, nextID, executed, fails>>

\* Next or Steps is called on the same runner again.
Resume ==
  /\ phase = "stopped" /\ last.index < MaxSteps
  /\ phase' = "ready"
  /\ UNCHANGED <<provider, registered, messages, last, todo, canceled, nextID, executed, fails>>

-----------------------------------------------------------------------------
ConvInit ==
  /\ provider \in Providers
  /\ registered = {}
  /\ messages = <<UserMessage(<<>>)>>
  /\ last = NoStep /\ todo = <<>>
  /\ phase = "ready"
  /\ canceled = FALSE /\ nextID = 0 /\ executed = <<>> /\ fails = 0

\* Answers of the service: fresh IDs, but none for the first call of Ollama.
CallID(i) == IF provider = "ollama" /\ i = 1 THEN NoID ELSE nextID + i

Asked == [tool : Tools, args : {"ok", "not an object", "broken"}]

ServiceAnswers ==
  {[calls  |-> [i \in 1 .. Len(c) |-> [id |-> CallID(i), tool |-> c[i].tool, args |-> c[i].args]],
    finish |-> f] :
     c \in UNION {[1 .. n -> Asked] : n \in 0 .. MaxCalls},
     f \in {"end_turn", "max_tokens", "tool_use", "other"}}

ConvNext ==
  \/ \E t \in Tools : RegisterTool(t)
  \/ Cancel
  \/ StartStep \/ GenerateFails
  \/ \E a \in ServiceAnswers :
       /\ last.index = MaxSteps => a.calls = <<>> /\ a.finish # "tool_use"
       /\ Generate(a)
  \/ \E outcome \in {"unresolved", "failed", "done"} : CallTool(outcome)
  \/ ToolsDone \/ Continue \/ Stop \/ Resume

ConvSpec == ConvInit /\ [][ConvNext]_convVars

-----------------------------------------------------------------------------
(* Properties. *)

IDs(seq) == [i \in 1 .. Len(seq) |-> seq[i].id]

(***************************************************************************)
(* In every conversation a provider is sent, the calls of a tool_use       *)
(* answer are followed by one result each, in the order of the calls and   *)
(* with their IDs, whether a tool ran, failed or does not exist.  Ollama   *)
(* is sent the result of the first call only (ollama/model.go:174).        *)
(***************************************************************************)
CallsAreAnswered ==
  \A i \in 1 .. Len(messages) - 1 : messages[i].stop = "tool_use" =>
    LET calls == IDs(messages[i].calls) IN
    IDs(Delivered(messages[i + 1])) =
      IF provider = "ollama" /\ calls # <<>> THEN <<Head(calls)>> ELSE calls

(***************************************************************************)
(* Failed generations and repeated calls of Next leave the conversation in *)
(* step with the step counter: two messages for every answered step and    *)
(* none for a failed one, so no answer is put in twice or left out, and    *)
(* roles alternate.                                                        *)
(***************************************************************************)
HistoryInStep ==
  /\ Len(messages) = 1 + 2 * last.index
  /\ \A i \in 1 .. Len(messages) : (messages[i].role = "agent") <=> (i % 2 = 0)
  /\ \A i \in 1 .. Len(messages) :
       messages[i].role = "agent" => messages[i].stop \in {"tool_use", "end_turn", "max_tokens"}

(***************************************************************************)
(* A tool call runs at most once, however often a generation is retried,   *)
(* and all calls of a tool_use answer have been tried before the model is  *)
(* asked again.                                                            *)
(***************************************************************************)
ToolsRunOnce ==
  /\ \A i, j \in 1 .. Len(executed) : executed[i] = executed[j] => i = j
  /\ phase \in {"ready", "generate"} => todo = <<>>

=============================================================================
