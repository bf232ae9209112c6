---------------------------- MODULE RemoteAgent ----------------------------
(***************************************************************************)
(* The agent that forwards a task to another service (remote_agent.go) and *)
(* the client it uses (transport/client.go), composed with the handler of  *)
(* that service.  Execute reads the task, sends one message as a blocking  *)
(* message/send and turns what comes back into the agent's reply; an error *)
(* fails the local task.  The client gives up after its timeout while the  *)
(* request goes on at the server, and a redelivered job executes again.    *)
(* The client sends no X-A2A-Extensions header and accepts JSON only.      *)
(***************************************************************************)
EXTENDS Transport

CONSTANTS Window,       \* history entries Execute asks for (10 in the code)
          MaxHistory    \* bound: messages of the local task

ASSUME RemoteAssumption == Window \in Nat \ {0} /\ MaxHistory \in Nat

VARIABLES history,  \* history of the local task: the roles of its messages, oldest first
          run,      \* the Execute that is under way
          owner,    \* owner[r]: the client method that sent r and the message it sent
          served,   \* served[r]: what the remote service returned for r
          seen      \* seen[r]: what the client method returned for r

remoteVars == <<history, run, owner, served, seen>>

NoRun == [phase |-> "idle", request |-> "none", reply |-> "none"]

NoOwner == [method |-> "none", index |-> 0]

\* What a blocking message/send can return: a message, or the task in some state.
SendResults == {"message", "completed with status", "completed with history", "completed",
                "failed", "canceled", "input-required"}

-----------------------------------------------------------------------------
(* Execute. *)

\* taskToMessageParams: History[0] of the last Window messages.  A task has at least the
\* message it was created with, so the basic message is never made.
ForwardedMessage == IF Len(history) > Window THEN Len(history) - Window + 1 ELSE 1

AddMessage(role) ==
  /\ Len(history) < MaxHistory /\ run.phase # "returned"
  /\ history' = Append(history, role)
  /\ UNCHANGED <<transportVars, run, owner, served, seen>>

Sent(r, method, index) ==
  /\ req[r].stage = "arrive"
  /\ owner[r] = NoOwner
  /\ owner' = [owner EXCEPT ![r] = [method |-> method, index |-> index]]
  /\ GoOn(r, [req[r] EXCEPT !.stage = "auth"])

\* GetTask(10), taskToMessageParams and the POST of client.SendMessage.
Execute(r) ==
  /\ run.phase = "idle"
  /\ Sent(r, "send", ForwardedMessage)
  /\ run' = [phase |-> "sent", request |-> r, reply |-> "none"]
  /\ UNCHANGED <<history, served, seen>>

\* The methods of the client other than SendMessage, called by its users.
ClientCall(r, method) ==
  /\ run.phase = "idle"
  /\ Sent(r, method, 0)
  /\ UNCHANGED <<history, run, served, seen>>

(***************************************************************************)
(* The server's side: the stages of Transport with the header, the Accept  *)
(* and the method the client uses.  A message that is not from a user is   *)
(* refused by the remote processMessage.                                   *)
(***************************************************************************)
RefusesRole(r) ==
  owner[r].method = "send" /\ history[owner[r].index] # "user"

RemoteStage(r) ==
  \/ Authenticate(r)
  \/ req[r].stage = "parse" /\ GoOn(r, [req[r] EXCEPT !.stage = "extensions"])
  \/ ActivateExtensions(r) /\ req'[r].uris = <<>>
  \/ Route(r, owner[r].method, "application/json")
  \/ Prepared(r)
  \/ Handle(r, {})
  \/ ServiceFails(r)

RemoteStep(r) ==
  /\ owner[r] # NoOwner
  /\ RemoteStage(r)
  /\ UNCHANGED remoteVars

RemoteReturns(r) ==
  /\ owner[r] # NoOwner /\ ~RefusesRole(r)
  /\ ServiceReturns(r)
  /\ \E result \in (IF owner[r].method = "send" THEN SendResults ELSE {"value"}) :
       served' = [served EXCEPT ![r] = result]
  /\ UNCHANGED <<history, run, owner, seen>>

AnyAnswer(r) == out[r] # <<>>

\* sendJSONRPCRequest: a JSON-RPC error is an error of the call, at any HTTP status, and so is
\* an empty body.
IsSuccess(r) == out[r] # <<>> /\ out[r][1].kind = "result"

\* tasks/cancel returns a task, which CancelTask decodes as a TaskStatus: no field matches.
Decoded(method, result) == IF method = "cancel" THEN "zero" ELSE result

\* sendResultToMessage.
ReplyMessage(result) ==
  CASE result = "message" -> "remote"
    [] result \in {"completed with status", "completed with history"} -> "remote"
    [] OTHER -> "fallback"

ClientReturns(r) ==
  /\ req[r].stage \in {"done", "unencoded"} /\ owner[r] # NoOwner /\ seen[r] = "none"
  /\ seen' = [seen EXCEPT ![r] = IF IsSuccess(r) THEN Decoded(owner[r].method, served[r]) ELSE "error"]
  /\ run' = IF run.request = r /\ run.phase = "sent"
            THEN [run EXCEPT !.phase = "returned",
                             !.reply = IF IsSuccess(r) THEN ReplyMessage(served[r]) ELSE "error"]
            ELSE run
  /\ UNCHANGED <<transportVars, history, owner, served>>

\* The timeout of the client or a broken connection; the server goes on.
ClientGivesUp(r) ==
  /\ owner[r] # NoOwner /\ seen[r] = "none"
  /\ seen' = [seen EXCEPT ![r] = "error"]
  /\ run' = IF run.request = r /\ run.phase = "sent"
            THEN [run EXCEPT !.phase = "returned", !.reply = "error"] ELSE run
  /\ UNCHANGED <<transportVars, history, owner, served>>

\* The job is delivered again after an Execute that failed.
Redeliver ==
  /\ run.phase = "returned" /\ run.reply = "error"
  /\ run' = NoRun
  /\ UNCHANGED <<transportVars, history, owner, served, seen>>

-----------------------------------------------------------------------------
RemoteInit ==
  /\ history = <<"user">>
  /\ run = NoRun
  /\ owner = [r \in Requests |-> NoOwner]
  /\ served = [r \in Requests |-> "none"]
  /\ seen = [r \in Requests |-> "none"]

ExecuteNext ==
  \/ \E role \in {"user", "agent"} : AddMessage(role)
  \/ \E r \in Requests : \/ Execute(r)
                         \/ \E m \in {"get", "cancel"} : ClientCall(r, m)
                         \/ RemoteStep(r) \/ RemoteReturns(r)
                         \/ ClientReturns(r) \/ ClientGivesUp(r)
  \/ Redeliver

RemoteSpec ==
  TransportInit /\ RemoteInit /\ [][ExecuteNext]_<<transportVars, remoteVars>>

-----------------------------------------------------------------------------
(* Properties. *)

(***************************************************************************)
(* The local task completes only with an answer of the remote service: no  *)
(* error, no timeout, no answer of another method and no refused role      *)
(* becomes a reply, also when a job is redelivered while the server still  *)
(* works on the request of the Execute before it, and a reply that stands  *)
(* for the remote agent's own words comes with a message or a completed    *)
(* task.  A task in any other state, or with no words of the agent, ends   *)
(* in "Task completed on remote agent" (remote_agent.go:157), of which     *)
(* nothing is said.  What any other method of the client returns is what the service  *)
(* returned, but for CancelTask, whose status is always empty              *)
(* (client.go:242).                                                        *)
(***************************************************************************)
CompletionIsRemote ==
  /\ run.phase = "returned" /\ run.reply # "error" =>
       LET r == run.request IN
       /\ out[r][1].kind = "result"
       /\ called[r] # NotCalled
       /\ owner[r].method = "send" /\ history[owner[r].index] = "user"
       /\ run.reply = "remote" =>
            served[r] \in {"message", "completed with status", "completed with history"}
  /\ \A r \in Requests : seen[r] \notin {"none", "error"} =>
       /\ served[r] # "none"
       /\ seen[r] = IF owner[r].method = "cancel" THEN "zero" ELSE served[r]

=============================================================================
