----------------------------- MODULE Transport -----------------------------
(***************************************************************************)
(* The JSON-RPC handler (transport/handler.go, extension.go,               *)
(* content_negotiation.go; auth.go).  A request runs through ServeHTTP:    *)
(* agent card or RPC path, authentication, decoding, extension activation, *)
(* routing, the profile extensions, the method handler, the service, and   *)
(* one answer or a stream of events.  Requests run concurrently and share  *)
(* the method registry.  What a request carries is chosen where the        *)
(* handler first looks at it; err and result codes stand for the texts.    *)
(***************************************************************************)
EXTENDS Naturals, Sequences, Filter

CONSTANTS Requests,
          Extensions,   \* URIs of the extensions the handler was given
          ExtKind,      \* ExtKind[e]: "rpc", "profile" or "data"
          Hooks,        \* Hooks[e]: the methods a profile extension has a hook of its own for
          HandlerConfigs, \* handlers: the authenticator and the required extensions
          Supported,    \* SupportedOutputModes, as <<type, subtype>>
          Methods,      \* the method names requests use
          MaxExts,      \* bound: URIs in X-A2A-Extensions
          MaxEvents     \* bound: events of a stream

ASSUME TransportAssumption ==
  /\ ExtKind \in [Extensions -> {"rpc", "profile", "data"}]
  /\ HandlerConfigs \subseteq [auth : {"none", "apiKey", "jwt"}, required : SUBSET Extensions]
  /\ MaxExts \in Nat /\ MaxEvents \in Nat

VARIABLES config,    \* the configuration of the handler
          registry,  \* registry[m]: media type of method m and the extension behind it
          req,       \* req[r]: where request r is and what it carries
          out,       \* out[r]: what was written as the answer of r
          called     \* called[r]: what the service was called with, or NotCalled

transportVars == <<config, registry, req, out, called>>

-----------------------------------------------------------------------------
(* The registry (initMethodRegistry).  tasks/pushNotificationConfig/list and *)
(* .../delete have no entry although the service implements them.            *)

JSONMethods == {"send", "get", "cancel", "setPush", "getPush"}

StreamMethods == {"stream", "resubscribe"}

Negotiated == {"send", "stream"}

NoExt == "builtin"

RPCExtensions == {e \in Extensions : ExtKind[e] = "rpc"}

\* rpcExt.MethodName(): every RPC extension brings a method of its own, here called as it is.
MethodName(e) == e

InitRegistry ==
  [m \in JSONMethods \cup StreamMethods \cup {MethodName(e) : e \in RPCExtensions} |->
     [media |-> IF m \in StreamMethods THEN "sse" ELSE "json",
      ext   |-> IF m \in JSONMethods \cup StreamMethods THEN NoExt
                ELSE CHOOSE e \in RPCExtensions : MethodName(e) = m]]

\* An extension brings a method of its own (one named like a built-in method would take its
\* place), and neither its URI nor a method is one of the words the model has for other things.
ASSUME NamesAssumption ==
  /\ Extensions \cap (JSONMethods \cup StreamMethods \cup {NoExt, "none", "not called"}) = {}
  /\ "none" \notin Methods

\* RegisterMethod panics on a name that is taken.
RegisterMethod(m) ==
  /\ m \notin DOMAIN registry
  /\ registry' = [n \in DOMAIN registry \cup {m} |->
                    IF n = m THEN [media |-> "json", ext |-> NoExt] ELSE registry[n]]
  /\ UNCHANGED <<config, req, out, called>>

-----------------------------------------------------------------------------
(* Pure parts. *)

(***************************************************************************)
(* Authenticate: the checks of an authenticator in the order it makes      *)
(* them; the answer names the first that fails.  The JWT library refuses   *)
(* an expired token while it parses it.                                    *)
(***************************************************************************)
Checks ==
  CASE config.auth = "none" -> <<>>
    [] config.auth = "apiKey" -> <<"missing", "invalid">>
    [] config.auth = "jwt" -> <<"missing", "format", "parse", "audience", "custom">>

LastFailed(failed) ==
  IF Len(Checks) > 0 /\ Checks[Len(Checks)] \in failed THEN Checks[Len(Checks)] ELSE "admitted"

FirstFailed(failed) ==
  LET hits == {i \in 1 .. Len(Checks) : Checks[i] \in failed}
  IN  IF hits = {} THEN "admitted" ELSE Checks[CHOOSE i \in hits : \A j \in hits : i <= j]

Members(s) == {s[i] : i \in 1 .. Len(s)}

\* ValidateRequiredExtensions.
RequiredActivated(uris) == config.required \subseteq Members(uris)

\* ResolveActiveExtensions: in the order of the header, unknown URIs left out, repeats kept.
ResolveActiveExtensions(uris) == Kept(uris, Extensions)

\* clientAcceptsSSE: wildcards count for a streaming method only.
AcceptsSSE(accept, forStream) ==
  accept = "text/event-stream" \/ (forStream /\ accept \in {"text/*", "*/*"})

\* MatchesOutputMode: *, */* and type/* are patterns.
MatchesOutputMode(accepted, supported) ==
  \/ accepted = <<"*", "*">>
  \/ accepted[2] = "*" /\ accepted[1] = supported[1]
  \/ accepted = supported

FindCompatibleOutputModes(accepted) ==
  {s \in Supported : \E a \in accepted : MatchesOutputMode(a, s)}

-----------------------------------------------------------------------------
(* A request. *)

Fresh ==
  [stage |-> "arrive", failed |-> {}, uris |-> <<>>, active |-> <<>>,
   method |-> "none", accept |-> "none", media |-> "none", step |-> 0, prepared |-> <<>>]

NotCalled == [active |-> <<"not called">>, prepared |-> <<>>]

RPCError(code) == [kind |-> "error", code |-> code]

Answer(kind) == [kind |-> kind, code |-> "ok"]

\* writeErrorResponse and writeSuccessResponse, or writeSSEError and writeSSEStream.
Written(r, a) ==
  Append(out[r], [kind |-> a.kind, code |-> a.code,
                  form |-> IF req[r].media = "sse" THEN "sse" ELSE "json"])

MissingReturn(r) ==
  [req[r] EXCEPT !.stage = IF req[r].stage = "prepare" THEN "handle" ELSE "done"]

\* Where the handler goes after it has answered: it returns.
AfterReply(r) == [req[r] EXCEPT !.stage = "done"]

Reply(r, a) ==
  /\ out' = [out EXCEPT ![r] = Written(r, a)]
  /\ req' = [req EXCEPT ![r] = AfterReply(r)]
  /\ UNCHANGED <<config, registry, called>>

(***************************************************************************)
(* writeErrorResponse, writeSuccessResponse and writeSSEError with data of *)
(* the program that cannot be encoded: they log it, and nothing is sent.   *)
(***************************************************************************)
NotEncoded(r) ==
  /\ req' = [req EXCEPT ![r].stage = "unencoded"]
  /\ UNCHANGED <<config, registry, out, called>>

GoOn(r, rec) == req' = [req EXCEPT ![r] = rec] /\ UNCHANGED <<config, registry, out, called>>

\* ServeHTTP: GET of the card (or an error of the service), another path, another verb.
ServeHTTP(r) ==
  /\ req[r].stage = "arrive"
  /\ \/ \E a \in {Answer("card"), RPCError("http 500"), RPCError("http 404"), RPCError("http 405")} :
          Reply(r, a)
     \/ GoOn(r, [req[r] EXCEPT !.stage = "auth"])

\* The authentication of every RPC request; the card needs none.
Authenticate(r) ==
  /\ req[r].stage = "auth"
  /\ \E failed \in SUBSET Members(Checks) :
       LET outcome == FirstFailed(failed) IN
       IF outcome = "admitted" THEN GoOn(r, [req[r] EXCEPT !.stage = "parse", !.failed = failed])
                               ELSE Reply(r, RPCError(outcome))

\* io.ReadAll, json.Unmarshal and the version check.
Parse(r) ==
  /\ req[r].stage = "parse"
  /\ \/ \E code \in {"parse error", "invalid request"} : Reply(r, RPCError(code))
     \/ GoOn(r, [req[r] EXCEPT !.stage = "extensions"])

Headers == UNION {[1 .. n -> Extensions \cup {"unknown"}] : n \in 0 .. MaxExts}

ActivateExtensions(r) ==
  /\ req[r].stage = "extensions"
  /\ \E uris \in Headers :
       IF RequiredActivated(uris)
       THEN GoOn(r, [req[r] EXCEPT !.stage = "route", !.uris = uris,
                                   !.active = ResolveActiveExtensions(uris)])
       ELSE Reply(r, RPCError("invalid request"))

(***************************************************************************)
(* routeMethodByRegistry: an unknown method, or a streaming method whose   *)
(* client takes no event stream, is answered with "method not found"; the  *)
(* answer to an unknown method is an event only if that was asked for.     *)
(***************************************************************************)
Route(r, m, accept) ==
  /\ req[r].stage = "route"
  /\ \/ /\ m \notin DOMAIN registry
        /\ out' = [out EXCEPT ![r] = <<[kind |-> "error", code |-> "method not found",
                      form |-> IF AcceptsSSE(accept, FALSE) THEN "sse" ELSE "json"]>>]
        /\ req' = [req EXCEPT ![r].stage = "done", ![r].accept = accept]
        /\ UNCHANGED <<config, registry, called>>
     \/ /\ m \in DOMAIN registry
        /\ registry[m].media = "sse" /\ ~AcceptsSSE(accept, TRUE)
        /\ Reply(r, RPCError("method not found"))
     \/ /\ m \in DOMAIN registry
        /\ registry[m].media = "sse" => AcceptsSSE(accept, TRUE)
        /\ GoOn(r, [req[r] EXCEPT !.stage = "prepare", !.method = m, !.accept = accept,
                                  !.media = registry[m].media])

\* PrepareContext of a profile extension; tryMethodSpecificPreprocessing drops the context
\* that a hook of the method returns.
KeepsContext(e, m) == ExtKind[e] = "profile" /\ m \notin Hooks[e]

(***************************************************************************)
(* applyProfileExtensionPreprocessing, one active extension at a time: a   *)
(* profile extension prepares the context or refuses the request, with the *)
(* hook of the method if it has one, else with PrepareContext.             *)
(***************************************************************************)
PrepareNext(r) ==
  LET e == req[r].active[req[r].step + 1] IN
  /\ req[r].stage = "prepare" /\ req[r].step < Len(req[r].active)
  /\ \/ GoOn(r, IF KeepsContext(e, req[r].method)
                THEN [req[r] EXCEPT !.step = @ + 1, !.prepared = Append(@, e)]
                ELSE [req[r] EXCEPT !.step = @ + 1])
     \/ ExtKind[e] = "profile" /\ Reply(r, RPCError("profile error"))

Prepared(r) ==
  /\ req[r].stage = "prepare" /\ req[r].step = Len(req[r].active)
  /\ GoOn(r, [req[r] EXCEPT !.stage = "handle"])

\* isExtensionActive in ServeRPC: the extension behind the method is in the context.
ExtensionActive(r) ==
  registry[req[r].method].ext \in {NoExt} \cup Members(req[r].active)

(***************************************************************************)
(* The method handlers: params that do not decode, output modes without a  *)
(* common one (or that the service cannot tell) and an extension that is   *)
(* not active are errors; otherwise the service is called with the context *)
(* prepared so far.                                                        *)
(***************************************************************************)
Handle(r, accepted) ==
  LET negotiates == req[r].method \in Negotiated /\ accepted # {} IN
  /\ req[r].stage = "handle"
  /\ \/ /\ req[r].method \in JSONMethods \cup StreamMethods
        /\ Reply(r, RPCError("invalid params"))
     \/ negotiates /\ (Reply(r, RPCError("service")) \/ NotEncoded(r))
     \/ /\ negotiates /\ FindCompatibleOutputModes(accepted) = {}
        /\ Reply(r, RPCError("content type"))
     \/ /\ ~ExtensionActive(r)
        /\ Reply(r, RPCError("method not found"))
     \/ /\ ExtensionActive(r)
        /\ negotiates => FindCompatibleOutputModes(accepted) # {}
        /\ called' = [called EXCEPT ![r] = [active |-> req[r].active, prepared |-> req[r].prepared]]
        /\ req' = [req EXCEPT ![r].stage = "service"]
        /\ UNCHANGED <<config, registry, out>>

\* The service fails, with a JSONRPCError of its own or another error (buildInternalError).
ServiceFails(r) ==
  /\ req[r].stage = "service"
  /\ (\E code \in {"service", "internal"} : Reply(r, RPCError(code))) \/ NotEncoded(r)

\* registerJSONMethod writes the result.
ServiceReturns(r) ==
  /\ req[r].stage = "service" /\ req[r].media = "json"
  /\ Reply(r, Answer("result")) \/ NotEncoded(r)

\* writeSSEStream: the response writer cannot flush, after the service has started.
StreamUnsupported(r) ==
  /\ req[r].stage = "service" /\ req[r].media = "sse"
  /\ Reply(r, RPCError("internal")) \/ NotEncoded(r)

\* One event of the channel; an event that cannot be encoded becomes an error event.
StreamEvent(r) ==
  /\ req[r].stage \in {"service", "streaming"} /\ req[r].media = "sse"
  /\ Len(out[r]) < MaxEvents
  /\ \E a \in {Answer("event"), RPCError("internal")} : out' = [out EXCEPT ![r] = Written(r, a)]
  /\ req' = [req EXCEPT ![r].stage = "streaming"]
  /\ UNCHANGED <<config, registry, called>>

(***************************************************************************)
(* WrapAgentServiceWithExtensions: a Go caller without HTTP.  The required *)
(* extensions are checked once, when the service is wrapped; every call    *)
(* then carries the active ones, and no profile extension prepares it.     *)
(***************************************************************************)
WrappedCall(r, uris) ==
  /\ req[r].stage = "arrive"
  /\ IF RequiredActivated(uris)
     THEN /\ called' = [called EXCEPT ![r] = [active |-> ResolveActiveExtensions(uris), prepared |-> <<>>]]
          /\ req' = [req EXCEPT ![r].stage = "wrapped", ![r].uris = uris]
          /\ UNCHANGED <<config, registry, out>>
     ELSE Reply(r, RPCError("validation"))

\* The channel is closed.
StreamEnds(r) ==
  /\ req[r].stage \in {"service", "streaming"} /\ req[r].media = "sse"
  /\ GoOn(r, [req[r] EXCEPT !.stage = "done"])

-----------------------------------------------------------------------------
TransportInit ==
  /\ config \in HandlerConfigs
  /\ registry = InitRegistry
  /\ req = [r \in Requests |-> Fresh]
  /\ out = [r \in Requests |-> <<>>]
  /\ called = [r \in Requests |-> NotCalled]

Accepts == {"application/json", "text/event-stream", "*/*"}

Modes == {{}, {<<"text", "*">>}, {<<"image", "png">>}}

RequestStep(r) ==
  \/ \E uris \in Headers : WrappedCall(r, uris)
  \/ ServeHTTP(r) \/ Authenticate(r) \/ Parse(r) \/ ActivateExtensions(r)
  \/ \E m \in Methods, accept \in Accepts : Route(r, m, accept)
  \/ PrepareNext(r) \/ Prepared(r)
  \/ \E accepted \in Modes : Handle(r, accepted)
  \/ ServiceFails(r) \/ ServiceReturns(r)
  \/ StreamUnsupported(r) \/ StreamEvent(r) \/ StreamEnds(r)

TransportNext ==
  \/ \E r \in Requests : RequestStep(r)
  \/ \E m \in Methods : RegisterMethod(m)

TransportSpec == TransportInit /\ [][TransportNext]_transportVars

-----------------------------------------------------------------------------
(* Properties. *)

(***************************************************************************)
(* Whatever stage refuses a request, its client gets one answer: a JSON    *)
(* response is written once and ends the request, and the service is not   *)
(* called for a request that was already answered.  The only request that  *)
(* ends without an answer was routed, and the result, or the data of the   *)
(* error, that the program gave for it cannot be encoded.  A client gets   *)
(* events only if its Accept header allows them, and once a stream method  *)
(* was accepted everything it gets is an event, later errors included.     *)
(***************************************************************************)
AnsweredOnce ==
  \A r \in Requests :
    /\ req[r].media # "sse" => Len(out[r]) = (IF req[r].stage = "done" THEN 1 ELSE 0)
    /\ req[r].stage = "unencoded" => req[r].method # "none" /\ out[r] = <<>>
    /\ called[r] = NotCalled /\ out[r] # <<>> => Len(out[r]) = 1 /\ req[r].stage = "done"
    /\ \A i \in 1 .. Len(out[r]) :
         /\ out[r][i].form = "sse" => req[r].accept \in {"text/event-stream", "text/*", "*/*"}
         /\ req[r].media # "none" => out[r][i].form = req[r].media

(***************************************************************************)
(* The service sees a request only after every gate: all checks of the     *)
(* authenticator passed, every required extension was asked for, and the   *)
(* extension a method belongs to is active in the call's context.  That    *)
(* context carries the known extensions of the header in its order, and of *)
(* the extensions that have no hook for the method, each profile extension *)
(* has prepared it once per mention, in that order, and no other has.  (A  *)
(* wrapped service prepares nothing.)                                      *)
(***************************************************************************)
CalledOnlyIfAdmitted ==
  \A r \in Requests : called[r] # NotCalled =>
    LET unhooked == {u \in Extensions : req[r].method \notin Hooks[u]}
    IN  /\ req[r].failed = {}
        /\ config.required \subseteq Members(called[r].active)
        /\ \A e \in RPCExtensions : req[r].method = MethodName(e) => e \in Members(called[r].active)
        /\ called[r].active = Kept(req[r].uris, Extensions)
        /\ Kept(called[r].prepared, unhooked) =
             Kept(req[r].uris, {u \in unhooked : ExtKind[u] = "profile" /\ req[r].stage # "wrapped"})

(***************************************************************************)
(* The claim of _examples/extensions/README.md:20-21, that an extension    *)
(* with a hook for message/send enriches the context before the method     *)
(* runs: every active profile extension has prepared the context the       *)
(* service is called with.  tryMethodSpecificPreprocessing drops what the  *)
(* hook returns, so it does not hold.                                      *)
(***************************************************************************)
HooksPrepareTheContext ==
  \A r \in Requests : called[r] # NotCalled /\ req[r].stage # "wrapped" =>
    \A e \in Members(called[r].active) :
      ExtKind[e] = "profile" => e \in Members(called[r].prepared)

=============================================================================
