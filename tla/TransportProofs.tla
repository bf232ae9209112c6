-------------------------- MODULE TransportProofs --------------------------
(***************************************************************************)
(* What the handler, and the remote agent in front of it, guarantee for    *)
(* any number of requests, any extensions and any header.                  *)
(***************************************************************************)
EXTENDS RemoteAgent, SequenceLemmas

Unrouted == {"arrive", "auth", "parse", "extensions", "route", "wrapped"}

Routed == {"prepare", "handle", "service", "streaming"}

Ended == {"done", "unencoded"}

CheckNames == {"missing", "invalid", "format", "parse", "audience", "custom"}

Codes ==
  CheckNames \cup
  {"ok", "http 500", "http 404", "http 405", "parse error", "invalid request", "validation",
   "method not found", "profile error", "invalid params", "service", "content type", "internal"}

Kinds == {"card", "result", "event", "error"}

Answers == [kind : Kinds, code : Codes]

Outputs == [kind : Kinds, code : Codes, form : {"json", "sse"}]

SSEAccepts == {"text/event-stream", "text/*", "*/*"}

URIs == Extensions \cup {"unknown"}

RegisteredNames == Methods \cup JSONMethods \cup StreamMethods \cup RPCExtensions

MethodNames == RegisteredNames \cup {"none"}

RequestRecords ==
  [stage : Unrouted \cup Routed \cup Ended, failed : SUBSET CheckNames, uris : Seq(URIs),
   active : Seq(Extensions), method : MethodNames, accept : Accepts \cup {"none"},
   media : {"none", "json", "sse"}, step : Nat, prepared : Seq(Extensions)]

Calls == [active : Seq(Extensions \cup {"not called"}), prepared : Seq(Extensions)]

\* The types of the handler's state.
TransportTypeOK ==
  /\ config \in HandlerConfigs
  /\ DOMAIN registry \subseteq RegisteredNames
  /\ registry \in [DOMAIN registry -> [media : {"json", "sse"}, ext : Extensions \cup {NoExt}]]
  /\ req \in [Requests -> RequestRecords]
  /\ out \in [Requests -> Seq(Outputs)]
  /\ called \in [Requests -> Calls]

\* The method of an RPC extension stays with it: a registration takes a free name.
RegistryInv ==
  \A e \in RPCExtensions : e \in DOMAIN registry /\ registry[e].ext = e

(***************************************************************************)
(* What was written for a request in each of its stages: nothing before it *)
(* is answered, one answer at its end, events only in a stream.            *)
(***************************************************************************)
StageInv(q, o, c) ==
  /\ q.stage \in Unrouted => q.media = "none"
  /\ q.stage \in Unrouted => q.method = "none"
  /\ q.stage \in Routed => q.media # "none"
  /\ q.stage = "streaming" => q.media = "sse"
  /\ q.media = "sse" => q.accept \in SSEAccepts
  /\ q.stage \notin {"streaming", "done"} => o = <<>>
  /\ q.stage = "done" /\ q.media # "sse" => Len(o) = 1
  /\ q.stage = "done" /\ c = NotCalled => Len(o) = 1
  /\ (c = NotCalled) => q.stage \notin {"service", "streaming", "wrapped"}
  /\ (c # NotCalled) => q.stage \in {"service", "streaming", "wrapped"} \cup Ended
  /\ q.stage = "unencoded" => q.method # "none"
  /\ q.stage \in Routed => q.method # "none"
  /\ \A i \in 1 .. Len(o) :
       /\ o[i].form = "sse" => q.accept \in SSEAccepts
       /\ q.media # "none" => o[i].form = q.media

\* The extensions that prepare the context of a call of method m.
Preparing(m) == {e \in Extensions : KeepsContext(e, m)}

(***************************************************************************)
(* How far the gates have been passed: no check of the authenticator has   *)
(* failed, the required extensions were asked for, and the context carries *)
(* what the extensions up to `step' made of it.                            *)
(***************************************************************************)
GateInv(q, c) ==
  /\ q.failed = {}
  /\ q.stage \in Routed \cup {"route"} => RequiredActivated(q.uris)
  /\ q.stage # "wrapped" => q.active = Kept(q.uris, Extensions)
  /\ q.stage \in Unrouted => q.step = 0 /\ q.prepared = <<>>
  /\ q.stage = "prepare" => q.step <= Len(q.active) /\ q.prepared = KeptTo(q.active, Preparing(q.method))[q.step]
  /\ q.stage \in Routed \ {"prepare"} => q.prepared = Kept(q.active, Preparing(q.method))
  /\ (c # NotCalled) =>
       /\ RequiredActivated(q.uris)
       /\ \A e \in RPCExtensions : q.method = e => e \in Members(c.active)
       /\ c.active = Kept(q.uris, Extensions)
       /\ c.prepared = IF q.stage = "wrapped" THEN <<>>
                       ELSE Kept(Kept(q.uris, Extensions), Preparing(q.method))

TransportInv ==
  /\ TransportTypeOK /\ RegistryInv
  /\ \A r \in Requests : StageInv(req[r], out[r], called[r])
  /\ \A r \in Requests : GateInv(req[r], called[r])

-----------------------------------------------------------------------------
(* The remote agent. *)

\* The types of the state of the remote agent and its client.
RemoteTypeOK ==
  /\ history \in Seq({"user", "agent"}) /\ history # <<>>
  /\ run \in [phase : {"idle", "sent", "returned"}, request : Requests \cup {"none"},
              reply : {"none", "remote", "fallback", "error"}]
  /\ owner \in [Requests -> [method : {"none", "send", "get", "cancel"}, index : Nat]]
  /\ served \in [Requests -> SendResults \cup {"none", "value"}]
  /\ seen \in [Requests -> SendResults \cup {"none", "value", "zero", "error"}]

(***************************************************************************)
(* A message that was sent is a message of the history, which only grows.  *)
(* A request that was answered with a result has one of the service, which *)
(* is sent if it can be encoded, and the service has read a message of a   *)
(* user for it.  The client accepts no events.                             *)
(***************************************************************************)
ServedInv(r) ==
  /\ owner[r] # NoOwner => req[r].accept \notin SSEAccepts
  /\ owner[r] = NoOwner => req[r].accept = "none"
  /\ owner[r].method = "send" => owner[r].index \in 1 .. Len(history)
  /\ owner[r] = NoOwner => served[r] = "none" /\ seen[r] = "none"
  /\ owner[r] # NoOwner /\ out[r] # <<>> /\ out[r][1].kind = "result" => served[r] # "none"
  /\ served[r] # "none" =>
       /\ req[r].stage \in Ended
       /\ out[r] # <<>> => out[r][1].kind = "result"
       /\ called[r] # NotCalled
       /\ owner[r].method = "send" => served[r] \in SendResults /\ history[owner[r].index] = "user"
  /\ seen[r] \notin {"none", "error"} =>
       served[r] # "none" /\ seen[r] = Decoded(owner[r].method, served[r])

\* An Execute that has sent its request knows it, and its reply is the answer or an error.
RunInv ==
  /\ run.phase # "idle" => run.request \in Requests /\ owner[run.request].method = "send"
  /\ run.phase = "returned" /\ run.reply # "error" =>
       /\ served[run.request] # "none" /\ run.reply = ReplyMessage(served[run.request])
       /\ out[run.request] # <<>>

RemoteInv ==
  RemoteTypeOK /\ RunInv /\ \A r \in Requests : ServedInv(r)

-----------------------------------------------------------------------------
(* The pure parts. *)

\* The first check that fails has a name of its own: nobody is admitted with a failed check.
LEMMA AdmittedPassesAll ==
  ASSUME config \in HandlerConfigs, NEW failed \in SUBSET Members(Checks)
  PROVE  /\ failed \in SUBSET CheckNames
         /\ FirstFailed(failed) \in CheckNames \cup {"admitted"}
         /\ FirstFailed(failed) = "admitted" => failed = {}
<1>1. config.auth \in {"none", "apiKey", "jwt"}
  BY TransportAssumption
<1>2. /\ Len(Checks) \in Nat
      /\ \A i \in 1 .. Len(Checks) : Checks[i] \in CheckNames
  <2>1. CASE config.auth = "none"
    <3>1. Checks = <<>>
      BY <2>1, Zenon DEF Checks
    <3> QED
      BY <3>1
  <2>2. CASE config.auth = "apiKey"
    <3>1. Checks = <<"missing", "invalid">>
      BY <2>2 DEF Checks
    <3>2. Len(Checks) = 2 /\ Checks[1] = "missing" /\ Checks[2] = "invalid"
      BY <3>1
    <3> QED
      BY <3>2 DEF CheckNames
  <2>3. CASE config.auth = "jwt"
    <3>1. Checks = <<"missing", "format", "parse", "audience", "custom">>
      BY <2>3 DEF Checks
    <3>2. /\ Len(Checks) = 5 /\ Checks[1] = "missing" /\ Checks[2] = "format"
          /\ Checks[3] = "parse" /\ Checks[4] = "audience" /\ Checks[5] = "custom"
      BY <3>1
    <3> QED
      BY <3>2 DEF CheckNames
  <2> QED
    BY <1>1, <2>1, <2>2, <2>3
<1> DEFINE hits == {i \in 1 .. Len(Checks) : Checks[i] \in failed}
<1>3. Len(Checks) \in Nat
  BY <1>2
<1>4. failed \subseteq CheckNames /\ (hits = {} => failed = {})
  BY <1>2 DEF Members
<1>5. CASE hits = {}
  <2>1. FirstFailed(failed) = "admitted"
    BY <1>5 DEF FirstFailed
  <2> HIDE DEF hits
  <2> QED
    BY <1>4, <1>5, <2>1
<1>6. CASE hits # {}
  <2> DEFINE first == CHOOSE i \in hits : \A j \in hits : i <= j
  <2>1. hits \in SUBSET Nat
    BY <1>3
  <2>2. \E i \in hits : \A j \in hits : i <= j
    <3> HIDE DEF hits
    <3> QED
      BY <1>6, <2>1, LeastNat
  <2>3. first \in hits
    <3> HIDE DEF hits
    <3> QED
      BY <2>2
  <2>4. FirstFailed(failed) = Checks[first]
    BY <1>6 DEF FirstFailed
  <2> HIDE DEF first
  <2> QED
    BY <1>2, <1>4, <2>3, <2>4 DEF CheckNames
<1> QED
  BY <1>5, <1>6

\* The extensions a header activates are extensions, and every one the header names is there.
LEMMA Activated ==
  ASSUME NEW uris \in Seq(URIs)
  PROVE  /\ Kept(uris, Extensions) \in Seq(Extensions)
         /\ \A e \in Extensions : e \in Members(uris) => e \in Members(Kept(uris, Extensions))
<1> DEFINE k == Kept(uris, Extensions)
<1>1. Len(uris) \in Nat /\ Len(uris) \in 0 .. Len(uris)
  OBVIOUS
<1>2. /\ k \in Seq(URIs \cap Extensions)
      /\ \A i \in 1 .. Len(uris) : uris[i] \in Extensions => \E j \in 1 .. Len(k) : k[j] = uris[i]
  BY KeptAll DEF KeptFrom
<1>3. URIs \cap Extensions = Extensions
  BY DEF URIs
<1> HIDE DEF k
<1>4. k \in Seq(Extensions)
  BY <1>2, <1>3
<1>5. ASSUME NEW e \in Extensions, e \in Members(uris) PROVE e \in Members(k)
  BY <1>2, <1>5 DEF Members
<1> QED
  BY <1>4, <1>5 DEF k

\* What is kept of extensions are extensions.
LEMMA KeptType ==
  ASSUME NEW s \in Seq(Extensions), NEW T, NEW n \in 0 .. Len(s)
  PROVE  KeptTo(s, T)[n] \in Seq(Extensions) /\ Kept(s, T) \in Seq(Extensions)
<1>1. KeptTo(s, T)[n] \in Seq(Extensions \cap T)
  BY KeptMembers DEF KeptFrom
<1>2. Len(s) \in 0 .. Len(s)
  OBVIOUS
<1>3. KeptTo(s, T)[Len(s)] \in Seq(Extensions \cap T)
  BY <1>2, KeptMembers DEF KeptFrom
<1>4. ASSUME NEW q \in Seq(Extensions \cap T) PROVE q \in Seq(Extensions)
  OBVIOUS
<1> QED
  BY <1>1, <1>3, <1>4 DEF Kept

\* A header is a sequence of URIs.
LEMMA HeaderType == ASSUME NEW uris \in Headers PROVE uris \in Seq(URIs)
<1>1. PICK n \in 0 .. MaxExts : uris \in [1 .. n -> URIs]
  BY DEF Headers, URIs
<1>2. n \in Nat
  BY TransportAssumption
<1> QED
  BY <1>1, <1>2

\* The call of an admitted request is a call.
LEMMA CallIsCall ==
  ASSUME NEW a \in Seq(Extensions), NEW p \in Seq(Extensions)
  PROVE  [active |-> a, prepared |-> p] \in Calls /\ [active |-> a, prepared |-> p] # NotCalled
<1>0. ASSUME NEW q \in Seq(Extensions), Len(q) = 1 PROVE q[1] \in Extensions
  <2>1. 1 \in 1 .. Len(q)
    BY <1>0
  <2> QED
    BY <2>1
<1>1. a # <<"not called">>
  <2> SUFFICES ASSUME a = <<"not called">> PROVE FALSE
    OBVIOUS
  <2>1. Len(a) = 1 /\ a[1] = "not called"
    OBVIOUS
  <2>2. a[1] \in Extensions
    BY <1>0, <2>1, Zenon
  <2> QED
    BY <2>1, <2>2, NamesAssumption
<1>2. a \in Seq(Extensions \cup {"not called"})
  BY SeqGrows
<1> QED
  BY <1>1, <1>2 DEF Calls, NotCalled

-----------------------------------------------------------------------------
(* Steps of the handler. *)

\* A step of one request that leaves it as q, with answer o and call c.
Becomes(r, q, o, c) ==
  /\ req' = [req EXCEPT ![r] = q] /\ out' = [out EXCEPT ![r] = o] /\ called' = [called EXCEPT ![r] = c]
  /\ UNCHANGED <<config, registry>>

RequestOK(q, o, c) ==
  /\ q \in RequestRecords /\ o \in Seq(Outputs) /\ c \in Calls
  /\ StageInv(q, o, c) /\ GateInv(q, c)

\* A step of one request that leaves it in order leaves all requests in order.
LEMMA OneRequest ==
  ASSUME TransportInv, NEW r \in Requests, NEW q, NEW o, NEW c,
         Becomes(r, q, o, c), RequestOK(q, o, c)
  PROVE  TransportInv'
<1> USE DEF TransportInv, RequestOK, Becomes
<1>1. config' = config /\ registry' = registry
  OBVIOUS
<1>2. /\ req' \in [Requests -> RequestRecords] /\ out' \in [Requests -> Seq(Outputs)]
      /\ called' \in [Requests -> Calls]
  BY DEF TransportTypeOK
<1>3. TransportTypeOK' /\ RegistryInv'
  BY <1>1, <1>2 DEF TransportTypeOK, RegistryInv
<1>4. ASSUME NEW x \in Requests PROVE StageInv(req'[x], out'[x], called'[x]) /\ GateInv(req'[x], called'[x])
  <2>1. CASE x = r
    <3>1. req'[x] = q /\ out'[x] = o /\ called'[x] = c
      BY <2>1 DEF TransportTypeOK
    <3> QED
      BY <3>1
  <2>2. CASE x # r
    <3>1. req'[x] = req[x] /\ out'[x] = out[x] /\ called'[x] = called[x]
      BY <2>2 DEF TransportTypeOK
    <3> QED
      BY <3>1
  <2> QED
    BY <2>1, <2>2
<1>5. ASSUME NEW x \in Requests PROVE StageInv(req[x], out[x], called[x])'
  BY <1>4 DEF StageInv
<1>6. ASSUME NEW x \in Requests PROVE GateInv(req[x], called[x])'
  BY <1>1, <1>4, Zenon DEF GateInv, RequiredActivated
<1> QED
  BY <1>3, <1>5, <1>6

Open == {"arrive", "auth", "parse", "extensions", "route", "prepare", "handle", "service"}

\* An answer that ends a request, whatever the stage it is in.
LEMMA RepliedOK ==
  ASSUME NEW q, NEW o, NEW c, RequestOK(q, o, c), q.stage \in Open, NEW a \in Answers
  PROVE  RequestOK([q EXCEPT !.stage = "done"],
                   Append(o, [kind |-> a.kind, code |-> a.code,
                              form |-> IF q.media = "sse" THEN "sse" ELSE "json"]), c)
<1> DEFINE w == [kind |-> a.kind, code |-> a.code, form |-> IF q.media = "sse" THEN "sse" ELSE "json"]
           d == [q EXCEPT !.stage = "done"]
<1>1. /\ q \in RequestRecords /\ o \in Seq(Outputs) /\ c \in Calls
      /\ StageInv(q, o, c) /\ GateInv(q, c)
  BY DEF RequestOK
<1>2. o = <<>>
  BY <1>1 DEF StageInv, Open
<1>3. w \in Outputs /\ w.form = IF q.media = "sse" THEN "sse" ELSE "json"
  BY DEF Answers, Outputs
<1>4. /\ d \in RequestRecords /\ d.stage = "done" /\ d.media = q.media /\ d.accept = q.accept
      /\ d.failed = q.failed /\ d.uris = q.uris /\ d.active = q.active /\ d.method = q.method
      /\ d.prepared = q.prepared /\ q.stage # "wrapped" /\ q.media \in {"none", "json", "sse"}
  BY <1>1 DEF RequestRecords, Open, Ended
<1> HIDE DEF w, d
<1>5. ASSUME NEW v \in Outputs, NEW p, p = Append(<<>>, v)
      PROVE  p \in Seq(Outputs) /\ Len(p) = 1 /\ p[1] = v /\ \A i \in 1 .. Len(p) : i = 1
  BY <1>5
<1>6. PICK p : p = Append(o, w)
  OBVIOUS
<1>7. p \in Seq(Outputs) /\ Len(p) = 1 /\ p[1] = w /\ \A i \in 1 .. Len(p) : i = 1
  BY <1>2, <1>3, <1>5, <1>6
<1>8. StageInv(d, p, c)
  BY <1>1, <1>3, <1>4, <1>7 DEF StageInv, Unrouted, Routed, Ended
<1>9. GateInv(d, c)
  BY <1>1, <1>4 DEF GateInv, Unrouted, Routed
<1> QED
  BY <1>1, <1>4, <1>6, <1>7, <1>8, <1>9 DEF RequestOK, w, d

\* No method goes by the name the model has for a request without one.
LEMMA NoneUnregistered == "none" \notin RegisteredNames
BY NamesAssumption DEF RegisteredNames, RPCExtensions, JSONMethods, StreamMethods

\* The request of an invariant state is in order.
LEMMA InOrder ==
  ASSUME TransportInv, NEW r \in Requests
  PROVE  RequestOK(req[r], out[r], called[r])
BY DEF TransportInv, TransportTypeOK, RequestOK

\* A reply answers the request once and ends it.
LEMMA ReplyStep ==
  ASSUME TransportInv, NEW r \in Requests, req[r].stage \in Open, NEW a \in Answers, Reply(r, a)
  PROVE  TransportInv'
<1>1. RequestOK(AfterReply(r), Written(r, a), called[r])
  BY InOrder, RepliedOK DEF AfterReply, Written
<1>2. Becomes(r, AfterReply(r), Written(r, a), called[r])
  BY DEF Reply, Becomes, TransportInv, TransportTypeOK
<1> QED
  BY <1>1, <1>2, OneRequest

\* A request whose result or error cannot be encoded ends without an answer.
LEMMA UnencodedStep ==
  ASSUME TransportInv, NEW r \in Requests, req[r].stage \in Open \cap Routed, NotEncoded(r)
  PROVE  TransportInv'
<1> DEFINE q == req[r]
           d == [q EXCEPT !.stage = "unencoded"]
<1>1. /\ q \in RequestRecords /\ out[r] \in Seq(Outputs) /\ called[r] \in Calls
      /\ StageInv(q, out[r], called[r]) /\ GateInv(q, called[r]) /\ q.stage \in Open \cap Routed
  BY InOrder DEF RequestOK
<1>2. Becomes(r, d, out[r], called[r])
  BY DEF NotEncoded, Becomes, TransportInv, TransportTypeOK
<1>3. /\ d \in RequestRecords /\ d.stage = "unencoded" /\ d.media = q.media /\ d.accept = q.accept
      /\ d.method = q.method /\ d.failed = q.failed /\ d.uris = q.uris /\ d.active = q.active
      /\ d.prepared = q.prepared /\ d.step = q.step
  BY <1>1 DEF RequestRecords, Ended
<1> HIDE DEF d
<1>4. StageInv(d, out[r], called[r])
  BY <1>1, <1>3 DEF StageInv, Unrouted, Routed, Ended, Open
<1>5. GateInv(d, called[r])
  BY <1>1, <1>3 DEF GateInv, Unrouted, Routed, Open
<1> QED
  BY <1>1, <1>2, <1>3, <1>4, <1>5, OneRequest DEF RequestOK

\* A stage that goes on writes nothing and calls nothing.
LEMMA MoveStep ==
  ASSUME TransportInv, NEW r \in Requests, NEW q, GoOn(r, q),
         RequestOK(q, out[r], called[r])
  PROVE  TransportInv'
<1>1. Becomes(r, q, out[r], called[r])
  BY DEF GoOn, Becomes, TransportInv, TransportTypeOK
<1> QED
  BY <1>1, OneRequest

\* From one stage to a later one before the method is known.
LEMMA EarlyMove ==
  ASSUME NEW q, NEW o, NEW c, RequestOK(q, o, c),
         NEW t \in {"auth", "parse", "extensions"}, q.stage \in {"arrive", "auth", "parse"}
  PROVE  RequestOK([q EXCEPT !.stage = t], o, c)
<1> DEFINE d == [q EXCEPT !.stage = t]
<1>1. /\ q \in RequestRecords /\ o \in Seq(Outputs) /\ c \in Calls
      /\ StageInv(q, o, c) /\ GateInv(q, c)
  BY DEF RequestOK
<1>2. /\ d \in RequestRecords /\ d.stage = t /\ d.media = q.media /\ d.accept = q.accept
      /\ d.failed = q.failed /\ d.uris = q.uris /\ d.active = q.active /\ d.method = q.method
      /\ d.prepared = q.prepared /\ d.step = q.step
  BY <1>1 DEF RequestRecords, Unrouted
<1>3. c = NotCalled /\ o = <<>>
  BY <1>1 DEF StageInv, Ended
<1> HIDE DEF d
<1>4. StageInv(d, o, c)
  BY <1>1, <1>2 DEF StageInv, Unrouted, Routed, Ended
<1>5. GateInv(d, c)
  BY <1>1, <1>2, <1>3 DEF GateInv, Unrouted, Routed
<1> QED
  BY <1>1, <1>2, <1>4, <1>5 DEF RequestOK, d

\* Path and method are looked at first.
LEMMA ServeHTTPStep ==
  ASSUME TransportInv, NEW r \in Requests, ServeHTTP(r) PROVE TransportInv'
<1>1. req[r].stage = "arrive"
  BY DEF ServeHTTP
<1>2. CASE \E a \in {Answer("card"), RPCError("http 500"), RPCError("http 404"), RPCError("http 405")} :
             Reply(r, a)
  <2>1. PICK a \in {Answer("card"), RPCError("http 500"), RPCError("http 404"), RPCError("http 405")} :
               Reply(r, a)
    BY <1>2
  <2>2. a \in Answers
    <3>1. Answer("card") \in Answers
      BY DEF Answers, Answer, Kinds, Codes
    <3>2. ASSUME NEW code \in Codes PROVE RPCError(code) \in Answers
      BY DEF Answers, RPCError, Kinds
    <3>3. {"http 500", "http 404", "http 405"} \subseteq Codes
      BY DEF Codes
    <3> QED
      BY <3>1, <3>2, <3>3
  <2> QED
    BY <1>1, <2>1, <2>2, ReplyStep DEF Open
<1>3. CASE GoOn(r, [req[r] EXCEPT !.stage = "auth"])
  <2>1. RequestOK([req[r] EXCEPT !.stage = "auth"], out[r], called[r])
    BY <1>1, InOrder, EarlyMove
  <2> QED
    BY <1>3, <2>1, MoveStep
<1> QED
  BY <1>2, <1>3 DEF ServeHTTP

\* Only a request that passes every check of the authenticator is parsed.
LEMMA AuthenticateStep ==
  ASSUME TransportInv, NEW r \in Requests, Authenticate(r) PROVE TransportInv'
<1>1. req[r].stage = "auth"
  BY DEF Authenticate
<1>2. PICK failed \in SUBSET Members(Checks) :
        IF FirstFailed(failed) = "admitted"
        THEN GoOn(r, [req[r] EXCEPT !.stage = "parse", !.failed = failed])
        ELSE Reply(r, RPCError(FirstFailed(failed)))
  BY DEF Authenticate
<1>3. /\ failed \in SUBSET CheckNames
      /\ FirstFailed(failed) \in CheckNames \cup {"admitted"}
      /\ FirstFailed(failed) = "admitted" => failed = {}
  BY AdmittedPassesAll DEF TransportInv, TransportTypeOK
<1>4. CASE FirstFailed(failed) = "admitted"
  <2>1. req[r] \in RequestRecords /\ req[r].failed = {}
    BY InOrder DEF RequestOK, GateInv
  <2>2. [req[r] EXCEPT !.stage = "parse", !.failed = failed] = [req[r] EXCEPT !.stage = "parse"]
    BY <1>3, <1>4, <2>1 DEF RequestRecords
  <2>3. RequestOK([req[r] EXCEPT !.stage = "parse"], out[r], called[r])
    BY <1>1, InOrder, EarlyMove
  <2> QED
    BY <1>2, <1>4, <2>2, <2>3, MoveStep
<1>5. CASE FirstFailed(failed) # "admitted"
  <2>1. RPCError(FirstFailed(failed)) \in Answers
    BY <1>3, <1>5 DEF RPCError, Answers, Kinds, Codes
  <2>2. Reply(r, RPCError(FirstFailed(failed)))
    BY <1>2, <1>5
  <2> QED
    BY <1>1, <2>1, <2>2, ReplyStep DEF Open
<1> QED
  BY <1>4, <1>5

\* A body that cannot be read is answered at once.
LEMMA ParseStep ==
  ASSUME TransportInv, NEW r \in Requests, Parse(r) PROVE TransportInv'
<1>1. req[r].stage = "parse"
  BY DEF Parse
<1>2. CASE \E code \in {"parse error", "invalid request"} : Reply(r, RPCError(code))
  <2>1. PICK code \in {"parse error", "invalid request"} : Reply(r, RPCError(code))
    BY <1>2
  <2>2. RPCError(code) \in Answers
    BY DEF Answers, RPCError, Kinds, Codes
  <2> QED
    BY <1>1, <2>1, <2>2, ReplyStep DEF Open
<1>3. CASE GoOn(r, [req[r] EXCEPT !.stage = "extensions"])
  <2>1. RequestOK([req[r] EXCEPT !.stage = "extensions"], out[r], called[r])
    BY <1>1, InOrder, EarlyMove
  <2> QED
    BY <1>3, <2>1, MoveStep
<1> QED
  BY <1>2, <1>3 DEF Parse

\* Only a request that asks for the required extensions is routed.
LEMMA ActivateStep ==
  ASSUME TransportInv, NEW r \in Requests, ActivateExtensions(r) PROVE TransportInv'
<1>1. req[r].stage = "extensions"
  BY DEF ActivateExtensions
<1>2. PICK uris \in Headers :
        IF RequiredActivated(uris)
        THEN GoOn(r, [req[r] EXCEPT !.stage = "route", !.uris = uris,
                                    !.active = ResolveActiveExtensions(uris)])
        ELSE Reply(r, RPCError("invalid request"))
  BY DEF ActivateExtensions
<1>3. CASE RequiredActivated(uris)
  <2> DEFINE q == req[r]
             k == Kept(uris, Extensions)
             d == [q EXCEPT !.stage = "route", !.uris = uris, !.active = k]
  <2>1. /\ q \in RequestRecords /\ out[r] \in Seq(Outputs) /\ called[r] \in Calls
        /\ StageInv(q, out[r], called[r]) /\ GateInv(q, called[r]) /\ q.stage = "extensions"
    BY <1>1, InOrder DEF RequestOK
  <2>2. uris \in Seq(URIs) /\ k \in Seq(Extensions)
    BY HeaderType, Activated
  <2>3. GoOn(r, d)
    BY <1>2, <1>3 DEF ResolveActiveExtensions
  <2> HIDE DEF k, q
  <2>4. /\ d \in RequestRecords /\ d.stage = "route" /\ d.media = q.media /\ d.accept = q.accept
        /\ d.failed = q.failed /\ d.uris = uris /\ d.active = k /\ d.method = q.method
        /\ d.prepared = q.prepared /\ d.step = q.step
    BY <2>1, <2>2 DEF RequestRecords, Unrouted
  <2>5. called[r] = NotCalled /\ out[r] = <<>>
    BY <2>1 DEF StageInv, Ended
  <2> HIDE DEF d
  <2>6. StageInv(d, out[r], called[r])
    BY <2>1, <2>4 DEF StageInv, Unrouted, Routed, Ended
  <2>7. GateInv(d, called[r])
    BY <1>3, <2>1, <2>4, <2>5 DEF GateInv, Unrouted, Routed, k
  <2>8. RequestOK(d, out[r], called[r])
    BY <2>1, <2>4, <2>6, <2>7 DEF RequestOK
  <2> QED
    BY <2>3, <2>8, MoveStep
<1>4. CASE ~RequiredActivated(uris)
  <2>1. RPCError("invalid request") \in Answers
    BY DEF Answers, RPCError, Kinds, Codes
  <2>2. Reply(r, RPCError("invalid request"))
    BY <1>2, <1>4
  <2> QED
    BY <1>1, <2>1, <2>2, ReplyStep DEF Open
<1> QED
  BY <1>3, <1>4

\* Routing ends in the registry, in a reply, or with the extensions in the context.
LEMMA RouteStep ==
  ASSUME TransportInv, NEW r \in Requests, NEW m, NEW accept \in Accepts, Route(r, m, accept)
  PROVE  TransportInv'
<1> DEFINE q == req[r]
<1>1. /\ q \in RequestRecords /\ out[r] \in Seq(Outputs) /\ called[r] \in Calls
      /\ StageInv(q, out[r], called[r]) /\ GateInv(q, called[r]) /\ q.stage = "route"
  BY InOrder DEF RequestOK, Route
<1>2. called[r] = NotCalled /\ out[r] = <<>> /\ q.media = "none"
  BY <1>1 DEF StageInv, Unrouted, Ended
<1>3. CASE /\ m \notin DOMAIN registry
           /\ out' = [out EXCEPT ![r] = <<[kind |-> "error", code |-> "method not found",
                         form |-> IF AcceptsSSE(accept, FALSE) THEN "sse" ELSE "json"]>>]
           /\ req' = [req EXCEPT ![r].stage = "done", ![r].accept = accept]
           /\ UNCHANGED <<config, registry, called>>
  <2> DEFINE w == [kind |-> "error", code |-> "method not found",
                   form |-> IF AcceptsSSE(accept, FALSE) THEN "sse" ELSE "json"]
             d == [q EXCEPT !.stage = "done", !.accept = accept]
  <2>1. Becomes(r, d, <<w>>, called[r])
    BY <1>3 DEF Becomes, TransportInv, TransportTypeOK
  <2>2. w \in Outputs /\ (w.form = "sse" => accept \in SSEAccepts)
    BY DEF Outputs, Kinds, Codes, AcceptsSSE, SSEAccepts
  <2>3. /\ d \in RequestRecords /\ d.stage = "done" /\ d.media = "none" /\ d.accept = accept
        /\ d.failed = q.failed /\ d.uris = q.uris /\ d.active = q.active /\ d.method = q.method
        /\ d.prepared = q.prepared /\ d.step = q.step
    BY <1>1, <1>2 DEF RequestRecords, Routed, Ended
  <2> HIDE DEF w, d
  <2>4. ASSUME NEW v \in Outputs, NEW p, p = <<v>>
        PROVE  p \in Seq(Outputs) /\ Len(p) = 1 /\ p[1] = v /\ \A i \in 1 .. Len(p) : i = 1
    BY <2>4
  <2>5. PICK p : p = <<w>>
    OBVIOUS
  <2>6. p \in Seq(Outputs) /\ Len(p) = 1 /\ p[1] = w /\ \A i \in 1 .. Len(p) : i = 1
    BY <2>2, <2>4, <2>5
  <2>7. StageInv(d, p, called[r])
    BY <1>1, <1>2, <2>2, <2>3, <2>6 DEF StageInv, Unrouted, Routed
  <2>8. GateInv(d, called[r])
    BY <1>1, <1>2, <2>3 DEF GateInv, Unrouted, Routed
  <2>9. RequestOK(d, <<w>>, called[r])
    BY <1>1, <2>3, <2>5, <2>6, <2>7, <2>8 DEF RequestOK
  <2> QED
    BY <2>1, <2>9, OneRequest
<1>4. CASE Reply(r, RPCError("method not found"))
  <2>1. RPCError("method not found") \in Answers
    BY DEF Answers, RPCError, Kinds, Codes
  <2> QED
    BY <1>1, <1>4, <2>1, ReplyStep DEF Open
<1>5. CASE /\ m \in DOMAIN registry
           /\ registry[m].media = "sse" => AcceptsSSE(accept, TRUE)
           /\ GoOn(r, [req[r] EXCEPT !.stage = "prepare", !.method = m, !.accept = accept,
                                     !.media = registry[m].media])
  <2> DEFINE d == [q EXCEPT !.stage = "prepare", !.method = m, !.accept = accept,
                            !.media = registry[m].media]
  <2>1. /\ m \in MethodNames /\ registry[m].media \in {"json", "sse"}
        /\ registry[m].media = "sse" => accept \in SSEAccepts
    BY <1>5 DEF TransportInv, TransportTypeOK, AcceptsSSE, SSEAccepts, MethodNames
  <2>2. /\ d \in RequestRecords /\ d.stage = "prepare" /\ d.media = registry[m].media
        /\ d.accept = accept /\ d.method = m
        /\ d.failed = q.failed /\ d.uris = q.uris /\ d.active = q.active
        /\ d.prepared = q.prepared /\ d.step = q.step
    BY <1>1, <2>1 DEF RequestRecords, Routed
  <2> HIDE DEF d
  <2>3. StageInv(d, out[r], called[r])
    <3>1. /\ d.stage \notin Unrouted /\ d.stage = "prepare"
          /\ d.media # "none" /\ (d.media = "sse" => d.accept \in SSEAccepts)
      BY <2>1, <2>2 DEF Unrouted
    <3>2. d.method # "none"
      BY <1>5, <2>2, NoneUnregistered DEF TransportInv, TransportTypeOK
    <3>3. \A i \in 1 .. Len(out[r]) : FALSE
      BY <1>2
    <3> QED
      BY <1>2, <3>1, <3>2, <3>3 DEF StageInv
  <2>4. q.active \in Seq(Extensions) /\ q.step = 0 /\ q.prepared = <<>>
    BY <1>1 DEF GateInv, Unrouted, RequestRecords
  <2>5. KeptTo(q.active, Preparing(m))[0] = <<>>
    BY <2>4, KeptRounds
  <2>6. Len(q.active) \in Nat
    BY <2>4
  <2>7. GateInv(d, called[r])
    BY <1>1, <1>2, <2>2, <2>4, <2>5, <2>6 DEF GateInv, Unrouted, Routed
  <2>8. RequestOK(d, out[r], called[r])
    BY <1>1, <2>2, <2>3, <2>7 DEF RequestOK
  <2> QED
    BY <1>5, <2>8, MoveStep DEF d
<1> QED
  BY <1>3, <1>4, <1>5 DEF Route

\* One more extension has prepared the context, or has refused the request.
LEMMA PrepareNextStep ==
  ASSUME TransportInv, NEW r \in Requests, PrepareNext(r) PROVE TransportInv'
<1> DEFINE q == req[r]
           e == q.active[q.step + 1]
<1>1. /\ q \in RequestRecords /\ out[r] \in Seq(Outputs) /\ called[r] \in Calls
      /\ StageInv(q, out[r], called[r]) /\ GateInv(q, called[r])
      /\ q.stage = "prepare" /\ q.step < Len(q.active)
  BY InOrder DEF RequestOK, PrepareNext
<1>2. called[r] = NotCalled /\ out[r] = <<>>
  BY <1>1 DEF StageInv, Ended
<1>3. /\ q.active \in Seq(Extensions) /\ q.step \in Nat /\ q.prepared \in Seq(Extensions)
      /\ q.prepared = KeptTo(q.active, Preparing(q.method))[q.step]
  BY <1>1 DEF GateInv, RequestRecords
<1>4. ASSUME NEW s \in Seq(Extensions), NEW n \in Nat, n < Len(s)
      PROVE  n \in 0 .. Len(s) - 1 /\ n + 1 \in 1 .. Len(s) /\ n + 1 <= Len(s) /\ s[n + 1] \in Extensions
  BY <1>4
<1>5. /\ q.step \in 0 .. Len(q.active) - 1 /\ q.step + 1 <= Len(q.active)
      /\ e \in Extensions
  BY <1>1, <1>3, <1>4
<1>6. CASE GoOn(r, IF KeepsContext(e, q.method)
                   THEN [q EXCEPT !.step = @ + 1, !.prepared = Append(@, e)]
                   ELSE [q EXCEPT !.step = @ + 1])
  <2>1. PICK p : p = IF KeepsContext(e, q.method) THEN Append(q.prepared, e) ELSE q.prepared
    OBVIOUS
  <2>2. KeptTo(q.active, Preparing(q.method))[q.step + 1] = p
    <3>1. KeptTo(q.active, Preparing(q.method))[q.step + 1] =
            Round(q.active, Preparing(q.method), KeptTo(q.active, Preparing(q.method))[q.step], q.step + 1)
      BY <1>3, <1>5, KeptRounds
    <3>2. KeepsContext(e, q.method) <=> e \in Preparing(q.method)
      BY <1>5 DEF Preparing
    <3> QED
      BY <1>3, <2>1, <3>1, <3>2, Zenon DEF Round
  <2>3. p \in Seq(Extensions)
    <3>1. ASSUME NEW s \in Seq(Extensions), NEW x \in Extensions PROVE Append(s, x) \in Seq(Extensions)
      OBVIOUS
    <3> QED
      BY <1>3, <1>5, <2>1, <3>1
  <2> HIDE DEF e
  <2>4. PICK d : d = [q EXCEPT !.step = @ + 1, !.prepared = p]
    OBVIOUS
  <2>5. d = IF KeepsContext(e, q.method)
            THEN [q EXCEPT !.step = @ + 1, !.prepared = Append(@, e)]
            ELSE [q EXCEPT !.step = @ + 1]
    BY <1>1, <2>1, <2>4 DEF RequestRecords
  <2>6. GoOn(r, d)
    BY <1>6, <2>5
  <2>7. /\ d \in RequestRecords /\ d.stage = "prepare" /\ d.media = q.media /\ d.accept = q.accept
        /\ d.method = q.method /\ d.failed = q.failed /\ d.uris = q.uris /\ d.active = q.active
        /\ d.prepared = p /\ d.step = q.step + 1
    <3>1. PICK n : n = q.step + 1 /\ n \in Nat
      BY <1>3
    <3>2. d = [q EXCEPT !.step = n, !.prepared = p]
      BY <1>1, <2>4, <3>1 DEF RequestRecords
    <3>3. /\ d \in RequestRecords /\ d.stage = q.stage /\ d.media = q.media /\ d.accept = q.accept
          /\ d.method = q.method /\ d.failed = q.failed /\ d.uris = q.uris /\ d.active = q.active
          /\ d.prepared = p /\ d.step = n
      BY <1>1, <2>3, <3>1, <3>2 DEF RequestRecords
    <3> QED
      BY <1>1, <3>1, <3>3
  <2>8. StageInv(d, out[r], called[r])
    BY <1>1, <2>7 DEF StageInv, Unrouted, Routed
  <2>9. GateInv(d, called[r])
    BY <1>1, <1>2, <1>5, <2>2, <2>7 DEF GateInv, Unrouted, Routed
  <2>10. RequestOK(d, out[r], called[r])
    BY <1>1, <2>7, <2>8, <2>9 DEF RequestOK
  <2> QED
    BY <2>6, <2>10, MoveStep
<1>7. CASE Reply(r, RPCError("profile error"))
  <2>1. RPCError("profile error") \in Answers
    BY DEF Answers, RPCError, Kinds, Codes
  <2> QED
    BY <1>1, <1>7, <2>1, ReplyStep DEF Open
<1> QED
  BY <1>6, <1>7 DEF PrepareNext

\* The service is called after the last hook, with the context of all of them.
LEMMA PreparedStep ==
  ASSUME TransportInv, NEW r \in Requests, Prepared(r) PROVE TransportInv'
<1> DEFINE q == req[r]
           d == [q EXCEPT !.stage = "handle"]
<1>1. /\ q \in RequestRecords /\ out[r] \in Seq(Outputs) /\ called[r] \in Calls
      /\ StageInv(q, out[r], called[r]) /\ GateInv(q, called[r])
      /\ q.stage = "prepare" /\ q.step = Len(q.active)
  BY InOrder DEF RequestOK, Prepared
<1>2. called[r] = NotCalled
  BY <1>1 DEF StageInv, Ended
<1>3. /\ d \in RequestRecords /\ d.stage = "handle" /\ d.media = q.media /\ d.accept = q.accept
      /\ d.method = q.method /\ d.failed = q.failed /\ d.uris = q.uris /\ d.active = q.active
      /\ d.prepared = q.prepared /\ d.step = q.step
  BY <1>1 DEF RequestRecords, Routed
<1>4. GoOn(r, d)
  BY DEF Prepared
<1> HIDE DEF d
<1>5. StageInv(d, out[r], called[r])
  BY <1>1, <1>3 DEF StageInv, Unrouted, Routed, Ended
<1>6. q.prepared = Kept(q.active, Preparing(q.method))
  BY <1>1 DEF GateInv, Kept
<1>7. GateInv(d, called[r])
  BY <1>1, <1>2, <1>3, <1>6 DEF GateInv, Unrouted, Routed
<1> QED
  BY <1>1, <1>3, <1>4, <1>5, <1>7, MoveStep DEF RequestOK

\* The service is called: with what the extensions in the header have prepared.
LEMMA HandleStep ==
  ASSUME TransportInv, NEW r \in Requests, NEW accepted, Handle(r, accepted) PROVE TransportInv'
<1> DEFINE q == req[r]
           d == [q EXCEPT !.stage = "service"]
           c == [active |-> q.active, prepared |-> q.prepared]
<1>1. /\ q \in RequestRecords /\ out[r] \in Seq(Outputs) /\ called[r] \in Calls
      /\ StageInv(q, out[r], called[r]) /\ GateInv(q, called[r])
      /\ q.stage = "handle"
  BY InOrder DEF RequestOK, Handle
<1>2. CASE \E a \in {RPCError("invalid params"), RPCError("service"), RPCError("content type"),
                     RPCError("method not found")} : Reply(r, a)
  <2>1. PICK code \in {"invalid params", "service", "content type", "method not found"} :
               Reply(r, RPCError(code))
    BY <1>2
  <2>2. RPCError(code) \in Answers
    BY DEF Answers, RPCError, Kinds, Codes
  <2> QED
    BY <1>1, <2>1, <2>2, ReplyStep DEF Open
<1>3. CASE /\ ExtensionActive(r)
           /\ called' = [called EXCEPT ![r] = c]
           /\ req' = [req EXCEPT ![r].stage = "service"]
           /\ UNCHANGED <<config, registry, out>>
  <2>1. q.active \in Seq(Extensions) /\ q.prepared \in Seq(Extensions)
    BY <1>1 DEF RequestRecords
  <2>2. c \in Calls /\ c # NotCalled /\ c.active = q.active /\ c.prepared = q.prepared
    BY <2>1, CallIsCall
  <2>3. Becomes(r, d, out[r], c)
    BY <1>3 DEF Becomes, TransportInv, TransportTypeOK
  <2>4. ASSUME NEW e \in RPCExtensions, q.method = e PROVE e \in Members(q.active)
    <3>1. e \in Extensions /\ e # NoExt
      BY NamesAssumption DEF RPCExtensions
    <3>2. registry[q.method].ext = e
      BY <2>4 DEF TransportInv, RegistryInv
    <3> QED
      BY <1>3, <3>1, <3>2 DEF ExtensionActive
  <2>5. /\ d \in RequestRecords /\ d.stage = "service" /\ d.media = q.media /\ d.accept = q.accept
        /\ d.method = q.method /\ d.failed = q.failed /\ d.uris = q.uris /\ d.active = q.active
        /\ d.prepared = q.prepared /\ d.step = q.step
    BY <1>1 DEF RequestRecords, Routed
  <2> HIDE DEF c, d
  <2>6. StageInv(d, out[r], c)
    BY <1>1, <2>2, <2>5 DEF StageInv, Unrouted, Routed
  <2>7. GateInv(d, c)
    BY <1>1, <2>2, <2>4, <2>5 DEF GateInv, Unrouted, Routed
  <2> QED
    BY <1>1, <2>2, <2>3, <2>5, <2>6, <2>7, OneRequest DEF RequestOK
<1>4. CASE NotEncoded(r)
  BY <1>1, <1>4, UnencodedStep DEF Open, Routed
<1> QED
  BY <1>2, <1>3, <1>4 DEF Handle

\* The service answers, or its answer cannot be streamed or encoded.
LEMMA ServiceAnswersStep ==
  ASSUME TransportInv, NEW r \in Requests,
         ServiceFails(r) \/ ServiceReturns(r) \/ StreamUnsupported(r)
  PROVE  TransportInv'
<1>1. req[r].stage = "service"
  BY DEF ServiceFails, ServiceReturns, StreamUnsupported
<1>2. Answer("result") \in Answers /\ RPCError("internal") \in Answers /\ RPCError("service") \in Answers
  BY DEF Answers, Answer, RPCError, Kinds, Codes
<1>3. \/ Reply(r, Answer("result")) \/ Reply(r, RPCError("internal")) \/ Reply(r, RPCError("service"))
      \/ NotEncoded(r)
  BY DEF ServiceFails, ServiceReturns, StreamUnsupported
<1>4. CASE NotEncoded(r)
  BY <1>1, <1>4, UnencodedStep DEF Open, Routed
<1> QED
  BY <1>1, <1>2, <1>3, <1>4, ReplyStep DEF Open

\* An event is written to the stream that is open.
LEMMA StreamEventStep ==
  ASSUME TransportInv, NEW r \in Requests, StreamEvent(r) PROVE TransportInv'
<1> DEFINE q == req[r]
           d == [q EXCEPT !.stage = "streaming"]
           o == out[r]
<1>1. /\ q \in RequestRecords /\ o \in Seq(Outputs) /\ called[r] \in Calls
      /\ StageInv(q, o, called[r]) /\ GateInv(q, called[r])
      /\ q.stage \in {"service", "streaming"} /\ q.media = "sse"
  BY InOrder DEF RequestOK, StreamEvent
<1>2. PICK a \in {Answer("event"), RPCError("internal")} : out' = [out EXCEPT ![r] = Written(r, a)]
  BY DEF StreamEvent
<1>3. Answer("event") \in Answers /\ RPCError("internal") \in Answers
  BY DEF Answers, Answer, RPCError, Kinds, Codes
<1>4. PICK w : w = [kind |-> a.kind, code |-> a.code, form |-> "sse"]
  OBVIOUS
<1>5. w \in Outputs /\ w.form = "sse"
  BY <1>3, <1>4 DEF Answers, Outputs
<1>6. PICK p : p = Append(o, w)
  OBVIOUS
<1>7. Becomes(r, d, p, called[r])
  BY <1>1, <1>2, <1>4, <1>6 DEF StreamEvent, Written, Becomes, TransportInv, TransportTypeOK
<1>8. ASSUME NEW s \in Seq(Outputs), NEW v \in Outputs
      PROVE  /\ Append(s, v) \in Seq(Outputs) /\ Len(Append(s, v)) = Len(s) + 1
             /\ Append(s, v)[Len(s) + 1] = v
             /\ \A i \in 1 .. Len(s) : Append(s, v)[i] = s[i]
             /\ Len(s) \in Nat /\ \A i \in 1 .. Len(s) + 1 : i \in 1 .. Len(s) \/ i = Len(s) + 1
  OBVIOUS
<1>9. /\ p \in Seq(Outputs) /\ Len(p) = Len(o) + 1 /\ p[Len(o) + 1] = w
      /\ \A i \in 1 .. Len(o) : p[i] = o[i]
      /\ \A i \in 1 .. Len(o) + 1 : i \in 1 .. Len(o) \/ i = Len(o) + 1
  BY <1>1, <1>5, <1>6, <1>8
<1>10. /\ d \in RequestRecords /\ d.stage = "streaming" /\ d.media = "sse" /\ d.accept = q.accept
       /\ d.method = q.method /\ d.failed = q.failed /\ d.uris = q.uris /\ d.active = q.active
       /\ d.prepared = q.prepared /\ d.step = q.step
  BY <1>1 DEF RequestRecords, Routed
<1> HIDE DEF d, o
<1>11. \A i \in 1 .. Len(p) : p[i].form = "sse"
  BY <1>1, <1>5, <1>9 DEF StageInv
<1>12. StageInv(d, p, called[r])
  BY <1>1, <1>10, <1>11 DEF StageInv, Unrouted, Routed
<1>13. GateInv(d, called[r])
  BY <1>1, <1>10 DEF GateInv, Unrouted, Routed
<1> QED
  BY <1>1, <1>7, <1>9, <1>10, <1>12, <1>13, OneRequest DEF RequestOK

\* A stream ends with the events it has.
LEMMA StreamEndsStep ==
  ASSUME TransportInv, NEW r \in Requests, StreamEnds(r) PROVE TransportInv'
<1> DEFINE q == req[r]
           d == [q EXCEPT !.stage = "done"]
<1>1. /\ q \in RequestRecords /\ out[r] \in Seq(Outputs) /\ called[r] \in Calls
      /\ StageInv(q, out[r], called[r]) /\ GateInv(q, called[r])
      /\ q.stage \in {"service", "streaming"} /\ q.media = "sse"
  BY InOrder DEF RequestOK, StreamEnds
<1>2. GoOn(r, d)
  BY DEF StreamEnds
<1>3. /\ d \in RequestRecords /\ d.stage = "done" /\ d.media = "sse" /\ d.accept = q.accept
      /\ d.method = q.method /\ d.failed = q.failed /\ d.uris = q.uris /\ d.active = q.active
      /\ d.prepared = q.prepared /\ d.step = q.step
  BY <1>1 DEF RequestRecords, Ended
<1> HIDE DEF d
<1>4. StageInv(d, out[r], called[r])
  BY <1>1, <1>3 DEF StageInv, Unrouted, Routed, Ended
<1>5. GateInv(d, called[r])
  BY <1>1, <1>3 DEF GateInv, Unrouted, Routed
<1> QED
  BY <1>1, <1>2, <1>3, <1>4, <1>5, MoveStep DEF RequestOK

\* A call from Go gets the context of the extensions it names.
LEMMA WrappedCallStep ==
  ASSUME TransportInv, NEW r \in Requests, NEW uris \in Headers, WrappedCall(r, uris)
  PROVE  TransportInv'
<1> DEFINE q == req[r]
           d == [q EXCEPT !.stage = "wrapped", !.uris = uris]
           k == Kept(uris, Extensions)
           c == [active |-> k, prepared |-> <<>>]
<1>1. /\ q \in RequestRecords /\ out[r] \in Seq(Outputs) /\ called[r] \in Calls
      /\ StageInv(q, out[r], called[r]) /\ GateInv(q, called[r]) /\ q.stage = "arrive"
  BY InOrder DEF RequestOK, WrappedCall
<1>2. CASE RequiredActivated(uris)
  <2>1. uris \in Seq(URIs) /\ k \in Seq(Extensions) /\ <<>> \in Seq(Extensions)
    BY HeaderType, Activated
  <2> HIDE DEF k
  <2>2. c \in Calls /\ c # NotCalled /\ c.active = k /\ c.prepared = <<>>
    BY <2>1, CallIsCall
  <2>3. Becomes(r, d, out[r], c)
    BY <1>2 DEF WrappedCall, ResolveActiveExtensions, Becomes, TransportInv, TransportTypeOK, k
  <2>4. /\ d \in RequestRecords /\ d.stage = "wrapped" /\ d.media = q.media /\ d.accept = q.accept
        /\ d.method = q.method /\ d.failed = q.failed /\ d.uris = uris /\ d.active = q.active
        /\ d.prepared = q.prepared /\ d.step = q.step
    BY <1>1, <2>1 DEF RequestRecords, Unrouted
  <2>5. \A e \in RPCExtensions : q.method # e
    BY <1>1, NamesAssumption DEF RPCExtensions, StageInv, Unrouted
  <2> HIDE DEF c, d
  <2>6. StageInv(d, out[r], c)
    BY <1>1, <2>2, <2>4 DEF StageInv, Unrouted, Routed
  <2>7. GateInv(d, c)
    BY <1>1, <1>2, <2>2, <2>4, <2>5 DEF GateInv, Unrouted, Routed, k
  <2> QED
    BY <1>1, <2>2, <2>3, <2>4, <2>6, <2>7, OneRequest DEF RequestOK
<1>3. CASE ~RequiredActivated(uris)
  <2>1. RPCError("validation") \in Answers
    BY DEF Answers, RPCError, Kinds, Codes
  <2>2. Reply(r, RPCError("validation"))
    BY <1>3 DEF WrappedCall
  <2> QED
    BY <1>1, <2>1, <2>2, ReplyStep DEF Open
<1> QED
  BY <1>2, <1>3

\* A registration takes a free name: what the RPC extensions have registered stays.
LEMMA RegisterStep ==
  ASSUME TransportInv, NEW m \in Methods, RegisterMethod(m) PROVE TransportInv'
<1> DEFINE D == DOMAIN registry \cup {m}
           f == [n \in D |-> IF n = m THEN [media |-> "json", ext |-> NoExt] ELSE registry[n]]
<1>1. registry' = f /\ m \notin DOMAIN registry /\ UNCHANGED <<config, req, out, called>>
  BY DEF RegisterMethod
<1>2. DOMAIN f = D /\ D \subseteq RegisteredNames
  BY DEF TransportInv, TransportTypeOK, RegisteredNames
<1>3. f \in [D -> [media : {"json", "sse"}, ext : Extensions \cup {NoExt}]]
  BY DEF TransportInv, TransportTypeOK
<1>4. \A n \in DOMAIN registry : n \in D /\ n # m /\ f[n] = registry[n]
  BY <1>1
<1> HIDE DEF f, D
<1>5. TransportTypeOK'
  BY <1>1, <1>2, <1>3 DEF TransportInv, TransportTypeOK
<1>6. RegistryInv'
  BY <1>1, <1>2, <1>4 DEF TransportInv, RegistryInv
<1>7. ASSUME NEW x \in Requests PROVE StageInv(req[x], out[x], called[x])' /\ GateInv(req[x], called[x])'
  BY <1>1, Zenon DEF TransportInv, StageInv, GateInv, RequiredActivated
<1> QED
  BY <1>5, <1>6, <1>7 DEF TransportInv

-----------------------------------------------------------------------------
(* The handler. *)

\* A step of the handler for request r, whatever method and header it carries.
HandlerStep(r) ==
  \/ \E uris \in Headers : WrappedCall(r, uris)
  \/ ServeHTTP(r) \/ Authenticate(r) \/ Parse(r) \/ ActivateExtensions(r)
  \/ \E m : \E accept \in Accepts : Route(r, m, accept)
  \/ PrepareNext(r) \/ Prepared(r)
  \/ \E accepted : Handle(r, accepted)
  \/ ServiceFails(r) \/ ServiceReturns(r)
  \/ StreamUnsupported(r) \/ StreamEvent(r) \/ StreamEnds(r)

\* Every stage of the handler keeps the invariant.
LEMMA HandlerKeeps ==
  ASSUME TransportInv, NEW r \in Requests, HandlerStep(r) PROVE TransportInv'
<1>1. CASE \E uris \in Headers : WrappedCall(r, uris)
  BY <1>1, WrappedCallStep
<1>2. CASE ServeHTTP(r)
  BY <1>2, ServeHTTPStep
<1>3. CASE Authenticate(r)
  BY <1>3, AuthenticateStep
<1>4. CASE Parse(r)
  BY <1>4, ParseStep
<1>5. CASE ActivateExtensions(r)
  BY <1>5, ActivateStep
<1>6. CASE \E m : \E accept \in Accepts : Route(r, m, accept)
  BY <1>6, RouteStep
<1>7. CASE PrepareNext(r)
  BY <1>7, PrepareNextStep
<1>8. CASE Prepared(r)
  BY <1>8, PreparedStep
<1>9. CASE \E accepted : Handle(r, accepted)
  BY <1>9, HandleStep
<1>10. CASE ServiceFails(r) \/ ServiceReturns(r) \/ StreamUnsupported(r)
  BY <1>10, ServiceAnswersStep
<1>11. CASE StreamEvent(r)
  BY <1>11, StreamEventStep
<1>12. CASE StreamEnds(r)
  BY <1>12, StreamEndsStep
<1> QED
  BY <1>1, <1>2, <1>3, <1>4, <1>5, <1>6, <1>7, <1>8, <1>9, <1>10, <1>11, <1>12
     DEF HandlerStep

\* A handler starts in a state of the invariant.
LEMMA TransportStarts == TransportInit => TransportInv
<1> SUFFICES ASSUME TransportInit PROVE TransportInv
  OBVIOUS
<1>1. <<>> \in Seq(URIs) /\ <<>> \in Seq(Extensions) /\ <<>> \in Seq(Outputs) /\ Len(<<>>) = 0
  OBVIOUS
<1>2. Fresh \in RequestRecords
  BY <1>1 DEF Fresh, RequestRecords, Unrouted, MethodNames, RegisteredNames
<1>3. NotCalled \in Calls
  <2>1. <<"not called">> \in Seq(Extensions \cup {"not called"})
    OBVIOUS
  <2> QED
    BY <1>1, <2>1 DEF NotCalled, Calls
<1>4. Kept(<<>>, Extensions) = <<>>
  BY <1>1, KeptRounds DEF Kept
<1>5. StageInv(Fresh, <<>>, NotCalled)
  BY <1>1 DEF StageInv, Fresh, Unrouted, Routed
<1>6. GateInv(Fresh, NotCalled)
  BY <1>4 DEF GateInv, Fresh, Unrouted, Routed
<1> DEFINE D == JSONMethods \cup StreamMethods \cup {MethodName(e) : e \in RPCExtensions}
<1>7. D \subseteq RegisteredNames
  BY DEF RegisteredNames, MethodName
<1>8. ASSUME NEW m \in D
      PROVE  /\ InitRegistry[m].media \in {"json", "sse"}
             /\ InitRegistry[m] = [media |-> InitRegistry[m].media, ext |-> InitRegistry[m].ext]
             /\ InitRegistry[m].ext =
                  IF m \in JSONMethods \cup StreamMethods THEN NoExt
                  ELSE CHOOSE e \in RPCExtensions : MethodName(e) = m
  BY DEF InitRegistry
<1>9. ASSUME NEW e \in RPCExtensions
      PROVE  e \in D /\ e \in Extensions /\ InitRegistry[e].ext = e
  <2>1. e \in D /\ e \in Extensions
    BY DEF MethodName, RPCExtensions
  <2>2. e \notin JSONMethods \cup StreamMethods
    BY <2>1, NamesAssumption
  <2>3. (CHOOSE x \in RPCExtensions : MethodName(x) = e) = e
    BY DEF MethodName
  <2> HIDE DEF D
  <2> QED
    BY <1>8, <2>1, <2>2, <2>3
<1>10. ASSUME NEW m \in D PROVE InitRegistry[m].ext \in Extensions \cup {NoExt}
  <2>1. CASE m \in JSONMethods \cup StreamMethods
    BY <1>8, <2>1
  <2>2. CASE m \in RPCExtensions
    BY <1>9, <2>2
  <2> QED
    BY <2>1, <2>2 DEF MethodName
<1>11. InitRegistry \in [D -> [media : {"json", "sse"}, ext : Extensions \cup {NoExt}]]
  <2>1. InitRegistry = [m \in D |-> InitRegistry[m]]
    BY DEF InitRegistry
  <2>2. ASSUME NEW m \in D
        PROVE  InitRegistry[m] \in [media : {"json", "sse"}, ext : Extensions \cup {NoExt}]
    <3>1. PICK a, b : a = InitRegistry[m].media /\ b = InitRegistry[m].ext
      OBVIOUS
    <3>2. InitRegistry[m] = [media |-> a, ext |-> b]
      BY <1>8, <3>1, Zenon
    <3>3. a \in {"json", "sse"} /\ b \in Extensions \cup {NoExt}
      BY <1>8, <1>10, <3>1
    <3> QED
      BY <3>2, <3>3
  <2> HIDE DEF D
  <2> QED
    BY <2>1, <2>2
<1>12. DOMAIN InitRegistry = D
  BY DEF InitRegistry
<1> HIDE DEF D
<1>13. TransportTypeOK
  BY <1>1, <1>2, <1>3, <1>7, <1>11, <1>12 DEF TransportInit, TransportTypeOK
<1>14. RegistryInv
  BY <1>9, <1>12 DEF TransportInit, RegistryInv
<1> QED
  BY <1>5, <1>6, <1>13, <1>14 DEF TransportInit, TransportInv

\* The inductive invariant of the handler.
THEOREM TransportInvariant == TransportSpec => []TransportInv
<1>1. TransportInv /\ [TransportNext]_transportVars => TransportInv'
  <2> SUFFICES ASSUME TransportInv, [TransportNext]_transportVars PROVE TransportInv'
    OBVIOUS
  <2>1. CASE \E r \in Requests : RequestStep(r)
    <3>1. PICK r \in Requests : RequestStep(r)
      BY <2>1
    <3>2. HandlerStep(r)
      BY <3>1, Zenon DEF RequestStep, HandlerStep
    <3> QED
      BY <3>2, HandlerKeeps
  <2>2. CASE \E m \in Methods : RegisterMethod(m)
    BY <2>2, RegisterStep
  <2>3. CASE UNCHANGED transportVars
    BY <2>3, Zenon DEF transportVars, TransportInv, TransportTypeOK, RegistryInv, StageInv, GateInv,
         RequiredActivated
  <2> QED
    BY <2>1, <2>2, <2>3 DEF TransportNext
<1> QED
  BY <1>1, TransportStarts, PTL DEF TransportSpec

\* In a state of the invariant every request has at most one answer, or a stream of events.
LEMMA OneAnswer == TransportInv => AnsweredOnce
<1> SUFFICES ASSUME TransportInv, NEW r \in Requests
             PROVE  /\ req[r].media # "sse" => Len(out[r]) = (IF req[r].stage = "done" THEN 1 ELSE 0)
                    /\ req[r].stage = "unencoded" => req[r].method # "none" /\ out[r] = <<>>
                    /\ called[r] = NotCalled /\ out[r] # <<>> => Len(out[r]) = 1 /\ req[r].stage = "done"
                    /\ \A i \in 1 .. Len(out[r]) :
                         /\ out[r][i].form = "sse" => req[r].accept \in {"text/event-stream", "text/*", "*/*"}
                         /\ req[r].media # "none" => out[r][i].form = req[r].media
  BY DEF AnsweredOnce
<1>1. /\ req[r] \in RequestRecords /\ out[r] \in Seq(Outputs)
      /\ StageInv(req[r], out[r], called[r])
  BY InOrder DEF RequestOK
<1>2. req[r].stage \in Unrouted \cup Routed \cup Ended /\ Len(<<>>) = 0
  BY <1>1 DEF RequestRecords
<1> QED
  BY <1>1, <1>2 DEF StageInv, SSEAccepts, Unrouted, Routed, Ended

\* In a state of the invariant what the service was called with has passed every gate.
LEMMA Admitted == TransportInv => CalledOnlyIfAdmitted
<1> SUFFICES ASSUME TransportInv, NEW r \in Requests, called[r] # NotCalled,
                    NEW unhooked, unhooked = {u \in Extensions : req[r].method \notin Hooks[u]}
             PROVE  /\ req[r].failed = {}
                    /\ config.required \subseteq Members(called[r].active)
                    /\ \A e \in RPCExtensions : req[r].method = MethodName(e) => e \in Members(called[r].active)
                    /\ called[r].active = Kept(req[r].uris, Extensions)
                    /\ Kept(called[r].prepared, unhooked) =
                         Kept(req[r].uris, {u \in unhooked : ExtKind[u] = "profile" /\ req[r].stage # "wrapped"})
  BY DEF CalledOnlyIfAdmitted
<1> DEFINE E == Kept(req[r].uris, Extensions)
           P == Preparing(req[r].method)
           T == {u \in unhooked : ExtKind[u] = "profile" /\ req[r].stage # "wrapped"}
<1>1. req[r] \in RequestRecords /\ GateInv(req[r], called[r])
  BY InOrder DEF RequestOK
<1>2. req[r].uris \in Seq(URIs)
  BY <1>1 DEF RequestRecords
<1>3. /\ req[r].failed = {} /\ RequiredActivated(req[r].uris)
      /\ \A e \in RPCExtensions : req[r].method = e => e \in Members(called[r].active)
      /\ called[r].active = E
      /\ called[r].prepared = IF req[r].stage = "wrapped" THEN <<>> ELSE Kept(E, P)
  BY <1>1 DEF GateInv
<1>4. config.required \subseteq Members(called[r].active)
  <2>1. config.required \subseteq Extensions
    BY TransportAssumption DEF TransportInv, TransportTypeOK
  <2> QED
    BY <1>2, <1>3, <2>1, Activated DEF RequiredActivated
<1>5. Kept(called[r].prepared, unhooked) = Kept(req[r].uris, T)
  <2>1. CASE req[r].stage = "wrapped"
    <3>1. T = {}
      BY <2>1
    <3>2. Kept(req[r].uris, {}) \in Seq(URIs \cap {})
      BY <1>2, KeptAll DEF KeptFrom
    <3>3. ASSUME NEW s \in Seq(URIs \cap {}) PROVE s = <<>>
      OBVIOUS
    <3>4. <<>> \in Seq(Extensions)
      OBVIOUS
    <3>5. Kept(<<>>, unhooked) = <<>>
      <4>1. KeptTo(<<>>, unhooked)[0] = <<>> /\ Len(<<>>) = 0
        BY <3>4, KeptRounds
      <4> QED
        BY <4>1 DEF Kept
    <3> HIDE DEF T
    <3> QED
      BY <1>3, <2>1, <3>1, <3>2, <3>3, <3>5
  <2>2. CASE req[r].stage # "wrapped"
    <3>1. T = (Extensions \cap P) \cap unhooked
      BY <2>2 DEF Preparing, KeepsContext
    <3>2. E \in Seq(Extensions)
      BY <1>2, Activated
    <3>3. Kept(Kept(E, P), unhooked) = Kept(E, P \cap unhooked)
      <4> HIDE DEF E, P
      <4> QED
        BY <3>2, KeptTwice
    <3>4. E = Kept(req[r].uris, Extensions)
      OBVIOUS
    <3>5. Kept(E, P \cap unhooked) = Kept(req[r].uris, Extensions \cap (P \cap unhooked))
      <4> HIDE DEF E, P
      <4> QED
        BY <1>2, <3>4, KeptTwice
    <3>6. Extensions \cap (P \cap unhooked) = (Extensions \cap P) \cap unhooked
      <4> HIDE DEF P
      <4> QED
        OBVIOUS
    <3> HIDE DEF T, E, P
    <3> QED
      BY <1>3, <2>2, <3>1, <3>3, <3>5, <3>6
  <2> QED
    BY <2>1, <2>2
<1> QED
  BY <1>3, <1>4, <1>5 DEF MethodName

(***************************************************************************)
(* However the stages refuse, answer and stream, a client gets one answer  *)
(* in the form it accepts, unless the program gave what cannot be encoded  *)
(* (ServeHTTP and what it calls).                                          *)
(***************************************************************************)
THEOREM AnswersOnce == TransportSpec => []AnsweredOnce
BY TransportInvariant, OneAnswer, PTL

(***************************************************************************)
(* Every call of the service has passed every gate and carries exactly the *)
(* extensions of its header, in their order, with the context that those   *)
(* without a hook have prepared, whatever their number.                    *)
(***************************************************************************)
THEOREM CallsAreAdmitted == TransportSpec => []CalledOnlyIfAdmitted
BY TransportInvariant, Admitted, PTL

-----------------------------------------------------------------------------
(* The remote agent: steps of the server it calls. *)

Others(r) ==
  \A x \in Requests \ {r} : req'[x] = req[x] /\ out'[x] = out[x] /\ called'[x] = called[x]

\* A step of the server for r that gives no result.
NoResult(r) ==
  /\ Others(r) /\ req[r].stage \notin Ended
  /\ \A i \in 1 .. Len(out'[r]) : out'[r][i].kind # "result"
  /\ out'[r] \in Seq(Outputs)

\* An error is no result.
LEMMA ErrorIsNoResult ==
  ASSUME TransportInv, NEW r \in Requests, req[r].stage \in Open, NEW code \in Codes,
         Reply(r, RPCError(code))
  PROVE  NoResult(r)
<1>1. out[r] = <<>> /\ req[r].stage \notin Ended
  BY InOrder DEF RequestOK, StageInv, Open, Ended
<1>2. Others(r)
  BY DEF Reply, Others, TransportInv, TransportTypeOK
<1>3. PICK w : w = [kind |-> "error", code |-> code,
                    form |-> IF req[r].media = "sse" THEN "sse" ELSE "json"]
  OBVIOUS
<1>4. w \in Outputs /\ w.kind # "result"
  BY <1>3 DEF Outputs, Kinds
<1>5. out'[r] = Append(<<>>, w)
  BY <1>1, <1>3 DEF Reply, Written, RPCError, TransportInv, TransportTypeOK
<1>6. PICK p : p = Append(<<>>, w)
  OBVIOUS
<1>7. p \in Seq(Outputs) /\ \A i \in 1 .. Len(p) : p[i] = w
  BY <1>4, <1>6
<1> QED
  BY <1>1, <1>2, <1>4, <1>5, <1>6, <1>7 DEF NoResult

\* A step that writes nothing gives no result.
LEMMA MoveIsNoResult ==
  ASSUME TransportInv, NEW r \in Requests, req[r].stage \in Open, UNCHANGED out,
         NEW q, req' = [req EXCEPT ![r] = q],
         NEW c, called' = [called EXCEPT ![r] = c]
  PROVE  NoResult(r)
<1>1. out[r] = <<>> /\ req[r].stage \notin Ended /\ Len(<<>>) = 0
  BY InOrder DEF RequestOK, StageInv, Open, Ended
<1>2. Others(r)
  BY DEF Others, TransportInv, TransportTypeOK
<1>3. out'[r] = <<>> /\ <<>> \in Seq(Outputs)
  BY <1>1
<1> QED
  BY <1>1, <1>2, <1>3 DEF NoResult

\* What cannot be encoded gives no result.
LEMMA UnencodedIsNoResult ==
  ASSUME TransportInv, NEW r \in Requests, req[r].stage \in Open, NotEncoded(r)
  PROVE  NoResult(r)
<1>1. /\ req' = [req EXCEPT ![r] = [req[r] EXCEPT !.stage = "unencoded"]]
      /\ called' = [called EXCEPT ![r] = called[r]] /\ UNCHANGED out
  BY DEF NotEncoded, TransportInv, TransportTypeOK
<1> QED
  BY <1>1, MoveIsNoResult

\* A stage that goes on gives no result.
LEMMA StayIsNoResult ==
  ASSUME TransportInv, NEW r \in Requests, req[r].stage \in Open, NEW q, GoOn(r, q)
  PROVE  NoResult(r)
<1>1. called' = [called EXCEPT ![r] = called[r]]
  BY DEF GoOn, TransportInv, TransportTypeOK
<1> QED
  BY <1>1, MoveIsNoResult DEF GoOn

\* What the server does for the client, but for the answer, gives no result.
LEMMA RemoteStageIsNoResult ==
  ASSUME TransportInv, NEW r \in Requests, RemoteStage(r)
  PROVE  NoResult(r) /\ HandlerStep(r)
<1>1. CASE Authenticate(r)
  <2>1. PICK failed \in SUBSET Members(Checks) :
          IF FirstFailed(failed) = "admitted"
          THEN GoOn(r, [req[r] EXCEPT !.stage = "parse", !.failed = failed])
          ELSE Reply(r, RPCError(FirstFailed(failed)))
    BY <1>1 DEF Authenticate
  <2>2. FirstFailed(failed) \in CheckNames \cup {"admitted"}
    BY AdmittedPassesAll DEF TransportInv, TransportTypeOK
  <2>3. req[r].stage \in Open
    BY <1>1 DEF Authenticate, Open
  <2>4. CASE FirstFailed(failed) = "admitted"
    BY <1>1, <2>1, <2>3, <2>4, StayIsNoResult DEF HandlerStep
  <2>5. CASE FirstFailed(failed) # "admitted"
    <3>1. FirstFailed(failed) \in Codes
      BY <2>2, <2>5 DEF Codes
    <3> QED
      BY <1>1, <2>1, <2>3, <2>5, <3>1, ErrorIsNoResult DEF HandlerStep
  <2> QED
    BY <2>4, <2>5
<1>2. CASE req[r].stage = "parse" /\ GoOn(r, [req[r] EXCEPT !.stage = "extensions"])
  BY <1>2, StayIsNoResult DEF Open, HandlerStep, Parse
<1>3. CASE ActivateExtensions(r)
  <2>1. PICK uris \in Headers :
          IF RequiredActivated(uris)
          THEN GoOn(r, [req[r] EXCEPT !.stage = "route", !.uris = uris,
                                      !.active = ResolveActiveExtensions(uris)])
          ELSE Reply(r, RPCError("invalid request"))
    BY <1>3 DEF ActivateExtensions
  <2>2. req[r].stage \in Open /\ "invalid request" \in Codes
    BY <1>3 DEF ActivateExtensions, Open, Codes
  <2> QED
    BY <1>3, <2>1, <2>2, StayIsNoResult, ErrorIsNoResult DEF HandlerStep
<1>4. CASE Route(r, owner[r].method, "application/json")
  <2> DEFINE m == owner[r].method
  <2>1. req[r].stage = "route" /\ "method not found" \in Codes /\ "application/json" \in Accepts
    BY <1>4 DEF Route, Codes, Accepts
  <2>2. HandlerStep(r)
    BY <1>4, <2>1 DEF HandlerStep
  <2>3. CASE /\ out' = [out EXCEPT ![r] = <<[kind |-> "error", code |-> "method not found",
                          form |-> IF AcceptsSSE("application/json", FALSE) THEN "sse" ELSE "json"]>>]
             /\ req' = [req EXCEPT ![r].stage = "done", ![r].accept = "application/json"]
             /\ UNCHANGED <<config, registry, called>>
    <3>1. PICK w : w = [kind |-> "error", code |-> "method not found",
                        form |-> IF AcceptsSSE("application/json", FALSE) THEN "sse" ELSE "json"]
      OBVIOUS
    <3>2. w \in Outputs /\ w.kind # "result"
      BY <3>1 DEF Outputs, Kinds, Codes
    <3>3. PICK p : p = <<w>>
      OBVIOUS
    <3>4. p \in Seq(Outputs) /\ \A i \in 1 .. Len(p) : p[i] = w
      BY <3>2, <3>3
    <3>5. out'[r] = p /\ Others(r)
      BY <2>3, <3>1, <3>3 DEF Others, TransportInv, TransportTypeOK
    <3> QED
      BY <2>1, <2>2, <3>2, <3>4, <3>5 DEF NoResult, Ended
  <2>4. CASE Reply(r, RPCError("method not found"))
    BY <2>1, <2>2, <2>4, ErrorIsNoResult DEF Open
  <2>5. CASE GoOn(r, [req[r] EXCEPT !.stage = "prepare", !.method = m, !.accept = "application/json",
                                    !.media = registry[m].media])
    BY <2>1, <2>2, <2>5, StayIsNoResult DEF Open
  <2> QED
    BY <1>4, <2>3, <2>4, <2>5 DEF Route
<1>5. CASE Prepared(r)
  BY <1>5, StayIsNoResult DEF Open, HandlerStep, Prepared
<1>6. CASE Handle(r, {})
  <2>1. /\ req[r].stage \in Open
        /\ {"invalid params", "service", "content type", "method not found"} \subseteq Codes
    BY <1>6 DEF Handle, Open, Codes
  <2>2. HandlerStep(r)
    BY <1>6 DEF HandlerStep
  <2>3. CASE \E code \in {"invalid params", "service", "content type", "method not found"} :
               Reply(r, RPCError(code))
    BY <2>1, <2>2, <2>3, ErrorIsNoResult
  <2>4. CASE /\ called' = [called EXCEPT ![r] = [active |-> req[r].active, prepared |-> req[r].prepared]]
             /\ req' = [req EXCEPT ![r].stage = "service"]
             /\ UNCHANGED out
    <3>1. req' = [req EXCEPT ![r] = [req[r] EXCEPT !.stage = "service"]]
      BY <2>4 DEF TransportInv, TransportTypeOK
    <3> QED
      BY <2>1, <2>2, <2>4, <3>1, MoveIsNoResult
  <2>5. CASE NotEncoded(r)
    BY <2>1, <2>2, <2>5, UnencodedIsNoResult
  <2> QED
    BY <1>6, <2>3, <2>4, <2>5 DEF Handle
<1>7. CASE ServiceFails(r)
  <2>1. req[r].stage \in Open /\ {"service", "internal"} \subseteq Codes /\ HandlerStep(r)
    BY <1>7 DEF ServiceFails, Open, Codes, HandlerStep
  <2>2. CASE \E code \in {"service", "internal"} : Reply(r, RPCError(code))
    BY <2>1, <2>2, ErrorIsNoResult
  <2>3. CASE NotEncoded(r)
    BY <2>1, <2>3, UnencodedIsNoResult
  <2> QED
    BY <1>7, <2>1, <2>2, <2>3 DEF ServiceFails
<1> QED
  BY <1>1, <1>2, <1>3, <1>4, <1>5, <1>6, <1>7 DEF RemoteStage

\* The Accept header is that of the client.
LEMMA ClientAccepts ==
  ASSUME TransportInv, NEW r \in Requests, RemoteStage(r) \/ ServiceReturns(r)
  PROVE  req'[r].accept \in {req[r].accept, "application/json"}
<1>1. req \in [Requests -> RequestRecords]
  BY DEF TransportInv, TransportTypeOK
<1>2. ASSUME NEW a, Reply(r, a) PROVE req'[r].accept = req[r].accept
  BY <1>1, <1>2 DEF Reply, AfterReply, RequestRecords
<1>3. ASSUME NEW q, GoOn(r, q) PROVE req'[r] = q
  BY <1>1, <1>3 DEF GoOn
<1>11. ASSUME NotEncoded(r) PROVE req'[r].accept = req[r].accept
  BY <1>1, <1>11 DEF NotEncoded, RequestRecords
<1>4. CASE Authenticate(r)
  BY <1>1, <1>2, <1>3, <1>4 DEF Authenticate, RequestRecords
<1>5. CASE req[r].stage = "parse" /\ GoOn(r, [req[r] EXCEPT !.stage = "extensions"])
  BY <1>1, <1>3, <1>5 DEF RequestRecords
<1>6. CASE ActivateExtensions(r)
  BY <1>1, <1>2, <1>3, <1>6 DEF ActivateExtensions, RequestRecords
<1>7. CASE Route(r, owner[r].method, "application/json")
  BY <1>1, <1>2, <1>3, <1>7 DEF Route, RequestRecords
<1>8. CASE Prepared(r)
  BY <1>1, <1>3, <1>8 DEF Prepared, RequestRecords
<1>9. CASE Handle(r, {})
  <2>1. CASE \E a : Reply(r, a)
    BY <1>2, <2>1
  <2>2. CASE req' = [req EXCEPT ![r].stage = "service"]
    BY <1>1, <2>2 DEF RequestRecords
  <2> QED
    BY <1>9, <1>11, <2>1, <2>2 DEF Handle
<1>10. CASE ServiceFails(r) \/ ServiceReturns(r)
  BY <1>2, <1>10, <1>11 DEF ServiceFails, ServiceReturns
<1> QED
  BY <1>4, <1>5, <1>6, <1>7, <1>8, <1>9, <1>10 DEF RemoteStage

-----------------------------------------------------------------------------
(* The remote agent: its own steps. *)

\* What an unchanged server leaves as it was.
LEMMA ServerUntouched ==
  ASSUME TransportInv, UNCHANGED transportVars
  PROVE  TransportInv' /\ UNCHANGED <<req, out, called>>
<1>1. UNCHANGED <<config, registry, req, out, called>>
  BY DEF transportVars
<1> QED
  BY <1>1, Zenon DEF TransportInv, TransportTypeOK, RegistryInv, StageInv, GateInv, RequiredActivated

\* Appending keeps what a sequence has at the places it had.
LEMMA AppendKeeps ==
  ASSUME NEW S, NEW s \in Seq(S), NEW e \in S
  PROVE  /\ Append(s, e) \in Seq(S) /\ Append(s, e) # <<>>
         /\ \A i \in 1 .. Len(s) : i \in 1 .. Len(Append(s, e)) /\ Append(s, e)[i] = s[i]
  OBVIOUS

\* A new message of the local task touches no request.
LEMMA AddMessageStep ==
  ASSUME TransportInv, RemoteInv, NEW role \in {"user", "agent"}, AddMessage(role)
  PROVE  TransportInv' /\ RemoteInv'
<1>1. UNCHANGED <<transportVars, req, out, called, run, owner, served, seen>>
  BY DEF AddMessage, transportVars
<1>2. TransportInv'
  BY <1>1, ServerUntouched
<1>3. PICK h : h = history'
  OBVIOUS
<1>4. /\ h \in Seq({"user", "agent"}) /\ h # <<>>
      /\ \A i \in 1 .. Len(history) : i \in 1 .. Len(h) /\ h[i] = history[i]
  <2>1. history \in Seq({"user", "agent"})
    BY DEF RemoteInv, RemoteTypeOK
  <2>2. h = Append(history, role)
    BY <1>3 DEF AddMessage
  <2> QED
    BY <2>1, <2>2, AppendKeeps
<1>5. RemoteTypeOK'
  BY <1>1, <1>3, <1>4 DEF RemoteInv, RemoteTypeOK
<1>6. RunInv'
  BY <1>1, Zenon DEF RemoteInv, RunInv
<1>7. ASSUME NEW x \in Requests PROVE ServedInv(x)'
  <2>1. ServedInv(x)
    BY DEF RemoteInv
  <2>2. owner[x].method = "send" => owner[x].index \in 1 .. Len(h) /\ h[owner[x].index] = history[owner[x].index]
    BY <1>4, <2>1 DEF ServedInv
  <2> QED
    BY <1>1, <1>3, <2>1, <2>2, Zenon DEF ServedInv
<1> QED
  BY <1>2, <1>5, <1>6, <1>7 DEF RemoteInv

\* The message that is forwarded is in the history.
LEMMA ForwardedIsThere == RemoteInv => ForwardedMessage \in 1 .. Len(history)
<1> SUFFICES ASSUME RemoteInv PROVE ForwardedMessage \in 1 .. Len(history)
  OBVIOUS
<1>1. Len(history) \in Nat /\ Len(history) >= 1 /\ Window \in Nat \ {0}
  BY RemoteAssumption DEF RemoteInv, RemoteTypeOK
<1> QED
  BY <1>1 DEF ForwardedMessage

\* A request is sent: by Execute with a message of the history, or by another client method.
LEMMA SentStep ==
  ASSUME TransportInv, RemoteInv, NEW r \in Requests,
         NEW method \in {"send", "get", "cancel"}, NEW index \in Nat,
         method = "send" => index \in 1 .. Len(history),
         Sent(r, method, index), UNCHANGED <<history, served, seen>>,
         run.phase = "idle",
         \/ UNCHANGED run
         \/ run' = [phase |-> "sent", request |-> r, reply |-> "none"] /\ method = "send"
  PROVE  TransportInv' /\ RemoteInv'
<1> DEFINE own == [method |-> method, index |-> index]
<1>1. /\ req[r].stage = "arrive" /\ owner[r] = NoOwner /\ owner' = [owner EXCEPT ![r] = own]
      /\ GoOn(r, [req[r] EXCEPT !.stage = "auth"])
  BY DEF Sent
<1>2. HandlerStep(r) /\ NoResult(r)
  BY <1>1, StayIsNoResult DEF HandlerStep, ServeHTTP, Open
<1>3. TransportInv'
  BY <1>2, HandlerKeeps
<1>4. /\ own \in [method : {"none", "send", "get", "cancel"}, index : Nat]
      /\ own.method = method /\ own.index = index /\ own # NoOwner
  <2>1. own.method # NoOwner.method
    BY DEF NoOwner
  <2> QED
    BY <2>1
<1> HIDE DEF own
<1>5. owner'[r] = own /\ \A x \in Requests \ {r} : owner'[x] = owner[x]
  BY <1>1 DEF RemoteInv, RemoteTypeOK
<1>6. run' \in [phase : {"idle", "sent", "returned"}, request : Requests \cup {"none"},
                reply : {"none", "remote", "fallback", "error"}]
  BY DEF RemoteInv, RemoteTypeOK
<1>7. RemoteTypeOK'
  BY <1>1, <1>4, <1>6 DEF RemoteInv, RemoteTypeOK
<1>8. RunInv'
  BY <1>4, <1>5 DEF RemoteInv, RunInv, NoRun
<1>9. ASSUME NEW x \in Requests PROVE ServedInv(x)'
  <2>1. ServedInv(x)
    BY DEF RemoteInv
  <2>2. CASE x # r
    <3>1. req'[x] = req[x] /\ out'[x] = out[x] /\ called'[x] = called[x] /\ owner'[x] = owner[x]
      BY <1>2, <1>5, <2>2 DEF NoResult, Others
    <3> QED
      BY <2>1, <3>1, Zenon DEF ServedInv
  <2>3. CASE x = r
    <3>1. served[r] = "none" /\ seen[r] = "none"
      BY <1>1, <2>1, <2>3 DEF ServedInv
    <3>2. out'[r] = <<>>
      BY <1>1, InOrder DEF RequestOK, StageInv, GoOn
    <3>3. req'[r].accept = "none" /\ "none" \notin SSEAccepts
      BY <1>1, <2>1, <2>3 DEF ServedInv, GoOn, SSEAccepts, TransportInv, TransportTypeOK, RequestRecords
    <3> QED
      BY <1>4, <1>5, <2>3, <3>1, <3>2, <3>3 DEF ServedInv
  <2> QED
    BY <2>2, <2>3
<1> QED
  BY <1>3, <1>7, <1>8, <1>9 DEF RemoteInv

\* Execute sends a message of the history.
LEMMA ExecuteStep ==
  ASSUME TransportInv, RemoteInv, NEW r \in Requests, Execute(r)
  PROVE  TransportInv' /\ RemoteInv'
<1>1. ForwardedMessage \in 1 .. Len(history) /\ ForwardedMessage \in Nat
  BY ForwardedIsThere
<1> QED
  BY <1>1, SentStep DEF Execute

\* A call of the client is sent like that of Execute.
LEMMA ClientCallStep ==
  ASSUME TransportInv, RemoteInv, NEW r \in Requests, NEW m \in {"get", "cancel"}, ClientCall(r, m)
  PROVE  TransportInv' /\ RemoteInv'
<1>1. 0 \in Nat /\ UNCHANGED run
  BY DEF ClientCall
<1> QED
  BY <1>1, SentStep DEF ClientCall

\* The remote handler moves a call on without a result.
LEMMA RemoteStepStep ==
  ASSUME TransportInv, RemoteInv, NEW r \in Requests, RemoteStep(r)
  PROVE  TransportInv' /\ RemoteInv'
<1>1. NoResult(r) /\ HandlerStep(r) /\ UNCHANGED <<history, run, owner, served, seen>>
  BY RemoteStageIsNoResult DEF RemoteStep, remoteVars
<1>2. TransportInv'
  BY <1>1, HandlerKeeps
<1>3. RemoteTypeOK'
  BY <1>1, Zenon DEF RemoteInv, RemoteTypeOK
<1>4. RunInv'
  <2>1. run.phase = "returned" /\ run.reply # "error" => run.request \in Requests \ {r}
    BY <1>1 DEF RemoteInv, RunInv, ServedInv, NoResult
  <2>2. run.phase = "returned" /\ run.reply # "error" => out'[run.request] = out[run.request]
    BY <1>1, <2>1 DEF NoResult, Others
  <2> QED
    BY <1>1, <2>2, Zenon DEF RemoteInv, RunInv
<1>5. ASSUME NEW x \in Requests PROVE ServedInv(x)'
  <2>1. ServedInv(x)
    BY DEF RemoteInv
  <2>2. CASE x # r
    <3>1. req'[x] = req[x] /\ out'[x] = out[x] /\ called'[x] = called[x]
      BY <1>1, <2>2 DEF NoResult, Others
    <3> QED
      BY <1>1, <2>1, <3>1, Zenon DEF ServedInv
  <2>3. CASE x = r
    <3>1. served[r] = "none"
      BY <1>1, <2>1, <2>3 DEF ServedInv, NoResult
    <3>2. ASSUME NEW p \in Seq(Outputs), \A i \in 1 .. Len(p) : p[i].kind # "result"
          PROVE  p # <<>> => p[1].kind # "result"
      BY <3>2
    <3>3. out'[r] # <<>> => out'[r][1].kind # "result"
      BY <1>1, <3>2 DEF NoResult
    <3>4. owner[r] # NoOwner /\ req'[r].accept \in {req[r].accept, "application/json"}
      BY ClientAccepts DEF RemoteStep
    <3>5. req'[r].accept \notin SSEAccepts
      BY <2>1, <2>3, <3>4 DEF ServedInv, SSEAccepts
    <3> QED
      BY <1>1, <2>1, <2>3, <3>1, <3>3, <3>4, <3>5 DEF ServedInv
  <2> QED
    BY <2>2, <2>3
<1> QED
  BY <1>2, <1>3, <1>4, <1>5 DEF RemoteInv

\* The server answers with a result, of a user's message if it was sent one.
LEMMA RemoteReturnsStep ==
  ASSUME TransportInv, RemoteInv, NEW r \in Requests, RemoteReturns(r)
  PROVE  TransportInv' /\ RemoteInv'
<1>1. PICK result \in (IF owner[r].method = "send" THEN SendResults ELSE {"value"}) :
        served' = [served EXCEPT ![r] = result]
  BY DEF RemoteReturns
<1>2. /\ owner[r] # NoOwner /\ ~RefusesRole(r) /\ req[r].stage = "service"
      /\ Reply(r, Answer("result")) \/ NotEncoded(r)
      /\ UNCHANGED <<history, run, owner, seen>>
  BY DEF RemoteReturns, ServiceReturns
<1>3. HandlerStep(r)
  BY DEF RemoteReturns, HandlerStep
<1>4. TransportInv'
  BY <1>3, HandlerKeeps
<1>5. result # "none" /\ result \in SendResults \cup {"none", "value"}
  BY <1>1 DEF SendResults
<1>6. served'[r] = result /\ \A x \in Requests \ {r} : served'[x] = served[x]
  BY <1>1 DEF RemoteInv, RemoteTypeOK
<1>7. RemoteTypeOK'
  BY <1>1, <1>2, <1>5 DEF RemoteInv, RemoteTypeOK
<1>8. served[r] = "none" /\ seen[r] \in {"none", "error"}
  BY <1>2 DEF RemoteInv, ServedInv, Ended
<1>10. /\ \A x \in Requests \ {r} : req'[x] = req[x] /\ out'[x] = out[x]
       /\ called' = called /\ req'[r].stage \in Ended
  BY <1>2 DEF Reply, NotEncoded, AfterReply, Ended, TransportInv, TransportTypeOK, RequestRecords
<1>11. called[r] # NotCalled /\ out[r] = <<>>
  BY <1>2, InOrder DEF RequestOK, StageInv
<1>12. out'[r] # <<>> => out'[r][1].kind = "result"
  <2>0. CASE NotEncoded(r)
    BY <1>11, <2>0 DEF NotEncoded
  <2>1. PICK w : w = [kind |-> "result", code |-> "ok", form |-> IF req[r].media = "sse" THEN "sse" ELSE "json"]
    OBVIOUS
  <2>2. w.kind = "result"
    BY <2>1
  <2>3. Reply(r, Answer("result")) => out'[r] = Append(<<>>, w)
    BY <1>11, <2>1 DEF Reply, Written, Answer, TransportInv, TransportTypeOK
  <2>4. Append(<<>>, w)[1] = w
    OBVIOUS
  <2> QED
    BY <1>2, <2>0, <2>2, <2>3, <2>4
<1>9. RunInv'
  <2>1. run.phase = "returned" /\ run.reply # "error" => run.request # r
    BY <1>8 DEF RemoteInv, RunInv
  <2> QED
    BY <1>2, <1>6, <1>10, <2>1 DEF RemoteInv, RunInv
<1>13. ASSUME NEW x \in Requests PROVE ServedInv(x)'
  <2>1. ServedInv(x)
    BY DEF RemoteInv
  <2>2. CASE x # r
    <3>1. req'[x] = req[x] /\ out'[x] = out[x] /\ served'[x] = served[x]
      BY <1>6, <1>10, <2>2
    <3> QED
      BY <1>2, <1>10, <2>1, <3>1, Zenon DEF ServedInv
  <2>3. CASE x = r
    <3>1. req'[r].accept \notin SSEAccepts
      BY <1>2, <2>1, <2>3, ClientAccepts DEF RemoteReturns, ServedInv, SSEAccepts
    <3> QED
      BY <1>1, <1>2, <1>5, <1>6, <1>8, <1>10, <1>11, <1>12, <2>1, <2>3, <3>1 DEF ServedInv, RefusesRole
  <2> QED
    BY <2>2, <2>3
<1> QED
  BY <1>4, <1>7, <1>9, <1>13 DEF RemoteInv

\* The client method returns the answer, or an error when it gives up before.
LEMMA ClientReturnsStep ==
  ASSUME TransportInv, RemoteInv, NEW r \in Requests, ClientReturns(r) \/ ClientGivesUp(r)
  PROVE  TransportInv' /\ RemoteInv'
<1>1. /\ owner[r] # NoOwner /\ seen[r] = "none"
      /\ UNCHANGED transportVars /\ UNCHANGED <<history, owner, served>>
  BY DEF ClientReturns, ClientGivesUp
<1>2. TransportInv' /\ UNCHANGED <<req, out, called>>
  BY <1>1, ServerUntouched
<1>3. ServedInv(r)
  BY DEF RemoteInv
<1>4. PICK v, y :
        /\ seen' = [seen EXCEPT ![r] = v]
        /\ run' = IF run.request = r /\ run.phase = "sent"
                  THEN [run EXCEPT !.phase = "returned", !.reply = y] ELSE run
        /\ \/ v = "error" /\ y = "error"
           \/ /\ req[r].stage \in Ended /\ IsSuccess(r)
              /\ v = Decoded(owner[r].method, served[r]) /\ y = ReplyMessage(served[r])
  <2>1. CASE ClientGivesUp(r)
    BY <2>1 DEF ClientGivesUp
  <2>2. CASE ClientReturns(r) /\ IsSuccess(r)
    BY <2>2 DEF ClientReturns, Ended
  <2>3. CASE ClientReturns(r) /\ ~IsSuccess(r)
    BY <2>3 DEF ClientReturns
  <2> QED
    BY <2>1, <2>2, <2>3
<1>5. v # "error" => served[r] # "none" /\ v = Decoded(owner[r].method, served[r])
  <2> SUFFICES ASSUME v # "error" PROVE served[r] # "none"
    BY <1>4
  <2>1. out[r] # <<>> /\ out[r][1].kind = "result"
    BY <1>4 DEF IsSuccess
  <2> QED
    BY <1>1, <1>3, <2>1 DEF ServedInv
<1>6. y # "error" => served[r] # "none" /\ y = ReplyMessage(served[r]) /\ out[r] # <<>>
  <2>1. y # "error" => IsSuccess(r) /\ owner[r] # NoOwner
    BY <1>1, <1>4
  <2> QED
    BY <1>3, <1>4, <2>1 DEF IsSuccess, ServedInv
<1>7. /\ v \in SendResults \cup {"none", "value", "zero", "error"}
      /\ y \in {"none", "remote", "fallback", "error"}
  <2>1. served[r] \in SendResults \cup {"none", "value"}
    BY DEF RemoteInv, RemoteTypeOK
  <2>2. \A x : ReplyMessage(x) \in {"remote", "fallback"}
    BY DEF ReplyMessage
  <2> QED
    BY <1>4, <2>1, <2>2 DEF Decoded
<1>8. RemoteTypeOK'
  <2>1. /\ run' \in [phase : {"idle", "sent", "returned"}, request : Requests \cup {"none"},
                     reply : {"none", "remote", "fallback", "error"}]
    BY <1>4, <1>7 DEF RemoteInv, RemoteTypeOK
  <2>2. seen' \in [Requests -> SendResults \cup {"none", "value", "zero", "error"}]
    BY <1>4, <1>7 DEF RemoteInv, RemoteTypeOK
  <2> QED
    BY <1>1, <2>1, <2>2, Zenon DEF RemoteInv, RemoteTypeOK
<1>9. RunInv'
  <2>1. CASE run.request = r /\ run.phase = "sent"
    <3>1. run'.request = r /\ run'.phase = "returned" /\ run'.reply = y
      BY <1>4, <2>1 DEF RemoteInv, RemoteTypeOK
    <3>2. owner[r].method = "send"
      BY <2>1 DEF RemoteInv, RunInv
    <3> QED
      BY <1>1, <1>2, <1>6, <3>1, <3>2 DEF RunInv
  <2>2. CASE ~(run.request = r /\ run.phase = "sent")
    <3>1. run' = run
      BY <1>4, <2>2
    <3> QED
      BY <1>1, <1>2, <3>1, Zenon DEF RemoteInv, RunInv
  <2> QED
    BY <2>1, <2>2
<1>10. ASSUME NEW x \in Requests PROVE ServedInv(x)'
  <2>1. ServedInv(x)
    BY DEF RemoteInv
  <2>2. CASE x # r
    <3>1. seen'[x] = seen[x]
      BY <1>4, <2>2 DEF RemoteInv, RemoteTypeOK
    <3> QED
      BY <1>1, <1>2, <2>1, <3>1, Zenon DEF ServedInv
  <2>3. CASE x = r
    <3>1. seen'[r] = v
      BY <1>4 DEF RemoteInv, RemoteTypeOK
    <3> QED
      BY <1>1, <1>2, <1>5, <2>1, <2>3, <3>1 DEF ServedInv
  <2> QED
    BY <2>2, <2>3
<1> QED
  BY <1>2, <1>8, <1>9, <1>10 DEF RemoteInv

\* A redelivered job starts without a call.
LEMMA RedeliverStep ==
  ASSUME TransportInv, RemoteInv, Redeliver PROVE TransportInv' /\ RemoteInv'
<1>1. /\ run' = NoRun /\ UNCHANGED transportVars
      /\ UNCHANGED <<history, owner, served, seen>>
  BY DEF Redeliver
<1>2. TransportInv' /\ UNCHANGED <<req, out, called>>
  BY <1>1, ServerUntouched
<1>3. RemoteTypeOK'
  BY <1>1 DEF RemoteInv, RemoteTypeOK, NoRun
<1>4. RunInv'
  BY <1>1 DEF RunInv, NoRun
<1>5. ASSUME NEW x \in Requests PROVE ServedInv(x)'
  BY <1>1, <1>2, Zenon DEF RemoteInv, ServedInv
<1> QED
  BY <1>2, <1>3, <1>4, <1>5 DEF RemoteInv

-----------------------------------------------------------------------------
(* The remote agent. *)

\* An agent starts without calls.
LEMMA RemoteStarts == RemoteInit /\ TransportInit => RemoteInv
<1> SUFFICES ASSUME RemoteInit, TransportInit PROVE RemoteInv
  OBVIOUS
<1>1. history \in Seq({"user", "agent"}) /\ history # <<>>
  BY DEF RemoteInit
<1>2. RemoteTypeOK
  BY <1>1 DEF RemoteInit, RemoteTypeOK, NoRun, NoOwner
<1>3. RunInv
  BY DEF RemoteInit, RunInv, NoRun
<1>4. ASSUME NEW r \in Requests PROVE ServedInv(r)
  BY DEF RemoteInit, TransportInit, ServedInv, NoOwner, Fresh
<1> QED
  BY <1>2, <1>3, <1>4 DEF RemoteInv

\* The inductive invariant of the remote agent, over that of the server it calls.
THEOREM RemoteInvariant == RemoteSpec => [](TransportInv /\ RemoteInv)
<1>1. TransportInv /\ RemoteInv /\ [ExecuteNext]_<<transportVars, remoteVars>>
      => TransportInv' /\ RemoteInv'
  <2> SUFFICES ASSUME TransportInv, RemoteInv,
                      [ExecuteNext]_<<transportVars, remoteVars>>
               PROVE  TransportInv' /\ RemoteInv'
    OBVIOUS
  <2>1. CASE \E role \in {"user", "agent"} : AddMessage(role)
    BY <2>1, AddMessageStep
  <2>2. ASSUME NEW r \in Requests,
               \/ Execute(r)
               \/ \E m \in {"get", "cancel"} : ClientCall(r, m)
               \/ RemoteStep(r) \/ RemoteReturns(r)
               \/ ClientReturns(r) \/ ClientGivesUp(r)
        PROVE  TransportInv' /\ RemoteInv'
    <3>1. CASE Execute(r)
      BY <3>1, ExecuteStep
    <3>2. CASE \E m \in {"get", "cancel"} : ClientCall(r, m)
      BY <3>2, ClientCallStep
    <3>3. CASE RemoteStep(r)
      BY <3>3, RemoteStepStep
    <3>4. CASE RemoteReturns(r)
      BY <3>4, RemoteReturnsStep
    <3>5. CASE ClientReturns(r) \/ ClientGivesUp(r)
      BY <3>5, ClientReturnsStep
    <3> QED
      BY <2>2, <3>1, <3>2, <3>3, <3>4, <3>5
  <2>3. CASE Redeliver
    BY <2>3, RedeliverStep
  <2>5. CASE UNCHANGED <<transportVars, remoteVars>>
    <3>1. /\ UNCHANGED transportVars
          /\ UNCHANGED <<history, run, owner, served, seen>>
      BY <2>5 DEF remoteVars
    <3>2. TransportInv' /\ UNCHANGED <<req, out, called>>
      BY <3>1, ServerUntouched
    <3>3. RemoteTypeOK'
      BY <3>1 DEF RemoteInv, RemoteTypeOK
    <3>4. RunInv'
      BY <3>1, <3>2 DEF RemoteInv, RunInv
    <3>5. \A r \in Requests : ServedInv(r)'
      BY <3>1, <3>2 DEF RemoteInv, ServedInv
    <3> QED
      BY <3>2, <3>3, <3>4, <3>5 DEF RemoteInv
  <2> QED
    BY <2>1, <2>2, <2>3, <2>5 DEF ExecuteNext
<1> QED
  BY <1>1, TransportStarts, RemoteStarts, PTL DEF RemoteSpec

\* In a state of the invariant a completion has its remote answer.
LEMMA CompletionFollows == TransportInv /\ RemoteInv => CompletionIsRemote
<1> SUFFICES ASSUME TransportInv, RemoteInv PROVE CompletionIsRemote
  OBVIOUS
<1>1. ASSUME run.phase = "returned", run.reply # "error"
      PROVE  /\ out[run.request][1].kind = "result"
             /\ called[run.request] # NotCalled
             /\ owner[run.request].method = "send" /\ history[owner[run.request].index] = "user"
             /\ run.reply = "remote" =>
                  served[run.request] \in {"message", "completed with status", "completed with history"}
  <2>1. /\ run.request \in Requests /\ owner[run.request].method = "send"
        /\ served[run.request] # "none" /\ run.reply = ReplyMessage(served[run.request])
        /\ out[run.request] # <<>>
    BY <1>1 DEF RemoteInv, RunInv
  <2>2. ServedInv(run.request)
    BY <2>1 DEF RemoteInv
  <2>3. /\ out[run.request][1].kind = "result" /\ called[run.request] # NotCalled
        /\ history[owner[run.request].index] = "user" /\ served[run.request] \in SendResults
    BY <2>1, <2>2 DEF ServedInv
  <2>4. \A x \in SendResults :
          ReplyMessage(x) = "remote" => x \in {"message", "completed with status", "completed with history"}
    BY DEF SendResults, ReplyMessage
  <2> QED
    BY <2>1, <2>3, <2>4
<1>2. ASSUME NEW r \in Requests, seen[r] \notin {"none", "error"}
      PROVE  /\ served[r] # "none"
             /\ seen[r] = IF owner[r].method = "cancel" THEN "zero" ELSE served[r]
  BY <1>2 DEF RemoteInv, ServedInv, Decoded
<1> QED
  BY <1>1, <1>2 DEF CompletionIsRemote

(***************************************************************************)
(* No timeout, error or refused role completes the local task, however     *)
(* often Execute is repeated and whatever the server does after the client *)
(* has given up (Execute and sendResultToMessage).                         *)
(***************************************************************************)
THEOREM CompletesRemotely == RemoteSpec => []CompletionIsRemote
BY RemoteInvariant, CompletionFollows, PTL

\* The server behind a remote agent keeps the promises of the handler.
THEOREM RemoteKeepsHandler == RemoteSpec => [](AnsweredOnce /\ CalledOnlyIfAdmitted)
<1>1. TransportInv => AnsweredOnce /\ CalledOnlyIfAdmitted
  BY OneAnswer, Admitted
<1> QED
  BY <1>1, RemoteInvariant, PTL

=============================================================================
