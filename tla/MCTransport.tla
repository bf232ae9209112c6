---------------------------- MODULE MCTransport ----------------------------
(***************************************************************************)
(* The handler, alone and behind a RemoteAgent, on small sets.  A          *)
(* behaviour is about one of the two.                                      *)
(***************************************************************************)
EXTENDS RemoteAgent

CONSTANTS rpc, profile, data

MCExtKind ==
  [e \in Extensions |-> IF e = rpc THEN "rpc" ELSE IF e = profile THEN "profile" ELSE "data"]

MCHooks == [e \in Extensions |-> IF e = profile THEN {"send"} ELSE {}]

MCConfigs == {[auth |-> "jwt", required |-> {data}], [auth |-> "apiKey", required |-> {}]}

MCSupported == {<<"text", "plain">>}

MCMethods == {"send", "cancel", "stream", "deletePush", rpc, "custom"}

Undecided == \A r \in Requests : req[r] = Fresh

\* The one request of a behaviour that is not about a RemoteAgent.
Only(r) == \A q \in Requests : req[q] # Fresh => q = r

RemoteUnused == run = NoRun /\ history = <<"user">> /\ \A r \in Requests : owner[r] = NoOwner

MCTransportInit == TransportInit /\ RemoteInit

MCTransportNext ==
  \/ /\ RemoteUnused
     /\ \/ \E r \in Requests : Only(r) /\ RequestStep(r)
        \/ RegisterMethod("custom")
     /\ UNCHANGED remoteVars
  \/ (RemoteUnused => Undecided) /\ ExecuteNext

MCTransportSpec == MCTransportInit /\ [][MCTransportNext]_<<transportVars, remoteVars>>

=============================================================================
