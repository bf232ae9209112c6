------------------------------- MODULE Server -------------------------------
(***************************************************************************)
(* The Server around a service (atlasic.go): its configuration (extensions,*)
(* middlewares, handlers), initialize, RunWithContext with its HTTP and    *)
(* its Lambda branch, Handler and Shutdown, and the mutex s.mu they share. *)
(* Extensions and middlewares are copied when the server is initialized;   *)
(* sync.Mutex is not reentrant.  How long the parts of a Shutdown take is  *)
(* the subject of Lifecycle.                                               *)
(***************************************************************************)
EXTENDS Naturals, Sequences

CONSTANTS Users,      \* goroutines that configure the server or shut it down
          Added,      \* extensions, middlewares and patterns they add
          MaxRuns     \* bound: calls of RunWithContext, one after the other

\* Goroutines are none of the marks of s.mu, and the program adds no injecting middleware.
ASSUME ServerAssumption ==
  /\ Users \cap {"free", "runner"} = {}
  /\ "inject" \notin Added
  /\ MaxRuns \in Nat

VARIABLES mu,          \* holder of s.mu, or "free"
          user,        \* user[u]: the call of u that holds s.mu
          extensions,  \* s.Extensions
          middlewares, \* s.middlewares
          custom,      \* s.customHandlers
          mux,         \* what s.mux serves, or NoMux
          chain,       \* middlewares of httpServer.Handler
          handled,     \* history: patterns that Handle accepted
          early,       \* history: extensions and middlewares added before initialize
          added,       \* members of Added that were used
          runner,      \* where RunWithContext is
          runs,        \* calls of RunWithContext so far
          onLambda,    \* the process runs on the Lambda runtime
          http,        \* the HTTP server: "new", "listening", "failed" or "shut"
          service,     \* "new", "started", "closed" or "restarted" (with its queue closed)
          part,        \* the part of Shutdown that is next
          ctxEnd       \* the context of RunWithContext has ended

serverVars == <<mu, user, extensions, middlewares, custom, mux, chain, handled, early, added,
                runner, runs, onLambda, http, service, part, ctxEnd>>

NoMux == [served |-> FALSE, extensions |-> <<>>, patterns |-> {}]

-----------------------------------------------------------------------------
(* Configuration, each call under s.mu. *)

TakesNew(x) == mu = "free" /\ x \notin added /\ added' = added \cup {x}

AddExtension(x) ==
  /\ TakesNew(x)
  /\ extensions' = Append(extensions, x)
  /\ early' = IF mux.served THEN early ELSE [early EXCEPT !.extensions = Append(@, x)]
  /\ UNCHANGED <<mu, user, middlewares, custom, mux, chain, handled, runner, runs, onLambda, http, service, part, ctxEnd>>

Use(x) ==
  /\ TakesNew(x)
  /\ middlewares' = Append(middlewares, x)
  /\ early' = IF mux.served THEN early ELSE [early EXCEPT !.middlewares = Append(@, x)]
  /\ UNCHANGED <<mu, user, extensions, custom, mux, chain, handled, runner, runs, onLambda, http, service, part, ctxEnd>>

\* Handle: kept for initialize, or registered with the mux that is there already.
CustomAfter(x) == IF mux.served THEN custom ELSE custom \cup {x}

MuxAfter(x) == IF mux.served THEN [mux EXCEPT !.patterns = @ \cup {x}] ELSE mux

HandlePattern(x) ==
  /\ TakesNew(x)
  /\ custom' = CustomAfter(x)
  /\ mux' = MuxAfter(x)
  /\ handled' = handled \cup {x}
  /\ UNCHANGED <<mu, user, extensions, middlewares, chain, early, runner, runs, onLambda, http, service, part, ctxEnd>>

\* Handler on a server without a mux: initialize waits for the lock its caller holds.
Handler(u) ==
  /\ mu = "free" /\ user[u] = "idle" /\ ~mux.served
  /\ mu' = u
  /\ user' = [user EXCEPT ![u] = "stuck"]
  /\ UNCHANGED <<extensions, middlewares, custom, mux, chain, handled, early, added, runner, runs, onLambda, http, service, part, ctxEnd>>

-----------------------------------------------------------------------------
(* RunWithContext. *)

ChainOfNow == <<"inject">> \o middlewares

\* The chain of the HTTP server is built once; the injecting middleware is prepended each time.
ChainAfterInit == IF chain = <<>> THEN <<"inject">> \o middlewares ELSE chain

(***************************************************************************)
(* initialize (with an agent and a storage that can be created), then the  *)
(* branch: Lambda serves the mux itself and starts no worker, otherwise    *)
(* the service is started.                                                 *)
(***************************************************************************)
Initialize ==
  /\ runner = "idle" /\ mu = "free" /\ runs < MaxRuns
  /\ middlewares' = <<"inject">> \o middlewares
  /\ mux' = IF mux.served THEN mux
            ELSE [served |-> TRUE, extensions |-> extensions, patterns |-> custom]
  /\ custom' = IF mux.served THEN custom ELSE {}
  /\ chain' = ChainAfterInit
  /\ runner' = IF onLambda THEN "lambda" ELSE "start"
  /\ runs' = runs + 1
  /\ UNCHANGED <<mu, user, extensions, handled, early, added, onLambda, http, service, part, ctxEnd>>

serveVars == <<mu, user, extensions, middlewares, custom, mux, chain, handled, early, added, runs, onLambda, part>>

\* The agent card cannot be had: the only way back from the Lambda runtime.
LambdaFails ==
  /\ runner = "lambda" /\ runner' = "returned"
  /\ UNCHANGED <<serveVars, http, service, ctxEnd>>

(***************************************************************************)
(* agentService.Start: an error while a worker runs; Close has removed the *)
(* worker, so after it Start succeeds, over a queue that is closed.        *)
(***************************************************************************)
StartService ==
  /\ runner = "start"
  /\ \/ /\ service \in {"new", "closed"}
        /\ service' = IF service = "new" THEN "started" ELSE "restarted"
        /\ runner' = "serving"
     \/ /\ service \in {"started", "restarted"}
        /\ runner' = "returned" /\ UNCHANGED service
  /\ UNCHANGED <<serveVars, http, ctxEnd>>

\* The goroutine of ListenAndServe; a server that was shut down ends it with ErrServerClosed,
\* which is not passed on.
Listen ==
  /\ runner \in {"serving", "shutdown"} /\ http = "new"
  /\ http' = "listening"
  /\ UNCHANGED <<serveVars, runner, service, ctxEnd>>

\* ListenAndServe fails: the error is returned and the service goes on.
ListenFails ==
  /\ runner = "serving" /\ http \in {"new", "listening"}
  /\ http' = "failed"
  /\ runner' = "returned"
  /\ UNCHANGED <<serveVars, service, ctxEnd>>

EndContext ==
  /\ ~ctxEnd /\ ctxEnd' = TRUE
  /\ UNCHANGED <<serveVars, runner, http, service>>

RunShutsDown ==
  /\ runner = "serving" /\ ctxEnd /\ mu = "free"
  /\ mu' = "runner" /\ runner' = "shutdown"
  /\ UNCHANGED <<user, extensions, middlewares, custom, mux, chain, handled, early, added, runs, onLambda, http, service, part, ctxEnd>>

\* Shutdown by another goroutine.
Shutdown(u) ==
  /\ mu = "free" /\ user[u] = "idle"
  /\ mu' = u
  /\ user' = [user EXCEPT ![u] = "shutdown"]
  /\ UNCHANGED <<extensions, middlewares, custom, mux, chain, handled, early, added, runner, runs, onLambda, http, service, part, ctxEnd>>

PartsSwapped == <<"service", "http">>

\* The order in which Shutdown ends the parts of the server.
Parts == <<"http", "service">>

ShuttingDown == mu = "runner" \/ \E u \in Users : mu = u /\ user[u] = "shutdown"

\* httpServer.Shutdown, then agentService.Close, as far as they were created; an error of one
\* does not keep the other from being called.
ShutdownPart ==
  /\ ShuttingDown /\ part <= Len(Parts)
  /\ http' = IF mux.served /\ Parts[part] = "http" THEN "shut" ELSE http
  /\ service' = IF mux.served /\ Parts[part] = "service" THEN "closed" ELSE service
  /\ part' = part + 1
  /\ UNCHANGED <<mu, user, extensions, middlewares, custom, mux, chain, handled, early, added, runner, runs, onLambda, ctxEnd>>

\* defer s.mu.Unlock()
ShutdownEnds ==
  /\ ShuttingDown /\ part > Len(Parts)
  /\ part' = 1
  /\ runner' = IF mu = "runner" THEN "returned" ELSE runner
  /\ user' = [u \in Users |-> IF mu = u THEN "idle" ELSE user[u]]
  /\ mu' = "free"
  /\ UNCHANGED <<extensions, middlewares, custom, mux, chain, handled, early, added, runs, onLambda, http, service, ctxEnd>>

\* The program runs the same server again.
RunAgain ==
  /\ runner = "returned" /\ runner' = "idle"
  /\ UNCHANGED <<serveVars, http, service, ctxEnd>>

-----------------------------------------------------------------------------
ServerInit ==
  /\ mu = "free" /\ user = [u \in Users |-> "idle"]
  /\ extensions = <<>> /\ middlewares = <<>> /\ custom = {}
  /\ mux = NoMux /\ chain = <<>> /\ handled = {} /\ added = {}
  /\ early = [extensions |-> <<>>, middlewares |-> <<>>]
  /\ runner = "idle" /\ runs = 0 /\ onLambda \in BOOLEAN
  /\ http = "new" /\ service = "new" /\ part = 1 /\ ctxEnd = FALSE

ServerNext ==
  \/ \E x \in Added : AddExtension(x) \/ Use(x) \/ HandlePattern(x)
  \/ \E u \in Users : Handler(u) \/ Shutdown(u)
  \/ Initialize \/ LambdaFails \/ StartService \/ Listen \/ ListenFails \/ EndContext
  \/ RunShutsDown \/ ShutdownPart \/ ShutdownEnds \/ RunAgain

ServerSpec == ServerInit /\ [][ServerNext]_serverVars

-----------------------------------------------------------------------------
(* Properties. *)

(***************************************************************************)
(* What was handed to a server before it was initialized is what it serves,*)
(* however often it is run and whatever is added later: the extensions of  *)
(* the handler, and in the chain of the HTTP server the injecting          *)
(* middleware first and once (each run puts one more into s.middlewares),  *)
(* then the middlewares in the order of Use; and every pattern that Handle *)
(* ever accepted is in the mux.  Nothing is said of what Use and           *)
(* AddExtension are given later, which no request meets, nor of the        *)
(* middlewares on the Lambda runtime, which serves the mux without them    *)
(* (atlasic.go:1236), although Use applies them "to all HTTP requests".    *)
(***************************************************************************)
EarlyConfigurationIsServed ==
  mux.served =>
    /\ mux.patterns = handled /\ custom = {}
    /\ mux.extensions = early.extensions
    /\ ~onLambda => chain = <<"inject">> \o early.middlewares

(***************************************************************************)
(* Connections are accepted only while the service is started and its      *)
(* queue open: Start comes before ListenAndServe, and Shutdown stops the   *)
(* HTTP server before it closes the service, also when Shutdown, a failing *)
(* listener and a second run meet.  (The worker has the context of         *)
(* RunWithContext: once that has ended, requests that still come in find   *)
(* the queue open and no worker; Lifecycle has what follows from it.)      *)
(***************************************************************************)
ListeningIsStarted == http = "listening" => service = "started"

=============================================================================
