-------------------------- MODULE ServiceLifecycle --------------------------
(***************************************************************************)
(* Start and shutdown of the control-plane process: service-entrypoint.ts   *)
(* with the runtime's worker loop, the sweep scheduler, the HTTP server, the *)
(* token cache and the connection pool.  Every await of start, shutdown and *)
(* close is a point where the others go on.                                 *)
(*                                                                          *)
(* The pool is "ended" when pool.end() has been called: from then on nobody *)
(* gets a connection.                                                       *)
(***************************************************************************)
EXTENDS Naturals

CONSTANT MaxConnections   \* bound: open HTTP connections, one request on each at a time

ASSUME LifecycleAssumption == MaxConnections \in Nat \ {0}

VARIABLES
  phase,      \* start(): "migrating", "serving" or "startFailed"
  ready, shuttingDown,   \* RuntimeHealth
  server, requests,      \* the HTTP server and its requests in flight
  kept,       \* connections kept alive between two requests
  probe,      \* one of them, GET /ready: where it stands, or what it was answered
  timer, sweep,          \* SweepScheduler: timer and activeRun
  worker, stopping,      \* WorkerLoop: where run() stands, requestStop
  tokens,     \* the token cache holds a token
  pool,
  closing,    \* where shutdown() stands
  stopAsked,  \* history: start()'s phase when a stop was first asked for
  late        \* history: the probe came after that

health  == <<ready, shuttingDown>>
probing == <<probe, late>>
http    == <<server, requests, kept, probing>>
sweeper == <<timer, sweep>>
loop    == <<worker, stopping>>
lifecycle == <<phase, health, http, sweeper, loop, tokens, pool, closing, stopAsked>>

LoopActive == worker \in {"head", "claiming", "job", "sleeping"}

LifecycleTypes ==
  /\ phase \in {"migrating", "serving", "startFailed"}
  /\ ready \in BOOLEAN /\ shuttingDown \in BOOLEAN /\ stopping \in BOOLEAN
  /\ timer \in BOOLEAN /\ sweep \in BOOLEAN /\ tokens \in BOOLEAN
  /\ server \in {"unbound", "listening", "closing", "closed"}
  /\ requests \in Nat /\ kept \in Nat /\ requests + kept <= MaxConnections
  /\ worker \in {"off", "head", "claiming", "job", "sleeping", "failed"}
  /\ pool \in {"open", "ended"}
  /\ closing \in {"none", "server", "sweep", "activeRun", "runtime", "worker", "handle",
                  "done", "failed"}
  /\ stopAsked \in {"no", "migrating", "serving", "startFailed"}

LifecycleInit ==
  /\ phase = "migrating"
  /\ ready = FALSE /\ shuttingDown = FALSE
  /\ server = "unbound" /\ requests = 0 /\ kept = 0
  /\ probe = "none" /\ late = FALSE
  /\ timer = FALSE /\ sweep = FALSE
  /\ worker = "off" /\ stopping = FALSE
  /\ tokens = FALSE
  /\ pool = "open"
  /\ closing = "none" /\ stopAsked = "no"

-----------------------------------------------------------------------------
(* start() *)

\* Mutant of MarkReady: readiness is set without looking at the shutdown.
MarkReady_Always == ready' = TRUE

MarkReady == ready' = (ready \/ ~shuttingDown)

\* The migrations are done and the server is bound: listen's callback.
Listening ==
  /\ phase = "migrating"
  /\ phase' = "serving"
  /\ server' = "listening"
  /\ MarkReady
  /\ timer' = TRUE
  /\ worker' = "head"
  /\ UNCHANGED <<shuttingDown, requests, kept, probing, sweep, stopping, tokens, pool, closing,
                 stopAsked>>

\* runDatabaseMigrations rejects: handle.close(), with no worker to wait for.
StartFails ==
  /\ phase = "migrating"
  /\ phase' = "startFailed"
  /\ ready' = FALSE /\ shuttingDown' = TRUE /\ stopping' = TRUE
  /\ tokens' = FALSE
  /\ pool' = "ended"
  /\ UNCHANGED <<http, sweeper, worker, closing, stopAsked>>

-----------------------------------------------------------------------------
(* The service at work *)

\* A request comes on a new connection, or on one that was kept alive, which
\* server.close() does not prevent.
Arrives ==
  /\ \/ server = "listening" /\ requests + kept < MaxConnections /\ UNCHANGED kept
     \/ kept > 0 /\ kept' = kept - 1
  /\ requests' = requests + 1
  /\ UNCHANGED <<phase, health, server, sweeper, loop, tokens, pool, closing, stopAsked>>

RequestArrives == Arrives /\ UNCHANGED probing

\* Mutant of ReadyArrives: the checks are asked whatever the flag says.
ReadyArrives_Unasked ==
  /\ Arrives /\ probe = "none"
  /\ probe' = "checking"
  /\ late' = (stopAsked # "no")

\* GET /ready: the flag is read, and the checks are asked if it is up.
ReadyArrives ==
  /\ Arrives /\ probe = "none"
  /\ probe' = IF ready THEN "checking" ELSE "503"
  /\ late' = (stopAsked # "no")

\* The checks pass or do not, or their time is over. The flag is not looked at again.
ReadyAnswered ==
  /\ probe = "checking"
  /\ probe' \in {"200", "503"}
  /\ UNCHANGED <<phase, health, server, requests, kept, late, sweeper, loop, tokens, pool,
                 closing, stopAsked>>

\* The response is finished; its connection is closed or kept alive.
Departs ==
  /\ requests' = requests - 1
  /\ kept' \in {kept, kept + 1}
  /\ UNCHANGED <<phase, health, server, late, sweeper, loop, tokens, pool, closing, stopAsked>>

ReadyEnds == probe \in {"200", "503"} /\ probe' = "none" /\ Departs

\* A request that is not the probe.
RequestEnds ==
  /\ requests > IF probe = "none" THEN 0 ELSE 1
  /\ Departs /\ UNCHANGED probe

\* The client closes a connection it kept, or keepAliveTimeout does.
KeptCloses ==
  /\ kept > 0
  /\ kept' = kept - 1
  /\ UNCHANGED <<phase, health, server, requests, probing, sweeper, loop, tokens, pool, closing,
                 stopAsked>>

\* The interval has passed and no run is active.
SweepBegins ==
  /\ timer /\ ~sweep
  /\ sweep' = TRUE
  /\ UNCHANGED <<phase, health, http, timer, loop, tokens, pool, closing, stopAsked>>

\* The run resolves or rejects, also for stopAndWait if it waits for it.
SweepEnds ==
  /\ sweep
  /\ sweep' = FALSE
  /\ IF closing = "activeRun" THEN closing' \in {"runtime", "failed"} ELSE UNCHANGED closing
  /\ UNCHANGED <<phase, health, http, timer, loop, tokens, pool, stopAsked>>

\* Mutant of LoopHead: the stop request is overlooked.
LoopHead_Deaf ==
  /\ worker = "head"
  /\ worker' = "claiming"
  /\ UNCHANGED <<phase, health, http, sweeper, stopping, tokens, pool, closing, stopAsked>>

\* while (!stopping)
LoopHead ==
  /\ worker = "head"
  /\ IF stopping
     THEN /\ worker' = "off"
          /\ closing' = IF closing = "worker" THEN "handle" ELSE closing
     ELSE worker' = "claiming" /\ UNCHANGED closing
  /\ UNCHANGED <<phase, health, http, sweeper, stopping, tokens, pool, stopAsked>>

\* claimNext finds a job or none; the job is run, with a token perhaps; the
\* sleep is over.
LoopStep ==
  /\ \/ worker = "claiming" /\ worker' \in {"job", "sleeping"} /\ UNCHANGED tokens
     \/ worker = "job" /\ worker' = "head" /\ tokens' \in {tokens, TRUE}
     \/ worker = "sleeping" /\ worker' = "head" /\ UNCHANGED tokens
  /\ UNCHANGED <<phase, health, http, sweeper, stopping, pool, closing, stopAsked>>

\* claimNext, reschedule or markDead rejects: run() rejects, and so does the
\* stopAndWait that waits for it.
LoopFails ==
  /\ worker \in {"claiming", "job"}
  /\ worker' = "failed"
  /\ tokens' \in {tokens, tokens \/ worker = "job"}
  /\ closing' = IF closing = "worker" THEN "failed" ELSE closing
  /\ UNCHANGED <<phase, health, http, sweeper, stopping, pool, stopAsked>>

-----------------------------------------------------------------------------
(* shutdown() *)

\* requestShutdown, scheduler.stop and server.close, which closes the connections no
\* request is on and reports a server that is not running at once.
BeginShutdown ==
  /\ closing = "none"
  /\ ready' = FALSE /\ shuttingDown' = TRUE /\ stopping' = TRUE
  /\ timer' = FALSE
  /\ server' = IF server = "listening" THEN "closing" ELSE server
  /\ kept' = IF server = "listening" THEN 0 ELSE kept
  /\ closing' = IF server = "listening" THEN "server" ELSE "sweep"
  /\ stopAsked' = phase
  /\ UNCHANGED <<phase, requests, probing, sweep, tokens, pool>>

\* A later signal finds shutdown() begun and changes nothing.
Signal == BeginShutdown /\ UNCHANGED worker

\* Mutant of LoopFailureHandled: the failure is only logged.
LoopFailureHandled_Logged ==
  /\ worker = "failed"
  /\ worker' = "off"
  /\ UNCHANGED <<phase, health, http, sweeper, stopping, tokens, pool, closing, stopAsked>>

\* startWorker's catch handler: shutdown("WORKER_LOOP_FAILURE").
LoopFailureHandled ==
  /\ worker = "failed"
  /\ worker' = "off"
  /\ \/ BeginShutdown
     \/ closing # "none" /\ UNCHANGED <<phase, health, http, sweeper, stopping, tokens,
                                        pool, closing, stopAsked>>

\* No connection is left.  The code sets no deadline for this.
ServerClosed ==
  /\ closing = "server" /\ requests = 0 /\ kept = 0
  /\ server' = "closed"
  /\ closing' = "sweep"
  /\ UNCHANGED <<phase, health, requests, kept, probing, sweeper, loop, tokens, pool, stopAsked>>

\* scheduler.stopAndWait
StopScheduler ==
  /\ closing = "sweep"
  /\ timer' = FALSE
  /\ closing' = IF sweep THEN "activeRun" ELSE "runtime"
  /\ UNCHANGED <<phase, health, http, sweep, loop, tokens, pool, stopAsked>>

\* Mutant of StopRuntime: the worker loop is not waited for.
StopRuntime_NoWait ==
  /\ closing = "runtime"
  /\ closing' = "handle"
  /\ UNCHANGED <<phase, health, http, sweeper, loop, tokens, pool, stopAsked>>

\* runtime.stopAndWait
StopRuntime ==
  /\ closing = "runtime"
  /\ closing' = IF LoopActive THEN "worker" ELSE "handle"
  /\ UNCHANGED <<phase, health, http, sweeper, loop, tokens, pool, stopAsked>>

\* tokenProvider.clear and database.close; pool.end() rejects the second time.
CloseHandle ==
  /\ closing = "handle"
  /\ tokens' = FALSE
  /\ pool' = "ended"
  /\ closing' = IF pool = "ended" THEN "failed" ELSE "done"
  /\ UNCHANGED <<phase, health, http, sweeper, loop, stopAsked>>

Shutdown == LoopFailureHandled \/ ServerClosed \/ StopScheduler \/ StopRuntime \/ CloseHandle

LifecycleNext ==
  \/ Listening \/ StartFails
  \/ RequestArrives \/ RequestEnds \/ ReadyArrives \/ ReadyAnswered \/ ReadyEnds
  \/ KeptCloses
  \/ SweepBegins \/ SweepEnds
  \/ LoopHead \/ LoopStep \/ LoopFails
  \/ Signal \/ Shutdown

LifecycleSpec == LifecycleInit /\ [][LifecycleNext]_lifecycle

\* Requests, readiness checks (which have a timeout), sweeps and jobs end, a connection
\* nothing is sent on is closed (keepAliveTimeout), the loop and shutdown() go on;
\* nobody owes requests, sweeps, signals or failures.
LifecycleFairness ==
  /\ WF_lifecycle(Listening \/ StartFails)
  /\ WF_lifecycle(RequestEnds) /\ WF_lifecycle(ReadyAnswered \/ ReadyEnds)
  /\ WF_lifecycle(KeptCloses) /\ WF_lifecycle(SweepEnds)
  /\ WF_lifecycle(LoopHead \/ LoopStep)
  /\ WF_lifecycle(Shutdown)

FairLifecycle == LifecycleSpec /\ LifecycleFairness

-----------------------------------------------------------------------------
(* Properties *)

\* Nothing keeps the event loop alive, idle database connections apart; shutdown() may
\* have been cut short by a rejection, which the signal handler logs.
Ended ==
  /\ phase # "migrating"
  /\ server \in {"unbound", "closed"} /\ ~timer /\ ~sweep
  /\ worker = "off"
  /\ closing \in {"none", "done", "failed"}

\* A /ready that is answered 200 was asked before any stop was, and comes from a
\* service that serves and still has its pool, although the flag may have gone down
\* while the checks were asked.
ReadyIsServing ==
  probe = "200" => ~late /\ phase = "serving" /\ pool = "open"

\* The pool is closed after everybody who uses it is done: no job, sweep or
\* request loses its connection in the middle (a service that was signalled
\* before it served is another matter).
DrainedBeforeClose ==
  pool = "ended" /\ stopAsked # "migrating" =>
    /\ requests = 0 /\ kept = 0 /\ ~sweep /\ ~LoopActive
    /\ server \in {"unbound", "closed"} /\ ~timer

\* Before and without serving nothing runs.
QuietUnlessServing ==
  phase # "serving" =>
    server = "unbound" /\ requests = 0 /\ kept = 0 /\ ~timer /\ ~sweep /\ worker = "off"

\* What shutdown() has begun with, and what it has drained where it stands.
Drained ==
  /\ closing = "none" <=> stopAsked = "no"
  /\ stopAsked = "no" /\ phase = "serving" => server = "listening"
  /\ closing = "server" => server = "closing"
  /\ stopAsked # "no" => shuttingDown /\ ~ready /\ stopping
  /\ stopAsked \in {"serving", "startFailed"} => phase = stopAsked /\ ~timer
  /\ stopAsked = "serving" =>
       /\ closing # "server" => server = "closed" /\ requests = 0 /\ kept = 0
       /\ closing \in {"runtime", "worker", "handle", "done"} => ~sweep
       /\ closing \in {"handle", "done"} => ~LoopActive
       /\ closing = "done" => ~tokens

\* Who may have closed the pool.
PoolClosedBy ==
  pool = "ended" =>
    \/ phase = "startFailed" \/ stopAsked = "migrating"
    \/ stopAsked = "serving" /\ closing = "done"

\* The inductive invariant of the shutdown.
LifecycleInv == LifecycleTypes /\ QuietUnlessServing /\ Drained /\ PoolClosedBy

\* A probe is a request in flight, and one that found the flag up came before a stop.
Probed ==
  /\ probe \in {"none", "checking", "200", "503"} /\ late \in BOOLEAN
  /\ probe # "none" => requests > 0
  /\ probe \in {"checking", "200"} => ~late /\ stopAsked # "migrating"

\* The clients of connections that are still open while the server closes stop sending
\* requests at last.  Nothing in the code makes them.
ClientsFallSilent ==
  <>[][~(server = "closing" /\ (RequestArrives \/ ReadyArrives))]_lifecycle

\* A service that was serving when it was signalled or when its worker loop
\* failed comes to its end, whatever else fails on the way, if its clients let it.
StopComesToEnd == ClientsFallSilent => (stopAsked = "serving" ~> Ended)

\* A failed worker loop never leaves a half-dead service behind.
LoopFailureStops ==
  ClientsFallSilent => (worker = "failed" ~> Ended \/ stopAsked = "migrating")
=============================================================================
