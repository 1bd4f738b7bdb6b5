--------------------------- MODULE WorkerProcess ---------------------------
(***************************************************************************)
(* One worker process (src/src/worker.js): database, Redis, outbox worker  *)
(* and health server, and what a signal does to it.  Its shutdown hangs on *)
(* the callback of server.close: before the health server exists, a signal *)
(* only sets a flag, which nothing but readiness reads, and the timer.     *)
(***************************************************************************)
EXTENDS Migrations

VARIABLE wrk

WorkerDown ==
  [boot   |-> "down",     \* where the module's start-up is
   told   |-> FALSE,      \* shuttingDown, and the forced exit is set
   stage  |-> "none",     \* where shutdown or the failed start-up closes
   outbox |-> "none",
   pool   |-> "open",
   redis  |-> "idle",     \* redisClient
   polled |-> "never"]    \* age of lastSuccessfulPollAt

\* Start-up, await by await.
WorkerStarts ==
  /\ wrk.boot = "down"
  /\ wrk' = [wrk EXCEPT !.boot = "db"]

WorkerDatabaseAnswers ==
  /\ wrk.boot = "db"
  /\ wrk' = [wrk EXCEPT !.boot = "redis"]

\* The outbox worker and the health server run, told or not.
WorkerRedisConnects ==
  /\ wrk.boot = "redis"
  /\ wrk' = [wrk EXCEPT !.boot = "running", !.redis = "open",
                        !.outbox = "idle"]

\* The catch of the start-up closes the pool and Redis and exits.
WorkerBootFails ==
  /\ wrk.boot \in {"db", "redis"}
  /\ Incident
  /\ wrk' = [wrk EXCEPT !.boot = "failed", !.stage = "pool",
                        !.pool = "ending"]

-----------------------------------------------------------------------------
\* A signal.  server?.close waits for the requests that are being answered.
WorkerTold ==
  /\ wrk.boot # "down" /\ ~wrk.told
  /\ Incident
  /\ wrk' = [wrk EXCEPT !.told = TRUE,
       !.stage = IF wrk.boot = "running" THEN "server" ELSE @]

\* The callback of server.close: worker.stop(), which finishes its batch ...
HealthServerClosed ==
  /\ wrk.stage = "server"
  /\ wrk' = [wrk EXCEPT !.stage = "worker",
       !.outbox = IF @ = "busy" THEN "stopping" ELSE "stopped"]

\* ... pool.end() ...
WorkerOutboxStopped ==
  /\ wrk.stage = "worker" /\ wrk.outbox = "stopped"
  /\ wrk' = [wrk EXCEPT !.stage = "pool", !.pool = "ending"]

\* ... and redisClient.quit() if it is open, then process.exit.
WorkerPoolEnded ==
  /\ wrk.stage = "pool"
  /\ wrk' = IF wrk.redis = "open"
            THEN [wrk EXCEPT !.stage = "redis", !.pool = "ended",
                             !.redis = "quitting"]
            ELSE WorkerDown

WorkerRedisQuit ==
  /\ wrk.stage = "redis"
  /\ wrk' = WorkerDown

\* The timer of ten seconds.  It keeps no process alive, but the pool and
\* Redis do.
WorkerForced ==
  /\ wrk.told
  /\ wrk' = WorkerDown

\* A crash, a rejected statement of shutdown, or an idle client's error.
WorkerCrashes ==
  /\ wrk.boot # "down"
  /\ Incident
  /\ wrk' = WorkerDown

-----------------------------------------------------------------------------
\* The claim of a poll succeeds, and a batch is in hand.
WorkerPolls ==
  /\ wrk.outbox = "idle" /\ Migrated(OutboxFile)
  /\ wrk' = [wrk EXCEPT !.outbox = "busy", !.polled = "fresh"]

WorkerBatchEnds ==
  /\ wrk.outbox \in {"busy", "stopping"}
  /\ wrk' = [wrk EXCEPT !.outbox = IF @ = "busy" THEN "idle" ELSE "stopped"]

\* Polls have failed, or a batch has lasted, for three intervals or two
\* leases.
PollGrowsOld ==
  /\ wrk.polled = "fresh"
  /\ Incident
  /\ wrk' = [wrk EXCEPT !.polled = "stale"]

\* GET /readyz
WorkerReady ==
  /\ ~wrk.told
  /\ wrk.outbox \in {"idle", "busy"}
  /\ wrk.polled = "fresh"
  /\ wrk.pool = "open" /\ wrk.redis = "open"

WorkerBooting == WorkerStarts \/ WorkerDatabaseAnswers \/ WorkerRedisConnects

WorkerClosing ==
  \/ HealthServerClosed \/ WorkerOutboxStopped
  \/ WorkerPoolEnded \/ WorkerRedisQuit

WorkerStep ==
  \/ /\ \/ WorkerBooting \/ WorkerClosing \/ WorkerForced
        \/ WorkerPolls \/ WorkerBatchEnds
     /\ UNCHANGED <<migrationVars, incidents>>
  \/ /\ \/ WorkerBootFails \/ WorkerTold \/ WorkerCrashes \/ PollGrowsOld
     /\ UNCHANGED migrationVars

\* A shutdown either goes on or is cut short by its timer; a start-up that
\* failed has no timer.
WorkerFairness ==
  /\ WF_wrk(WorkerBooting)
  /\ WF_wrk(WorkerClosing \/ WorkerForced)
  /\ WF_wrk(WorkerPolls)
  /\ WF_wrk(WorkerBatchEnds)

=============================================================================
