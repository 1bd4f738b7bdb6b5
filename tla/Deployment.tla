----------------------------- MODULE Deployment -----------------------------
(***************************************************************************)
(* A deployment: migration jobs, an API process and a worker process that  *)
(* start, fail, are told to stop and are restarted in any order over one   *)
(* database.  In deploy/kubernetes the processes are Deployments, which    *)
(* are started again whenever they end, and migrations a Job, which is     *)
(* tried again when it fails.  Nothing makes a process wait for the        *)
(* migrations: it fails on a missing table and is started again.           *)
(***************************************************************************)
EXTENDS ServerProcess, WorkerProcess

deploymentVars == <<migrationVars, srv, wrk, incidents>>

DeploymentInit ==
  /\ MigrationsInit
  /\ srv = ServerDown
  /\ wrk = WorkerDown
  /\ incidents = 0

DeploymentNext ==
  \/ MigrationStep /\ UNCHANGED <<srv, wrk>>
  \/ ServerStep /\ UNCHANGED wrk
  \/ WorkerStep /\ UNCHANGED srv

DeploymentSpec ==
  /\ DeploymentInit /\ [][DeploymentNext]_deploymentVars
  /\ MigrationFairness /\ ServerFairness /\ WorkerFairness

-----------------------------------------------------------------------------
Outboxes  == {"none", "idle", "busy", "stopping", "stopped"}
Pools     == {"open", "ending", "ended"}
Clients   == {"idle", "connecting", "open", "quitting", "closed"}

\* Type invariant: the life cycles of a deployment's processes and of the
\* resources they open stay within the states the code knows.
DeploymentTypeOK ==
  /\ MigrationTypeOK
  /\ srv \in [boot : {"down", "db", "redis", "cleanup", "sockets", "serving",
                      "returned", "failed"},
              told : BOOLEAN,
              closer : [Closers -> Active \cup {"none", "done"}],
              listening : BOOLEAN, outbox : Outboxes, pool : Pools,
              publisher : Clients, subscriber : Clients]
  /\ wrk \in [boot : {"down", "db", "redis", "running", "failed"},
              told : BOOLEAN,
              stage : {"none", "server", "worker", "pool", "redis"},
              outbox : Outboxes, pool : Pools, redis : Clients,
              polled : {"never", "fresh", "stale"}]

\* closeResources (server.js:30) and shutdown (worker.js:77) close the pool
\* after what uses it: wherever a signal or a failure hits the start-up, an
\* API process that accepts requests, and a process with a claimed batch in
\* hand, still has its pool.
ServedByOpenPool ==
  /\ srv.listening \/ srv.outbox \in {"busy", "stopping"} => srv.pool = "open"
  /\ wrk.outbox \in {"busy", "stopping"} => wrk.pool = "open"

\* README:879-883: a process that is told to stop, or whose start-up fails,
\* ends, by itself or by its timer.  In particular nothing is opened behind
\* a closeResources that is past it and has cleared its timer.
EndsWhenTold ==
  /\ srv.told \/ srv.boot = "failed" ~> srv.boot = "down"
  /\ wrk.told \/ wrk.boot = "failed" ~> wrk.boot = "down"

\* Once crashes, failures and signals are over, every file is applied and
\* both processes come up and stay up, whatever state they were left in and
\* whichever of them was started before the tables existed.
ComesUp == <>[](AppliedFiles = Files /\ ServerReady /\ WorkerReady)

=============================================================================
