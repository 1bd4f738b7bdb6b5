--------------------------- MODULE ServerProcess ---------------------------
(***************************************************************************)
(* One API process (src/src/server.js): startServer opens the database,    *)
(* Redis, the outbox worker, the subscriber and the HTTP and Socket.IO     *)
(* servers one await after the other, while a signal may at any time begin *)
(* closeResources, which closes what is open at the moment it gets there.  *)
(* A failed start begins a closeResources of its own without setting       *)
(* shutdownPromise, so that a later signal begins a second one.            *)
(*                                                                         *)
(* What runs between two awaits is one step.  The exit code is left out.   *)
(***************************************************************************)
EXTENDS Migrations

CONSTANT AppRole    \* env.appRole: "api" leaves the outbox to worker.js

VARIABLE srv

Closers == {"signal", "failure"}     \* who called closeResources
Active  == {"io", "worker", "pool", "publisher", "subscriber"}

ServerDown ==
  [boot       |-> "down",   \* where startServer is
   told       |-> FALSE,    \* shutdownPromise is set
   closer     |-> [c \in Closers |-> "none"],  \* where closeResources is
   listening  |-> FALSE,    \* Socket.IO and HTTP servers accept
   outbox     |-> "none",   \* outboxWorker
   pool       |-> "open",
   publisher  |-> "idle",   \* redisClient
   subscriber |-> "idle"]   \* redisSubscriber

ShuttingDown == srv.told \/ srv.closer["failure"] # "none"

\* redisClient.isOpen is true from the call of connect to the call of quit.
IsOpen(client) == client \in {"connecting", "open"}

\* stop() of an outbox worker: a batch in hand is finished first.
Stopping(outbox) == IF outbox \in {"busy", "stopping"} THEN "stopping"
                                                       ELSE "stopped"

-----------------------------------------------------------------------------
\* closeResources by closer c, from one of its stages to its next await.
CloseSubscriber(s, c) ==
  IF IsOpen(s.subscriber)
  THEN [s EXCEPT !.closer[c] = "subscriber", !.subscriber = "quitting"]
  ELSE [s EXCEPT !.closer[c] = "done"]

ClosePublisher(s, c) ==
  IF IsOpen(s.publisher)
  THEN [s EXCEPT !.closer[c] = "publisher", !.publisher = "quitting"]
  ELSE CloseSubscriber(s, c)

\* A second pool.end() throws; closeResource reports it and goes on.
ClosePool(s, c) ==
  IF s.pool = "open" THEN [s EXCEPT !.closer[c] = "pool", !.pool = "ending"]
                     ELSE ClosePublisher(s, c)

\* Slip: the pool is closed without waiting for the batch in hand.
CloseOutboxAtOnce(s, c) ==
  ClosePool([s EXCEPT !.outbox = IF @ = "none" THEN @ ELSE Stopping(@)], c)

CloseOutbox(s, c) ==
  IF s.outbox # "none"
  THEN [s EXCEPT !.closer[c] = "worker", !.outbox = Stopping(@)]
  ELSE ClosePool(s, c)

CloseResources(s, c) ==
  IF s.listening THEN [s EXCEPT !.closer[c] = "io"] ELSE CloseOutbox(s, c)

\* closeResources answers the await at its stage and goes on.
CloserGoesOn(c, stage) ==
  /\ srv.closer[c] = stage
  /\ UNCHANGED <<migrationVars, incidents>>

SocketsClosed(c) ==
  /\ CloserGoesOn(c, "io")
  /\ srv' = CloseOutbox([srv EXCEPT !.listening = FALSE], c)

OutboxStopped(c) ==
  /\ CloserGoesOn(c, "worker")
  /\ srv.outbox = "stopped"
  /\ srv' = ClosePool(srv, c)

\* pool.end() waits for the clients that are out.
PoolEnded(c) ==
  /\ CloserGoesOn(c, "pool")
  /\ srv.boot \notin {"db", "cleanup"}
  /\ srv' = ClosePublisher([srv EXCEPT !.pool = "ended"], c)

PublisherQuit(c) ==
  /\ CloserGoesOn(c, "publisher")
  /\ srv' = CloseSubscriber([srv EXCEPT !.publisher = "closed"], c)

SubscriberQuit(c) ==
  /\ CloserGoesOn(c, "subscriber")
  /\ srv' = [srv EXCEPT !.subscriber = "closed", !.closer[c] = "done"]

-----------------------------------------------------------------------------
\* startServer, await by await.
Boot(from) == srv.boot = from /\ UNCHANGED <<migrationVars, incidents>>

ServerStarts ==
  /\ Boot("down")
  /\ srv' = [srv EXCEPT !.boot = "db"]

DatabaseAnswers ==
  /\ Boot("db")
  /\ srv' = IF ShuttingDown THEN [srv EXCEPT !.boot = "returned"]
            ELSE [srv EXCEPT !.boot = "redis", !.publisher = "connecting"]

PublisherConnects ==
  /\ Boot("redis")
  /\ srv.publisher \in {"connecting", "quitting"}
  /\ srv' = [srv EXCEPT
       !.publisher = IF @ = "connecting" THEN "open" ELSE @,
       !.boot = IF ShuttingDown THEN "returned" ELSE "cleanup"]

\* cleanupExpiredSessions; on to the outbox worker and initializeWebSocket.
CleanupReturns ==
  /\ Boot("cleanup")
  /\ Migrated(SessionFile)
  /\ srv' = IF ShuttingDown THEN [srv EXCEPT !.boot = "returned"]
            ELSE [srv EXCEPT !.boot = "sockets", !.subscriber = "connecting",
                             !.outbox = IF AppRole = "api" THEN @ ELSE "idle"]

\* Slip: initializeWebSocket returns and shuttingDown is not looked at.
SocketsReadyAnyway ==
  /\ Boot("sockets")
  /\ srv.subscriber = "connecting"
  /\ srv' = [srv EXCEPT !.boot = "serving", !.subscriber = "open",
                        !.listening = TRUE]

\* The subscriber is connected and subscribed; the servers listen.
SocketsReady ==
  /\ Boot("sockets")
  /\ srv.subscriber = "connecting"
  /\ srv' = IF ShuttingDown
            THEN [srv EXCEPT !.boot = "returned", !.subscriber = "open"]
            ELSE [srv EXCEPT !.boot = "serving", !.subscriber = "open",
                             !.listening = TRUE]

\* Slip: the catch of startServer only reports.
BootRejectsOnly == srv' = [srv EXCEPT !.boot = "failed"]

\* The await of startServer rejects: its catch closes everything, unless a
\* signal is doing so.
BootRejects ==
  srv' = LET s == [srv EXCEPT !.boot = "failed"]
         IN  IF srv.told THEN s ELSE CloseResources(s, "failure")

\* No table to clean up, or a client that was closed under the await.
BootCannotGoOn ==
  /\ \/ srv.boot = "cleanup" /\ ~Migrated(SessionFile)
     \/ srv.boot = "redis" /\ srv.publisher \in {"quitting", "closed"}
     \/ srv.boot = "sockets" /\ srv.subscriber \in {"quitting", "closed"}
  /\ BootRejects
  /\ UNCHANGED <<migrationVars, incidents>>

\* The database or Redis does not answer.
BootFails ==
  /\ srv.boot \in {"db", "redis", "cleanup", "sockets"}
  /\ Incident
  /\ BootRejects
  /\ UNCHANGED migrationVars

-----------------------------------------------------------------------------
\* SIGTERM, SIGINT, an unhandled rejection or an error of the HTTP server;
\* the first of them calls closeResources.
GracefulShutdown ==
  /\ srv.boot # "down" /\ ~srv.told
  /\ Incident
  /\ srv' = CloseResources([srv EXCEPT !.told = TRUE], "signal")
  /\ UNCHANGED migrationVars

\* The timer of ten seconds that runs as long as a closer does.
ForcedShutdown ==
  /\ \E c \in Closers : srv.closer[c] \in Active
  /\ srv' = ServerDown
  /\ UNCHANGED <<migrationVars, incidents>>

\* A crash, or the pool's listener of idle clients' errors.
ServerCrashes ==
  /\ srv.boot # "down"
  /\ Incident
  /\ srv' = ServerDown
  /\ UNCHANGED migrationVars

\* Nothing is left that keeps the event loop alive (the timers of the
\* clean-up and of the outbox worker do not).
LoopEmpty ==
  /\ srv.boot \in {"returned", "serving", "failed"}
  /\ ~srv.listening
  /\ \A c \in Closers : srv.closer[c] \notin Active
  /\ srv.outbox \notin {"busy", "stopping"}
  /\ srv.pool = "ended"
  /\ ~IsOpen(srv.publisher) /\ ~IsOpen(srv.subscriber)

ServerExits ==
  /\ LoopEmpty
  /\ srv' = ServerDown
  /\ UNCHANGED <<migrationVars, incidents>>

OutboxPolls ==
  /\ srv.outbox = "idle" /\ Migrated(OutboxFile)
  /\ srv' = [srv EXCEPT !.outbox = "busy"]
  /\ UNCHANGED <<migrationVars, incidents>>

OutboxBatchEnds ==
  /\ srv.outbox \in {"busy", "stopping"}
  /\ srv' = [srv EXCEPT !.outbox = IF @ = "busy" THEN "idle" ELSE "stopped"]
  /\ UNCHANGED <<migrationVars, incidents>>

Closing == \E c \in Closers :
  \/ SocketsClosed(c) \/ OutboxStopped(c) \/ PoolEnded(c)
  \/ PublisherQuit(c) \/ SubscriberQuit(c)

Booting ==
  \/ ServerStarts \/ DatabaseAnswers \/ PublisherConnects
  \/ CleanupReturns \/ SocketsReady \/ BootCannotGoOn

ServerStep ==
  \/ Booting \/ Closing \/ OutboxPolls \/ OutboxBatchEnds
  \/ BootFails \/ GracefulShutdown \/ ForcedShutdown \/ ServerCrashes
  \/ ServerExits

\* The supervisor restarts the process, awaits are answered, batches end; a
\* closer either goes on or is cut short by its timer.
ServerFairness ==
  /\ WF_<<migrationVars, srv, incidents>>(Booting)
  /\ WF_<<migrationVars, srv, incidents>>(Closing \/ ForcedShutdown)
  /\ WF_<<migrationVars, srv, incidents>>(OutboxBatchEnds)
  /\ WF_<<migrationVars, srv, incidents>>(ServerExits)

ServerReady == srv.listening /\ srv.pool = "open"
               /\ srv.publisher = "open" /\ srv.subscriber = "open"

=============================================================================
