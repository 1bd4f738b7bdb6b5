------------------------------- MODULE Outbox -------------------------------
(***************************************************************************)
(* The durable event outbox: the rows of the event_outbox table and the    *)
(* workers that claim, process and settle them.  A worker is one process   *)
(* (src/src/worker.js or src/src/server.js) that runs createOutboxWorker;  *)
(* the database is reached statement by statement, so steps of different   *)
(* workers interleave between any two awaits.                              *)
(*                                                                         *)
(* Time is relative.  The code compares instants only with NOW(), so a row *)
(* keeps how long it still has to wait and how long it has been locked;    *)
(* Tick moves both, and an age stops growing once it is beyond the lease.  *)
(***************************************************************************)
EXTENDS Integers, FiniteSets

CONSTANTS
  Events,       \* event ids, numbered in the order (occurred_at, event_id)
  Workers,      \* worker processes
  Nobody,       \* locked_by of a row that is not locked
  Gone,         \* locked_by of a row whose worker process no longer exists
  NoEvent,      \* a worker that is not at any event
  BatchSize, MaxAttempts, RetryBase, RetryMax, Lease,  \* options of a worker
  MaxIncidents  \* bound on crashes, lost statements, late workers,
                \* shutdowns and operator replays

ASSUME EventsAssumption  == Events \subseteq Nat /\ NoEvent \notin Events
ASSUME WorkersAssumption ==
  Nobody \notin Workers /\ Gone \notin Workers /\ Nobody # Gone
ASSUME OptionsAssumption ==
  /\ BatchSize \in Nat /\ MaxAttempts \in Nat \ {0}
  /\ RetryBase \in Nat /\ RetryMax \in Nat /\ Lease \in Nat
  /\ MaxIncidents \in Nat

VARIABLES
  row,        \* event_outbox, by event id
  pc,         \* where each worker is in processBatch
  batch,      \* the rows a worker has claimed and not yet left behind
  snapshot,   \* the attempts of those rows as the claim returned them
  current,    \* the event a worker is at
  held,       \* ticks since the worker's claim transaction began
  stopped,    \* the worker's stopped flag
  processed,  \* history: events whose processEvent has resolved
  incidents   \* how many of the MaxIncidents have happened

dbVars     == <<row, processed>>
workerVars == <<pc, batch, snapshot, current, held, stopped>>
vars       == <<row, pc, batch, snapshot, current, held, stopped,
                processed, incidents>>

Statuses  == {"absent", "pending", "processing", "published", "dead_letter"}
Holders   == Workers \cup {Nobody, Gone}
Locations == {"down", "idle", "polling", "claiming", "next",
              "process", "publish", "settle"}

Row == [status   : Statuses,    \* "absent": the row does not exist yet
        attempts : Nat,
        wait     : Nat,         \* ticks until available_at
        owner    : Holders,     \* locked_by
        age      : 0..Lease+1]  \* ticks since locked_at

TypeOK ==
  /\ row \in [Events -> Row]
  /\ pc \in [Workers -> Locations]
  /\ batch \in [Workers -> SUBSET Events]
  /\ snapshot \in [Workers -> [Events -> Nat]]
  /\ current \in [Workers -> Events \cup {NoEvent}]
  /\ held \in [Workers -> 0..Lease+1]
  /\ stopped \in [Workers -> BOOLEAN]
  /\ processed \subseteq Events
  /\ incidents \in 0..MaxIncidents

-----------------------------------------------------------------------------
(* The statements of outbox.repository.js, as what they make of a row.     *)

Unlocked(status, attempts, wait) ==
  [status |-> status, attempts |-> attempts, wait |-> wait,
   owner |-> Nobody, age |-> 0]

AbsentRow == Unlocked("absent", 0, 0)

\* Slip: ON CONFLICT DO UPDATE, a duplicate starts the event over.
InsertedOver(r) == Unlocked("pending", 0, 0)

\* INSERT ... ON CONFLICT (event_id) DO NOTHING
Inserted(r) ==
  IF r.status = "absent" THEN Unlocked("pending", 0, 0) ELSE r

\* Slip: rows left 'processing' are never looked at again.
EligiblePending(r) == r.status = "pending" /\ r.wait = 0

\* Slip: locked_at is not compared with the lease.
EligibleAnyLock(r) == EligiblePending(r) \/ r.status = "processing"

Eligible(r) ==
  \/ r.status = "pending" /\ r.wait = 0
  \/ r.status = "processing" /\ r.age > Lease

\* Slip: a row claimed once more keeps its first locked_at.
ClaimedSince(r, w, age) ==
  [status |-> "processing", attempts |-> r.attempts + 1, wait |-> r.wait,
   owner |-> w, age |-> r.age]

Claimed(r, w, age) ==
  [status |-> "processing", attempts |-> r.attempts + 1, wait |-> r.wait,
   owner |-> w, age |-> age]

\* Slip: the verdict does not ask whose claim the row is under.
OwnedByAnyone(r, w) == r.status = "processing"

\* WHERE status = 'processing' AND locked_by = $worker
OwnedBy(r, w) == r.status = "processing" /\ r.owner = w

\* Slip: a status the table does not know.
MarkProcessed(r, w) ==
  IF OwnedBy(r, w) THEN Unlocked("processed", r.attempts, r.wait) ELSE r

MarkPublished(r, w) ==
  IF OwnedBy(r, w) THEN Unlocked("published", r.attempts, r.wait) ELSE r

ReleaseForRetry(r, w, backoff) ==
  IF OwnedBy(r, w) THEN Unlocked("pending", r.attempts, backoff) ELSE r

MoveToDeadLetter(r, w) ==
  IF OwnedBy(r, w) THEN Unlocked("dead_letter", r.attempts, r.wait) ELSE r

ReplayDeadLetter(r) ==
  IF r.status = "dead_letter" THEN Unlocked("pending", 0, 0) ELSE r

-----------------------------------------------------------------------------
(* What a worker computes.                                                 *)

\* ORDER BY occurred_at, event_id LIMIT n
Oldest(S, n) == {e \in S : Cardinality({f \in S : f < e}) < n}

\* Math.min(retryMaxDelayMs, retryBaseDelayMs * 2 ** Math.max(0, attempts - 1))
Backoff(attempts) ==
  LET delay == RetryBase * 2^(attempts - 1)
  IN  IF delay \in 0..RetryMax THEN delay ELSE RetryMax

\* Slip: the limit is off by one.
SettledLate(r, w, attempts) ==
  IF attempts > MaxAttempts
  THEN MoveToDeadLetter(r, w)
  ELSE ReleaseForRetry(r, w, Backoff(attempts))

\* The catch block of processBatch: which statement a failure leads to.
Settled(r, w, attempts) ==
  IF attempts >= MaxAttempts
  THEN MoveToDeadLetter(r, w)
  ELSE ReleaseForRetry(r, w, Backoff(attempts))

\* Slip: the claim selects without FOR UPDATE SKIP LOCKED.
LockedNever(e) == FALSE

\* A row another transaction has locked: FOR UPDATE SKIP LOCKED passes it by,
\* a plain UPDATE waits for it.
Locked(e) == \E w \in Workers : pc[w] = "claiming" /\ e \in batch[w]

\* w is inside the loop over the events its claim returned.
Holding(w) == pc[w] \in {"next", "process", "publish", "settle"}
Active(w)  == Holding(w) \/ pc[w] = "claiming"

\* running = false: nothing of the batch survives in the worker.
Forget(w) ==
  /\ batch' = [batch EXCEPT ![w] = {}]
  /\ snapshot' = [snapshot EXCEPT ![w] = [e \in Events |-> 0]]
  /\ current' = [current EXCEPT ![w] = NoEvent]
  /\ held' = [held EXCEPT ![w] = 0]

\* Slip: the loop is left after its first event.
AdvanceOut(w) ==
  /\ pc' = [pc EXCEPT ![w] = "next"]
  /\ batch' = [batch EXCEPT ![w] = {}]
  /\ snapshot' = [snapshot EXCEPT ![w][current[w]] = 0]
  /\ current' = [current EXCEPT ![w] = NoEvent]

\* The current event is settled one way or the other: on to the next one.
Advance(w) ==
  /\ pc' = [pc EXCEPT ![w] = "next"]
  /\ batch' = [batch EXCEPT ![w] = @ \ {current[w]}]
  /\ snapshot' = [snapshot EXCEPT ![w][current[w]] = 0]
  /\ current' = [current EXCEPT ![w] = NoEvent]

Incident == incidents < MaxIncidents /\ incidents' = incidents + 1

-----------------------------------------------------------------------------
Init ==
  /\ row = [e \in Events |-> AbsentRow]
  /\ pc = [w \in Workers |-> "idle"]
  /\ batch = [w \in Workers |-> {}]
  /\ snapshot = [w \in Workers |-> [e \in Events |-> 0]]
  /\ current = [w \in Workers |-> NoEvent]
  /\ held = [w \in Workers |-> 0]
  /\ stopped = [w \in Workers |-> FALSE]
  /\ processed = {}
  /\ incidents = 0

(* A producer stores an event; storing it again changes nothing.           *)
Insert(e) ==
  /\ row' = [row EXCEPT ![e] = Inserted(@)]
  /\ UNCHANGED <<workerVars, processed, incidents>>

\* Slip: the timer goes on polling after stop().
StartPollAnyway(w) ==
  /\ pc[w] = "idle"
  /\ pc' = [pc EXCEPT ![w] = "polling"]
  /\ UNCHANGED <<dbVars, batch, snapshot, current, held, stopped, incidents>>

(* The poll timer fires on a worker that is neither stopped nor running.   *)
StartPoll(w) ==
  /\ pc[w] = "idle"
  /\ ~stopped[w]
  /\ pc' = [pc EXCEPT ![w] = "polling"]
  /\ UNCHANGED <<dbVars, batch, snapshot, current, held, stopped, incidents>>

(* The claim transaction: it locks the oldest eligible rows that nobody    *)
(* else has locked.  Its new row versions are not visible before COMMIT.   *)
BeginClaim(w) ==
  /\ pc[w] = "polling"
  /\ LET candidates ==
           Oldest({e \in Events : Eligible(row[e]) /\ ~Locked(e)}, BatchSize)
     IN  /\ batch' = [batch EXCEPT ![w] = candidates]
         /\ pc' = [pc EXCEPT ![w] =
                     IF candidates = {} THEN "idle" ELSE "claiming"]
  /\ held' = [held EXCEPT ![w] = 0]
  /\ UNCHANGED <<dbVars, snapshot, current, stopped, incidents>>

ClaimedRows(w) ==
  [e \in Events |-> IF pc[w] = "claiming" /\ e \in batch[w]
                    THEN Claimed(row[e], w, held[w]) ELSE row[e]]

(* COMMIT: the claimed rows become visible and their attempts, as          *)
(* RETURNING gave them, are what the worker goes by from here on.          *)
CommitClaim(w) ==
  /\ pc[w] = "claiming"
  /\ row' = ClaimedRows(w)
  /\ pc' = [pc EXCEPT ![w] = "next"]
  /\ snapshot' = [snapshot EXCEPT ![w] =
       [e \in Events |-> IF e \in batch[w] THEN row[e].attempts + 1 ELSE 0]]
  /\ UNCHANGED <<batch, current, held, stopped, processed, incidents>>

(* claim() throws: the transaction is rolled back, or it was committed and *)
(* only the answer got lost.  The poll ends without any event.             *)
ClaimFails(w, committed) ==
  /\ pc[w] \in {"polling", "claiming"}
  /\ Incident
  /\ row' = IF committed THEN ClaimedRows(w) ELSE row
  /\ pc' = [pc EXCEPT ![w] = "idle"]
  /\ Forget(w)
  /\ UNCHANGED <<stopped, processed>>

\* Slip: markPublished comes before processEvent.
PickMarkFirst(w, e) ==
  /\ pc[w] = "next"
  /\ e \in batch[w]
  /\ current' = [current EXCEPT ![w] = e]
  /\ pc' = [pc EXCEPT ![w] = "publish"]
  /\ UNCHANGED <<dbVars, batch, snapshot, held, stopped, incidents>>

(* The loop takes its next event.  UPDATE ... RETURNING promises no order. *)
Pick(w, e) ==
  /\ pc[w] = "next"
  /\ e \in batch[w]
  /\ current' = [current EXCEPT ![w] = e]
  /\ pc' = [pc EXCEPT ![w] = "process"]
  /\ UNCHANGED <<dbVars, batch, snapshot, held, stopped, incidents>>

FinishBatch(w) ==
  /\ pc[w] = "next"
  /\ batch[w] = {}
  /\ pc' = [pc EXCEPT ![w] = "idle"]
  /\ Forget(w)
  /\ UNCHANGED <<dbVars, stopped, incidents>>

(* processEvent resolves ...                                               *)
Processed(w) ==
  /\ pc[w] = "process"
  /\ pc' = [pc EXCEPT ![w] = "publish"]
  /\ processed' = processed \cup {current[w]}
  /\ UNCHANGED <<row, batch, snapshot, current, held, stopped, incidents>>

\* Slip: the consumer's error is swallowed.
ProcessFailsQuietly(w) ==
  /\ pc[w] = "process"
  /\ pc' = [pc EXCEPT ![w] = "publish"]
  /\ UNCHANGED <<dbVars, batch, snapshot, current, held, stopped, incidents>>

(* ... or throws, for whatever reason and as often as it likes.            *)
ProcessFails(w) ==
  /\ pc[w] = "process"
  /\ pc' = [pc EXCEPT ![w] = "settle"]
  /\ UNCHANGED <<dbVars, batch, snapshot, current, held, stopped, incidents>>

Publish(w) ==
  /\ pc[w] = "publish"
  /\ ~Locked(current[w])
  /\ row' = [row EXCEPT ![current[w]] = MarkPublished(@, w)]
  /\ Advance(w)
  /\ UNCHANGED <<held, stopped, processed, incidents>>

(* markPublished throws, applied or not: the same catch block takes over   *)
(* as for a failing consumer.                                              *)
PublishFails(w, applied) ==
  /\ pc[w] = "publish"
  /\ Incident
  /\ applied => ~Locked(current[w])
  /\ row' = IF applied
            THEN [row EXCEPT ![current[w]] = MarkPublished(@, w)] ELSE row
  /\ pc' = [pc EXCEPT ![w] = "settle"]
  /\ UNCHANGED <<batch, snapshot, current, held, stopped, processed>>

SettledRows(w) ==
  [row EXCEPT ![current[w]] = Settled(@, w, snapshot[w][current[w]])]

(* The catch block: back to pending with a backoff, or to dead_letter.     *)
Settle(w) ==
  /\ pc[w] = "settle"
  /\ ~Locked(current[w])
  /\ row' = SettledRows(w)
  /\ Advance(w)
  /\ UNCHANGED <<held, stopped, processed, incidents>>

(* The statement of the catch block throws in turn: that leaves the loop,  *)
(* and the rest of the batch stays 'processing' with nobody at it.         *)
SettleFails(w, applied) ==
  /\ pc[w] = "settle"
  /\ Incident
  /\ applied => ~Locked(current[w])
  /\ row' = IF applied THEN SettledRows(w) ELSE row
  /\ pc' = [pc EXCEPT ![w] = "idle"]
  /\ Forget(w)
  /\ UNCHANGED <<stopped, processed>>

(* stop(): no new poll starts, the one in flight runs to its end.          *)
Stop(w) ==
  /\ pc[w] # "down"
  /\ ~stopped[w]
  /\ Incident
  /\ stopped' = [stopped EXCEPT ![w] = TRUE]
  /\ UNCHANGED <<dbVars, pc, batch, snapshot, current, held>>

\* No process will ever use w's random id again.
Orphaned(r, w) ==
  IF r.owner = w
  THEN [status |-> r.status, attempts |-> r.attempts, wait |-> r.wait,
        owner |-> Gone, age |-> r.age]
  ELSE r

Abandoned(w) == [e \in Events |-> Orphaned(row[e], w)]

(* stop() resolves once running is false, and the process exits.           *)
Exit(w) ==
  /\ pc[w] = "idle"
  /\ stopped[w]
  /\ row' = Abandoned(w)
  /\ pc' = [pc EXCEPT ![w] = "down"]
  /\ stopped' = [stopped EXCEPT ![w] = FALSE]
  /\ UNCHANGED <<batch, snapshot, current, held, processed, incidents>>

(* The process dies, or shutdown's ten seconds are over.  An open claim    *)
(* transaction is rolled back.                                             *)
Crash(w) ==
  /\ pc[w] # "down"
  /\ Incident
  /\ row' = Abandoned(w)
  /\ pc' = [pc EXCEPT ![w] = "down"]
  /\ stopped' = [stopped EXCEPT ![w] = FALSE]
  /\ Forget(w)
  /\ UNCHANGED processed

(* A new process takes the place of w, under a new workerId.               *)
Restart(w) ==
  /\ pc[w] = "down"
  /\ pc' = [pc EXCEPT ![w] = "idle"]
  /\ UNCHANGED <<dbVars, batch, snapshot, current, held, stopped, incidents>>

(* npm run outbox -- replay <event> --confirm                              *)
Replay(e) ==
  /\ Incident
  /\ ~Locked(e)
  /\ row' = [row EXCEPT ![e] = ReplayDeadLetter(@)]
  /\ UNCHANGED <<workerVars, processed>>

Aged(r) ==
  [status |-> r.status, attempts |-> r.attempts, owner |-> r.owner,
   wait |-> IF r.wait > 0 THEN r.wait - 1 ELSE 0,
   age  |-> IF r.status = "processing" /\ r.age <= Lease
            THEN r.age + 1 ELSE r.age]

(* Time passes.  A worker whose batch outlives its lease is an incident.   *)
Tick ==
  /\ row' = [e \in Events |-> Aged(row[e])]
  /\ held' = [w \in Workers |->
                IF Active(w) /\ held[w] <= Lease THEN held[w] + 1 ELSE held[w]]
  /\ IF \E w \in Workers : Active(w) /\ held[w] = Lease
     THEN Incident ELSE UNCHANGED incidents
  /\ UNCHANGED <<pc, batch, snapshot, current, stopped, processed>>

-----------------------------------------------------------------------------
\* What worker w does next when nothing goes wrong around it.
WorkerStep(w) ==
  \/ StartPoll(w) \/ BeginClaim(w) \/ CommitClaim(w)
  \/ (\E e \in Events : Pick(w, e)) \/ FinishBatch(w)
  \/ Processed(w) \/ ProcessFails(w)
  \/ Publish(w) \/ Settle(w)
  \/ Exit(w) \/ Restart(w)

\* What may happen to it.
WorkerIncident(w) ==
  \/ \E lost \in BOOLEAN :
       ClaimFails(w, lost) \/ PublishFails(w, lost) \/ SettleFails(w, lost)
  \/ Stop(w) \/ Crash(w)

Next ==
  \/ \E e \in Events : Insert(e) \/ Replay(e)
  \/ \E w \in Workers : WorkerStep(w) \/ WorkerIncident(w)
  \/ Tick

Spec == Init /\ [][Next]_vars

(* Timers fire, awaited statements and consumers return, a dead process is *)
(* started again, and time passes.                                         *)
Fairness == WF_vars(Tick) /\ \A w \in Workers : WF_vars(WorkerStep(w))

FairSpec == Spec /\ Fairness

-----------------------------------------------------------------------------
(* An event waiting for a claim always has an attempt left, and only one   *)
(* that has none is in dead_letter, whatever stale workers and operators   *)
(* do in between.                                                          *)
PendingHasAttemptsLeft ==
  \A e \in Events : row[e].status = "pending" => row[e].attempts < MaxAttempts

DeadLetterExhausted ==
  \A e \in Events :
    row[e].status = "dead_letter" => row[e].attempts >= MaxAttempts

(* The attempt limit is only looked at when an attempt fails: an event can *)
(* be claimed beyond it, but no more often than claims were cut short.     *)
AttemptsBounded ==
  \A e \in Events : row[e].attempts <= MaxAttempts + incidents

(* Two workers have the same event in hand only if one of them is late,    *)
(* holding it for longer than the lease.                                   *)
ExclusiveUnlessLate ==
  \A e \in Events : \A v, w \in Workers :
    /\ v # w /\ Holding(v) /\ Holding(w)
    /\ e \in batch[v] /\ e \in batch[w]
    => held[v] > Lease \/ held[w] > Lease

(* Nothing is published unread: some consumer ran on it to the end.        *)
PublishedWasProcessed ==
  \A e \in Events : row[e].status = "published" => e \in processed

\* A live worker has e locked and is not at it: it waits for the lease.
Stranded(e, w) == row[e].owner = w /\ ~(Holding(w) /\ e \in batch[w])

(* A row is left locked by a live worker that is not at it only when the   *)
(* COMMIT of its claim or the statement of its catch block throws: not by  *)
(* a stop during a poll or a batch, a failing consumer, a markPublished    *)
(* that throws, or a claim that was taken over and settled by another.     *)
NothingStranded ==
  [][\A e \in Events, w \in Workers :
       Stranded(e, w)' /\ ~Stranded(e, w) =>
         /\ pc[w] \in {"claiming", "settle"} /\ pc'[w] = "idle"
         /\ incidents' > incidents]_vars

(* A published event stays published: no late worker, replay or duplicate  *)
(* insert opens it again.                                                  *)
PublishedIsFinal ==
  [][\A e \in Events :
       row[e].status = "published" => row'[e].status = "published"]_vars

-----------------------------------------------------------------------------
(* Why these hold: what every step keeps of rows, batches and locks.       *)

\* Exactly the rows being processed are locked.
LockDiscipline ==
  \A e \in Events : row[e].status = "processing" <=> row[e].owner # Nobody

AtEvent(w) == pc[w] \in {"process", "publish", "settle"}

\* Only an active worker has a batch, and it is at an event of it.
BatchDiscipline ==
  /\ \A w \in Workers : ~Active(w) => batch[w] = {}
  /\ \A w \in Workers : AtEvent(w) => current[w] \in batch[w]

\* Transactions lock disjoint sets of rows, and a locked row stays as
\* eligible as it was when the transaction chose it.
ClaimDiscipline ==
  /\ \A v, w \in Workers : \A e \in Events :
       /\ pc[v] = "claiming" /\ e \in batch[v]
       /\ pc[w] = "claiming" /\ e \in batch[w]
       => v = w
  /\ \A w \in Workers : \A e \in batch[w] :
       pc[w] = "claiming" => Eligible(row[e])

\* A worker that still owns a row of its batch knows the row's attempts and
\* has held it since it was locked.
OwnerIsInformed ==
  \A w \in Workers : \A e \in batch[w] :
    Holding(w) /\ row[e].owner = w
      => snapshot[w][e] = row[e].attempts /\ held[w] = row[e].age

\* A worker in time owns all of its batch; it may only have published the
\* current event without knowing.
HeldIsOwnedUnlessLate ==
  \A w \in Workers : \A e \in batch[w] :
    Holding(w) =>
      \/ row[e].owner = w
      \/ held[w] > Lease
      \/ row[e].status = "published" /\ pc[w] = "settle" /\ current[w] = e

\* What a worker publishes it has processed, and what it holds exists.
PublishFollowsProcess ==
  \A w \in Workers : pc[w] = "publish" => current[w] \in processed

HeldExists ==
  \A w \in Workers : \A e \in batch[w] : row[e].status # "absent"

\* A claim that has not been cut short yet.
Healthy(e) ==
  \E w \in Workers :
    Holding(w) /\ e \in batch[w] /\ row[e].owner = w /\ held[w] <= Lease

\* Every claim beyond the limit was paid for by an incident: a row at its
\* bound is in healthy hands, and one that is being claimed is below it.
AttemptsPaidFor ==
  /\ \A e \in Events :
       row[e].status = "processing" /\ row[e].attempts = MaxAttempts + incidents
         => Healthy(e)
  /\ \A w \in Workers : \A e \in batch[w] :
       pc[w] = "claiming" =>
         /\ row[e].attempts < MaxAttempts + incidents
         /\ held[w] > Lease => row[e].attempts + 1 < MaxAttempts + incidents

IInv ==
  /\ TypeOK
  /\ LockDiscipline /\ BatchDiscipline /\ ClaimDiscipline
  /\ OwnerIsInformed /\ HeldIsOwnedUnlessLate
  /\ PublishFollowsProcess /\ HeldExists /\ AttemptsPaidFor
  /\ PendingHasAttemptsLeft /\ DeadLetterExhausted /\ AttemptsBounded
  /\ ExclusiveUnlessLate /\ PublishedWasProcessed

-----------------------------------------------------------------------------
(* Liveness.                                                               *)

(* Every accepted event ends up published or in dead_letter, however often *)
(* its consumer fails and whoever crashes, once incidents cease.           *)
Settles ==
  \A e \in Events :
    row[e].status \in {"pending", "processing"}
      ~> row[e].status \in {"published", "dead_letter"}

(* stop() always resolves: whatever a worker is at when it is told to stop,*)
(* its process ends.                                                       *)
StopCompletes == \A w \in Workers : stopped[w] ~> pc[w] = "down"

-----------------------------------------------------------------------------
(* What the project says of itself.                                        *)

(* README, configuration: OUTBOX_MAX_ATTEMPTS is the number of attempts    *)
(* before an event is dead-lettered.                                       *)
LimitIsHard == \A e \in Events : row[e].attempts <= MaxAttempts

-----------------------------------------------------------------------------
(* The promise to producers, implemented.                                  *)

Stage(status) ==
  CASE status \in {"pending", "processing"} -> "open"
    [] status = "dead_letter" -> "buried"
    [] OTHER -> status

Lifecycle == INSTANCE EventLifecycle WITH
  stage <- [e \in Events |-> Stage(row[e].status)],
  delivered <- processed

LifecycleSpec == Lifecycle!Spec

=============================================================================
