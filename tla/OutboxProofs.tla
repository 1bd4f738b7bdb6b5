---------------------------- MODULE OutboxProofs ----------------------------
(***************************************************************************)
(* Proofs about Outbox, for every number of events and workers and every   *)
(* setting of the worker's options.                                        *)
(***************************************************************************)
EXTENDS Outbox, TLAPS

USE DEF Statuses, Holders, Locations

-----------------------------------------------------------------------------
(***************************************************************************)
(* What a statement makes of a row is a row again.                         *)
(***************************************************************************)

\* A backoff is a whole number of ticks, whatever power the code computes.
LEMMA BackoffType ==
  ASSUME NEW n \in Nat PROVE Backoff(n) \in Nat
BY OptionsAssumption DEF Backoff

\* Producers, operators and time leave a well-formed row.
LEMMA OthersKeepRows ==
  ASSUME NEW r \in Row
  PROVE  Inserted(r) \in Row /\ ReplayDeadLetter(r) \in Row /\ Aged(r) \in Row
<1> USE OptionsAssumption DEF Row
<1>1. Inserted(r) \in Row  BY DEF Inserted, Unlocked
<1>2. ReplayDeadLetter(r) \in Row  BY DEF ReplayDeadLetter, Unlocked
<1>3. Aged(r) \in Row  BY DEF Aged
<1>4. QED BY <1>1, <1>2, <1>3

\* So do the statements of a worker.
LEMMA WorkersKeepRows ==
  ASSUME NEW r \in Row, NEW w \in Workers, NEW n \in Nat
  PROVE  /\ \A age \in 0..Lease+1 : Claimed(r, w, age) \in Row
         /\ MarkPublished(r, w) \in Row
         /\ Settled(r, w, n) \in Row
         /\ Orphaned(r, w) \in Row
<1> USE OptionsAssumption, WorkersAssumption DEF Row
<1>1. \A age \in 0..Lease+1 : Claimed(r, w, age) \in Row  BY DEF Claimed
<1>2. MarkPublished(r, w) \in Row  BY DEF MarkPublished, Unlocked
<1>3. ReleaseForRetry(r, w, Backoff(n)) \in Row
  BY BackoffType DEF ReleaseForRetry, Unlocked
<1>4. MoveToDeadLetter(r, w) \in Row  BY DEF MoveToDeadLetter, Unlocked
<1>5. Settled(r, w, n) \in Row  BY <1>3, <1>4 DEF Settled
<1>6. Orphaned(r, w) \in Row  BY DEF Orphaned
<1>7. QED BY <1>1, <1>2, <1>5, <1>6

\* The rows a claim writes, and those a vanished worker leaves behind.
LEMMA TablesKeepRows ==
  ASSUME TypeOK, NEW w \in Workers
  PROVE  ClaimedRows(w) \in [Events -> Row] /\ Abandoned(w) \in [Events -> Row]
BY WorkersKeepRows DEF TypeOK, ClaimedRows, Abandoned

-----------------------------------------------------------------------------
(***************************************************************************)
(* Type correctness.                                                       *)
(***************************************************************************)

\* Nothing is in the table, and every worker is idle with nothing in hand.
LEMMA InitTypeOK == Init => TypeOK
BY OptionsAssumption, WorkersAssumption
   DEF Init, TypeOK, Row, AbsentRow, Unlocked

\* A worker that forgets or advances its batch keeps the types of what it has.
LEMMA ForgetType ==
  ASSUME TypeOK, NEW w \in Workers, Forget(w)
  PROVE  /\ batch' \in [Workers -> SUBSET Events]
         /\ snapshot' \in [Workers -> [Events -> Nat]]
         /\ current' \in [Workers -> Events \cup {NoEvent}]
         /\ held' \in [Workers -> 0..Lease+1]
BY OptionsAssumption DEF TypeOK, Forget

\* So does one that goes on to the next of its batch.
LEMMA AdvanceType ==
  ASSUME TypeOK, NEW w \in Workers, Advance(w)
  PROVE  /\ pc' \in [Workers -> Locations]
         /\ batch' \in [Workers -> SUBSET Events]
         /\ snapshot' \in [Workers -> [Events -> Nat]]
         /\ current' \in [Workers -> Events \cup {NoEvent}]
BY DEF TypeOK, Advance

\* Incidents are counted up to their bound.
LEMMA IncidentType == TypeOK /\ Incident => incidents' \in 0..MaxIncidents
BY OptionsAssumption DEF TypeOK, Incident

\* One step preserves the types, action by action.
LEMMA NextTypeOK == TypeOK /\ BatchDiscipline /\ [Next]_vars => TypeOK'
<1> SUFFICES ASSUME TypeOK, BatchDiscipline, [Next]_vars PROVE TypeOK'
  OBVIOUS
<1>1. CASE UNCHANGED vars
  BY <1>1 DEF vars, TypeOK
<1>2. ASSUME NEW e \in Events, Insert(e) PROVE TypeOK'
  <2>1. Inserted(row[e]) \in Row  BY OthersKeepRows DEF TypeOK
  <2>2. QED BY <1>2, <2>1 DEF Insert, workerVars, TypeOK
<1>3. ASSUME NEW e \in Events, Replay(e) PROVE TypeOK'
  <2>1. ReplayDeadLetter(row[e]) \in Row  BY OthersKeepRows DEF TypeOK
  <2>2. QED BY <1>3, <2>1, IncidentType DEF Replay, workerVars, TypeOK
<1>4. CASE Tick
  <2>1. row' \in [Events -> Row]  BY <1>4, OthersKeepRows DEF Tick, TypeOK
  <2>2. held' \in [Workers -> 0..Lease+1]
    BY <1>4, OptionsAssumption DEF Tick, TypeOK
  <2>3. incidents' \in 0..MaxIncidents
    BY <1>4, IncidentType DEF Tick, TypeOK
  <2>4. QED BY <1>4, <2>1, <2>2, <2>3 DEF Tick, TypeOK
<1>5. ASSUME NEW w \in Workers, StartPoll(w) PROVE TypeOK'
  BY <1>5 DEF StartPoll, dbVars, TypeOK
<1>6. ASSUME NEW w \in Workers, BeginClaim(w) PROVE TypeOK'
  BY <1>6, OptionsAssumption DEF BeginClaim, Oldest, dbVars, TypeOK
<1>7. ASSUME NEW w \in Workers, CommitClaim(w) PROVE TypeOK'
  <2>1. \A e \in Events : row[e].attempts \in Nat  BY DEF TypeOK, Row
  <2>2. QED BY <1>7, <2>1, TablesKeepRows DEF CommitClaim, TypeOK
<1>8. ASSUME NEW w \in Workers, NEW lost \in BOOLEAN, ClaimFails(w, lost)
      PROVE  TypeOK'
  BY <1>8, TablesKeepRows, ForgetType, IncidentType DEF ClaimFails, TypeOK
<1>9. ASSUME NEW w \in Workers, NEW e \in Events, Pick(w, e) PROVE TypeOK'
  BY <1>9 DEF Pick, dbVars, TypeOK
<1>10. ASSUME NEW w \in Workers, FinishBatch(w) PROVE TypeOK'
  BY <1>10, ForgetType DEF FinishBatch, dbVars, TypeOK
<1>11. ASSUME NEW w \in Workers, Processed(w) PROVE TypeOK'
  BY <1>11 DEF Processed, TypeOK, BatchDiscipline, AtEvent
<1>12. ASSUME NEW w \in Workers, ProcessFails(w) PROVE TypeOK'
  BY <1>12 DEF ProcessFails, dbVars, TypeOK
<1>13. ASSUME NEW w \in Workers, AtEvent(w)
       PROVE  /\ current[w] \in Events
              /\ [row EXCEPT ![current[w]] = MarkPublished(@, w)]
                   \in [Events -> Row]
              /\ SettledRows(w) \in [Events -> Row]
  BY <1>13, WorkersKeepRows DEF BatchDiscipline, SettledRows, TypeOK
<1>14. ASSUME NEW w \in Workers, Publish(w) PROVE TypeOK'
  BY <1>14, <1>13, AdvanceType DEF Publish, AtEvent, TypeOK
<1>15. ASSUME NEW w \in Workers, NEW applied \in BOOLEAN,
              PublishFails(w, applied)
       PROVE  TypeOK'
  BY <1>15, <1>13, IncidentType DEF PublishFails, AtEvent, TypeOK
<1>16. ASSUME NEW w \in Workers, Settle(w) PROVE TypeOK'
  BY <1>16, <1>13, AdvanceType DEF Settle, AtEvent, TypeOK
<1>17. ASSUME NEW w \in Workers, NEW applied \in BOOLEAN,
              SettleFails(w, applied)
       PROVE  TypeOK'
  BY <1>17, <1>13, ForgetType, IncidentType DEF SettleFails, AtEvent, TypeOK
<1>18. ASSUME NEW w \in Workers, Stop(w) PROVE TypeOK'
  BY <1>18, IncidentType DEF Stop, dbVars, TypeOK
<1>19. ASSUME NEW w \in Workers, Exit(w) PROVE TypeOK'
  BY <1>19, TablesKeepRows DEF Exit, TypeOK
<1>20. ASSUME NEW w \in Workers, Crash(w) PROVE TypeOK'
  BY <1>20, TablesKeepRows, ForgetType, IncidentType DEF Crash, TypeOK
<1>21. ASSUME NEW w \in Workers, Restart(w) PROVE TypeOK'
  BY <1>21 DEF Restart, dbVars, TypeOK
<1>22. QED
  BY <1>1, <1>2, <1>3, <1>4, <1>5, <1>6, <1>7, <1>8, <1>9, <1>10, <1>11, <1>12,
     <1>14, <1>15, <1>16, <1>17, <1>18, <1>19, <1>20, <1>21
     DEF Next, WorkerStep, WorkerIncident

-----------------------------------------------------------------------------
(***************************************************************************)
(* What the longer cases of the invariant rest on.                         *)
(***************************************************************************)

\* The numbers the invariant compares.
LEMMA Numbers ==
  ASSUME TypeOK
  PROVE  /\ incidents \in Nat /\ MaxAttempts \in Nat /\ Lease \in Nat
         /\ \A w \in Workers : held[w] \in Nat /\ batch[w] \subseteq Events
         /\ \A e \in Events : row[e] \in Row /\ row[e].attempts \in Nat
BY OptionsAssumption DEF TypeOK, Row

\* After an incident every bound is one higher, so no row is at it, and
\* nothing is said of rows without a worker.
LEMMA AfterIncident ==
  ASSUME IInv, TypeOK', incidents' = incidents + 1,
         \A e \in Events : row'[e].attempts <= MaxAttempts + incidents,
         \A v \in Workers : \A e \in batch'[v] :
           pc'[v] = "claiming" =>
             /\ pc[v] = "claiming" /\ e \in batch[v]
             /\ row'[e].attempts <= row[e].attempts
  PROVE  AttemptsPaidFor' /\ AttemptsBounded'
<1>1. incidents \in Nat /\ MaxAttempts \in Nat
  BY Numbers DEF IInv
<1>2. \A e \in Events : row[e].attempts \in Nat /\ row'[e].attempts \in Nat
  BY Numbers DEF IInv, TypeOK, Row
<1>3. \A e \in Events : row'[e].attempts # MaxAttempts + incidents'
  BY <1>1, <1>2
<1>4. ASSUME NEW v \in Workers, NEW e \in batch'[v], pc'[v] = "claiming"
      PROVE  row'[e].attempts + 1 < MaxAttempts + incidents'
  <2>1. e \in Events  BY DEF TypeOK
  <2>2. row[e].attempts < MaxAttempts + incidents
    BY <1>4 DEF IInv, AttemptsPaidFor
  <2>3. QED BY <1>1, <1>2, <1>4, <2>1, <2>2
<1>5. \A v \in Workers : \A e \in batch'[v] : e \in Events  BY DEF TypeOK
<1>6. AttemptsPaidFor'
  BY <1>1, <1>2, <1>3, <1>4, <1>5 DEF AttemptsPaidFor
<1>7. AttemptsBounded'  BY <1>1, <1>2 DEF AttemptsBounded
<1>8. QED BY <1>6, <1>7

\* A row that is being claimed is in nobody's hands but those of the late.
LEMMA ClaimedFromTheLate ==
  ASSUME IInv, NEW w \in Workers, pc[w] = "claiming"
  PROVE  \A e \in batch[w] : \A v \in Workers :
           Holding(v) /\ e \in batch[v] => held[v] > Lease
BY WorkersAssumption
   DEF IInv, TypeOK, Holding, Eligible, LockDiscipline, ClaimDiscipline,
       OwnerIsInformed, HeldIsOwnedUnlessLate

\* Time makes no eligible row ineligible.
LEMMA AgingKeepsEligible ==
  ASSUME NEW r \in Row, Eligible(r)  PROVE Eligible(Aged(r))
BY OptionsAssumption DEF Row, Eligible, Aged

\* Time passes under a claim transaction without touching what it chose.
LEMMA TickKeepsClaims ==
  ASSUME IInv, Tick, TypeOK' PROVE ClaimDiscipline'
<1>1. \A e \in Events : row[e] \in Row /\ row'[e] = Aged(row[e])
  BY Numbers DEF IInv, TypeOK, Tick
<1>2. UNCHANGED <<pc, batch>>  BY DEF Tick
<1>3. QED BY <1>1, <1>2, AgingKeepsEligible DEF IInv, ClaimDiscipline, TypeOK

\* Either time makes a worker late, and that is an incident, or it leaves
\* every claim as healthy as it was.
LEMMA TickPays ==
  ASSUME IInv, Tick, TypeOK' PROVE AttemptsPaidFor'
<1>1. \A e \in Events : /\ row'[e].status = row[e].status
                        /\ row'[e].owner = row[e].owner
                        /\ row'[e].attempts = row[e].attempts
  BY DEF Tick, Aged
<1>2. UNCHANGED <<pc, batch>>  BY DEF Tick
<1>3. CASE incidents' = incidents + 1
  <2>1. \A e \in Events : row'[e].attempts <= MaxAttempts + incidents
    BY <1>1 DEF IInv, AttemptsBounded
  <2>2. \A v \in Workers : \A e \in batch[v] :
          row'[e].attempts <= row[e].attempts
    BY <1>1, Numbers DEF IInv
  <2>3. QED BY <1>2, <1>3, <2>1, <2>2, AfterIncident
<1>4. CASE UNCHANGED incidents
           /\ \A v \in Workers : Active(v) => held[v] # Lease
  <2>1. /\ Lease \in Nat
        /\ \A v \in Workers : held[v] \in Nat /\ held'[v] \in Nat
    BY Numbers DEF IInv, TypeOK
  <2>2. \A v \in Workers :
          held'[v] = IF Active(v) /\ held[v] <= Lease
                     THEN held[v] + 1 ELSE held[v]
    BY DEF Tick
  <2>3. \A v \in Workers : Active(v) => (held'[v] > Lease <=> held[v] > Lease)
    BY <1>4, <2>1, <2>2
  <2>4. \A v \in Workers : Active(v) /\ held[v] <= Lease => held'[v] <= Lease
    BY <2>1, <2>3
  <2>5. \A e \in Events : Healthy(e) => Healthy(e)'
    BY <1>1, <1>2, <2>4 DEF Healthy, Active, Holding
  <2>6. QED
    BY <1>1, <1>2, <1>4, <2>3, <2>5 DEF IInv, AttemptsPaidFor, Active, TypeOK
<1>5. QED BY <1>3, <1>4 DEF Tick, Incident

\* What a claim chooses is below its bound: a pending row has attempts left,
\* and a processing one whose lease is over is in nobody's healthy hands.
LEMMA BeginClaimPays ==
  ASSUME IInv, NEW w \in Workers, BeginClaim(w), TypeOK'
  PROVE  BatchDiscipline' /\ AttemptsPaidFor'
<1> PICK candidates \in SUBSET Events :
       /\ \A e \in candidates : Eligible(row[e]) /\ ~Locked(e)
       /\ batch' = [batch EXCEPT ![w] = candidates]
       /\ pc' = [pc EXCEPT ![w] = IF candidates = {}
                                  THEN "idle" ELSE "claiming"]
  BY DEF BeginClaim, Oldest
<1>1. /\ pc[w] = "polling" /\ batch[w] = {} /\ held'[w] = 0
      /\ \A v \in Workers \ {w} :
           held'[v] = held[v] /\ pc'[v] = pc[v] /\ batch'[v] = batch[v]
      /\ UNCHANGED <<row, current, incidents>>
  BY DEF BeginClaim, BatchDiscipline, IInv, TypeOK, Active, Holding, dbVars
<1>2. /\ batch'[w] = candidates
      /\ pc'[w] = IF candidates = {} THEN "idle" ELSE "claiming"
  BY DEF IInv, TypeOK
<1>3. BatchDiscipline'
  BY <1>1, <1>2 DEF BatchDiscipline, IInv, Active, Holding, AtEvent
<1>4. \A e \in Events : Healthy(e) => Healthy(e)'
  BY <1>1 DEF Healthy, Holding
<1>5. ASSUME NEW e \in candidates
      PROVE  row[e].attempts < MaxAttempts + incidents
  <2>1. /\ row[e].attempts \in Nat /\ incidents \in Nat /\ MaxAttempts \in Nat
        /\ row[e].attempts <= MaxAttempts + incidents
    BY Numbers DEF IInv, AttemptsBounded
  <2>2. CASE row[e].status = "pending"
    <3>1. row[e].attempts < MaxAttempts
      BY <2>2 DEF IInv, PendingHasAttemptsLeft
    <3>2. QED BY <2>1, <3>1
  <2>3. CASE row[e].status = "processing" /\ row[e].age > Lease
    <3>1. Lease \in Nat /\ row[e].age \in Nat
      BY Numbers DEF Row, IInv, TypeOK
    <3>2. ~Healthy(e)  BY <2>3, <3>1 DEF Healthy, IInv, OwnerIsInformed
    <3>3. row[e].attempts # MaxAttempts + incidents
      BY <2>3, <3>2 DEF IInv, AttemptsPaidFor
    <3>4. QED BY <2>1, <3>3
  <2>4. QED BY <2>2, <2>3 DEF Eligible
<1>6. ~(0 > Lease)  BY Numbers DEF IInv
<1>7. QED
  BY <1>1, <1>2, <1>3, <1>4, <1>5, <1>6 DEF AttemptsPaidFor, IInv

\* COMMIT takes rows away from late workers only, and a row it brings to its
\* bound is in the hands of a worker in time.
LEMMA CommitClaimPays ==
  ASSUME IInv, NEW w \in Workers, CommitClaim(w), TypeOK'
  PROVE  /\ HeldIsOwnedUnlessLate' /\ ExclusiveUnlessLate'
         /\ AttemptsBounded' /\ AttemptsPaidFor'
<1>1. /\ pc[w] = "claiming" /\ row' = ClaimedRows(w)
      /\ pc' = [pc EXCEPT ![w] = "next"]
      /\ UNCHANGED <<batch, held, incidents, current>>
  BY DEF CommitClaim
<1>2. \A e \in batch[w] : /\ row'[e].status = "processing"
                         /\ row'[e].owner = w
                         /\ row'[e].attempts = row[e].attempts + 1
  BY <1>1 DEF ClaimedRows, Claimed, IInv, TypeOK
<1>3. \A e \in Events \ batch[w] : row'[e] = row[e]
  BY <1>1 DEF ClaimedRows
<1>4. \A v \in Workers \ {w} : pc'[v] = pc[v]  BY <1>1
<1>5. pc'[w] = "next" /\ ~Holding(w) /\ batch[w] \subseteq Events
  BY <1>1 DEF Holding, IInv, TypeOK
<1>6. AttemptsBounded'
  BY <1>1, <1>2, <1>3, Numbers DEF AttemptsPaidFor, AttemptsBounded, IInv
<1>7. HeldIsOwnedUnlessLate'
  <2>1. \A e \in batch[w] : \A v \in Workers \ {w} :
          Holding(v) /\ e \in batch[v] => held[v] > Lease
    BY <1>1, ClaimedFromTheLate
  <2>2. QED
    BY <1>1, <1>2, <1>3, <1>4, <1>5, <2>1
       DEF HeldIsOwnedUnlessLate, IInv, Holding, TypeOK
<1>8. ExclusiveUnlessLate'
  BY <1>1, <1>4, ClaimedFromTheLate DEF ExclusiveUnlessLate, IInv, Holding
<1>9. AttemptsPaidFor'
  <2>1. ASSUME NEW e \in Events, row'[e].status = "processing",
               row'[e].attempts = MaxAttempts + incidents
        PROVE  Healthy(e)'
    <3>1. CASE e \in batch[w]
      <4>1. row[e].attempts + 1 = MaxAttempts + incidents
        BY <1>2, <2>1, <3>1
      <4>2. held[w] <= Lease
        BY <1>1, <3>1, <4>1, Numbers DEF IInv, AttemptsPaidFor
      <4>3. QED BY <1>1, <1>2, <1>5, <3>1, <4>2 DEF Healthy, Holding
    <3>2. CASE e \notin batch[w]
      <4>1. Healthy(e)  BY <1>3, <2>1, <3>2 DEF IInv, AttemptsPaidFor
      <4>2. QED BY <1>1, <1>3, <1>4, <1>5, <3>2, <4>1 DEF Healthy, Holding
    <3>3. QED BY <3>1, <3>2
  <2>2. ASSUME NEW v \in Workers, NEW e \in batch[v], pc'[v] = "claiming"
        PROVE  row'[e] = row[e]
    BY <2>2, <1>1, <1>3, <1>4, <1>5 DEF IInv, ClaimDiscipline, TypeOK
  <2>3. QED BY <1>1, <1>4, <1>5, <2>1, <2>2 DEF AttemptsPaidFor, IInv
<1>10. QED BY <1>6, <1>7, <1>8, <1>9

\* The same when nobody is told of the COMMIT: that is an incident.
LEMMA ClaimFailsPays ==
  ASSUME IInv, NEW w \in Workers, NEW lost \in BOOLEAN,
         ClaimFails(w, lost), TypeOK'
  PROVE  /\ HeldIsOwnedUnlessLate'
         /\ AttemptsPaidFor' /\ AttemptsBounded'
<1>1. /\ pc' = [pc EXCEPT ![w] = "idle"] /\ batch' = [batch EXCEPT ![w] = {}]
      /\ held' = [held EXCEPT ![w] = 0]
      /\ current' = [current EXCEPT ![w] = NoEvent]
      /\ incidents' = incidents + 1
  BY DEF ClaimFails, Forget, Incident
<1>2. \A e \in Events : \/ row'[e] = row[e]
                        \/ /\ e \in batch[w] /\ pc[w] = "claiming"
                           /\ row'[e].attempts = row[e].attempts + 1
  BY DEF ClaimFails, ClaimedRows, Claimed
<1>3. \A v \in Workers \ {w} :
        /\ pc'[v] = pc[v] /\ batch'[v] = batch[v] /\ batch[v] \subseteq Events
        /\ held'[v] = held[v] /\ current'[v] = current[v]
  BY <1>1 DEF IInv, TypeOK
<1>4. pc'[w] = "idle" /\ batch'[w] = {}  BY <1>1 DEF IInv, TypeOK
<1>5. AttemptsPaidFor' /\ AttemptsBounded'
  <2>1. \A e \in Events : row'[e].attempts <= MaxAttempts + incidents
    BY <1>2, Numbers DEF IInv, AttemptsPaidFor, AttemptsBounded
  <2>2. \A v \in Workers \ {w} : \A e \in batch[v] :
          pc[v] = "claiming" => row'[e] = row[e]
    BY <1>2, <1>3 DEF IInv, ClaimDiscipline
  <2>3. QED
    BY <1>1, <1>3, <1>4, <2>1, <2>2, Numbers, AfterIncident DEF IInv
<1>6. HeldIsOwnedUnlessLate'
  <2>1. \A v \in Workers : Holding(v)' => v # w  BY <1>4 DEF Holding
  <2>2. \A v \in Workers : \A e \in batch[v] :
          Holding(v) => row'[e] = row[e] \/ held[v] > Lease
    BY <1>2, ClaimedFromTheLate DEF IInv, TypeOK
  <2>3. QED
    BY <1>3, <2>1, <2>2 DEF HeldIsOwnedUnlessLate, Holding, IInv
<1>7. QED BY <1>5, <1>6

\* A worker that exits has nothing in hand, and its id leaves the rows.
LEMMA ExitLeavesOthers ==
  ASSUME IInv, NEW w \in Workers, Exit(w), TypeOK'
  PROVE  AttemptsPaidFor'
<1>1. \A e \in Events : /\ row'[e].owner # w
                        /\ row'[e].owner \in {Gone, row[e].owner}
                        /\ row[e].owner # w => row'[e] = row[e]
                        /\ row'[e].status = row[e].status
                        /\ row'[e].attempts = row[e].attempts
  BY WorkersAssumption DEF Exit, Abandoned, Orphaned
<1>2. /\ pc[w] = "idle" /\ pc'[w] = "down"
      /\ \A v \in Workers \ {w} : pc'[v] = pc[v]
      /\ \A v \in Workers : batch[v] \subseteq Events
      /\ UNCHANGED <<batch, held, incidents>>
  BY DEF Exit, IInv, TypeOK
<1>3. \A e \in Events : Healthy(e) => Healthy(e)'
  BY <1>1, <1>2 DEF Healthy, Holding
<1>4. QED BY <1>1, <1>2, <1>3 DEF AttemptsPaidFor, IInv

\* The incidents that write no attempts, or fewer than before.
LEMMA IncidentsPay ==
  ASSUME IInv, TypeOK',
         \/ \E e \in Events : Replay(e)
         \/ \E w \in Workers : \/ Stop(w) \/ Crash(w)
                               \/ \E applied \in BOOLEAN :
                                    \/ PublishFails(w, applied)
                                    \/ SettleFails(w, applied)
  PROVE  AttemptsPaidFor' /\ AttemptsBounded'
<1>1. incidents' = incidents + 1
  BY DEF Replay, Stop, Crash, PublishFails, SettleFails, Incident
<1>2. \A e \in Events : row'[e].attempts <= row[e].attempts
  <2>1. \A e \in Events : row[e].attempts \in Nat  BY Numbers DEF IInv
  <2>2. ASSUME NEW f \in Events, Replay(f)
        PROVE  \A e \in Events : row'[e].attempts \in {0, row[e].attempts}
    BY <2>2 DEF Replay, ReplayDeadLetter, Unlocked, IInv, TypeOK
  <2>3. ASSUME NEW w \in Workers, Stop(w) \/ Crash(w)
        PROVE  \A e \in Events : row'[e].attempts = row[e].attempts
    BY <2>3 DEF Stop, Crash, Abandoned, Orphaned, dbVars
  <2>4. ASSUME NEW w \in Workers, NEW applied \in BOOLEAN,
               PublishFails(w, applied)
        PROVE  \A e \in Events : row'[e].attempts = row[e].attempts
    BY <2>4 DEF PublishFails, MarkPublished, Unlocked, IInv, TypeOK
  <2>5. ASSUME NEW w \in Workers, NEW applied \in BOOLEAN,
               SettleFails(w, applied)
        PROVE  \A e \in Events : row'[e].attempts = row[e].attempts
    BY <2>5 DEF SettleFails, SettledRows, Settled, ReleaseForRetry,
                MoveToDeadLetter, Unlocked, IInv, TypeOK
  <2>6. \A e \in Events : row'[e].attempts \in {0, row[e].attempts}
    BY <2>2, <2>3, <2>4, <2>5
  <2>7. QED BY <2>1, <2>6
<1>3. \A v \in Workers : pc'[v] = "claiming" =>
        pc[v] = "claiming" /\ batch'[v] = batch[v]
  BY DEF Replay, Stop, Crash, PublishFails, SettleFails, Forget,
         dbVars, workerVars, IInv, TypeOK
<1>4. \A e \in Events : row'[e].attempts <= MaxAttempts + incidents
  <2>1. \A e \in Events : row[e].attempts \in Nat /\ row'[e].attempts \in Nat
    BY Numbers DEF IInv, TypeOK, Row
  <2>2. QED BY <1>2, <2>1, Numbers DEF IInv, AttemptsBounded
<1>5. QED BY <1>1, <1>2, <1>3, <1>4, Numbers, AfterIncident DEF IInv

-----------------------------------------------------------------------------
(***************************************************************************)
(* The inductive invariant.                                                *)
(***************************************************************************)

\* Where no row exists and no worker has anything, all of it holds.
LEMMA InitIInv == ASSUME Init, TypeOK PROVE IInv
<1> USE DEF Init, AbsentRow, Unlocked
<1>1. /\ LockDiscipline /\ PendingHasAttemptsLeft
      /\ DeadLetterExhausted /\ PublishedWasProcessed
  BY DEF LockDiscipline, PendingHasAttemptsLeft, DeadLetterExhausted,
         PublishedWasProcessed
<1>2. /\ BatchDiscipline /\ ClaimDiscipline
      /\ OwnerIsInformed /\ HeldIsOwnedUnlessLate
      /\ PublishFollowsProcess /\ HeldExists /\ ExclusiveUnlessLate
  BY DEF BatchDiscipline, ClaimDiscipline, OwnerIsInformed,
         HeldIsOwnedUnlessLate, PublishFollowsProcess, HeldExists, ExclusiveUnlessLate, AtEvent
<1>3. AttemptsPaidFor
  BY DEF AttemptsPaidFor
<1>4. AttemptsBounded
  BY OptionsAssumption DEF AttemptsBounded
<1>5. QED BY <1>1, <1>2, <1>3, <1>4 DEF IInv

\* One step preserves the invariant, action by action.  Conjuncts that an
\* action leaves alone for the same reason share a step.
LEMMA NextIInv == IInv /\ [Next]_vars => IInv'
<1> SUFFICES ASSUME IInv, [Next]_vars PROVE IInv'
  OBVIOUS
<1>0. TypeOK'  BY NextTypeOK DEF IInv
<1>1. CASE UNCHANGED vars
  <2> USE <1>1 DEF vars, Holding, Active, AtEvent
  <2>1. LockDiscipline' /\ BatchDiscipline' /\ ClaimDiscipline'
    BY DEF IInv, LockDiscipline, BatchDiscipline, ClaimDiscipline
  <2>2. /\ OwnerIsInformed' /\ HeldIsOwnedUnlessLate' /\ PublishFollowsProcess'
        /\ HeldExists' /\ ExclusiveUnlessLate'
    BY DEF IInv, OwnerIsInformed, HeldIsOwnedUnlessLate,
       PublishFollowsProcess, HeldExists, ExclusiveUnlessLate
  <2>3. /\ AttemptsPaidFor' /\ PendingHasAttemptsLeft' /\ DeadLetterExhausted'
        /\ AttemptsBounded' /\ PublishedWasProcessed'
    BY DEF IInv, AttemptsPaidFor, Healthy, PendingHasAttemptsLeft,
       DeadLetterExhausted, AttemptsBounded, PublishedWasProcessed
  <2>4. QED BY <1>0, <2>1, <2>2, <2>3 DEF IInv
<1>2. ASSUME NEW e \in Events, Insert(e) PROVE IInv'
  <2> USE <1>2 DEF IInv, Insert, Inserted, Unlocked, workerVars
  <2>1. /\ LockDiscipline' /\ HeldExists'
        /\ DeadLetterExhausted' /\ PublishedWasProcessed'
    BY DEF LockDiscipline, HeldExists, DeadLetterExhausted,
       PublishedWasProcessed
  <2>2. BatchDiscipline' /\ ExclusiveUnlessLate'
    BY DEF BatchDiscipline, ExclusiveUnlessLate, Holding, Active, AtEvent
  <2>3. ClaimDiscipline'  BY DEF ClaimDiscipline, Eligible
  <2>4. OwnerIsInformed'  BY WorkersAssumption DEF OwnerIsInformed, Holding
  <2>5. HeldIsOwnedUnlessLate'
    BY DEF HeldIsOwnedUnlessLate, Holding, LockDiscipline
  <2>6. PublishFollowsProcess'  BY DEF PublishFollowsProcess
  <2>7. AttemptsPaidFor'
    BY DEF AttemptsPaidFor, Holding, Eligible, Healthy, ClaimDiscipline
  <2>8. PendingHasAttemptsLeft'
    BY OptionsAssumption DEF PendingHasAttemptsLeft
  <2>9. AttemptsBounded'
    BY OptionsAssumption, <1>0 DEF AttemptsBounded, TypeOK
  <2>10. QED BY <1>0, <2>1, <2>2, <2>3, <2>4, <2>5, <2>6, <2>7, <2>8, <2>9
<1>3. ASSUME NEW e \in Events, Replay(e) PROVE IInv'
  <2>1. AttemptsPaidFor' /\ AttemptsBounded'
    BY <1>0, <1>3, IncidentsPay
  <2> USE <1>3 DEF IInv, Replay, ReplayDeadLetter, Unlocked, workerVars
  <2>2. /\ LockDiscipline' /\ HeldExists'
        /\ DeadLetterExhausted' /\ PublishedWasProcessed'
    BY DEF LockDiscipline, HeldExists, DeadLetterExhausted,
       PublishedWasProcessed
  <2>3. BatchDiscipline' /\ ExclusiveUnlessLate'
    BY DEF BatchDiscipline, ExclusiveUnlessLate, Holding, Active, AtEvent
  <2>4. ClaimDiscipline'  BY DEF ClaimDiscipline, Locked
  <2>5. OwnerIsInformed'  BY WorkersAssumption DEF OwnerIsInformed, Holding
  <2>6. HeldIsOwnedUnlessLate'
    BY DEF HeldIsOwnedUnlessLate, Holding, LockDiscipline
  <2>7. PublishFollowsProcess'  BY DEF PublishFollowsProcess
  <2>8. PendingHasAttemptsLeft'
    BY OptionsAssumption DEF PendingHasAttemptsLeft
  <2>9. QED BY <1>0, <2>1, <2>2, <2>3, <2>4, <2>5, <2>6, <2>7, <2>8
<1>4. ASSUME Tick PROVE IInv'
  <2>1. ClaimDiscipline' /\ AttemptsPaidFor'
    BY <1>0, <1>4, TickKeepsClaims, TickPays
  <2> USE <1>4 DEF IInv, Tick, Aged
  <2>2. /\ LockDiscipline' /\ PendingHasAttemptsLeft'
        /\ DeadLetterExhausted' /\ PublishedWasProcessed'
    BY DEF LockDiscipline, PendingHasAttemptsLeft, DeadLetterExhausted,
       PublishedWasProcessed, Incident
  <2>3. BatchDiscipline'  BY DEF BatchDiscipline, Holding, Active, AtEvent
  <2>4. OwnerIsInformed'
    BY WorkersAssumption, <1>0 DEF OwnerIsInformed, Holding, LockDiscipline,
       BatchDiscipline, TypeOK
  <2>5. HeldIsOwnedUnlessLate' /\ ExclusiveUnlessLate'
    BY OptionsAssumption, <1>0 DEF HeldIsOwnedUnlessLate, ExclusiveUnlessLate,
       Holding, TypeOK
  <2>6. PublishFollowsProcess'  BY DEF PublishFollowsProcess
  <2>7. HeldExists'  BY <1>0 DEF HeldExists, Incident, TypeOK
  <2>8. AttemptsBounded'
    BY OptionsAssumption, <1>0 DEF AttemptsBounded, Incident, Row, TypeOK
  <2>9. QED BY <1>0, <2>1, <2>2, <2>3, <2>4, <2>5, <2>6, <2>7, <2>8
<1>5. ASSUME NEW w \in Workers, StartPoll(w) PROVE IInv'
  <2> USE <1>5 DEF IInv, StartPoll, dbVars
  <2>1. /\ LockDiscipline' /\ ClaimDiscipline'
        /\ PublishFollowsProcess' /\ HeldExists'
        /\ PendingHasAttemptsLeft' /\ DeadLetterExhausted'
        /\ AttemptsBounded' /\ PublishedWasProcessed'
    BY DEF LockDiscipline, ClaimDiscipline, PublishFollowsProcess, HeldExists,
       PendingHasAttemptsLeft, DeadLetterExhausted, AttemptsBounded,
       PublishedWasProcessed
  <2>2. /\ BatchDiscipline' /\ OwnerIsInformed'
        /\ HeldIsOwnedUnlessLate' /\ ExclusiveUnlessLate'
    BY DEF BatchDiscipline, OwnerIsInformed, HeldIsOwnedUnlessLate,
       ExclusiveUnlessLate, Holding, Active, AtEvent
  <2>3. AttemptsPaidFor'  BY DEF AttemptsPaidFor, Holding, Healthy
  <2>4. QED BY <1>0, <2>1, <2>2, <2>3
<1>6. ASSUME NEW w \in Workers, BeginClaim(w) PROVE IInv'
  <2>1. BatchDiscipline' /\ AttemptsPaidFor'
    BY <1>0, <1>6, BeginClaimPays
  <2> USE <1>6 DEF IInv, BeginClaim, dbVars
  <2>2. /\ LockDiscipline' /\ PublishFollowsProcess'
        /\ PendingHasAttemptsLeft' /\ DeadLetterExhausted'
        /\ AttemptsBounded' /\ PublishedWasProcessed'
    BY DEF LockDiscipline, PublishFollowsProcess, PendingHasAttemptsLeft,
       DeadLetterExhausted, AttemptsBounded, PublishedWasProcessed
  <2>3. ClaimDiscipline'  BY <1>0 DEF ClaimDiscipline, Oldest, Locked, TypeOK
  <2>4. /\ OwnerIsInformed' /\ HeldIsOwnedUnlessLate'
        /\ ExclusiveUnlessLate'
    BY DEF OwnerIsInformed, HeldIsOwnedUnlessLate, ExclusiveUnlessLate,
       Holding, Active, AtEvent
  <2>5. HeldExists'  BY DEF HeldExists, Oldest, Eligible
  <2>6. QED BY <1>0, <2>1, <2>2, <2>3, <2>4, <2>5
<1>7. ASSUME NEW w \in Workers, CommitClaim(w) PROVE IInv'
  <2>1. /\ HeldIsOwnedUnlessLate' /\ ExclusiveUnlessLate'
        /\ AttemptsBounded' /\ AttemptsPaidFor'
    BY <1>0, <1>7, CommitClaimPays
  <2> USE <1>7 DEF IInv, CommitClaim, ClaimedRows, Claimed
  <2>2. LockDiscipline'  BY WorkersAssumption DEF LockDiscipline
  <2>3. BatchDiscipline'  BY DEF BatchDiscipline, Holding, Active, AtEvent
  <2>4. ClaimDiscipline' /\ HeldExists'
    BY <1>0 DEF ClaimDiscipline, HeldExists, TypeOK
  <2>5. OwnerIsInformed'
    BY <1>0 DEF OwnerIsInformed, Holding, TypeOK
  <2>6. PublishFollowsProcess'  BY DEF PublishFollowsProcess
  <2>7. /\ PendingHasAttemptsLeft' /\ DeadLetterExhausted'
        /\ PublishedWasProcessed'
    BY DEF PendingHasAttemptsLeft, DeadLetterExhausted, PublishedWasProcessed
  <2>8. QED BY <1>0, <2>1, <2>2, <2>3, <2>4, <2>5, <2>6, <2>7
<1>8. ASSUME NEW w \in Workers, NEW lost \in BOOLEAN, ClaimFails(w, lost)
      PROVE  IInv'
  <2>1. /\ HeldIsOwnedUnlessLate'
        /\ AttemptsPaidFor' /\ AttemptsBounded'
    BY <1>0, <1>8, ClaimFailsPays
  <2> USE <1>8 DEF IInv, ClaimFails, ClaimedRows, Claimed, Forget
  <2>2. LockDiscipline'  BY WorkersAssumption DEF LockDiscipline
  <2>3. BatchDiscipline'
    BY <1>0 DEF BatchDiscipline, Holding, Active, AtEvent, TypeOK
  <2>4. ClaimDiscipline' /\ HeldExists'
    BY <1>0 DEF ClaimDiscipline, HeldExists, TypeOK
  <2>5. OwnerIsInformed'  BY <1>0 DEF OwnerIsInformed, Holding, TypeOK
  <2>6. /\ PublishFollowsProcess' /\ PendingHasAttemptsLeft'
        /\ DeadLetterExhausted' /\ PublishedWasProcessed'
    BY DEF PublishFollowsProcess, PendingHasAttemptsLeft, DeadLetterExhausted,
       PublishedWasProcessed, Incident
  <2>7. ExclusiveUnlessLate'  BY DEF ExclusiveUnlessLate, Holding
  <2>8. QED BY <1>0, <2>1, <2>2, <2>3, <2>4, <2>5, <2>6, <2>7
<1>9. ASSUME NEW w \in Workers, NEW e \in Events, Pick(w, e) PROVE IInv'
  <2> USE <1>9 DEF IInv, Pick, dbVars
  <2>1. /\ LockDiscipline' /\ ClaimDiscipline'
        /\ PublishFollowsProcess' /\ HeldExists'
        /\ PendingHasAttemptsLeft' /\ DeadLetterExhausted'
        /\ AttemptsBounded' /\ PublishedWasProcessed'
    BY DEF LockDiscipline, ClaimDiscipline, PublishFollowsProcess, HeldExists,
       PendingHasAttemptsLeft, DeadLetterExhausted, AttemptsBounded,
       PublishedWasProcessed
  <2>2. BatchDiscipline'
    BY <1>0 DEF BatchDiscipline, Holding, Active, AtEvent, TypeOK
  <2>3. /\ OwnerIsInformed' /\ HeldIsOwnedUnlessLate'
        /\ ExclusiveUnlessLate'
    BY DEF OwnerIsInformed, HeldIsOwnedUnlessLate, ExclusiveUnlessLate,
       Holding, Active, AtEvent
  <2>4. AttemptsPaidFor'  BY DEF AttemptsPaidFor, Holding, Healthy
  <2>5. QED BY <1>0, <2>1, <2>2, <2>3, <2>4
<1>10. ASSUME NEW w \in Workers, FinishBatch(w) PROVE IInv'
  <2> USE <1>10 DEF IInv, FinishBatch, Forget, dbVars
  <2>1. /\ LockDiscipline' /\ PendingHasAttemptsLeft'
        /\ DeadLetterExhausted' /\ AttemptsBounded'
        /\ PublishedWasProcessed'
    BY DEF LockDiscipline, PendingHasAttemptsLeft, DeadLetterExhausted,
       AttemptsBounded, PublishedWasProcessed
  <2>2. BatchDiscipline'  BY DEF BatchDiscipline, Holding, Active, AtEvent
  <2>3. /\ ClaimDiscipline' /\ PublishFollowsProcess'
        /\ HeldExists'
    BY DEF ClaimDiscipline, PublishFollowsProcess, HeldExists
  <2>4. /\ OwnerIsInformed' /\ HeldIsOwnedUnlessLate'
        /\ ExclusiveUnlessLate'
    BY DEF OwnerIsInformed, HeldIsOwnedUnlessLate, ExclusiveUnlessLate,
       Holding
  <2>5. AttemptsPaidFor'  BY DEF AttemptsPaidFor, Holding, Healthy
  <2>6. QED BY <1>0, <2>1, <2>2, <2>3, <2>4, <2>5
<1>11. ASSUME NEW w \in Workers, Processed(w) PROVE IInv'
  <2> USE <1>11 DEF IInv, Processed
  <2>1. /\ LockDiscipline' /\ ClaimDiscipline'
        /\ PublishFollowsProcess' /\ HeldExists'
        /\ PendingHasAttemptsLeft' /\ DeadLetterExhausted'
        /\ AttemptsBounded' /\ PublishedWasProcessed'
    BY DEF LockDiscipline, ClaimDiscipline, PublishFollowsProcess, HeldExists,
       PendingHasAttemptsLeft, DeadLetterExhausted, AttemptsBounded,
       PublishedWasProcessed
  <2>2. /\ BatchDiscipline' /\ OwnerIsInformed'
        /\ HeldIsOwnedUnlessLate' /\ ExclusiveUnlessLate'
    BY DEF BatchDiscipline, OwnerIsInformed, HeldIsOwnedUnlessLate,
       ExclusiveUnlessLate, Holding, Active, AtEvent
  <2>3. AttemptsPaidFor'  BY DEF AttemptsPaidFor, Holding, Healthy
  <2>4. QED BY <1>0, <2>1, <2>2, <2>3
<1>12. ASSUME NEW w \in Workers, ProcessFails(w) PROVE IInv'
  <2> USE <1>12 DEF IInv, ProcessFails, dbVars
  <2>1. /\ LockDiscipline' /\ ClaimDiscipline'
        /\ PublishFollowsProcess' /\ HeldExists'
        /\ PendingHasAttemptsLeft' /\ DeadLetterExhausted'
        /\ AttemptsBounded' /\ PublishedWasProcessed'
    BY DEF LockDiscipline, ClaimDiscipline, PublishFollowsProcess, HeldExists,
       PendingHasAttemptsLeft, DeadLetterExhausted, AttemptsBounded,
       PublishedWasProcessed
  <2>2. /\ BatchDiscipline' /\ OwnerIsInformed'
        /\ HeldIsOwnedUnlessLate' /\ ExclusiveUnlessLate'
    BY DEF BatchDiscipline, OwnerIsInformed, HeldIsOwnedUnlessLate,
       ExclusiveUnlessLate, Holding, Active, AtEvent
  <2>3. AttemptsPaidFor'  BY DEF AttemptsPaidFor, Holding, Healthy
  <2>4. QED BY <1>0, <2>1, <2>2, <2>3
<1>13. ASSUME NEW w \in Workers, Publish(w) PROVE IInv'
  <2> USE <1>13 DEF IInv, Publish, MarkPublished, OwnedBy, Unlocked, Advance
  <2>1. /\ LockDiscipline' /\ HeldExists'
        /\ PendingHasAttemptsLeft' /\ DeadLetterExhausted'
        /\ AttemptsBounded'
    BY DEF LockDiscipline, HeldExists, PendingHasAttemptsLeft,
       DeadLetterExhausted, AttemptsBounded
  <2>2. BatchDiscipline'
    BY <1>0 DEF BatchDiscipline, Holding, Active, AtEvent, TypeOK
  <2>3. ClaimDiscipline'  BY DEF ClaimDiscipline, Locked
  <2>4. OwnerIsInformed'
    BY WorkersAssumption, <1>0 DEF OwnerIsInformed, Holding, TypeOK
  <2>5. HeldIsOwnedUnlessLate'
    BY <1>0 DEF HeldIsOwnedUnlessLate, Holding, TypeOK
  <2>6. PublishFollowsProcess'  BY <1>0 DEF PublishFollowsProcess, TypeOK
  <2>7. AttemptsPaidFor'  BY <1>0 DEF AttemptsPaidFor, Holding, Healthy, TypeOK
  <2>8. ExclusiveUnlessLate'  BY DEF ExclusiveUnlessLate, Holding
  <2>9. PublishedWasProcessed'
    BY DEF PublishedWasProcessed, PublishFollowsProcess
  <2>10. QED BY <1>0, <2>1, <2>2, <2>3, <2>4, <2>5, <2>6, <2>7, <2>8, <2>9
<1>14. ASSUME NEW w \in Workers, NEW applied \in BOOLEAN,
              PublishFails(w, applied)
       PROVE  IInv'
  <2>1. AttemptsPaidFor' /\ AttemptsBounded'
    BY <1>0, <1>14, IncidentsPay
  <2> USE <1>14 DEF IInv, PublishFails, MarkPublished, OwnedBy, Unlocked
  <2>2. /\ LockDiscipline' /\ HeldExists'
        /\ PendingHasAttemptsLeft' /\ DeadLetterExhausted'
    BY DEF LockDiscipline, HeldExists, PendingHasAttemptsLeft,
       DeadLetterExhausted
  <2>3. BatchDiscipline' /\ ExclusiveUnlessLate'
    BY DEF BatchDiscipline, ExclusiveUnlessLate, Holding, Active, AtEvent
  <2>4. ClaimDiscipline'  BY DEF ClaimDiscipline, Locked
  <2>5. OwnerIsInformed'  BY WorkersAssumption DEF OwnerIsInformed, Holding
  <2>6. HeldIsOwnedUnlessLate'
    BY <1>0 DEF HeldIsOwnedUnlessLate, Holding, TypeOK
  <2>7. PublishFollowsProcess'  BY DEF PublishFollowsProcess
  <2>8. PublishedWasProcessed'
    BY DEF PublishedWasProcessed, PublishFollowsProcess
  <2>9. QED BY <1>0, <2>1, <2>2, <2>3, <2>4, <2>5, <2>6, <2>7, <2>8
<1>15. ASSUME NEW w \in Workers, Settle(w) PROVE IInv'
  <2> USE <1>15 DEF IInv, Settle, SettledRows, Settled, MoveToDeadLetter,
     ReleaseForRetry, OwnedBy, Unlocked, Advance
  <2>1. /\ LockDiscipline' /\ PublishFollowsProcess'
        /\ HeldExists' /\ AttemptsBounded'
        /\ PublishedWasProcessed'
    BY DEF LockDiscipline, PublishFollowsProcess, HeldExists, AttemptsBounded,
       PublishedWasProcessed
  <2>2. BatchDiscipline'
    BY <1>0 DEF BatchDiscipline, Holding, Active, AtEvent, TypeOK
  <2>3. ClaimDiscipline'  BY DEF ClaimDiscipline, Locked
  <2>4. OwnerIsInformed'
    BY WorkersAssumption, <1>0 DEF OwnerIsInformed, Holding, TypeOK
  <2>5. HeldIsOwnedUnlessLate'
    BY <1>0 DEF HeldIsOwnedUnlessLate, Holding, TypeOK
  <2>6. AttemptsPaidFor'  BY <1>0 DEF AttemptsPaidFor, Holding, Healthy, TypeOK
  <2>7. PendingHasAttemptsLeft'
    BY OptionsAssumption, <1>0 DEF PendingHasAttemptsLeft, Holding, AtEvent,
       BatchDiscipline, OwnerIsInformed, TypeOK
  <2>8. DeadLetterExhausted'
    BY DEF DeadLetterExhausted, Holding, AtEvent, BatchDiscipline,
       OwnerIsInformed
  <2>9. ExclusiveUnlessLate'  BY DEF ExclusiveUnlessLate, Holding
  <2>10. QED BY <1>0, <2>1, <2>2, <2>3, <2>4, <2>5, <2>6, <2>7, <2>8, <2>9
<1>16. ASSUME NEW w \in Workers, NEW applied \in BOOLEAN,
              SettleFails(w, applied)
       PROVE  IInv'
  <2>1. AttemptsPaidFor' /\ AttemptsBounded'
    BY <1>0, <1>16, IncidentsPay
  <2> USE <1>16 DEF IInv, SettleFails, SettledRows, Settled, MoveToDeadLetter,
     ReleaseForRetry, OwnedBy, Unlocked, Forget
  <2>2. /\ LockDiscipline' /\ PublishFollowsProcess'
        /\ HeldExists' /\ PublishedWasProcessed'
    BY DEF LockDiscipline, PublishFollowsProcess, HeldExists,
       PublishedWasProcessed
  <2>3. BatchDiscipline'
    BY <1>0 DEF BatchDiscipline, Holding, Active, AtEvent, TypeOK
  <2>4. ClaimDiscipline'  BY DEF ClaimDiscipline, Locked
  <2>5. OwnerIsInformed'
    BY WorkersAssumption, <1>0 DEF OwnerIsInformed, Holding, TypeOK
  <2>6. HeldIsOwnedUnlessLate' /\ ExclusiveUnlessLate'
    BY <1>0 DEF HeldIsOwnedUnlessLate, ExclusiveUnlessLate, Holding, TypeOK
  <2>7. PendingHasAttemptsLeft'
    BY OptionsAssumption, <1>0 DEF PendingHasAttemptsLeft, Holding, AtEvent,
       BatchDiscipline, OwnerIsInformed, TypeOK
  <2>8. DeadLetterExhausted'
    BY DEF DeadLetterExhausted, Holding, AtEvent, BatchDiscipline,
       OwnerIsInformed
  <2>9. QED BY <1>0, <2>1, <2>2, <2>3, <2>4, <2>5, <2>6, <2>7, <2>8
<1>17. ASSUME NEW w \in Workers, Stop(w) PROVE IInv'
  <2>1. AttemptsPaidFor' /\ AttemptsBounded'
    BY <1>0, <1>17, IncidentsPay
  <2> USE <1>17 DEF IInv, Stop, dbVars
  <2>2. /\ LockDiscipline' /\ ClaimDiscipline'
        /\ PublishFollowsProcess' /\ HeldExists'
        /\ PendingHasAttemptsLeft' /\ DeadLetterExhausted'
        /\ PublishedWasProcessed'
    BY DEF LockDiscipline, ClaimDiscipline, PublishFollowsProcess, HeldExists,
       PendingHasAttemptsLeft, DeadLetterExhausted, PublishedWasProcessed
  <2>3. /\ BatchDiscipline' /\ OwnerIsInformed'
        /\ HeldIsOwnedUnlessLate' /\ ExclusiveUnlessLate'
    BY DEF BatchDiscipline, OwnerIsInformed, HeldIsOwnedUnlessLate,
       ExclusiveUnlessLate, Holding, Active, AtEvent
  <2>4. QED BY <1>0, <2>1, <2>2, <2>3
<1>18. ASSUME NEW w \in Workers, Exit(w) PROVE IInv'
  <2>1. AttemptsPaidFor'
    BY <1>0, <1>18, ExitLeavesOthers
  <2> USE <1>18 DEF IInv, Exit, Abandoned, Orphaned
  <2>2. LockDiscipline'  BY WorkersAssumption DEF LockDiscipline
  <2>3. BatchDiscipline' /\ ExclusiveUnlessLate'
    BY DEF BatchDiscipline, ExclusiveUnlessLate, Holding, Active, AtEvent
  <2>4. ClaimDiscipline'  BY <1>0 DEF ClaimDiscipline, Eligible, TypeOK
  <2>5. OwnerIsInformed'
    BY WorkersAssumption, <1>0 DEF OwnerIsInformed, Holding, TypeOK
  <2>6. HeldIsOwnedUnlessLate'
    BY <1>0 DEF HeldIsOwnedUnlessLate, Holding, TypeOK
  <2>7. PublishFollowsProcess'  BY DEF PublishFollowsProcess
  <2>8. HeldExists'  BY <1>0 DEF HeldExists, TypeOK
  <2>9. /\ PendingHasAttemptsLeft' /\ DeadLetterExhausted'
        /\ AttemptsBounded' /\ PublishedWasProcessed'
    BY DEF PendingHasAttemptsLeft, DeadLetterExhausted, AttemptsBounded,
       PublishedWasProcessed
  <2>10. QED BY <1>0, <2>1, <2>2, <2>3, <2>4, <2>5, <2>6, <2>7, <2>8, <2>9
<1>19. ASSUME NEW w \in Workers, Crash(w) PROVE IInv'
  <2>1. AttemptsPaidFor' /\ AttemptsBounded'
    BY <1>0, <1>19, IncidentsPay
  <2> USE <1>19 DEF IInv, Crash, Abandoned, Orphaned, Forget
  <2>2. LockDiscipline'  BY WorkersAssumption DEF LockDiscipline
  <2>3. BatchDiscipline'
    BY <1>0 DEF BatchDiscipline, Holding, Active, AtEvent, TypeOK
  <2>4. ClaimDiscipline'  BY <1>0 DEF ClaimDiscipline, Eligible, TypeOK
  <2>5. OwnerIsInformed'
    BY WorkersAssumption, <1>0 DEF OwnerIsInformed, Holding, TypeOK
  <2>6. HeldIsOwnedUnlessLate' /\ ExclusiveUnlessLate'
    BY <1>0 DEF HeldIsOwnedUnlessLate, ExclusiveUnlessLate, Holding, TypeOK
  <2>7. PublishFollowsProcess' /\ HeldExists'
    BY <1>0 DEF PublishFollowsProcess, HeldExists, TypeOK
  <2>8. /\ PendingHasAttemptsLeft' /\ DeadLetterExhausted'
        /\ PublishedWasProcessed'
    BY DEF PendingHasAttemptsLeft, DeadLetterExhausted, PublishedWasProcessed,
       Incident
  <2>9. QED BY <1>0, <2>1, <2>2, <2>3, <2>4, <2>5, <2>6, <2>7, <2>8
<1>20. ASSUME NEW w \in Workers, Restart(w) PROVE IInv'
  <2> USE <1>20 DEF IInv, Restart, dbVars
  <2>1. /\ LockDiscipline' /\ ClaimDiscipline'
        /\ PublishFollowsProcess' /\ HeldExists'
        /\ PendingHasAttemptsLeft' /\ DeadLetterExhausted'
        /\ AttemptsBounded' /\ PublishedWasProcessed'
    BY DEF LockDiscipline, ClaimDiscipline, PublishFollowsProcess, HeldExists,
       PendingHasAttemptsLeft, DeadLetterExhausted, AttemptsBounded,
       PublishedWasProcessed
  <2>2. /\ BatchDiscipline' /\ OwnerIsInformed'
        /\ HeldIsOwnedUnlessLate' /\ ExclusiveUnlessLate'
    BY DEF BatchDiscipline, OwnerIsInformed, HeldIsOwnedUnlessLate,
       ExclusiveUnlessLate, Holding, Active, AtEvent
  <2>3. AttemptsPaidFor'  BY DEF AttemptsPaidFor, Holding, Healthy
  <2>4. QED BY <1>0, <2>1, <2>2, <2>3
<1>21. QED BY <1>1, <1>2, <1>3, <1>4, <1>5, <1>6, <1>7, <1>8, <1>9, <1>10,
   <1>11, <1>12, <1>13, <1>14, <1>15, <1>16, <1>17, <1>18, <1>19, <1>20 DEF
   Next, WorkerStep, WorkerIncident

-----------------------------------------------------------------------------
(***************************************************************************)
(* What follows for every execution.                                       *)
(***************************************************************************)

\* The invariant holds throughout, whatever the numbers of events, workers
\* and incidents and however the options are set.
THEOREM InductiveInvariant == Spec => []IInv
<1>1. Init => IInv  BY InitTypeOK, InitIInv
<1>2. IInv /\ [Next]_vars => IInv'  BY NextIInv
<1>3. QED BY <1>1, <1>2, PTL DEF Spec

\* Rows and workers are always well formed.
THEOREM TypeCorrect == Spec => []TypeOK
<1>1. IInv => TypeOK  BY DEF IInv
<1>2. QED BY <1>1, InductiveInvariant, PTL

\* A worker that lost its claim never gives an event a verdict that is not
\* due: what waits to be claimed again has attempts left ...
THEOREM VerdictsAreDue == Spec => []PendingHasAttemptsLeft
<1>1. IInv => PendingHasAttemptsLeft  BY DEF IInv
<1>2. QED BY <1>1, InductiveInvariant, PTL

\* ... and what is dead-lettered has none, whoever buried it.
THEOREM BurialsAreDue == Spec => []DeadLetterExhausted
<1>1. IInv => DeadLetterExhausted  BY DEF IInv
<1>2. QED BY <1>1, InductiveInvariant, PTL

\* An event is claimed beyond its limit only as often as claims were cut
\* short: by a crash, a lease that ran out, or an answer that got lost.
THEOREM AttemptsAreBounded == Spec => []AttemptsBounded
<1>1. IInv => AttemptsBounded  BY DEF IInv
<1>2. QED BY <1>1, InductiveInvariant, PTL

\* Row locks and the lease give mutual exclusion among workers in time.
THEOREM MutualExclusion == Spec => []ExclusiveUnlessLate
<1>1. IInv => ExclusiveUnlessLate  BY DEF IInv
<1>2. QED BY <1>1, InductiveInvariant, PTL

\* No event is marked published that no consumer has run on to the end.
THEOREM NothingUnreadIsPublished == Spec => []PublishedWasProcessed
<1>1. IInv => PublishedWasProcessed  BY DEF IInv
<1>2. QED BY <1>1, InductiveInvariant, PTL

-----------------------------------------------------------------------------
(***************************************************************************)
(* The outbox implements the life cycle it promises to producers.          *)
(***************************************************************************)

\* What producers see of the rows.
stages == [e \in Events |-> Stage(row[e].status)]

\* A step of EventLifecycle under the mapping, or a stutter.
LifecycleStep == [Lifecycle!Next]_(Lifecycle!vars)

\* The refinement mapping, value by value.
LEMMA StageValues ==
  /\ Stage("absent") = "absent"
  /\ Stage("pending") = "open" /\ Stage("processing") = "open"
  /\ Stage("published") = "published" /\ Stage("dead_letter") = "buried"
BY DEF Stage

\* A step that writes one row moves one stage.
LEMMA OneStageMoves ==
  ASSUME NEW e \in Events, \A f \in Events \ {e} : row'[f] = row[f]
  PROVE  stages' = [stages EXCEPT ![e] = Stage(row'[e].status)]
BY DEF stages

\* A step that keeps every stage is none at all to a producer.
LEMMA SameStagesStutter ==
  ASSUME \A e \in Events : Stage(row'[e].status) = Stage(row[e].status),
         UNCHANGED processed
  PROVE  UNCHANGED Lifecycle!vars
BY DEF Lifecycle!vars

\* Storing an event accepts it; storing it again does nothing.
LEMMA InsertRefines ==
  ASSUME NEW e \in Events, Insert(e), TypeOK
  PROVE  Lifecycle!Accept(e) \/ UNCHANGED Lifecycle!vars
<1>1. row' = [row EXCEPT ![e] = Inserted(row[e])] /\ UNCHANGED processed
  BY DEF Insert
<1>2. CASE row[e].status = "absent"
  <2>1. /\ row'[e].status = "pending"
        /\ \A f \in Events \ {e} : row'[f] = row[f]
    BY <1>1, <1>2 DEF Inserted, Unlocked, TypeOK
  <2>2. stages' = [stages EXCEPT ![e] = "open"]
    BY <2>1, OneStageMoves, StageValues
  <2>3. stages[e] = "absent"  BY <1>2, StageValues DEF stages
  <2>4. QED BY <1>1, <2>2, <2>3 DEF Lifecycle!Accept, stages
<1>3. CASE row[e].status # "absent"
  BY <1>1, <1>3 DEF Inserted, TypeOK, Lifecycle!vars
<1>4. QED BY <1>2, <1>3

\* markPublished publishes what the worker still owns.
LEMMA MarkPublishedRefines ==
  ASSUME NEW w \in Workers, NEW e \in Events, e \in processed, TypeOK,
         row' = [row EXCEPT ![e] = MarkPublished(row[e], w)],
         UNCHANGED processed
  PROVE  Lifecycle!Publish(e) \/ UNCHANGED Lifecycle!vars
<1>1. CASE OwnedBy(row[e], w)
  <2>1. /\ row'[e].status = "published"
        /\ \A f \in Events \ {e} : row'[f] = row[f]
    BY <1>1 DEF MarkPublished, Unlocked, TypeOK
  <2>2. stages' = [stages EXCEPT ![e] = "published"]
    BY <2>1, OneStageMoves, StageValues
  <2>3. stages[e] = "open"  BY <1>1, StageValues DEF stages, OwnedBy
  <2>4. QED BY <2>2, <2>3 DEF Lifecycle!Publish, stages
<1>2. CASE ~OwnedBy(row[e], w)
  BY <1>2 DEF MarkPublished, TypeOK, Lifecycle!vars
<1>3. QED BY <1>1, <1>2

\* The catch block buries what it owns or leaves it open.
LEMMA SettledRefines ==
  ASSUME NEW w \in Workers, NEW e \in Events, NEW n, TypeOK,
         row' = [row EXCEPT ![e] = Settled(row[e], w, n)],
         UNCHANGED processed
  PROVE  Lifecycle!Bury(e) \/ UNCHANGED Lifecycle!vars
<1>1. CASE OwnedBy(row[e], w) /\ n >= MaxAttempts
  <2>1. /\ row'[e].status = "dead_letter"
        /\ \A f \in Events \ {e} : row'[f] = row[f]
    BY <1>1 DEF Settled, MoveToDeadLetter, Unlocked, TypeOK
  <2>2. stages' = [stages EXCEPT ![e] = "buried"]
    BY <2>1, OneStageMoves, StageValues
  <2>3. stages[e] = "open"  BY <1>1, StageValues DEF stages, OwnedBy
  <2>4. QED BY <2>2, <2>3 DEF Lifecycle!Bury, stages
<1>2. CASE OwnedBy(row[e], w) /\ ~(n >= MaxAttempts)
  <2>1. /\ row'[e].status = "pending"
        /\ \A f \in Events \ {e} : row'[f] = row[f]
    BY <1>2 DEF Settled, ReleaseForRetry, Unlocked, TypeOK
  <2>2. \A f \in Events : Stage(row'[f].status) = Stage(row[f].status)
    BY <1>2, <2>1, StageValues DEF OwnedBy
  <2>3. QED BY <2>2, SameStagesStutter
<1>3. CASE ~OwnedBy(row[e], w)
  BY <1>3
     DEF Settled, MoveToDeadLetter, ReleaseForRetry, TypeOK, Lifecycle!vars
<1>4. QED BY <1>1, <1>2, <1>3

\* An operator reopens what is buried.
LEMMA ReplayRefines ==
  ASSUME NEW e \in Events, TypeOK, Replay(e)
  PROVE  Lifecycle!Reopen(e) \/ UNCHANGED Lifecycle!vars
<1>1. /\ row' = [row EXCEPT ![e] = ReplayDeadLetter(row[e])]
      /\ UNCHANGED processed
  BY DEF Replay
<1>2. CASE row[e].status = "dead_letter"
  <2>1. /\ row'[e].status = "pending"
        /\ \A f \in Events \ {e} : row'[f] = row[f]
    BY <1>1, <1>2 DEF ReplayDeadLetter, Unlocked, TypeOK
  <2>2. stages' = [stages EXCEPT ![e] = "open"]
    BY <2>1, OneStageMoves, StageValues
  <2>3. stages[e] = "buried"  BY <1>2, StageValues DEF stages
  <2>4. QED BY <1>1, <2>2, <2>3 DEF Lifecycle!Reopen, stages
<1>3. CASE row[e].status # "dead_letter"
  BY <1>1, <1>3 DEF ReplayDeadLetter, TypeOK, Lifecycle!vars
<1>4. QED BY <1>2, <1>3

\* A claim, and the end of a process, are invisible to producers.
LEMMA ClaimKeepsStages ==
  ASSUME IInv, NEW w \in Workers, row' = ClaimedRows(w)
  PROVE  \A e \in Events : Stage(row'[e].status) = Stage(row[e].status)
BY StageValues
   DEF ClaimedRows, Claimed, IInv, ClaimDiscipline, Eligible, TypeOK

\* A worker that ends changes who owns rows, and no status.
LEMMA AbandonKeepsStages ==
  ASSUME NEW w \in Workers, row' = Abandoned(w)
  PROVE  \A e \in Events : Stage(row'[e].status) = Stage(row[e].status)
BY DEF Abandoned, Orphaned

\* A consumer that returns has delivered an event that exists.
LEMMA ProcessedRefines ==
  ASSUME IInv, NEW w \in Workers, Processed(w)
  PROVE  Lifecycle!Deliver(current[w])
<1>1. /\ current[w] \in Events /\ row[current[w]].status # "absent"
      /\ row[current[w]].status \in Statuses
  BY DEF Processed, IInv, TypeOK, BatchDiscipline, HeldExists, AtEvent, Row
<1>2. Stage(row[current[w]].status) # "absent"  BY <1>1 DEF Stage
<1>3. UNCHANGED row /\ processed' = processed \cup {current[w]}
  BY DEF Processed
<1>4. QED BY <1>1, <1>2, <1>3 DEF Lifecycle!Deliver

\* No event is there at first, in either.
LEMMA InitRefines == Init => Lifecycle!Init
BY StageValues DEF Init, Lifecycle!Init, AbsentRow, Unlocked

\* Every step of the outbox is a step its producers are promised, or none.
LEMMA NextRefines ==
  ASSUME IInv, [Next]_vars
  PROVE  LifecycleStep
<1> USE DEF IInv, LifecycleStep
<1>1. CASE UNCHANGED vars
  BY <1>1 DEF vars, Lifecycle!vars
<1>2. ASSUME NEW e \in Events, Insert(e) PROVE LifecycleStep
  BY <1>2, InsertRefines DEF Lifecycle!Next
<1>3. ASSUME NEW e \in Events, Replay(e) PROVE LifecycleStep
  BY <1>3, ReplayRefines DEF Lifecycle!Next
<1>4. CASE Tick
  BY <1>4 DEF Tick, Aged, Lifecycle!vars
<1>5. ASSUME NEW w \in Workers, AtEvent(w) PROVE current[w] \in Events
  BY <1>5 DEF BatchDiscipline, TypeOK
<1>6. ASSUME NEW w \in Workers, CommitClaim(w) PROVE LifecycleStep
  BY <1>6, ClaimKeepsStages, SameStagesStutter DEF CommitClaim
<1>7. ASSUME NEW w \in Workers, NEW lost \in BOOLEAN, ClaimFails(w, lost)
      PROVE  LifecycleStep
  BY <1>7, ClaimKeepsStages, SameStagesStutter DEF ClaimFails
<1>8. ASSUME NEW w \in Workers, Processed(w) PROVE LifecycleStep
  BY <1>5, <1>8, ProcessedRefines DEF Lifecycle!Next, Processed, AtEvent
<1>9. ASSUME NEW w \in Workers, Publish(w) PROVE LifecycleStep
  BY <1>5, <1>9, MarkPublishedRefines
     DEF Lifecycle!Next, Publish, AtEvent, PublishFollowsProcess
<1>10. ASSUME NEW w \in Workers, NEW applied \in BOOLEAN,
              PublishFails(w, applied)
       PROVE  LifecycleStep
  <2>1. CASE applied
    BY <1>5, <1>10, <2>1, MarkPublishedRefines
       DEF Lifecycle!Next, PublishFails, AtEvent, PublishFollowsProcess
  <2>2. CASE ~applied
    BY <1>10, <2>2 DEF PublishFails, Lifecycle!vars
  <2>3. QED BY <2>1, <2>2
<1>11. ASSUME NEW w \in Workers, Settle(w) PROVE LifecycleStep
  BY <1>5, <1>11, SettledRefines
     DEF Lifecycle!Next, Settle, SettledRows, AtEvent
<1>12. ASSUME NEW w \in Workers, NEW applied \in BOOLEAN,
              SettleFails(w, applied)
       PROVE  LifecycleStep
  <2>1. CASE applied
    BY <1>5, <1>12, <2>1, SettledRefines
       DEF Lifecycle!Next, SettleFails, SettledRows, AtEvent
  <2>2. CASE ~applied
    BY <1>12, <2>2 DEF SettleFails, Lifecycle!vars
  <2>3. QED BY <2>1, <2>2
<1>13. ASSUME NEW w \in Workers, Exit(w) \/ Crash(w) PROVE LifecycleStep
  BY <1>13, AbandonKeepsStages, SameStagesStutter DEF Exit, Crash
<1>14. ASSUME NEW w \in Workers,
              \/ StartPoll(w) \/ BeginClaim(w) \/ FinishBatch(w)
              \/ \E e \in Events : Pick(w, e)
              \/ ProcessFails(w) \/ Stop(w) \/ Restart(w)
       PROVE  LifecycleStep
  <2>1. UNCHANGED dbVars
    BY <1>14 DEF StartPoll, BeginClaim, Pick, FinishBatch, ProcessFails, Stop,
                 Restart
  <2>2. QED BY <2>1 DEF dbVars, Lifecycle!vars
<1>15. QED
  BY <1>1, <1>2, <1>3, <1>4, <1>6, <1>7, <1>8, <1>9, <1>10, <1>11, <1>12,
     <1>13, <1>14
     DEF Next, WorkerStep, WorkerIncident

\* The rows and workers of the outbox behave, to a producer, as EventLifecycle
\* says: accepted, then published after delivery or buried until reopened.
THEOREM OutboxImplementsLifecycle == Spec => LifecycleSpec
<1>1. Init => Lifecycle!Init  BY InitRefines
<1>2. IInv /\ [Next]_vars => [Lifecycle!Next]_(Lifecycle!vars)
  BY NextRefines DEF LifecycleStep
<1>3. QED
  BY <1>1, <1>2, InductiveInvariant, PTL
     DEF Spec, LifecycleSpec, Lifecycle!Spec

\* The life cycle has no step that takes a published event back, so the
\* outbox has none.
LEMMA NextKeepsPublished ==
  ASSUME IInv, IInv', [Next]_vars,
         NEW e \in Events, row[e].status = "published"
  PROVE  row'[e].status = "published"
<1>1. LifecycleStep  BY NextRefines
<1>2. stages[e] = "published"  BY StageValues DEF stages
<1>3. stages'[e] = "published"
  BY <1>1, <1>2
     DEF stages, LifecycleStep, Lifecycle!Next, Lifecycle!vars,
         Lifecycle!Accept, Lifecycle!Deliver, Lifecycle!Publish,
         Lifecycle!Bury, Lifecycle!Reopen
<1>4. row'[e].status \in Statuses  BY DEF IInv, TypeOK, Row
<1>5. QED BY <1>3, <1>4 DEF stages, Stage

\* No statement of a late worker, operator or producer takes a published
\* event back.
THEOREM PublishedStays == Spec => PublishedIsFinal
<1>1. IInv /\ IInv' /\ [Next]_vars
        => [\A e \in Events : row[e].status = "published"
                                => row'[e].status = "published"]_vars
  BY NextKeepsPublished
<1>2. QED BY <1>1, InductiveInvariant, PTL DEF Spec, PublishedIsFinal

-----------------------------------------------------------------------------
(***************************************************************************)
(* Which steps leave a row with a live worker that is not at it.           *)
(***************************************************************************)

\* A row comes into a worker's name by its own COMMIT only, heard of or not.
LEMMA OwnedByClaiming ==
  ASSUME IInv, [Next]_vars, NEW e \in Events, NEW v \in Workers,
         row'[e].owner = v, row[e].owner # v
  PROVE  \/ CommitClaim(v) /\ e \in batch[v]
         \/ ClaimFails(v, TRUE) /\ pc[v] = "claiming"
<1> USE WorkersAssumption DEF IInv, TypeOK
<1>1. CASE UNCHANGED vars  BY <1>1 DEF vars
<1>2. ASSUME NEW f \in Events, Insert(f) \/ Replay(f) PROVE FALSE
  BY <1>2 DEF Insert, Replay, Inserted, ReplayDeadLetter, Unlocked
<1>3. ASSUME Tick PROVE FALSE  BY <1>3 DEF Tick, Aged
<1>4. ASSUME NEW w \in Workers,
             \/ StartPoll(w) \/ BeginClaim(w) \/ FinishBatch(w)
             \/ Processed(w) \/ ProcessFails(w) \/ Stop(w) \/ Restart(w)
             \/ \E f \in Events : Pick(w, f)
      PROVE  FALSE
  BY <1>4 DEF StartPoll, BeginClaim, FinishBatch, Processed, ProcessFails,
              Stop, Restart, Pick, dbVars
<1>5. ASSUME NEW w \in Workers, CommitClaim(w)
      PROVE  CommitClaim(v) /\ e \in batch[v]
  <2>1. v = w /\ e \in batch[w]
    BY <1>5 DEF CommitClaim, ClaimedRows, Claimed
  <2>2. QED BY <1>5, <2>1
<1>6. ASSUME NEW w \in Workers, NEW lost \in BOOLEAN, ClaimFails(w, lost)
      PROVE  ClaimFails(v, TRUE) /\ pc[v] = "claiming"
  <2>1. v = w /\ lost = TRUE /\ pc[w] = "claiming"
    BY <1>6 DEF ClaimFails, ClaimedRows, Claimed
  <2>2. QED BY <1>6, <2>1
<1>7. ASSUME NEW w \in Workers,
             \/ Publish(w)
             \/ \E applied \in BOOLEAN : PublishFails(w, applied)
      PROVE  FALSE
  BY <1>7 DEF Publish, PublishFails, MarkPublished, Unlocked
<1>8. ASSUME NEW w \in Workers,
             \/ Settle(w)
             \/ \E applied \in BOOLEAN : SettleFails(w, applied)
      PROVE  FALSE
  BY <1>8 DEF Settle, SettleFails, SettledRows, Settled, MoveToDeadLetter,
              ReleaseForRetry, Unlocked
<1>9. ASSUME NEW w \in Workers, Exit(w) \/ Crash(w) PROVE FALSE
  BY <1>9 DEF Exit, Crash, Abandoned, Orphaned
<1>10. QED BY <1>1, <1>2, <1>3, <1>4, <1>5, <1>6, <1>7, <1>8, <1>9
          DEF Next, WorkerStep, WorkerIncident

\* A worker lets go of a row in its hands by a statement that unlocks it, by
\* ending, which takes its name off it, or in the catch block.
LEMMA LetGoOf ==
  ASSUME IInv, [Next]_vars, NEW e \in Events, NEW v \in Workers,
         row'[e].owner = v, Holding(v) /\ e \in batch[v],
         ~(Holding(v)' /\ e \in batch'[v])
  PROVE  \E applied \in BOOLEAN : SettleFails(v, applied)
<1> USE WorkersAssumption DEF IInv, TypeOK, Holding
<1>1. CASE UNCHANGED vars  BY <1>1 DEF vars
<1>2. ASSUME NEW f \in Events, Insert(f) \/ Replay(f) PROVE FALSE
  BY <1>2 DEF Insert, Replay, workerVars
<1>3. ASSUME Tick PROVE FALSE  BY <1>3 DEF Tick
<1>4. ASSUME NEW w \in Workers,
             \/ StartPoll(w) \/ BeginClaim(w) \/ CommitClaim(w)
             \/ Processed(w) \/ ProcessFails(w) \/ Stop(w) \/ Restart(w)
             \/ \E f \in Events : Pick(w, f)
             \/ \E applied \in BOOLEAN : PublishFails(w, applied)
             \/ \E lost \in BOOLEAN : ClaimFails(w, lost)
      PROVE  FALSE
  BY <1>4 DEF StartPoll, BeginClaim, CommitClaim, Processed, ProcessFails,
              Stop, Restart, Pick, PublishFails, ClaimFails, Forget
<1>5. ASSUME NEW w \in Workers, FinishBatch(w) PROVE FALSE
  BY <1>5 DEF FinishBatch, Forget
<1>6. ASSUME NEW w \in Workers, Publish(w) PROVE FALSE
  <2>1. current[w] \in Events /\ current[w] \in batch[w]
    BY <1>6 DEF Publish, BatchDiscipline, AtEvent
  <2>2. v = w /\ e = current[w]  BY <1>6, <2>1 DEF Publish, Advance
  <2>3. row'[e].owner # w
    BY <1>6, <2>1, <2>2
       DEF Publish, MarkPublished, OwnedBy, Unlocked, LockDiscipline
  <2>4. QED BY <2>2, <2>3
<1>7. ASSUME NEW w \in Workers, Settle(w) PROVE FALSE
  <2>1. current[w] \in Events /\ current[w] \in batch[w]
    BY <1>7 DEF Settle, BatchDiscipline, AtEvent
  <2>2. v = w /\ e = current[w]  BY <1>7, <2>1 DEF Settle, Advance
  <2>3. row'[e].owner # w
    BY <1>7, <2>1, <2>2
       DEF Settle, SettledRows, Settled, MoveToDeadLetter, ReleaseForRetry,
           OwnedBy, Unlocked, LockDiscipline
  <2>4. QED BY <2>2, <2>3
<1>8. ASSUME NEW w \in Workers, NEW applied \in BOOLEAN,
             SettleFails(w, applied)
      PROVE  SettleFails(v, applied)
  <2>1. v = w  BY <1>8 DEF SettleFails, Forget
  <2>2. QED BY <1>8, <2>1
<1>9. ASSUME NEW w \in Workers, Exit(w) \/ Crash(w) PROVE FALSE
  BY <1>9 DEF Exit, Crash, Abandoned, Orphaned, Forget
<1>10. QED BY <1>1, <1>2, <1>3, <1>4, <1>5, <1>6, <1>7, <1>8, <1>9
          DEF Next, WorkerStep, WorkerIncident

\* Whatever a worker is told or interrupted by, and however late it is, it
\* leaves a row in its name behind only when a claim's COMMIT or the statement
\* of its catch block throws.
THEOREM NoRowIsStranded == Spec => NothingStranded
<1>1. ASSUME IInv, [Next]_vars, NEW e \in Events, NEW v \in Workers,
             Stranded(e, v)', ~Stranded(e, v)
      PROVE  /\ pc[v] \in {"claiming", "settle"} /\ pc'[v] = "idle"
             /\ incidents' > incidents
  <2>1. CASE row[e].owner # v
    <3>1. \/ CommitClaim(v) /\ e \in batch[v]
          \/ ClaimFails(v, TRUE) /\ pc[v] = "claiming"
      BY <1>1, <2>1, OwnedByClaiming DEF Stranded
    <3>2. ~CommitClaim(v) \/ e \notin batch[v]
      BY <1>1 DEF CommitClaim, Stranded, Holding, IInv, TypeOK
    <3>3. QED
      BY <1>1, <3>1, <3>2, Numbers DEF ClaimFails, Incident, IInv, TypeOK
  <2>2. CASE row[e].owner = v
    <3>1. PICK applied \in BOOLEAN : SettleFails(v, applied)
      BY <1>1, <2>2, LetGoOf DEF Stranded
    <3>2. QED BY <1>1, <3>1, Numbers DEF SettleFails, Incident, IInv, TypeOK
  <2>3. QED BY <2>1, <2>2
<1>2. IInv /\ [Next]_vars
        => [\A e \in Events, w \in Workers :
              Stranded(e, w)' /\ ~Stranded(e, w) =>
                /\ pc[w] \in {"claiming", "settle"} /\ pc'[w] = "idle"
                /\ incidents' > incidents]_vars
  BY <1>1, Zenon
<1>3. QED BY <1>2, InductiveInvariant, PTL DEF Spec, NothingStranded

=============================================================================
