--------------------------- MODULE DeliveryProofs ---------------------------
(***************************************************************************)
(* Proofs about Delivery, for any events and workers, any options, and     *)
(* whatever the recipient does meanwhile.  The outbox is the one that      *)
(* OutboxProofs is about: a step of the consumer is one of its steps or    *)
(* leaves it alone, so its inductive invariant IInv holds here as well.    *)
(***************************************************************************)
EXTENDS Delivery, OutboxProofs, FiniteSetTheorems

-----------------------------------------------------------------------------
(***************************************************************************)
(* The inductive invariant.                                                *)
(***************************************************************************)

\* NothingUnwanted is about these two: the program has never seen in-app on,
NeverInApp == \A p \in seen : ~p.inApp
\* nor e-mail.
NeverEmail == \A p \in seen : ~p.email

\* A dispatch follows a preference the recipient has had.
ReadRightly ==
  /\ pref \in seen
  /\ \A w \in Workers :
       /\ at[w] \in {"create", "select", "emit"} =>
            ~NeverInApp /\ (AlwaysEmail => wantsEmail[w])
       /\ wantsEmail[w] \/ at[w] = "mail" => ~NeverEmail

\* What a dispatch that has come this far has done.
DoneSoFar ==
  \A w \in Workers :
    /\ at[w] = "emit" => InFeed(current[w])
    /\ at[w] \in {"mail", "done"} /\ AlwaysInApp
         => InFeed(current[w]) /\ current[w] \in emitted
    /\ at[w] = "done" /\ AlwaysEmail => emailed[current[w]] > 0

\* PublishedMeansDelivered of all whose consumer has resolved.
ProcessedMeansDelivered ==
  \A e \in processed :
    /\ AlwaysInApp => InFeed(e) /\ e \in emitted
    /\ AlwaysEmail => emailed[e] > 0

\* A dispatch that failed of the e-mail had done all before it.
MailComesLast ==
  \A e \in Events :
    "mail" \in blame[e] /\ AlwaysInApp => InFeed(e) /\ e \in emitted

\* w can no longer mail e: its dispatch has, or has failed.
Spent(w, e) ==
  current[w] = e /\ (at[w] = "done" \/ pc[w] \in {"publish", "settle"})

\* Workers that have outlived their lease, or will have once they have
\* claimed, and may still mail e.
LateFor(e) ==
  {w \in Workers :
     Active(w) /\ e \in batch[w] /\ held[w] > Lease /\ ~Spent(w, e)}

\* w is through with e, in time to have its verdict count.
Concludes(w, e) ==
  /\ at[w] = "done" \/ pc[w] = "publish"
  /\ current[w] = e /\ row[e].owner = w /\ held[w] <= Lease

\* Nobody will mail e in time any more.
Closed(e) ==
  row[e].status = "published" \/ \E w \in Workers : Concludes(w, e)

\* The e-mails sent, those the late may yet send, and the one that is due are
\* paid for, each by its own doubt or incident.
EmailsAccounted ==
  \A e \in Events :
    /\ IsFiniteSet(LateFor(e))
    /\ emailed[e] + Cardinality(LateFor(e))
         <= doubts[e] + incidents + (IF Closed(e) THEN 1 ELSE 0)

\* All of it.
DeliveryInv ==
  /\ IInv /\ DeliveryTypeOK
  /\ ReadRightly /\ DoneSoFar /\ ProcessedMeansDelivered /\ MailComesLast
  /\ NothingUnwanted /\ EmailsAccounted

-----------------------------------------------------------------------------
(***************************************************************************)
(* The consumer runs inside the outbox.                                    *)
(***************************************************************************)

\* A step around or inside a dispatch is a step of the outbox or leaves its
\* variables as they are.
LEMMA OutboxStep == [DeliveryNext]_allVars => [Next]_vars
<1> SUFFICES ASSUME [DeliveryNext]_allVars PROVE [Next]_vars
  OBVIOUS
<1>1. CASE UNCHANGED allVars  BY <1>1 DEF allVars
<1>2. CASE OutboxOnly
  BY <1>2 DEF OutboxOnly, Next, WorkerStep, WorkerIncident
<1>3. ASSUME NEW w \in Workers, Dispatching(w) PROVE [Next]_vars
  <2>1. CASE \/ ProcessFails(w) \/ Processed(w)
             \/ \E e \in Events : Pick(w, e)
    BY <2>1 DEF Next, WorkerStep
  <2>2. CASE UNCHANGED vars  BY <2>2
  <2>3. QED
    BY <1>3, <2>1, <2>2
       DEF Dispatching, StartDispatch, ReadPreference, ReadFails, Throw,
           InsertNotification, SelectNotification, CreateFails, Emit,
           EmitFails, SendEmail, EmailFails, Return
<1>4. ASSUME NEW w \in Workers, CrashDispatching(w) PROVE [Next]_vars
  BY <1>4 DEF CrashDispatching, Next, WorkerIncident
<1>5. CASE \/ \E p \in Preferences : SetPreference(p)
           \/ \E e \in Events : DeleteNotification(e)
  BY <1>5 DEF SetPreference, DeleteNotification
<1>6. QED BY <1>1, <1>2, <1>3, <1>4, <1>5 DEF DeliveryNext

\* With its consumer the outbox is still the outbox: a dispatch resolves or
\* throws, and nothing else of it reaches rows, batches or locks.
THEOREM DeliveryImplementsOutbox == DeliverySpec => Spec
<1>1. DeliveryInit => Init  BY DEF DeliveryInit
<1>2. QED BY <1>1, OutboxStep, PTL DEF DeliverySpec, Spec

\* A worker in a dispatch is at an event of its batch.
LEMMA DispatchEvent ==
  ASSUME IInv, DeliveryTypeOK, NEW w \in Workers, at[w] # "away"
  PROVE  pc[w] = "process" /\ current[w] \in Events /\ current[w] \in batch[w]
BY DEF IInv, DeliveryTypeOK, BatchDiscipline, AtEvent, TypeOK

\* The outbox by itself neither begins, ends nor moves a dispatch.
LEMMA DispatchesUntouched ==
  ASSUME TypeOK, OutboxOnly
  PROVE  /\ UNCHANGED deliveryVars
         /\ \A w \in Workers :
              /\ pc'[w] = "process" <=> pc[w] = "process"
              /\ pc[w] = "process" => current'[w] = current[w]
         /\ processed' = processed
<1>1. UNCHANGED deliveryVars  BY DEF OutboxOnly
<1>2. ASSUME NEW e \in Events, Insert(e) \/ Replay(e)
      PROVE  UNCHANGED <<pc, current, processed>>
  BY <1>2 DEF Insert, Replay, workerVars
<1>3. ASSUME Tick PROVE UNCHANGED <<pc, current, processed>>
  BY <1>3 DEF Tick
<1>4. ASSUME NEW v \in Workers,
             \/ StartPoll(v) \/ BeginClaim(v) \/ CommitClaim(v)
             \/ FinishBatch(v) \/ Publish(v) \/ Settle(v) \/ Stop(v)
             \/ Exit(v) \/ Restart(v)
             \/ \E lost \in BOOLEAN : \/ ClaimFails(v, lost)
                                      \/ PublishFails(v, lost)
                                      \/ SettleFails(v, lost)
      PROVE  /\ pc[v] = "process" => UNCHANGED <<pc, current>>
             /\ pc[v] # "process" => pc'[v] # "process"
             /\ \A w \in Workers \ {v} :
                  pc'[w] = pc[w] /\ current'[w] = current[w]
             /\ processed' = processed
  BY <1>4
     DEF StartPoll, BeginClaim, CommitClaim, FinishBatch, Publish, Settle,
         Stop, Exit, Restart, ClaimFails, PublishFails, SettleFails, Forget,
         Advance, dbVars, TypeOK
<1>5. QED BY <1>1, <1>2, <1>3, <1>4 DEF OutboxOnly

-----------------------------------------------------------------------------
(***************************************************************************)
(* Type correctness.                                                       *)
(***************************************************************************)

\* Nothing is dispatched, stored or mailed at first.
LEMMA InitDeliveryTypeOK == DeliveryInit => DeliveryTypeOK
BY DeliveryAssumption
   DEF DeliveryInit, Init, DeliveryTypeOK, Steps, Preferences

\* A dispatch that ends leaves nothing of itself.
LEMMA LeaveType ==
  ASSUME DeliveryTypeOK, NEW w \in Workers, Leave(w)
  PROVE  /\ at' \in [Workers -> Steps]
         /\ tries' \in [Workers -> 0..MaxTries-1]
         /\ wantsEmail' \in [Workers -> BOOLEAN]
         /\ \A v \in Workers : at'[v] = IF v = w THEN "away" ELSE at[v]
BY DeliveryAssumption DEF DeliveryTypeOK, Leave, GoTo, Steps

\* A dispatch that goes on is still one, and nobody else's changes.
LEMMA GoToType ==
  ASSUME DeliveryTypeOK, NEW w \in Workers, NEW s \in Steps, GoTo(w, s)
  PROVE  /\ at' \in [Workers -> Steps]
         /\ \A v \in Workers : at'[v] = IF v = w THEN s ELSE at[v]
BY DEF DeliveryTypeOK, GoTo

\* A throw is the worker's to settle, and is put down to its culprit.
LEMMA ThrowType ==
  ASSUME TypeOK, DeliveryTypeOK, NEW w \in Workers, NEW c \in Culprits,
         Throw(w, c)
  PROVE  /\ at' \in [Workers -> Steps]
         /\ tries' \in [Workers -> 0..MaxTries-1]
         /\ wantsEmail' \in [Workers -> BOOLEAN]
         /\ blame' \in [Events -> SUBSET Culprits]
         /\ \A v \in Workers : at'[v] = "away" <=> pc'[v] # "process"
<1>1. Leave(w)  BY DEF Throw
<1>2. blame' \in [Events -> SUBSET Culprits]
  BY DEF Throw, DeliveryTypeOK
<1>3. \A v \in Workers : pc'[v] = IF v = w THEN "settle" ELSE pc[v]
  BY DEF Throw, ProcessFails, TypeOK
<1>4. QED BY <1>1, <1>2, <1>3, LeaveType DEF DeliveryTypeOK

\* One step preserves the types, action by action.
LEMMA NextDeliveryTypeOK ==
  ASSUME IInv, DeliveryTypeOK, [DeliveryNext]_allVars
  PROVE  DeliveryTypeOK'
<1> USE DEF Steps, Preferences, Culprits
<1>0. TypeOK  BY DEF IInv
<1>1. CASE UNCHANGED allVars
  BY <1>1 DEF allVars, vars, deliveryVars, consumerVars, historyVars,
              DeliveryTypeOK
<1>2. CASE OutboxOnly
  BY <1>0, <1>2, DispatchesUntouched
     DEF DeliveryTypeOK, deliveryVars, consumerVars, historyVars
<1>3. ASSUME NEW w \in Workers, NEW e \in Events, StartDispatch(w, e)
      PROVE  DeliveryTypeOK'
  <2>1. \A v \in Workers : pc'[v] = IF v = w THEN "process" ELSE pc[v]
    BY <1>0, <1>3 DEF StartDispatch, Pick, TypeOK
  <2>2. /\ at' \in [Workers -> Steps]
        /\ \A v \in Workers : at'[v] = IF v = w THEN "read" ELSE at[v]
    BY <1>3, GoToType DEF StartDispatch
  <2>3. QED BY <1>3, <2>1, <2>2 DEF StartDispatch, DeliveryTypeOK, historyVars
<1>4. ASSUME NEW w \in Workers, ReadPreference(w) PROVE DeliveryTypeOK'
  <2>1. PICK s \in Steps \ {"away"} : GoTo(w, s)
    BY <1>4 DEF ReadPreference, AfterInApp
  <2>2. at[w] = "read" /\ UNCHANGED pc  BY <1>4 DEF ReadPreference, vars
  <2>3. wantsEmail' \in [Workers -> BOOLEAN]
    BY <1>4 DEF ReadPreference, DeliveryTypeOK
  <2>4. QED
    BY <1>4, <2>1, <2>2, <2>3, GoToType
       DEF ReadPreference, DeliveryTypeOK, historyVars
<1>5. ASSUME NEW w \in Workers, NEW c \in Culprits, ReadFails(w, c)
      PROVE  DeliveryTypeOK'
  BY <1>0, <1>5, ThrowType DEF ReadFails, DeliveryTypeOK
<1>6. ASSUME NEW w \in Workers, InsertNotification(w) PROVE DeliveryTypeOK'
  <2>1. PICK s \in Steps \ {"away"} : GoTo(w, s)
    BY <1>6 DEF InsertNotification
  <2>2. at[w] = "create" /\ UNCHANGED pc  BY <1>6 DEF InsertNotification, vars
  <2>3. feed' \subseteq Events
    BY <1>6, <2>2, DispatchEvent DEF InsertNotification, DeliveryTypeOK
  <2>4. QED
    BY <1>6, <2>1, <2>2, <2>3, GoToType
       DEF InsertNotification, DeliveryTypeOK
<1>7. ASSUME NEW w \in Workers, SelectNotification(w) PROVE DeliveryTypeOK'
  <2>1. at[w] = "select" /\ UNCHANGED pc /\ GoTo(w, "emit")
    BY <1>7 DEF SelectNotification, vars
  <2>2. QED
    BY <1>7, <2>1, GoToType
       DEF SelectNotification, DeliveryTypeOK, historyVars
<1>8. ASSUME NEW w \in Workers, NEW applied \in BOOLEAN,
             CreateFails(w, applied)
      PROVE  DeliveryTypeOK'
  <2>1. at[w] \in {"create", "select"}  BY <1>8 DEF CreateFails
  <2>2. feed' \subseteq Events
    BY <1>8, <2>1, DispatchEvent DEF CreateFails, DeliveryTypeOK
  <2>3. CASE Throw(w, "database")
    BY <1>0, <1>8, <2>2, <2>3, ThrowType DEF CreateFails, DeliveryTypeOK
  <2>4. CASE /\ tries[w] + 1 < MaxTries
             /\ tries' = [tries EXCEPT ![w] = @ + 1] /\ GoTo(w, "create")
             /\ UNCHANGED <<vars, wantsEmail, blame>>
    <3>1. tries' \in [Workers -> 0..MaxTries-1]
      BY <2>4, DeliveryAssumption DEF DeliveryTypeOK
    <3>2. UNCHANGED pc  BY <2>4 DEF vars
    <3>3. QED
      BY <1>8, <2>1, <2>2, <2>4, <3>1, <3>2, GoToType
         DEF CreateFails, DeliveryTypeOK
  <2>5. QED BY <1>8, <2>3, <2>4 DEF CreateFails
<1>9. ASSUME NEW w \in Workers, Emit(w) PROVE DeliveryTypeOK'
  <2>1. PICK s \in Steps \ {"away"} : GoTo(w, s)
    BY <1>9 DEF Emit, AfterInApp
  <2>2. at[w] = "emit" /\ UNCHANGED pc  BY <1>9 DEF Emit, vars
  <2>3. emitted' \subseteq Events
    BY <1>9, <2>2, DispatchEvent DEF Emit, DeliveryTypeOK
  <2>4. QED
    BY <1>9, <2>1, <2>2, <2>3, GoToType DEF Emit, DeliveryTypeOK
<1>10. ASSUME NEW w \in Workers, EmitFails(w) PROVE DeliveryTypeOK'
  BY <1>0, <1>10, ThrowType DEF EmitFails, DeliveryTypeOK
<1>11. ASSUME NEW w \in Workers, SendEmail(w) PROVE DeliveryTypeOK'
  <2>1. at[w] = "mail" /\ UNCHANGED pc /\ GoTo(w, "done")
    BY <1>11 DEF SendEmail, vars
  <2>2. emailed' \in [Events -> Nat]
    BY <1>11, <2>1, DispatchEvent DEF SendEmail, DeliveryTypeOK
  <2>3. QED
    BY <1>11, <2>1, <2>2, GoToType DEF SendEmail, DeliveryTypeOK
<1>12. ASSUME NEW w \in Workers, NEW sent \in BOOLEAN, EmailFails(w, sent)
       PROVE  DeliveryTypeOK'
  <2>1. emailed' \in [Events -> Nat] /\ doubts' \in [Events -> Nat]
    <3>1. at[w] = "mail"  BY <1>12 DEF EmailFails
    <3>2. current[w] \in Events  BY <3>1, DispatchEvent
    <3>3. CASE sent
      BY <1>12, <3>2, <3>3 DEF EmailFails, DeliveryTypeOK
    <3>4. CASE ~sent  BY <1>12, <3>4 DEF EmailFails, DeliveryTypeOK
    <3>5. QED BY <3>3, <3>4
  <2>2. Throw(w, "mail") /\ UNCHANGED <<pref, feed, emitted, removed, seen>>
    BY <1>12 DEF EmailFails
  <2>3. QED BY <1>0, <2>1, <2>2, ThrowType DEF DeliveryTypeOK
<1>13. ASSUME NEW w \in Workers, Return(w) PROVE DeliveryTypeOK'
  <2>1. \A v \in Workers : pc'[v] = IF v = w THEN "publish" ELSE pc[v]
    BY <1>0, <1>13 DEF Return, Processed, TypeOK
  <2>2. QED
    BY <1>13, <2>1, LeaveType DEF Return, DeliveryTypeOK, historyVars
<1>14. ASSUME NEW w \in Workers, CrashDispatching(w) PROVE DeliveryTypeOK'
  <2>1. \A v \in Workers : pc'[v] = IF v = w THEN "down" ELSE pc[v]
    BY <1>0, <1>14 DEF CrashDispatching, Crash, TypeOK
  <2>2. QED
    BY <1>14, <2>1, LeaveType DEF CrashDispatching, DeliveryTypeOK, historyVars
<1>15. ASSUME NEW p \in Preferences, SetPreference(p) PROVE DeliveryTypeOK'
  BY <1>15 DEF SetPreference, vars, consumerVars, DeliveryTypeOK
<1>16. ASSUME NEW e \in Events, DeleteNotification(e) PROVE DeliveryTypeOK'
  BY <1>16 DEF DeleteNotification, vars, consumerVars, DeliveryTypeOK
<1>17. QED
  BY <1>1, <1>2, <1>3, <1>4, <1>5, <1>6, <1>7, <1>8, <1>9, <1>10, <1>11,
     <1>12, <1>13, <1>14, <1>15, <1>16 DEF DeliveryNext, Dispatching

-----------------------------------------------------------------------------
(***************************************************************************)
(* What a dispatch has done by the time it is over.                        *)
(***************************************************************************)

\* Nothing a dispatch does is undone, and what the recipient once chose
\* remains something the recipient has chosen.
LEMMA HistoriesGrow ==
  ASSUME IInv, DeliveryTypeOK, [DeliveryNext]_allVars
  PROVE  /\ seen \subseteq seen' /\ emitted \subseteq emitted'
         /\ \A e \in Events :
              (InFeed(e) => InFeed(e)') /\ emailed[e] <= emailed'[e]
<1>1. \A e \in Events : emailed[e] \in Nat  BY DEF DeliveryTypeOK
<1>2. CASE UNCHANGED <<feed, removed, emitted, emailed, seen>>
  BY <1>1, <1>2 DEF InFeed
<1>3. CASE UNCHANGED allVars \/ OutboxOnly
  BY <1>2, <1>3 DEF allVars, OutboxOnly, deliveryVars, historyVars
<1>4. ASSUME NEW w \in Workers,
             \/ \E e \in Events : StartDispatch(w, e)
             \/ ReadPreference(w) \/ SelectNotification(w)
             \/ (\E c \in Culprits : ReadFails(w, c))
             \/ EmitFails(w) \/ Return(w) \/ CrashDispatching(w)
      PROVE  UNCHANGED <<feed, removed, emitted, emailed, seen>>
  BY <1>4
     DEF StartDispatch, ReadPreference, SelectNotification, ReadFails,
         EmitFails, Return, CrashDispatching, historyVars
<1>5. ASSUME NEW w \in Workers,
             \/ InsertNotification(w) \/ Emit(w)
             \/ \E applied \in BOOLEAN : CreateFails(w, applied)
      PROVE  /\ feed \subseteq feed' /\ emitted \subseteq emitted'
             /\ UNCHANGED <<removed, emailed, seen>>
  BY <1>5 DEF InsertNotification, Emit, CreateFails
<1>6. ASSUME NEW w \in Workers,
             \/ SendEmail(w) \/ \E sent \in BOOLEAN : EmailFails(w, sent)
      PROVE  /\ UNCHANGED <<feed, removed, emitted, seen>>
             /\ \A e \in Events : emailed[e] <= emailed'[e]
  BY <1>1, <1>6 DEF SendEmail, EmailFails, DeliveryTypeOK
<1>7. ASSUME \/ \E p \in Preferences : SetPreference(p)
             \/ \E e \in Events : DeleteNotification(e)
      PROVE  /\ seen \subseteq seen' /\ UNCHANGED <<emitted, emailed>>
             /\ \A e \in Events : InFeed(e) => InFeed(e)'
  BY <1>7 DEF SetPreference, DeleteNotification, InFeed
<1>8. QED
  BY <1>1, <1>2, <1>3, <1>4, <1>5, <1>6, <1>7
     DEF DeliveryNext, Dispatching, InFeed

\* A throw or a return ends the dispatch of w and touches no other.
LEMMA LeavesAlone ==
  ASSUME TypeOK, DeliveryTypeOK, NEW w \in Workers, Leave(w),
         NEW v \in Workers, v # w => current'[v] = current[v]
  PROVE  \/ /\ at'[v] = at[v] /\ wantsEmail'[v] = wantsEmail[v]
            /\ current'[v] = current[v]
         \/ at'[v] = "away" /\ ~wantsEmail'[v]
BY DEF Leave, GoTo, DeliveryTypeOK

\* Step by step, what may happen to the dispatch of one worker v.
LEMMA EachDispatch ==
  ASSUME IInv, DeliveryTypeOK, [DeliveryNext]_allVars, NEW v \in Workers
  PROVE  \/ /\ at'[v] = at[v] /\ wantsEmail'[v] = wantsEmail[v]
            /\ at[v] # "away" => current'[v] = current[v]
         \/ at'[v] = "away" /\ ~wantsEmail'[v]
         \/ at'[v] = "read" /\ wantsEmail'[v] = wantsEmail[v]
         \/ /\ at[v] \in {"create", "select"} /\ at'[v] = "create"
            /\ wantsEmail'[v] = wantsEmail[v]
         \/ ReadPreference(v)
         \/ InsertNotification(v) \/ SelectNotification(v)
         \/ Emit(v) \/ SendEmail(v)
<1> DEFINE Same == /\ at'[v] = at[v] /\ wantsEmail'[v] = wantsEmail[v]
                   /\ at[v] # "away" => current'[v] = current[v]
           Over == at'[v] = "away" /\ ~wantsEmail'[v]
<1>0. TypeOK  BY DEF IInv
<1>1. CASE UNCHANGED allVars
  BY <1>1 DEF allVars, vars, deliveryVars, consumerVars
<1>2. CASE OutboxOnly
  <2>1. at[v] # "away" => current'[v] = current[v]
    BY <1>0, <1>2, DispatchesUntouched DEF DeliveryTypeOK
  <2>2. QED BY <1>2, <2>1 DEF OutboxOnly, deliveryVars, consumerVars
<1>3. ASSUME NEW w \in Workers, NEW e \in Events, StartDispatch(w, e)
      PROVE  Same \/ (at'[v] = "read" /\ wantsEmail'[v] = wantsEmail[v])
  BY <1>0, <1>3 DEF StartDispatch, Pick, GoTo, TypeOK, DeliveryTypeOK
<1>4. ASSUME NEW w \in Workers, NEW c \in Culprits, Throw(w, c)
      PROVE  Same \/ Over
  BY <1>0, <1>4, LeavesAlone DEF Throw, ProcessFails
<1>5. ASSUME NEW w \in Workers, ReadPreference(w)
      PROVE  Same \/ ReadPreference(v)
  BY <1>5 DEF ReadPreference, GoTo, vars, DeliveryTypeOK
<1>6. ASSUME NEW w \in Workers,
             InsertNotification(w) \/ SelectNotification(w) \/ Emit(w)
             \/ SendEmail(w)
      PROVE  \/ Same
             \/ InsertNotification(v) \/ SelectNotification(v) \/ Emit(v)
             \/ SendEmail(v)
  BY <1>6
     DEF InsertNotification, SelectNotification, Emit, SendEmail, GoTo, vars,
         DeliveryTypeOK
<1>7. ASSUME NEW w \in Workers, NEW applied \in BOOLEAN,
             CreateFails(w, applied)
      PROVE  \/ Same \/ Over
             \/ /\ at[v] \in {"create", "select"} /\ at'[v] = "create"
                /\ wantsEmail'[v] = wantsEmail[v]
  <2>1. CASE Throw(w, "database")  BY <1>4, <2>1 DEF Culprits
  <2>2. CASE GoTo(w, "create") /\ UNCHANGED <<vars, wantsEmail>>
    BY <1>7, <2>2 DEF CreateFails, GoTo, vars, DeliveryTypeOK
  <2>3. QED BY <1>7, <2>1, <2>2 DEF CreateFails
<1>8. ASSUME NEW w \in Workers,
             \/ \E c \in Culprits : ReadFails(w, c)
             \/ EmitFails(w)
             \/ \E sent \in BOOLEAN : EmailFails(w, sent)
      PROVE  Same \/ Over
  BY <1>4, <1>8 DEF ReadFails, EmitFails, EmailFails, Culprits
<1>9. ASSUME NEW w \in Workers, Return(w) PROVE Same \/ Over
  BY <1>0, <1>9, LeavesAlone DEF Return, Processed
<1>10. ASSUME NEW w \in Workers, CrashDispatching(w) PROVE Same \/ Over
  BY <1>0, <1>10, LeavesAlone DEF CrashDispatching, Crash, Forget, TypeOK
<1>11. CASE \/ \E p \in Preferences : SetPreference(p)
            \/ \E e \in Events : DeleteNotification(e)
  BY <1>11 DEF SetPreference, DeleteNotification, vars, consumerVars
<1>12. QED
  BY <1>1, <1>2, <1>3, <1>5, <1>6, <1>7, <1>8, <1>9, <1>10, <1>11
     DEF DeliveryNext, Dispatching

\* A throw is put down to its culprit, at the event it happened at.
LEMMA ThrowBlames ==
  ASSUME DeliveryTypeOK, NEW w \in Workers, NEW c \in Culprits, Throw(w, c),
         NEW e \in Events, NEW m, m \in blame'[e]
  PROVE  m \in blame[e] \/ (m = c /\ current[w] = e)
<1>1. blame \in [Events -> SUBSET Culprits]  BY DEF DeliveryTypeOK
<1>2. blame' = [blame EXCEPT ![current[w]] = blame[current[w]] \cup {c}]
  BY DEF Throw
<1>3. CASE e = current[w]
  <2>1. blame'[e] = blame[e] \cup {c}  BY <1>1, <1>2, <1>3
  <2>2. QED BY <1>3, <2>1
<1>4. CASE e # current[w]
  BY <1>1, <1>2, <1>4
<1>5. QED BY <1>3, <1>4

\* Whatever is done to an event is done by a dispatch that has come to the
\* point of doing it.
LEMMA EachEffect ==
  ASSUME IInv, DeliveryTypeOK, [DeliveryNext]_allVars, NEW e \in Events
  PROVE  /\ e \in processed' => \/ e \in processed
                                \/ \E w \in Workers : at[w] = "done" /\ current[w] = e
         /\ "mail" \in blame'[e] =>
              \/ "mail" \in blame[e]
              \/ \E w \in Workers : at[w] = "mail" /\ current[w] = e
         /\ emailed'[e] # emailed[e] => \E w \in Workers : at[w] = "mail"
         /\ e \in feed' => \/ e \in feed
                           \/ \E w \in Workers : at[w] \in {"create", "select"}
         /\ e \in emitted' => \/ e \in emitted
                              \/ \E w \in Workers : at[w] = "emit"
<1> DEFINE Effects ==
      /\ e \in processed' => \/ e \in processed
                             \/ \E w \in Workers : at[w] = "done" /\ current[w] = e
      /\ "mail" \in blame'[e] =>
           \/ "mail" \in blame[e]
           \/ \E w \in Workers : at[w] = "mail" /\ current[w] = e
      /\ emailed'[e] # emailed[e] => \E w \in Workers : at[w] = "mail"
      /\ e \in feed' => \/ e \in feed
                        \/ \E w \in Workers : at[w] \in {"create", "select"}
      /\ e \in emitted' => \/ e \in emitted
                           \/ \E w \in Workers : at[w] = "emit"
<1>0. TypeOK  BY DEF IInv
<1>1. CASE UNCHANGED allVars
  BY <1>1 DEF allVars, vars, deliveryVars, historyVars
<1>2. CASE OutboxOnly
  BY <1>0, <1>2, DispatchesUntouched DEF deliveryVars, historyVars
<1>3. ASSUME NEW w \in Workers, NEW c \in Culprits, Throw(w, c)
      PROVE  /\ processed' = processed
             /\ "mail" \in blame'[e] =>
                  "mail" \in blame[e] \/ (c = "mail" /\ current[w] = e)
  BY <1>3, ThrowBlames DEF Throw, ProcessFails, dbVars
<1>4. ASSUME NEW w \in Workers,
             \/ \E f \in Events : StartDispatch(w, f)
             \/ ReadPreference(w) \/ SelectNotification(w)
             \/ CrashDispatching(w)
      PROVE  Effects
  <2>1. UNCHANGED <<processed, feed, historyVars>>
    BY <1>4
       DEF StartDispatch, Pick, ReadPreference, SelectNotification,
           CrashDispatching, Crash, dbVars, vars
  <2>2. QED BY <2>1 DEF historyVars
<1>5. ASSUME NEW w \in Workers, NEW c \in Culprits, ReadFails(w, c)
      PROVE  Effects
  BY <1>3, <1>5 DEF ReadFails
<1>6. ASSUME NEW w \in Workers, InsertNotification(w) PROVE Effects
  BY <1>6 DEF InsertNotification, vars
<1>7. ASSUME NEW w \in Workers, NEW applied \in BOOLEAN,
             CreateFails(w, applied)
      PROVE  Effects
  <2>1. /\ at[w] \in {"create", "select"} /\ UNCHANGED <<emitted, emailed>>
        /\ Throw(w, "database") \/ UNCHANGED <<processed, blame>>
    BY <1>7 DEF CreateFails, vars
  <2>2. QED BY <1>3, <2>1 DEF Culprits
<1>8. ASSUME NEW w \in Workers, Emit(w) PROVE Effects
  BY <1>8 DEF Emit, vars
<1>9. ASSUME NEW w \in Workers, EmitFails(w) PROVE Effects
  BY <1>3, <1>9 DEF EmitFails, Culprits
<1>10. ASSUME NEW w \in Workers, SendEmail(w) PROVE Effects
  BY <1>10 DEF SendEmail, vars
<1>11. ASSUME NEW w \in Workers, NEW sent \in BOOLEAN, EmailFails(w, sent)
       PROVE  Effects
  <2>1. /\ at[w] = "mail" /\ Throw(w, "mail")
        /\ UNCHANGED <<feed, emitted>>
    BY <1>11 DEF EmailFails
  <2>2. QED BY <1>3, <2>1 DEF Culprits
<1>12. ASSUME NEW w \in Workers, Return(w) PROVE Effects
  <2>1. /\ at[w] = "done" /\ processed' = processed \cup {current[w]}
        /\ UNCHANGED <<feed, historyVars>>
    BY <1>12 DEF Return, Processed
  <2>2. QED BY <2>1 DEF historyVars
<1>13. CASE \/ \E p \in Preferences : SetPreference(p)
            \/ \E f \in Events : DeleteNotification(f)
  BY <1>13 DEF SetPreference, DeleteNotification, vars
<1>14. QED
  BY <1>1, <1>2, <1>4, <1>5, <1>6, <1>7, <1>8, <1>9, <1>10, <1>11, <1>12,
     <1>13 DEF DeliveryNext, Dispatching

\* The preference in force is one the recipient has chosen.
LEMMA PreferenceSeen ==
  ASSUME ReadRightly, [DeliveryNext]_allVars PROVE pref' \in seen'
<1>1. CASE UNCHANGED <<pref, seen>>  BY <1>1 DEF ReadRightly
<1>2. CASE UNCHANGED allVars \/ OutboxOnly
  BY <1>1, <1>2 DEF allVars, OutboxOnly, deliveryVars, historyVars
<1>3. ASSUME NEW w \in Workers, Dispatching(w) \/ CrashDispatching(w)
      PROVE  UNCHANGED <<pref, seen>>
  BY <1>3
     DEF Dispatching, StartDispatch, ReadPreference, ReadFails,
         InsertNotification, SelectNotification, CreateFails, Emit, EmitFails,
         SendEmail, EmailFails, Return, CrashDispatching, historyVars
<1>4. QED
  BY <1>1, <1>2, <1>3
     DEF DeliveryNext, SetPreference, DeleteNotification

\* What a dispatch does, some preference it can have read asks for; and as
\* long as all of them ask for e-mail, it will mail.
LEMMA NextReadRightly ==
  ASSUME IInv, DeliveryTypeOK, ReadRightly, [DeliveryNext]_allVars
  PROVE  ReadRightly'
<1>1. seen \subseteq seen'  BY HistoriesGrow
<1>2. /\ ~NeverInApp => ~NeverInApp'
      /\ ~NeverEmail => ~NeverEmail'
      /\ AlwaysEmail' => AlwaysEmail
  BY <1>1 DEF NeverInApp, NeverEmail, AlwaysEmail
<1>3. pref' \in seen'  BY PreferenceSeen
<1>4. /\ pref.inApp => ~NeverInApp
      /\ pref.email => ~NeverEmail
      /\ AlwaysEmail => pref.email
  BY DEF ReadRightly, NeverInApp, NeverEmail, AlwaysEmail
<1>5. ASSUME NEW v \in Workers
      PROVE  /\ at'[v] \in {"create", "select", "emit"} =>
                  ~NeverInApp' /\ (AlwaysEmail' => wantsEmail'[v])
             /\ wantsEmail'[v] \/ at'[v] = "mail" => ~NeverEmail'
  <2>1. /\ at[v] \in {"create", "select", "emit"} =>
             ~NeverInApp /\ (AlwaysEmail => wantsEmail[v])
        /\ wantsEmail[v] \/ at[v] = "mail" => ~NeverEmail
    BY DEF ReadRightly
  <2>2. CASE ReadPreference(v)
    <3>1. /\ at'[v] = IF pref.inApp THEN "create" ELSE AfterInApp(pref.email)
          /\ wantsEmail'[v] = pref.email
      BY <2>2 DEF ReadPreference, GoTo, DeliveryTypeOK
    <3>2. QED BY <1>2, <1>4, <3>1 DEF AfterInApp
  <2>3. CASE InsertNotification(v) \/ SelectNotification(v)
    <3>1. /\ at[v] \in {"create", "select"} /\ at'[v] \in {"select", "emit"}
          /\ wantsEmail'[v] = wantsEmail[v]
      BY <2>3
         DEF InsertNotification, SelectNotification, GoTo, DeliveryTypeOK
    <3>2. QED BY <1>2, <2>1, <3>1
  <2>4. CASE Emit(v)
    <3>1. /\ at'[v] = IF wantsEmail[v] THEN "mail" ELSE "done"
          /\ wantsEmail'[v] = wantsEmail[v]
      BY <2>4 DEF Emit, AfterInApp, GoTo, DeliveryTypeOK
    <3>2. QED BY <1>2, <2>1, <3>1
  <2>5. CASE SendEmail(v)
    <3>1. at'[v] = "done" /\ wantsEmail'[v] = wantsEmail[v]
      BY <2>5 DEF SendEmail, GoTo, DeliveryTypeOK
    <3>2. QED BY <1>2, <2>1, <3>1
  <2>6. QED BY <1>2, <2>1, <2>2, <2>3, <2>4, <2>5, EachDispatch
<1>6. QED BY <1>3, <1>5 DEF ReadRightly

\* The order of the steps: a dispatch that has come to the e-mail has stored
\* and announced, and one that is done has mailed, where that is asked for.
LEMMA NextDoneSoFar ==
  ASSUME IInv, DeliveryTypeOK, ReadRightly, DoneSoFar,
         [DeliveryNext]_allVars
  PROVE  DoneSoFar'
<1>1. /\ seen \subseteq seen' /\ emitted \subseteq emitted'
      /\ \A e \in Events : (InFeed(e) => InFeed(e)')
                           /\ emailed[e] <= emailed'[e]
  BY HistoriesGrow
<1>2. \A e \in Events : emailed[e] \in Nat /\ emailed'[e] \in Nat
  BY NextDeliveryTypeOK DEF DeliveryTypeOK
<1>3. (AlwaysInApp' => AlwaysInApp) /\ (AlwaysEmail' => AlwaysEmail)
  BY <1>1 DEF AlwaysInApp, AlwaysEmail
<1>4. /\ AlwaysInApp => pref.inApp
      /\ AlwaysEmail => pref.email
  BY DEF ReadRightly, AlwaysInApp, AlwaysEmail
<1>5. ASSUME NEW v \in Workers, NEW e \in Events, current[v] = e,
             current'[v] = e, at[v] # "away"
      PROVE  /\ at'[v] = "emit" => InFeed(e)'
             /\ at'[v] \in {"mail", "done"} /\ AlwaysInApp'
                  => InFeed(e)' /\ e \in emitted'
             /\ at'[v] = "done" /\ AlwaysEmail' => emailed'[e] > 0
  <2>1. /\ at[v] = "emit" => InFeed(e)
        /\ at[v] \in {"mail", "done"} /\ AlwaysInApp
             => InFeed(e) /\ e \in emitted
        /\ at[v] = "done" /\ AlwaysEmail => emailed[e] > 0
    BY <1>5 DEF DoneSoFar
  <2>2. CASE at'[v] = at[v]  BY <1>1, <1>2, <1>3, <2>1, <2>2
  <2>3. CASE at'[v] \in {"away", "read", "create"}  BY <2>3
  <2>4. CASE ReadPreference(v)
    <3>1. at'[v] = IF pref.inApp THEN "create" ELSE AfterInApp(pref.email)
      BY <2>4 DEF ReadPreference, GoTo, DeliveryTypeOK
    <3>2. /\ at'[v] # "emit"
          /\ at'[v] \in {"mail", "done"} => ~pref.inApp
          /\ at'[v] = "done" => ~pref.email
      BY <3>1 DEF AfterInApp
    <3>3. QED BY <1>3, <1>4, <3>2
  <2>5. CASE InsertNotification(v) \/ SelectNotification(v)
    <3>1. at'[v] = "select" \/ (at'[v] = "emit" /\ e \in feed')
      BY <1>5, <2>5
         DEF InsertNotification, SelectNotification, GoTo, DeliveryTypeOK
    <3>2. QED BY <3>1 DEF InFeed
  <2>6. CASE Emit(v)
    <3>1. /\ at[v] = "emit" /\ e \in emitted'
          /\ at'[v] = IF wantsEmail[v] THEN "mail" ELSE "done"
      BY <1>5, <2>6 DEF Emit, AfterInApp, GoTo, DeliveryTypeOK
    <3>2. AlwaysEmail => wantsEmail[v]  BY <3>1 DEF ReadRightly
    <3>3. QED BY <1>1, <1>3, <2>1, <3>1, <3>2
  <2>7. CASE SendEmail(v)
    <3>1. /\ at[v] = "mail" /\ at'[v] = "done"
          /\ emailed'[e] = emailed[e] + 1
      BY <1>5, <2>7 DEF SendEmail, GoTo, DeliveryTypeOK
    <3>2. QED BY <1>1, <1>2, <1>3, <2>1, <3>1
  <2>8. QED BY <2>2, <2>3, <2>4, <2>5, <2>6, <2>7, EachDispatch
<1>6. ASSUME NEW v \in Workers, at'[v] \in {"emit", "mail", "done"}
      PROVE  at[v] # "away" /\ current'[v] = current[v]
  BY <1>6, EachDispatch
     DEF ReadPreference, InsertNotification, SelectNotification, Emit,
         SendEmail, vars
<1>7. QED
  <2>1. ASSUME NEW v \in Workers, at'[v] \in {"emit", "mail", "done"}
        PROVE  /\ at'[v] = "emit" => InFeed(current[v])'
               /\ at'[v] \in {"mail", "done"} /\ AlwaysInApp'
                    => InFeed(current[v])' /\ current'[v] \in emitted'
               /\ at'[v] = "done" /\ AlwaysEmail' => emailed'[current'[v]] > 0
    <3>1. PICK e \in Events : current[v] = e
      BY <1>6, <2>1, DispatchEvent
    <3>2. InFeed(e)' => InFeed(current[v])'
      BY <1>6, <2>1, <3>1 DEF InFeed
    <3>3. QED BY <1>5, <1>6, <2>1, <3>1, <3>2
  <2>2. QED BY <2>1 DEF DoneSoFar

\* So what its consumer resolved on was delivered ...
LEMMA NextProcessedMeansDelivered ==
  ASSUME IInv, DeliveryTypeOK, DoneSoFar, ProcessedMeansDelivered,
         [DeliveryNext]_allVars
  PROVE  ProcessedMeansDelivered'
<1>1. /\ seen \subseteq seen' /\ emitted \subseteq emitted'
      /\ \A e \in Events : (InFeed(e) => InFeed(e)')
                           /\ emailed[e] <= emailed'[e]
  BY HistoriesGrow
<1>2. DeliveryTypeOK' /\ TypeOK'
  BY NextDeliveryTypeOK, OutboxStep, NextIInv DEF IInv
<1>3. \A e \in Events : emailed[e] \in Nat /\ emailed'[e] \in Nat
  BY <1>2 DEF DeliveryTypeOK
<1>4. (AlwaysInApp' => AlwaysInApp) /\ (AlwaysEmail' => AlwaysEmail)
  BY <1>1 DEF AlwaysInApp, AlwaysEmail
<1>5. ASSUME NEW e \in processed'
      PROVE  /\ AlwaysInApp' => InFeed(e)' /\ e \in emitted'
             /\ AlwaysEmail' => emailed'[e] > 0
  <2>1. e \in Events  BY <1>2 DEF TypeOK
  <2>2. /\ AlwaysInApp => InFeed(e) /\ e \in emitted
        /\ AlwaysEmail => emailed[e] > 0
    BY <2>1, EachEffect DEF DoneSoFar, ProcessedMeansDelivered
  <2>3. QED BY <1>1, <1>3, <1>4, <2>1, <2>2
<1>6. QED BY <1>5 DEF ProcessedMeansDelivered

\* ... and what failed of the e-mail had come that far.
LEMMA NextMailComesLast ==
  ASSUME IInv, DeliveryTypeOK, DoneSoFar, MailComesLast,
         [DeliveryNext]_allVars
  PROVE  MailComesLast'
<1>1. /\ seen \subseteq seen' /\ emitted \subseteq emitted'
      /\ \A e \in Events : InFeed(e) => InFeed(e)'
  BY HistoriesGrow
<1>2. AlwaysInApp' => AlwaysInApp  BY <1>1 DEF AlwaysInApp
<1>3. ASSUME NEW e \in Events, "mail" \in blame'[e], AlwaysInApp'
      PROVE  InFeed(e)' /\ e \in emitted'
  <2>1. InFeed(e) /\ e \in emitted
    BY <1>2, <1>3, EachEffect DEF DoneSoFar, MailComesLast
  <2>2. QED BY <1>1, <2>1
<1>4. QED BY <1>3 DEF MailComesLast

\* A channel nobody asked for is touched by no dispatch.
LEMMA NextNothingUnwanted ==
  ASSUME IInv, DeliveryTypeOK, ReadRightly, NothingUnwanted,
         [DeliveryNext]_allVars
  PROVE  NothingUnwanted'
<1>1. seen \subseteq seen'  BY HistoriesGrow
<1>2. /\ NeverInApp' => NeverInApp
      /\ NeverEmail' => NeverEmail
  BY <1>1 DEF NeverInApp, NeverEmail
<1>3. /\ NeverEmail => \A w \in Workers : at[w] # "mail"
      /\ NeverInApp =>
           \A w \in Workers : at[w] \notin {"create", "select", "emit"}
  BY DEF ReadRightly
<1>4. ASSUME NEW e \in Events
      PROVE  /\ NeverEmail' => emailed'[e] = 0
             /\ NeverInApp' => e \notin feed' /\ e \notin emitted'
  <2>1. /\ NeverEmail => emailed[e] = 0
        /\ NeverInApp => e \notin feed /\ e \notin emitted
    BY DEF NothingUnwanted, NeverEmail, NeverInApp
  <2>2. QED BY <1>2, <1>3, <2>1, EachEffect
<1>5. QED BY <1>4 DEF NothingUnwanted, NeverEmail, NeverInApp

-----------------------------------------------------------------------------
(***************************************************************************)
(* E-mails and what pays for them.                                         *)
(***************************************************************************)

\* Only time makes a worker late, and one that can no longer mail an event
\* cannot until it has left the event behind.
LEMMA NobodyElseHopes ==
  ASSUME IInv, DeliveryTypeOK, [DeliveryNext]_allVars,
         ~(OutboxOnly /\ Tick), NEW e \in Events
  PROVE  LateFor(e)' \subseteq LateFor(e)
<1> DEFINE Hopes(v) ==
      Active(v) /\ e \in batch[v] /\ held[v] > Lease /\ ~Spent(v, e)
<1>0. TypeOK /\ BatchDiscipline /\ Lease \in Nat  BY Numbers DEF IInv
<1>1. SUFFICES ASSUME NEW v \in Workers, Hopes(v)' PROVE Hopes(v)
  BY DEF LateFor
<1>2. CASE UNCHANGED <<pc, batch, held, current, at>>
  BY <1>1, <1>2 DEF Active, Holding, Spent
<1>3. CASE UNCHANGED allVars
  BY <1>2, <1>3 DEF allVars, vars, deliveryVars, consumerVars
<1>4. CASE OutboxOnly
  <2>1. UNCHANGED at  BY <1>4 DEF OutboxOnly, deliveryVars, consumerVars
  <2>2. ASSUME NEW f \in Events, Insert(f) \/ Replay(f) PROVE Hopes(v)
    BY <1>2, <2>1, <2>2 DEF Insert, Replay, workerVars
  <2>3. ASSUME NEW w \in Workers, StartPoll(w) \/ Stop(w) \/ Exit(w)
                                  \/ Restart(w) \/ CommitClaim(w)
        PROVE  Hopes(v)
    BY <1>0, <1>1, <2>1, <2>3
       DEF StartPoll, Stop, Exit, Restart, CommitClaim, Active, Holding,
           Spent, TypeOK
  <2>4. ASSUME NEW w \in Workers, BeginClaim(w) PROVE Hopes(v)
    BY <1>0, <1>1, <2>1, <2>4 DEF BeginClaim, Active, Holding, Spent, TypeOK
  <2>5. ASSUME NEW w \in Workers, Forget(w),
               \A u \in Workers \ {w} : pc'[u] = pc[u]
        PROVE  Hopes(v)
    BY <1>0, <1>1, <2>1, <2>5 DEF Forget, Active, Holding, Spent, TypeOK
  <2>6. ASSUME NEW w \in Workers,
               \/ FinishBatch(w)
               \/ \E lost \in BOOLEAN : ClaimFails(w, lost)
                                        \/ SettleFails(w, lost)
        PROVE  Hopes(v)
    <3>1. Forget(w) /\ pc' = [pc EXCEPT ![w] = "idle"]
      BY <2>6 DEF FinishBatch, ClaimFails, SettleFails
    <3>2. QED BY <1>0, <2>5, <3>1 DEF TypeOK
  <2>7. ASSUME NEW w \in Workers, Publish(w) \/ Settle(w) PROVE Hopes(v)
    <3>1. Advance(w) /\ UNCHANGED held  BY <2>7 DEF Publish, Settle
    <3>2. pc[w] \in {"publish", "settle"}  BY <2>7 DEF Publish, Settle
    <3>3. QED
      BY <1>0, <1>1, <2>1, <3>1, <3>2
         DEF Advance, Active, Holding, Spent, TypeOK
  <2>8. ASSUME NEW w \in Workers, NEW lost \in BOOLEAN,
               PublishFails(w, lost)
        PROVE  Hopes(v)
    BY <1>0, <1>1, <2>1, <2>8
       DEF PublishFails, Active, Holding, Spent, TypeOK
  <2>9. QED
    BY <1>4, <2>2, <2>3, <2>4, <2>6, <2>7, <2>8 DEF OutboxOnly
<1>5. ASSUME NEW w \in Workers, NEW f \in Events, StartDispatch(w, f)
      PROVE  Hopes(v)
  BY <1>0, <1>1, <1>5
     DEF StartDispatch, Pick, GoTo, Active, Holding, Spent, TypeOK,
         DeliveryTypeOK
<1>6. ASSUME NEW w \in Workers, NEW c \in Culprits, Throw(w, c),
             at[w] # "done"
      PROVE  Hopes(v)
  BY <1>0, <1>1, <1>6
     DEF Throw, ProcessFails, Leave, GoTo, Active, Holding, Spent, TypeOK,
         DeliveryTypeOK
<1>7. ASSUME NEW w \in Workers, NEW s \in Steps, GoTo(w, s), UNCHANGED vars,
             at[w] # "done"
      PROVE  Hopes(v)
  BY <1>0, <1>1, <1>7
     DEF GoTo, vars, Active, Holding, Spent, TypeOK, DeliveryTypeOK
<1>8. ASSUME NEW w \in Workers,
             \/ ReadPreference(w) \/ InsertNotification(w)
             \/ SelectNotification(w) \/ Emit(w) \/ SendEmail(w)
      PROVE  Hopes(v)
  <2>1. UNCHANGED vars /\ at[w] # "done"
    BY <1>8
       DEF ReadPreference, InsertNotification, SelectNotification, Emit,
           SendEmail
  <2>2. \E s \in Steps : GoTo(w, s)
    BY <1>8
       DEF ReadPreference, InsertNotification, SelectNotification, Emit,
           SendEmail, AfterInApp, Steps
  <2>3. QED BY <1>7, <2>1, <2>2
<1>9. ASSUME NEW w \in Workers, NEW applied \in BOOLEAN,
             CreateFails(w, applied)
      PROVE  Hopes(v)
  <2>1. at[w] # "done"  BY <1>9 DEF CreateFails
  <2>2. Throw(w, "database") \/ (GoTo(w, "create") /\ UNCHANGED vars)
    BY <1>9 DEF CreateFails
  <2>3. QED BY <1>6, <1>7, <2>1, <2>2 DEF Culprits, Steps
<1>10. ASSUME NEW w \in Workers,
              \/ \E c \in Culprits : ReadFails(w, c)
              \/ EmitFails(w)
              \/ \E sent \in BOOLEAN : EmailFails(w, sent)
       PROVE  Hopes(v)
  BY <1>6, <1>10 DEF ReadFails, EmitFails, EmailFails, Culprits
<1>11. ASSUME NEW w \in Workers, Return(w) PROVE Hopes(v)
  BY <1>0, <1>1, <1>11
     DEF Return, Processed, Leave, GoTo, Active, Holding, Spent, TypeOK,
         DeliveryTypeOK
<1>12. ASSUME NEW w \in Workers, CrashDispatching(w) PROVE Hopes(v)
  BY <1>0, <1>1, <1>12
     DEF CrashDispatching, Crash, Forget, Leave, GoTo, Active, Holding,
         Spent, TypeOK, DeliveryTypeOK
<1>13. CASE \/ \E p \in Preferences : SetPreference(p)
            \/ \E f \in Events : DeleteNotification(f)
  BY <1>2, <1>13 DEF SetPreference, DeleteNotification, vars, consumerVars
<1>14. QED
  BY <1>3, <1>4, <1>5, <1>8, <1>9, <1>10, <1>11, <1>12, <1>13
     DEF DeliveryNext, Dispatching

\* A worker that concludes in time holds its row against everyone else.
LEMMA ConclusionHolds ==
  ASSUME IInv, DeliveryTypeOK, NEW w \in Workers, NEW e \in Events,
         Concludes(w, e)
  PROVE  /\ pc[w] \in {"process", "publish"} /\ e \in batch[w]
         /\ row[e].status = "processing" /\ ~Eligible(row[e])
<1>1. pc[w] \in {"process", "publish"}
  BY DispatchEvent DEF Concludes
<1>2. e \in batch[w]
  BY <1>1 DEF Concludes, IInv, BatchDiscipline, AtEvent
<1>3. row[e].status = "processing"
  BY WorkersAssumption DEF Concludes, IInv, LockDiscipline
<1>4. held[w] = row[e].age
  BY <1>1, <1>2 DEF Concludes, IInv, OwnerIsInformed, Holding
<1>5. held[w] \in Nat /\ Lease \in Nat  BY Numbers DEF IInv
<1>6. QED BY <1>1, <1>2, <1>3, <1>4, <1>5 DEF Eligible, Concludes

\* Unless there is an incident, it goes on to publish it.
LEMMA ClosedStays ==
  ASSUME IInv, IInv', DeliveryTypeOK, [DeliveryNext]_allVars,
         NEW e \in Events, Closed(e), incidents' = incidents
  PROVE  Closed(e)'
<1>0. /\ TypeOK /\ incidents \in Nat /\ Lease \in Nat
      /\ \A v \in Workers : held[v] \in Nat
  BY Numbers DEF IInv
<1>1. CASE row[e].status = "published"
  BY <1>1, OutboxStep, NextKeepsPublished DEF Closed
<1>2. SUFFICES ASSUME NEW w \in Workers, Concludes(w, e) PROVE Closed(e)'
  BY <1>1 DEF Closed
<1>3. /\ pc[w] \in {"process", "publish"} /\ e \in batch[w]
      /\ row[e].status = "processing" /\ row[e].owner = w
      /\ current[w] = e /\ held[w] <= Lease /\ ~Eligible(row[e])
      /\ at[w] = "done" \/ pc[w] = "publish"
  BY <1>2, ConclusionHolds DEF Concludes
<1>4. ~Incident  BY <1>0 DEF Incident
<1>5. ASSUME row'[e].owner = w, UNCHANGED <<pc, at, current, held>>
      PROVE  Closed(e)'
  BY <1>3, <1>5 DEF Closed, Concludes
<1>6. CASE UNCHANGED vars /\ UNCHANGED at
  BY <1>3, <1>5, <1>6 DEF vars
<1>7. ASSUME NEW v \in Workers \ {w}, row'[e].owner = w,
             pc'[w] = pc[w], at'[w] = at[w], current'[w] = current[w],
             held'[w] = held[w]
      PROVE  Closed(e)'
  BY <1>3, <1>7 DEF Closed, Concludes
<1>8. CASE OutboxOnly
  <2>1. UNCHANGED at  BY <1>8 DEF OutboxOnly, deliveryVars, consumerVars
  <2>2. ASSUME NEW f \in Events, Insert(f) \/ Replay(f) PROVE Closed(e)'
    <3>1. Insert(f)  BY <1>4, <2>2 DEF Replay
    <3>2. row'[e] = row[e]
      BY <1>0, <1>3, <3>1 DEF Insert, Inserted, TypeOK
    <3>3. QED BY <1>3, <1>5, <2>1, <3>1, <3>2 DEF Insert, workerVars
  <2>3. CASE Tick
    <3>1. held[w] # Lease
      BY <1>3, <1>4, <2>3 DEF Tick, Active, Holding
    <3>2. held'[w] <= Lease
      BY <1>0, <1>3, <2>3, <3>1 DEF Tick
    <3>3. row'[e].owner = w  BY <1>3, <2>3 DEF Tick, Aged
    <3>4. QED BY <1>3, <2>1, <2>3, <3>2, <3>3 DEF Tick, Closed, Concludes
  <2>4. ASSUME NEW v \in Workers, StartPoll(v) \/ BeginClaim(v)
                                  \/ FinishBatch(v) \/ Restart(v)
        PROVE  Closed(e)'
    <3>1. v # w
      BY <1>3, <2>4 DEF StartPoll, BeginClaim, FinishBatch, Restart
    <3>2. UNCHANGED row
      BY <2>4 DEF StartPoll, BeginClaim, FinishBatch, Restart, dbVars
    <3>3. pc'[w] = pc[w] /\ current'[w] = current[w] /\ held'[w] = held[w]
      BY <1>0, <2>4, <3>1
         DEF StartPoll, BeginClaim, FinishBatch, Restart, Forget, TypeOK
    <3>4. QED BY <1>3, <1>7, <2>1, <3>1, <3>2, <3>3
  <2>5. ASSUME NEW v \in Workers, CommitClaim(v) PROVE Closed(e)'
    <3>1. v # w /\ e \notin batch[v]
      BY <1>3, <2>5 DEF CommitClaim, IInv, ClaimDiscipline
    <3>2. row'[e] = row[e]  BY <2>5, <3>1 DEF CommitClaim, ClaimedRows
    <3>3. pc'[w] = pc[w] /\ current'[w] = current[w] /\ held'[w] = held[w]
      BY <1>0, <2>5, <3>1 DEF CommitClaim, TypeOK
    <3>4. QED BY <1>3, <1>7, <2>1, <3>1, <3>2, <3>3
  <2>6. ASSUME NEW v \in Workers, Publish(v) PROVE Closed(e)'
    <3>1. CASE v = w
      <4>1. row'[e].status = "published"
        BY <1>0, <1>3, <2>6, <3>1
           DEF Publish, MarkPublished, OwnedBy, Unlocked, TypeOK
      <4>2. QED BY <4>1 DEF Closed
    <3>2. CASE v # w
      <4>1. row'[e] = row[e]
        BY <1>0, <1>3, <2>6, <3>2 DEF Publish, MarkPublished, OwnedBy, TypeOK
      <4>2. pc'[w] = pc[w] /\ current'[w] = current[w] /\ held'[w] = held[w]
        BY <1>0, <2>6, <3>2 DEF Publish, Advance, TypeOK
      <4>3. QED BY <1>3, <1>7, <2>1, <3>2, <4>1, <4>2
    <3>3. QED BY <3>1, <3>2
  <2>7. ASSUME NEW v \in Workers, Settle(v) PROVE Closed(e)'
    <3>1. v # w  BY <1>3, <2>7 DEF Settle
    <3>2. row'[e] = row[e]
      BY <1>0, <1>3, <2>7, <3>1
         DEF Settle, SettledRows, Settled, MoveToDeadLetter, ReleaseForRetry,
             OwnedBy, TypeOK
    <3>3. pc'[w] = pc[w] /\ current'[w] = current[w] /\ held'[w] = held[w]
      BY <1>0, <2>7, <3>1 DEF Settle, Advance, TypeOK
    <3>4. QED BY <1>3, <1>7, <2>1, <3>1, <3>2, <3>3
  <2>8. ASSUME NEW v \in Workers, Exit(v) PROVE Closed(e)'
    <3>1. v # w  BY <1>3, <2>8 DEF Exit
    <3>2. row'[e] = row[e]
      BY <1>3, <2>8, <3>1 DEF Exit, Abandoned, Orphaned
    <3>3. pc'[w] = pc[w] /\ current'[w] = current[w] /\ held'[w] = held[w]
      BY <1>0, <2>8, <3>1 DEF Exit, TypeOK
    <3>4. QED BY <1>3, <1>7, <2>1, <3>1, <3>2, <3>3
  <2>9. QED
    BY <1>4, <1>8, <2>2, <2>3, <2>4, <2>5, <2>6, <2>7, <2>8
       DEF OutboxOnly, Stop, ClaimFails, PublishFails, SettleFails
<1>9. ASSUME NEW v \in Workers,
             \/ \E f \in Events : StartDispatch(v, f)
             \/ \E c \in Culprits : Throw(v, c) /\ at[v] # "done"
             \/ UNCHANGED vars /\ at[v] \notin {"away", "done"}
                  /\ \E s \in Steps : GoTo(v, s)
      PROVE  Closed(e)'
  <2>1. v # w
    <3>1. pc[v] = "next" \/ (at[v] # "done" /\ pc[v] = "process")
      BY <1>9, DispatchEvent
         DEF StartDispatch, Pick, Throw, ProcessFails
    <3>2. QED BY <1>3, <3>1
  <2>2. /\ row' = row /\ pc'[w] = pc[w] /\ current'[w] = current[w]
        /\ held'[w] = held[w] /\ at'[w] = at[w]
    BY <1>0, <1>9, <2>1
       DEF StartDispatch, Pick, Throw, ProcessFails, Leave, GoTo, vars, dbVars,
           TypeOK, DeliveryTypeOK
  <2>3. QED BY <1>3, <1>7, <2>1, <2>2
<1>10. ASSUME NEW v \in Workers,
              \/ ReadPreference(v) \/ InsertNotification(v)
              \/ SelectNotification(v) \/ Emit(v) \/ SendEmail(v)
       PROVE  Closed(e)'
  <2>1. UNCHANGED vars /\ at[v] \notin {"away", "done"}
    BY <1>10
       DEF ReadPreference, InsertNotification, SelectNotification, Emit,
           SendEmail
  <2>2. \E s \in Steps : GoTo(v, s)
    BY <1>10
       DEF ReadPreference, InsertNotification, SelectNotification, Emit,
           SendEmail, AfterInApp, Steps
  <2>3. QED BY <1>9, <2>1, <2>2
<1>11. ASSUME NEW v \in Workers,
              \/ \E c \in Culprits : ReadFails(v, c)
              \/ EmitFails(v)
              \/ \E sent \in BOOLEAN : EmailFails(v, sent)
       PROVE  Closed(e)'
  BY <1>9, <1>11 DEF ReadFails, EmitFails, EmailFails, Culprits
<1>12. ASSUME NEW v \in Workers, NEW applied \in BOOLEAN,
              CreateFails(v, applied)
       PROVE  Closed(e)'
  <2>1. at[v] \notin {"away", "done"}  BY <1>12 DEF CreateFails
  <2>2. Throw(v, "database") \/ (GoTo(v, "create") /\ UNCHANGED vars)
    BY <1>12 DEF CreateFails
  <2>3. QED BY <1>9, <2>1, <2>2 DEF Culprits, Steps
<1>13. ASSUME NEW v \in Workers, Return(v) PROVE Closed(e)'
  <2>1. /\ UNCHANGED <<row, current, held>>
        /\ pc' = [pc EXCEPT ![v] = "publish"]
        /\ at' = [at EXCEPT ![v] = "away"]
    BY <1>13 DEF Return, Processed, Leave, GoTo
  <2>2. pc'[w] = "publish" \/ at'[w] = "done" \/ (v # w /\ pc'[w] = pc[w])
    BY <1>0, <1>3, <2>1 DEF TypeOK
  <2>3. (at'[w] = "done" \/ pc'[w] = "publish")
    BY <1>0, <1>3, <2>1, <2>2 DEF TypeOK, DeliveryTypeOK
  <2>4. QED BY <1>3, <2>1, <2>3 DEF Closed, Concludes
<1>14. CASE \/ UNCHANGED allVars
            \/ \E p \in Preferences : SetPreference(p)
            \/ \E f \in Events : DeleteNotification(f)
  BY <1>6, <1>14
     DEF allVars, deliveryVars, consumerVars, SetPreference,
         DeleteNotification
<1>15. QED
  BY <1>4, <1>8, <1>9, <1>10, <1>11, <1>12, <1>13, <1>14
     DEF DeliveryNext, Dispatching, CrashDispatching, Crash

\* Of the workers that have an event in time there is one at most.
LEMMA OneInTime ==
  ASSUME IInv, NEW e \in Events, NEW v \in Workers, NEW w \in Workers,
         Active(v), Active(w), e \in batch[v], e \in batch[w],
         held[v] <= Lease, held[w] <= Lease
  PROVE  v = w
<1>1. held[v] \in Nat /\ held[w] \in Nat /\ Lease \in Nat
  BY Numbers DEF IInv
<1>2. CASE Holding(v) /\ Holding(w)
  BY <1>1, <1>2 DEF IInv, ExclusiveUnlessLate
<1>3. CASE pc[v] = "claiming" /\ pc[w] = "claiming"
  BY <1>3 DEF IInv, ClaimDiscipline
<1>4. CASE pc[v] = "claiming" /\ Holding(w)
  BY <1>1, <1>4, ClaimedFromTheLate
<1>5. CASE Holding(v) /\ pc[w] = "claiming"
  BY <1>1, <1>5, ClaimedFromTheLate
<1>6. QED BY <1>2, <1>3, <1>4, <1>5 DEF Active

\* Subsets count for less.
LEMMA FewerLate ==
  ASSUME NEW S, IsFiniteSet(S), NEW T \in SUBSET S
  PROVE  /\ IsFiniteSet(T) /\ Cardinality(S) \in Nat /\ Cardinality(T) \in Nat
         /\ Cardinality(T) <= Cardinality(S)
BY FS_Subset, FS_CardinalityType

\* Time makes one worker late at an event at most, and that is an incident.
LEMMA TickKeepsAccounts ==
  ASSUME IInv, IInv', DeliveryTypeOK, DeliveryTypeOK', EmailsAccounted,
         OutboxOnly, Tick, [DeliveryNext]_allVars
  PROVE  EmailsAccounted'
<1>0. /\ TypeOK /\ incidents \in Nat /\ Lease \in Nat
      /\ \A v \in Workers : held[v] \in Nat
  BY Numbers DEF IInv
<1>1. SUFFICES ASSUME NEW e \in Events
               PROVE  /\ IsFiniteSet(LateFor(e)')
                      /\ emailed'[e] + Cardinality(LateFor(e)')
                           <= doubts'[e] + incidents'
                              + (IF Closed(e)' THEN 1 ELSE 0)
  BY DEF EmailsAccounted
<1>2. /\ IsFiniteSet(LateFor(e))
      /\ emailed[e] + Cardinality(LateFor(e))
           <= doubts[e] + incidents + (IF Closed(e) THEN 1 ELSE 0)
  BY DEF EmailsAccounted
<1>3. /\ emailed'[e] = emailed[e] /\ doubts'[e] = doubts[e]
      /\ emailed[e] \in Nat /\ doubts[e] \in Nat
      /\ Cardinality(LateFor(e)) \in Nat
  BY <1>2, FS_CardinalityType
     DEF OutboxOnly, deliveryVars, historyVars, DeliveryTypeOK
<1>4. UNCHANGED <<pc, batch, current, at>>
  BY DEF Tick, OutboxOnly, deliveryVars, consumerVars
<1> DEFINE New(v) == /\ Active(v) /\ e \in batch[v] /\ held[v] = Lease
                     /\ ~Spent(v, e)
<1>5. LateFor(e)' \subseteq LateFor(e) \cup {v \in Workers : New(v)}
  BY <1>0, <1>4 DEF Tick, LateFor, Active, Holding, Spent
<1>6. CASE \A v \in Workers : ~New(v)
  <2>1. LateFor(e)' \subseteq LateFor(e)  BY <1>5, <1>6
  <2>2. /\ IsFiniteSet(LateFor(e)') /\ Cardinality(LateFor(e)') \in Nat
        /\ Cardinality(LateFor(e)') <= Cardinality(LateFor(e))
    BY <1>2, <2>1, FewerLate
  <2>3. CASE incidents' = incidents
    <3>1. Closed(e) => Closed(e)'  BY <2>3, ClosedStays
    <3>2. QED BY <1>0, <1>2, <1>3, <2>2, <2>3, <3>1
  <2>4. CASE incidents' = incidents + 1
    BY <1>0, <1>2, <1>3, <2>2, <2>4
  <2>5. QED BY <2>3, <2>4 DEF Tick, Incident
<1>7. ASSUME NEW x \in Workers, New(x)
      PROVE  /\ IsFiniteSet(LateFor(e)')
             /\ emailed'[e] + Cardinality(LateFor(e)')
                  <= doubts'[e] + incidents' + (IF Closed(e)' THEN 1 ELSE 0)
  <2>1. \A v \in Workers : New(v) => v = x
    BY <1>0, <1>7, OneInTime
  <2>2. LateFor(e)' \subseteq LateFor(e) \cup {x}  BY <1>5, <2>1
  <2>3. /\ IsFiniteSet(LateFor(e) \cup {x})
        /\ Cardinality(LateFor(e) \cup {x}) <= Cardinality(LateFor(e)) + 1
        /\ Cardinality(LateFor(e) \cup {x}) \in Nat
    <3>1. IsFiniteSet(LateFor(e) \cup {x})  BY <1>2, FS_AddElement
    <3>2. Cardinality(LateFor(e) \cup {x})
            = IF x \in LateFor(e) THEN Cardinality(LateFor(e))
                                  ELSE Cardinality(LateFor(e)) + 1
      BY <1>2, FS_AddElement
    <3>3. QED BY <1>3, <3>1, <3>2
  <2>4. /\ IsFiniteSet(LateFor(e)') /\ Cardinality(LateFor(e)') \in Nat
        /\ Cardinality(LateFor(e)') <= Cardinality(LateFor(e) \cup {x})
    BY <2>2, <2>3, FewerLate
  <2>5. incidents' = incidents + 1  BY <1>7 DEF Tick, Incident
  <2>6. Closed(e) => Closed(e)'
    <3>1. ASSUME NEW w \in Workers, Concludes(w, e) PROVE FALSE
      <4>1. Active(w) /\ e \in batch[w] /\ held[w] <= Lease
        BY <3>1, ConclusionHolds DEF Active, Holding, Concludes
      <4>2. w = x  BY <1>0, <1>7, <4>1, OneInTime
      <4>3. QED BY <1>7, <3>1, <4>2 DEF Concludes, Spent
    <3>2. row'[e].status = row[e].status  BY DEF Tick, Aged
    <3>3. QED BY <3>1, <3>2 DEF Closed
  <2>7. QED BY <1>0, <1>2, <1>3, <2>3, <2>4, <2>5, <2>6
<1>8. QED BY <1>6, <1>7

\* An e-mail is either a late worker's, or the one that was due.
LEMMA SendKeepsAccounts ==
  ASSUME IInv, IInv', DeliveryTypeOK, DeliveryTypeOK', EmailsAccounted,
         [DeliveryNext]_allVars, NEW w \in Workers, SendEmail(w)
  PROVE  EmailsAccounted'
<1>0. /\ TypeOK /\ incidents \in Nat /\ Lease \in Nat /\ held[w] \in Nat
  BY Numbers DEF IInv
<1>1. SUFFICES ASSUME NEW e \in Events
               PROVE  /\ IsFiniteSet(LateFor(e)')
                      /\ emailed'[e] + Cardinality(LateFor(e)')
                           <= doubts'[e] + incidents'
                              + (IF Closed(e)' THEN 1 ELSE 0)
  BY DEF EmailsAccounted
<1>2. /\ IsFiniteSet(LateFor(e))
      /\ emailed[e] + Cardinality(LateFor(e))
           <= doubts[e] + incidents + (IF Closed(e) THEN 1 ELSE 0)
  BY DEF EmailsAccounted
<1>3. /\ emailed[e] \in Nat /\ doubts[e] \in Nat
      /\ emailed'[e] = IF current[w] = e THEN emailed[e] + 1 ELSE emailed[e]
      /\ doubts'[e] = doubts[e]
  BY DEF SendEmail, DeliveryTypeOK
<1>4. UNCHANGED vars /\ at[w] = "mail" /\ at' = [at EXCEPT ![w] = "done"]
  BY DEF SendEmail, GoTo
<1>5. /\ incidents' = incidents /\ row' = row /\ pc' = pc /\ held' = held
      /\ current' = current /\ batch' = batch
  BY <1>4 DEF vars
<1>6. pc[w] = "process" /\ current[w] \in batch[w]
  BY <1>4, DispatchEvent
<1>7. LateFor(e)' \subseteq LateFor(e)
  <2>1. ~OutboxOnly
    BY <1>4 DEF OutboxOnly, deliveryVars, consumerVars, DeliveryTypeOK
  <2>2. QED BY <2>1, NobodyElseHopes
<1>8. Closed(e) => Closed(e)'  BY <1>5, ClosedStays
<1>9. /\ IsFiniteSet(LateFor(e)') /\ Cardinality(LateFor(e)') \in Nat
      /\ Cardinality(LateFor(e)') <= Cardinality(LateFor(e))
      /\ Cardinality(LateFor(e)) \in Nat
  BY <1>2, <1>7, FewerLate
<1>10. CASE current[w] # e
  BY <1>0, <1>2, <1>3, <1>5, <1>8, <1>9, <1>10
<1>11. CASE current[w] = e /\ held[w] > Lease
  <2>1. w \in LateFor(e)
    BY <1>4, <1>6, <1>11 DEF LateFor, Active, Holding, Spent
  <2>2. w \notin LateFor(e)'
    BY <1>4, <1>5, <1>11 DEF LateFor, Spent, DeliveryTypeOK
  <2>3. LateFor(e)' \subseteq LateFor(e) \ {w}  BY <1>7, <2>2
  <2>4. /\ IsFiniteSet(LateFor(e) \ {w})
        /\ Cardinality(LateFor(e) \ {w}) = Cardinality(LateFor(e)) - 1
    BY <1>2, <2>1, FS_RemoveElement
  <2>5. Cardinality(LateFor(e)') <= Cardinality(LateFor(e)) - 1
    BY <2>3, <2>4, FewerLate
  <2>6. emailed'[e] = emailed[e] + 1 /\ doubts'[e] = doubts[e]
    BY <1>3, <1>11
  <2>7. QED BY <1>0, <1>2, <1>3, <1>5, <1>8, <1>9, <2>5, <2>6
<1>12. CASE current[w] = e /\ held[w] <= Lease
  <2>1. row[e].owner = w
    BY <1>0, <1>6, <1>12 DEF IInv, HeldIsOwnedUnlessLate, Holding
  <2>2. row[e].status = "processing"
    BY <2>1, WorkersAssumption DEF IInv, LockDiscipline
  <2>3. ~Closed(e)
    BY <1>4, <1>6, <2>1, <2>2 DEF Closed, Concludes
  <2>4. Closed(e)'
    BY <1>4, <1>5, <1>12, <2>1 DEF Closed, Concludes, DeliveryTypeOK
  <2>5. QED BY <1>0, <1>2, <1>3, <1>5, <1>9, <1>12, <2>3, <2>4
<1>13. QED BY <1>0, <1>10, <1>11, <1>12

\* No step but a clean send mails without a doubt, and incidents are counted
\* one by one.
LEMMA OthersMailNothing ==
  ASSUME TypeOK, DeliveryTypeOK, [DeliveryNext]_allVars,
         \A w \in Workers : ~SendEmail(w)
  PROVE  /\ \A e \in Events :
              emailed'[e] + doubts[e] = emailed[e] + doubts'[e]
         /\ incidents' = incidents \/ incidents' = incidents + 1
<1>1. CASE UNCHANGED <<emailed, doubts>> /\ (UNCHANGED incidents \/ Incident)
  BY <1>1 DEF Incident, DeliveryTypeOK
<1>2. CASE OutboxOnly
  <2>1. UNCHANGED <<emailed, doubts>>
    BY <1>2 DEF OutboxOnly, deliveryVars, historyVars
  <2>2. UNCHANGED incidents \/ Incident
    BY <1>2
       DEF OutboxOnly, Insert, Replay, Tick, StartPoll, BeginClaim,
           CommitClaim, FinishBatch, Publish, Settle, Stop, Exit, Restart,
           ClaimFails, PublishFails, SettleFails
  <2>3. QED BY <1>1, <2>1, <2>2
<1>3. ASSUME NEW w \in Workers, NEW sent \in BOOLEAN, EmailFails(w, sent)
      PROVE  /\ \A e \in Events :
                  emailed'[e] + doubts[e] = emailed[e] + doubts'[e]
             /\ incidents' = incidents
  <2>1. incidents' = incidents
    BY <1>3 DEF EmailFails, Throw, ProcessFails
  <2>2. CASE sent
    BY <1>3, <2>1, <2>2 DEF EmailFails, DeliveryTypeOK
  <2>3. CASE ~sent
    BY <1>3, <2>1, <2>3 DEF EmailFails, DeliveryTypeOK
  <2>4. QED BY <2>2, <2>3
<1>4. ASSUME NEW w \in Workers, Dispatching(w),
             \A sent \in BOOLEAN : ~EmailFails(w, sent)
      PROVE  UNCHANGED <<emailed, doubts, incidents>>
  <2>1. CASE \/ \E e \in Events : StartDispatch(w, e)
             \/ \E c \in Culprits : ReadFails(w, c)
             \/ EmitFails(w) \/ Return(w)
    BY <2>1
       DEF StartDispatch, Pick, ReadFails, EmitFails, Throw, ProcessFails,
           Return, Processed, historyVars
  <2>2. CASE \/ ReadPreference(w) \/ InsertNotification(w)
             \/ SelectNotification(w) \/ Emit(w)
    BY <2>2
       DEF ReadPreference, InsertNotification, SelectNotification, Emit, vars,
           historyVars
  <2>3. CASE \E applied \in BOOLEAN : CreateFails(w, applied)
    BY <2>3 DEF CreateFails, Throw, ProcessFails, vars
  <2>4. QED BY <1>4, <2>1, <2>2, <2>3 DEF Dispatching
<1>5. ASSUME NEW w \in Workers, CrashDispatching(w)
      PROVE  UNCHANGED <<emailed, doubts>> /\ Incident
  BY <1>5 DEF CrashDispatching, Crash, historyVars
<1>6. CASE \/ UNCHANGED allVars
           \/ \E p \in Preferences : SetPreference(p)
           \/ \E e \in Events : DeleteNotification(e)
  BY <1>1, <1>6
     DEF allVars, vars, deliveryVars, historyVars, SetPreference,
         DeleteNotification
<1>7. QED BY <1>1, <1>2, <1>3, <1>4, <1>5, <1>6 DEF DeliveryNext

\* Either nothing is mailed or opened again, or an incident pays for it.
LEMMA NextEmailsAccounted ==
  ASSUME IInv, IInv', DeliveryTypeOK, DeliveryTypeOK', EmailsAccounted,
         [DeliveryNext]_allVars
  PROVE  EmailsAccounted'
<1>1. CASE OutboxOnly /\ Tick  BY <1>1, TickKeepsAccounts
<1>2. ASSUME NEW w \in Workers, SendEmail(w) PROVE EmailsAccounted'
  BY <1>2, SendKeepsAccounts
<1>3. CASE ~(OutboxOnly /\ Tick) /\ \A w \in Workers : ~SendEmail(w)
  <2>1. SUFFICES ASSUME NEW e \in Events
                 PROVE  /\ IsFiniteSet(LateFor(e)')
                        /\ emailed'[e] + Cardinality(LateFor(e)')
                             <= doubts'[e] + incidents'
                                + (IF Closed(e)' THEN 1 ELSE 0)
    BY DEF EmailsAccounted
  <2>2. /\ IsFiniteSet(LateFor(e))
        /\ emailed[e] + Cardinality(LateFor(e))
             <= doubts[e] + incidents + (IF Closed(e) THEN 1 ELSE 0)
    BY DEF EmailsAccounted
  <2>3. LateFor(e)' \subseteq LateFor(e)  BY <1>3, NobodyElseHopes
  <2>4. /\ IsFiniteSet(LateFor(e)') /\ Cardinality(LateFor(e)') \in Nat
        /\ Cardinality(LateFor(e)') <= Cardinality(LateFor(e))
        /\ Cardinality(LateFor(e)) \in Nat
    BY <2>2, <2>3, FewerLate
  <2>5. /\ emailed[e] \in Nat /\ doubts[e] \in Nat /\ incidents \in Nat
        /\ emailed'[e] \in Nat /\ doubts'[e] \in Nat
    BY Numbers DEF IInv, DeliveryTypeOK
  <2>6. /\ emailed'[e] + doubts[e] = emailed[e] + doubts'[e]
        /\ incidents' = incidents \/ incidents' = incidents + 1
    BY <1>3, OthersMailNothing DEF IInv
  <2>7. CASE incidents' = incidents
    <3>1. Closed(e) => Closed(e)'  BY <2>7, ClosedStays
    <3>2. QED BY <2>2, <2>4, <2>5, <2>6, <2>7, <3>1
  <2>8. CASE incidents' = incidents + 1
    BY <2>2, <2>4, <2>5, <2>6, <2>8
  <2>9. QED BY <2>6, <2>7, <2>8
<1>4. QED BY <1>1, <1>2, <1>3

-----------------------------------------------------------------------------
(***************************************************************************)
(* The invariant, and what follows for every execution.                    *)
(***************************************************************************)

\* With no worker late and no e-mail sent, there is nothing to account for.
LEMMA InitDeliveryInv == DeliveryInit => DeliveryInv
<1> SUFFICES ASSUME DeliveryInit PROVE DeliveryInv
  OBVIOUS
<1>1. Init  BY DEF DeliveryInit
<1>2. IInv  BY <1>1, InitTypeOK, InitIInv
<1>3. DeliveryTypeOK  BY InitDeliveryTypeOK
<1>4. \A w \in Workers : at[w] = "away" /\ ~wantsEmail[w]
  BY DEF DeliveryInit
<1>5. ReadRightly  BY <1>4 DEF DeliveryInit, ReadRightly
<1>6. DoneSoFar  BY <1>4 DEF DoneSoFar
<1>7. ProcessedMeansDelivered
  BY <1>1 DEF Init, ProcessedMeansDelivered
<1>8. MailComesLast  BY DEF DeliveryInit, MailComesLast
<1>9. NothingUnwanted  BY DEF DeliveryInit, NothingUnwanted
<1>10. EmailsAccounted
  <2>1. ASSUME NEW e \in Events PROVE LateFor(e) = {}
    BY <1>1 DEF Init, LateFor, Active, Holding
  <2>2. incidents \in Nat  BY <1>2, Numbers DEF IInv
  <2>3. \A e \in Events : emailed[e] = 0 /\ doubts[e] = 0
    BY DEF DeliveryInit
  <2>4. IsFiniteSet({}) /\ Cardinality({}) = 0  BY FS_EmptySet
  <2>5. QED BY <2>1, <2>2, <2>3, <2>4 DEF EmailsAccounted
<1>11. QED
  BY <1>2, <1>3, <1>5, <1>6, <1>7, <1>8, <1>9, <1>10 DEF DeliveryInv

\* One step of the workers, the recipient or time preserves all of it.
LEMMA NextDeliveryInv == DeliveryInv /\ [DeliveryNext]_allVars => DeliveryInv'
<1> SUFFICES ASSUME DeliveryInv, [DeliveryNext]_allVars PROVE DeliveryInv'
  OBVIOUS
<1> USE DEF DeliveryInv
<1>1. IInv'  BY OutboxStep, NextIInv
<1>2. DeliveryTypeOK'  BY NextDeliveryTypeOK
<1>3. ReadRightly'  BY NextReadRightly
<1>4. DoneSoFar'  BY NextDoneSoFar
<1>5. ProcessedMeansDelivered'  BY NextProcessedMeansDelivered
<1>6. MailComesLast'  BY NextMailComesLast
<1>7. NothingUnwanted'  BY NextNothingUnwanted
<1>8. EmailsAccounted'  BY <1>1, <1>2, NextEmailsAccounted
<1>9. QED BY <1>1, <1>2, <1>3, <1>4, <1>5, <1>6, <1>7, <1>8

\* The invariant holds throughout, whatever the recipient does and whatever
\* fails of the database, Redis and the mail server.
THEOREM DeliveryInvariant == DeliverySpec => []DeliveryInv
<1>1. DeliveryInit => DeliveryInv  BY InitDeliveryInv
<1>2. DeliveryInv /\ [DeliveryNext]_allVars => DeliveryInv'
  BY NextDeliveryInv
<1>3. QED BY <1>1, <1>2, PTL DEF DeliverySpec

\* Dispatches and what they leave behind are always well formed, and a worker
\* is in a dispatch exactly while its event is being processed.
THEOREM DeliveryTypeCorrect == DeliverySpec => []DeliveryTypeOK
<1>1. DeliveryInv => DeliveryTypeOK  BY DEF DeliveryInv
<1>2. QED BY <1>1, DeliveryInvariant, PTL

\* Whatever came in between, an event that is marked published has been
\* stored, announced and mailed as far as the recipient never declined it.
THEOREM PublishedIsDelivered == DeliverySpec => []PublishedMeansDelivered
<1>1. DeliveryInv => PublishedMeansDelivered
  BY DEF DeliveryInv, IInv, PublishedWasProcessed, ProcessedMeansDelivered,
         PublishedMeansDelivered
<1>2. QED BY <1>1, DeliveryInvariant, PTL

\* No retry, race or stale read reaches a channel that was never on.
THEOREM OptedOutIsSilent == DeliverySpec => []NothingUnwanted
<1>1. DeliveryInv => NothingUnwanted  BY DEF DeliveryInv
<1>2. QED BY <1>1, DeliveryInvariant, PTL

\* An event is mailed once, and once more for every doubtful send and every
\* incident at the most: retries by themselves never mail twice.
THEOREM EmailsArePaidFor == DeliverySpec => []EmailsPaidFor
<1>1. ASSUME DeliveryInv PROVE EmailsPaidFor
  <2>1. SUFFICES ASSUME NEW e \in Events
                 PROVE  emailed[e] <= 1 + doubts[e] + incidents
    BY DEF EmailsPaidFor
  <2>2. /\ emailed[e] \in Nat /\ doubts[e] \in Nat /\ incidents \in Nat
    BY <1>1, Numbers DEF DeliveryInv, IInv, DeliveryTypeOK
  <2>3. /\ IsFiniteSet(LateFor(e))
        /\ emailed[e] + Cardinality(LateFor(e))
             <= doubts[e] + incidents + (IF Closed(e) THEN 1 ELSE 0)
    BY <1>1 DEF DeliveryInv, EmailsAccounted
  <2>4. Cardinality(LateFor(e)) \in Nat  BY <2>3, FS_CardinalityType
  <2>5. QED BY <2>2, <2>3, <2>4
<1>2. QED BY <1>1, DeliveryInvariant, PTL

\* A mail server that is down takes nothing but the e-mail: what is buried
\* for mail alone is in the feed and was announced.
THEOREM MailTakesNothingElse == DeliverySpec => []InAppIndependentOfMail
<1>1. DeliveryInv => InAppIndependentOfMail
  BY DEF DeliveryInv, MailComesLast, InAppIndependentOfMail
<1>2. QED BY <1>1, DeliveryInvariant, PTL

=============================================================================
