------------------------------ MODULE Delivery ------------------------------
(***************************************************************************)
(* The outbox with its consumer: what dispatchNotificationEvent does       *)
(* between a worker's claim and the verdict on it.  It reads the           *)
(* recipient's preference, stores the notification, announces it over      *)
(* Redis and sends the e-mail, one await after the other, while the        *)
(* recipient changes preferences and deletes notifications, leases expire  *)
(* and workers die.  Any await may throw; nothing done before it is undone *)
(* and the next attempt starts from the top.                               *)
(*                                                                         *)
(* The events are all of one recipient and one type, so there is a single  *)
(* preference row.                                                         *)
(***************************************************************************)
EXTENDS Outbox

CONSTANTS
  MaxTries,       \* attempts of retryWithBackoff at createNotification
  MaxPreferences  \* bound on the different preferences the recipient has

ASSUME DeliveryAssumption == MaxTries \in Nat \ {0} /\ MaxPreferences \in Nat

VARIABLES
  at,         \* where each worker is in dispatchNotificationEvent
  tries,      \* createNotification calls that have failed in this dispatch
  wantsEmail, \* emailEnabled, as the dispatch read it
  pref,       \* the recipient's preference now
  feed,       \* events that have a row in notifications
  emitted,    \* history: events announced over Redis
  emailed,    \* history: e-mails sent, by event
  doubts,     \* history: e-mails sent whose sending was reported to fail
  removed,    \* history: events whose notification the recipient deleted
  blame,      \* history: what dispatches of an event have failed of
  seen        \* history: every preference the recipient has had

consumerVars == <<at, tries, wantsEmail>>
historyVars  == <<emitted, emailed, doubts, removed, blame, seen>>
deliveryVars == <<consumerVars, pref, feed, historyVars>>
allVars      == <<vars, deliveryVars>>

Preferences == [inApp : BOOLEAN, email : BOOLEAN]
Steps    == {"away", "read", "create", "select", "emit", "mail", "done"}
Culprits == {"database", "redis", "mail", "event"}

DeliveryTypeOK ==
  /\ at \in [Workers -> Steps]
  /\ tries \in [Workers -> 0..MaxTries-1]
  /\ wantsEmail \in [Workers -> BOOLEAN]
  /\ pref \in Preferences
  /\ feed \subseteq Events
  /\ emitted \subseteq Events /\ removed \subseteq Events
  /\ emailed \in [Events -> Nat]
  /\ doubts \in [Events -> Nat]
  /\ blame \in [Events -> SUBSET Culprits]
  /\ seen \subseteq Preferences
  /\ \A w \in Workers : at[w] = "away" <=> pc[w] # "process"

DeliveryInit ==
  /\ Init
  /\ at = [w \in Workers |-> "away"]
  /\ tries = [w \in Workers |-> 0]
  /\ wantsEmail = [w \in Workers |-> FALSE]
  /\ pref \in Preferences
  /\ feed = {} /\ emitted = {} /\ removed = {}
  /\ emailed = [e \in Events |-> 0]
  /\ doubts = [e \in Events |-> 0]
  /\ blame = [e \in Events |-> {}]
  /\ seen = {pref}

-----------------------------------------------------------------------------
(* One dispatch, step by step.                                             *)

GoTo(w, step) == at' = [at EXCEPT ![w] = step]

\* The dispatch is over: its local variables are gone.
Leave(w) ==
  /\ GoTo(w, "away")
  /\ tries' = [tries EXCEPT ![w] = 0]
  /\ wantsEmail' = [wantsEmail EXCEPT ![w] = FALSE]

(* An await rejects, the envelope does not parse, no address is on file:   *)
(* the error reaches the worker's catch block.                             *)
Throw(w, culprit) ==
  /\ ProcessFails(w)
  /\ Leave(w)
  /\ blame' = [blame EXCEPT ![current[w]] = @ \cup {culprit}]

StartDispatch(w, e) ==
  /\ Pick(w, e)
  /\ GoTo(w, "read")
  /\ UNCHANGED <<tries, wantsEmail, pref, feed, historyVars>>

\* Slip: the in-app half ends the dispatch.
AfterInAppDone(email) == "done"

AfterInApp(email) == IF email THEN "mail" ELSE "done"

\* Slip: the e-mail switch is not looked at.
ReadPreferenceInApp(w) ==
  /\ at[w] = "read"
  /\ wantsEmail' = [wantsEmail EXCEPT ![w] = TRUE]
  /\ GoTo(w, IF pref.inApp THEN "create" ELSE "mail")
  /\ UNCHANGED <<vars, tries, pref, feed, historyVars>>

\* Slip: the e-mail goes first, and nothing follows it.
ReadPreferenceEmail(w) ==
  /\ at[w] = "read"
  /\ wantsEmail' = [wantsEmail EXCEPT ![w] = pref.email]
  /\ GoTo(w, IF pref.email THEN "mail" ELSE
             IF pref.inApp THEN "create" ELSE "done")
  /\ UNCHANGED <<vars, tries, pref, feed, historyVars>>

(* getPreferenceForType, and the two switches it decides.                  *)
ReadPreference(w) ==
  /\ at[w] = "read"
  /\ wantsEmail' = [wantsEmail EXCEPT ![w] = pref.email]
  /\ GoTo(w, IF pref.inApp THEN "create" ELSE AfterInApp(pref.email))
  /\ UNCHANGED <<vars, tries, pref, feed, historyVars>>

ReadFails(w, culprit) ==
  /\ at[w] = "read"
  /\ culprit \in {"event", "database"}
  /\ Throw(w, culprit)
  /\ UNCHANGED <<pref, feed, emitted, emailed, doubts, removed, seen>>

(* INSERT ... ON CONFLICT DO NOTHING RETURNING: without a row to return,   *)
(* createNotification goes on to read the one that is there.               *)
InsertNotification(w) ==
  /\ at[w] = "create"
  /\ feed' = feed \cup {current[w]}
  /\ GoTo(w, IF current[w] \in feed THEN "select" ELSE "emit")
  /\ UNCHANGED <<vars, tries, wantsEmail, pref,
                 emitted, emailed, doubts, removed, blame, seen>>

SelectNotification(w) ==
  /\ at[w] = "select"
  /\ current[w] \in feed
  /\ GoTo(w, "emit")
  /\ UNCHANGED <<vars, tries, wantsEmail, pref, feed, historyVars>>

\* Slip: one attempt too many.
CreateFailsOnceMore(w, applied) ==
  /\ at[w] \in {"create", "select"}
  /\ feed' = IF applied THEN feed \cup {current[w]} ELSE feed
  /\ IF tries[w] < MaxTries
     THEN /\ tries' = [tries EXCEPT ![w] = @ + 1]
          /\ GoTo(w, "create")
          /\ UNCHANGED <<vars, wantsEmail, blame>>
     ELSE Throw(w, "database")
  /\ UNCHANGED <<pref, emitted, emailed, doubts, removed, seen>>

(* createNotification throws: the conflicting row has been deleted since,  *)
(* or a statement failed, the insert applied or not.  retryWithBackoff     *)
(* tries again until its attempts are used up.                             *)
CreateFails(w, applied) ==
  /\ at[w] \in {"create", "select"}
  /\ feed' = IF applied THEN feed \cup {current[w]} ELSE feed
  /\ IF tries[w] + 1 < MaxTries
     THEN /\ tries' = [tries EXCEPT ![w] = @ + 1]
          /\ GoTo(w, "create")
          /\ UNCHANGED <<vars, wantsEmail, blame>>
     ELSE Throw(w, "database")
  /\ UNCHANGED <<pref, emitted, emailed, doubts, removed, seen>>

(* emitToUser: the notification is published to every server instance.     *)
Emit(w) ==
  /\ at[w] = "emit"
  /\ emitted' = emitted \cup {current[w]}
  /\ GoTo(w, AfterInApp(wantsEmail[w]))
  /\ UNCHANGED <<vars, tries, wantsEmail, pref, feed,
                 emailed, doubts, removed, blame, seen>>

EmitFails(w) ==
  /\ at[w] = "emit"
  /\ Throw(w, "redis")
  /\ UNCHANGED <<pref, feed, emitted, emailed, doubts, removed, seen>>

(* findUserEmailById and sendNotificationEmail.                            *)
SendEmail(w) ==
  /\ at[w] = "mail"
  /\ emailed' = [emailed EXCEPT ![current[w]] = @ + 1]
  /\ GoTo(w, "done")
  /\ UNCHANGED <<vars, tries, wantsEmail, pref, feed,
                 emitted, doubts, removed, blame, seen>>

\* Slip: a send that fails is tried again on the spot, sent or not.
EmailFailsAgain(w, sent) ==
  /\ at[w] = "mail"
  /\ emailed' = IF sent THEN [emailed EXCEPT ![current[w]] = @ + 1] ELSE emailed
  /\ UNCHANGED <<vars, consumerVars, pref, feed,
                 emitted, doubts, removed, blame, seen>>

(* No address, no SMTP host, a refused message; or the server took the     *)
(* message and its answer got lost.                                        *)
EmailFails(w, sent) ==
  /\ at[w] = "mail"
  /\ Throw(w, "mail")
  /\ emailed' = IF sent THEN [emailed EXCEPT ![current[w]] = @ + 1] ELSE emailed
  /\ doubts'  = IF sent THEN [doubts EXCEPT ![current[w]] = @ + 1] ELSE doubts
  /\ UNCHANGED <<pref, feed, emitted, removed, seen>>

Return(w) ==
  /\ at[w] = "done"
  /\ Processed(w)
  /\ Leave(w)
  /\ UNCHANGED <<pref, feed, historyVars>>

-----------------------------------------------------------------------------
(* What happens around it.                                                 *)

(* upsertPreference                                                        *)
SetPreference(p) ==
  /\ Cardinality(seen \cup {p}) <= MaxPreferences
  /\ pref' = p
  /\ seen' = seen \cup {p}
  /\ UNCHANGED <<vars, consumerVars, feed,
                 emitted, emailed, doubts, removed, blame>>

(* deleteNotification                                                      *)
DeleteNotification(e) ==
  /\ e \in feed
  /\ feed' = feed \ {e}
  /\ removed' = removed \cup {e}
  /\ UNCHANGED <<vars, consumerVars, pref,
                 emitted, emailed, doubts, blame, seen>>

\* A dispatch ends with its process.
CrashDispatching(w) ==
  /\ Crash(w)
  /\ Leave(w)
  /\ UNCHANGED <<pref, feed, historyVars>>

OutboxOnly ==
  /\ \/ \E e \in Events : Insert(e) \/ Replay(e)
     \/ Tick
     \/ \E w \in Workers :
          \/ StartPoll(w) \/ BeginClaim(w) \/ CommitClaim(w) \/ FinishBatch(w)
          \/ Publish(w) \/ Settle(w) \/ Stop(w) \/ Exit(w) \/ Restart(w)
          \/ \E lost \in BOOLEAN : \/ ClaimFails(w, lost)
                                   \/ PublishFails(w, lost)
                                   \/ SettleFails(w, lost)
  /\ UNCHANGED deliveryVars

Dispatching(w) ==
  \/ \E e \in Events : StartDispatch(w, e)
  \/ ReadPreference(w) \/ (\E culprit \in Culprits : ReadFails(w, culprit))
  \/ InsertNotification(w) \/ SelectNotification(w)
  \/ (\E applied \in BOOLEAN : CreateFails(w, applied))
  \/ Emit(w) \/ EmitFails(w)
  \/ SendEmail(w) \/ (\E sent \in BOOLEAN : EmailFails(w, sent))
  \/ Return(w)

DeliveryNext ==
  \/ OutboxOnly
  \/ \E w \in Workers : Dispatching(w) \/ CrashDispatching(w)
  \/ \E p \in Preferences : SetPreference(p)
  \/ \E e \in Events : DeleteNotification(e)

DeliverySpec == DeliveryInit /\ [][DeliveryNext]_allVars

-----------------------------------------------------------------------------
AlwaysInApp == \A p \in seen : p.inApp
AlwaysEmail == \A p \in seen : p.email

InFeed(e) == e \in feed \/ e \in removed

(* What 'published' is worth to the recipient: with in-app notifications   *)
(* never switched off, the event is in the feed, unless deleted there, and *)
(* was announced live; with e-mail never switched off, it was mailed.      *)
PublishedMeansDelivered ==
  \A e \in Events : row[e].status = "published" =>
    /\ AlwaysInApp => InFeed(e) /\ e \in emitted
    /\ AlwaysEmail => emailed[e] > 0

(* A channel the recipient never switched on stays silent.                 *)
NothingUnwanted ==
  \A e \in Events :
    /\ (\A p \in seen : ~p.email) => emailed[e] = 0
    /\ (\A p \in seen : ~p.inApp) => e \notin feed /\ e \notin emitted

(* A second e-mail for the same event has a cause: a doubtful send, or an  *)
(* incident between the send and 'published'.  A consumer that merely      *)
(* fails and is retried never mails twice.                                 *)
EmailsPaidFor ==
  \A e \in Events : emailed[e] <= 1 + doubts[e] + incidents

(* In-app notifications remain independent of mail: an event that ends in  *)
(* dead_letter for mail alone is in the feed and was announced.            *)
InAppIndependentOfMail ==
  \A e \in Events :
    row[e].status = "dead_letter" /\ blame[e] = {"mail"} /\ AlwaysInApp
      => InFeed(e) /\ e \in emitted

-----------------------------------------------------------------------------
(* What the project says of itself.                                        *)

(* README: creation is idempotent by the unique event_id, a duplicate      *)
(* event is ignored by it.  Then a notification the recipient has deleted  *)
(* is not created a second time.                                           *)
CreationIsIdempotent == \A e \in Events : e \in removed => e \notin feed

(* config/redis.js: when Redis is gone, nothing is actually lost.          *)
RedisLosesNothing ==
  \A e \in Events :
    row[e].status = "dead_letter" /\ blame[e] = {"redis"} /\ incidents = 0
    /\ AlwaysEmail => emailed[e] > 0

=============================================================================
