--------------------------- MODULE EventLifecycle ---------------------------
(***************************************************************************)
(* What the durable outbox promises a producer, with every worker, lease,  *)
(* lock and retry left out: an accepted event stays open until it is       *)
(* either published, which needs its consumer to have run to completion    *)
(* at least once, or buried in the dead letter state, from which only an   *)
(* operator takes it back.  Consumers may run any number of times on the   *)
(* same event, also after the event is published or buried: delivery is    *)
(* at least once, never exactly once.                                      *)
(***************************************************************************)
CONSTANT Events

VARIABLES
  stage,      \* stage[e]: where event e stands for its producer
  delivered   \* the events whose consumer has returned without an error

vars == <<stage, delivered>>

Stages == {"absent", "open", "published", "buried"}

TypeOK ==
  /\ stage \in [Events -> Stages]
  /\ delivered \subseteq Events

Init ==
  /\ stage = [e \in Events |-> "absent"]
  /\ delivered = {}

Accept(e) ==
  /\ stage[e] = "absent"
  /\ stage' = [stage EXCEPT ![e] = "open"]
  /\ UNCHANGED delivered

Deliver(e) ==
  /\ stage[e] # "absent"
  /\ delivered' = delivered \cup {e}
  /\ UNCHANGED stage

Publish(e) ==
  /\ stage[e] = "open"
  /\ e \in delivered
  /\ stage' = [stage EXCEPT ![e] = "published"]
  /\ UNCHANGED delivered

Bury(e) ==
  /\ stage[e] = "open"
  /\ stage' = [stage EXCEPT ![e] = "buried"]
  /\ UNCHANGED delivered

Reopen(e) ==
  /\ stage[e] = "buried"
  /\ stage' = [stage EXCEPT ![e] = "open"]
  /\ UNCHANGED delivered

Next ==
  \E e \in Events :
    Accept(e) \/ Deliver(e) \/ Publish(e) \/ Bury(e) \/ Reopen(e)

Spec == Init /\ [][Next]_vars

=============================================================================
