----------------------------- MODULE TokenFamily -----------------------------
(***************************************************************************)
(* What a session promises to those who hold its refresh tokens, with      *)
(* requests, transactions, locks and dates left out: a session has one     *)
(* current token at a time, tokens are spent one after the other and never *)
(* come back, and a session that has ended hands out nothing more.         *)
(***************************************************************************)
CONSTANTS Sessions, Tokens, NoToken

VARIABLES
  phase,    \* phase[s]: where session s is in its life
  current,  \* the token that refreshes s
  spent     \* the tokens of s that have been exchanged

vars == <<phase, current, spent>>

TypeOK ==
  /\ phase \in [Sessions -> {"unborn", "open", "ended"}]
  /\ current \in [Sessions -> Tokens \cup {NoToken}]
  /\ spent \in [Sessions -> SUBSET Tokens]

Init ==
  /\ phase = [s \in Sessions |-> "unborn"]
  /\ current = [s \in Sessions |-> NoToken]
  /\ spent = [s \in Sessions |-> {}]

Unused(t) == \A s \in Sessions : t # current[s] /\ t \notin spent[s]

\* A session starts with a token of its own; one that takes over from a token
\* issued before there were sessions starts with that one spent.
Open(s, t, old) ==
  /\ phase[s] = "unborn"
  /\ Unused(t) /\ t \notin old /\ \A o \in old : Unused(o)
  /\ phase' = [phase EXCEPT ![s] = "open"]
  /\ current' = [current EXCEPT ![s] = t]
  /\ spent' = [spent EXCEPT ![s] = old]

Rotate(s, t) ==
  /\ phase[s] = "open"
  /\ Unused(t)
  /\ current' = [current EXCEPT ![s] = t]
  /\ spent' = [spent EXCEPT ![s] = @ \cup {current[s]}]
  /\ UNCHANGED phase

\* A logout, a replay or a purge; a logout of all devices ends several.
End(S) ==
  /\ \A s \in S : phase[s] = "open"
  /\ phase' = [s \in Sessions |-> IF s \in S THEN "ended" ELSE phase[s]]
  /\ UNCHANGED <<current, spent>>

Next ==
  \/ \E s \in Sessions : \E t \in Tokens :
       \/ Rotate(s, t)
       \/ Open(s, t, {})
       \/ \E o \in Tokens : Open(s, t, {o})
  \/ \E S \in SUBSET Sessions : End(S)

Spec == Init /\ [][Next]_vars

=============================================================================
