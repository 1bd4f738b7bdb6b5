---------------------------- MODULE GatewayProofs ----------------------------
(***************************************************************************)
(* Proofs about Gateway, for any numbers of instances, sockets, sessions   *)
(* and notifications, any limits, and whatever fails in between.           *)
(***************************************************************************)
EXTENDS Gateway, FiniteSetTheorems, TLAPS

-----------------------------------------------------------------------------
(***************************************************************************)
(* The inductive invariant.                                                *)
(***************************************************************************)

\* The sockets a slot of instance i is reserved for.
Slots(i) ==
  {k \in Sockets : host[k] = i /\
     stage[k] \in {"checking", "admitted", "joined", "queried", "live",
                   "dropped", "lost"}}

\* They are counted, within the limit.
SlotsCounted ==
  \A i \in Instances : count[i] = Cardinality(Slots(i)) /\ count[i] <= MaxPerIp

\* A socket that has come has come to an instance, and whoever goes away when
\* the disconnect handler is there is handled at once.
SocketsHosted ==
  \A k \in Sockets :
    /\ stage[k] # "none" => host[k] \in Instances
    /\ up[k] => stage[k] # "none"
    /\ stage[k] = "live" => up[k]

\* Only what is there has been published.
PublishedExist == \A n \in published : note[n] # "absent"

\* NothingMissed of all who are connected and have made their query: the sync
\* that is being written and the room they are in make up for each other.
UpToDate ==
  incidents = 0 =>
    \A k \in Sockets : \A n \in published :
      /\ up[k] /\ stage[k] \in {"queried", "live"}
      /\ note[n] = "unread" /\ n \notin notes[host[k]]
      => n \in got[k] \cup skipped[k]

\* A revocation is with the instance that made it until all have its message,
\* had it, or lost it.
RevocationsSpread ==
  \A s \in revoked :
    \/ \E i \in Instances : s \in toAnnounce[i]
    \/ \A i \in Instances : s \in kicks[i] \cup told[i] \cup unheard[i]

\* An instance that was told cut off the sockets it had.
ToldAreGone ==
  \A k \in Sockets : InRoom(k) /\ ses[k] \in told[host[k]] => k \in late

\* All of it.
GatewayInv ==
  /\ GatewayTypeOK /\ SocketsHosted /\ SlotsCounted /\ PublishedExist
  /\ UpToDate /\ RevocationsSpread /\ ToldAreGone

-----------------------------------------------------------------------------
(***************************************************************************)
(* Sockets and slots.                                                      *)
(***************************************************************************)

\* There are only so many sockets, so that slots can be counted.
LEMMA SlotsFinite ==
  ASSUME NEW S, S \subseteq Sockets
  PROVE  IsFiniteSet(S) /\ Cardinality(S) \in Nat
BY GatewayAssumption, FS_Subset, FS_CardinalityType

\* The property in terms of what a slot is reserved for.
LEMMA SlotsAreServed ==
  \A i : /\ Slots(i) = Served(i) \cup Dropped(i) \cup Lost(i)
         /\ Slots(i) \subseteq Sockets /\ Served(i) \subseteq Slots(i)
BY DEF Slots, Served, Dropped, Lost

\* A slot is taken ...
LEMMA SlotTaken ==
  ASSUME SlotsCounted, NEW i \in Instances,
         NEW k \in Sockets, k \notin Slots(i),
         count \in [Instances -> Nat], count[i] < MaxPerIp,
         count' = [count EXCEPT ![i] = @ + 1],
         Slots(i)' = Slots(i) \cup {k},
         \A j \in Instances : j # i => Slots(j)' = Slots(j)
  PROVE  count' \in [Instances -> Nat] /\ SlotsCounted'
<1>1. IsFiniteSet(Slots(i))  BY SlotsFinite DEF Slots
<1>2. Cardinality(Slots(i)') = Cardinality(Slots(i)) + 1
  BY <1>1, FS_AddElement
<1>3. count'[i] = count[i] + 1 /\ \A j \in Instances : j # i => count'[j] = count[j]
  OBVIOUS
<1>4. count'[i] = Cardinality(Slots(i)') /\ count'[i] <= MaxPerIp
  BY <1>2, <1>3, GatewayAssumption DEF SlotsCounted
<1>5. SlotsCounted'  BY <1>3, <1>4 DEF SlotsCounted
<1>6. QED BY <1>5

\* ... and slots are returned, never one that was not taken.
LEMMA SlotsReleased ==
  ASSUME SlotsCounted, NEW i \in Instances, NEW S, S \subseteq Slots(i),
         count \in [Instances -> Nat],
         count' = [count EXCEPT ![i] = @ - Cardinality(S)],
         Slots(i)' = Slots(i) \ S,
         \A j \in Instances : j # i => Slots(j)' = Slots(j)
  PROVE  count' \in [Instances -> Nat] /\ SlotsCounted'
<1>1. Slots(i) \subseteq Sockets  BY DEF Slots
<1>2. IsFiniteSet(Slots(i)) /\ IsFiniteSet(S) /\ Cardinality(S) \in Nat
      /\ Cardinality(Slots(i)) \in Nat /\ Cardinality(Slots(i) \ S) \in Nat
  BY <1>1, SlotsFinite
<1>3. Slots(i) \cap S = S  OBVIOUS
<1>4. Cardinality(Slots(i) \ S) = Cardinality(Slots(i)) - Cardinality(S)
  BY <1>2, <1>3, FS_Difference
<1>5. count'[i] = count[i] - Cardinality(S)
      /\ \A j \in Instances : j # i => count'[j] = count[j]
  OBVIOUS
<1>6. count'[i] = Cardinality(Slots(i)') /\ count'[i] <= MaxPerIp
      /\ count'[i] \in Nat
  BY <1>2, <1>4, <1>5, GatewayAssumption DEF SlotsCounted
<1>7. SlotsCounted'  BY <1>5, <1>6 DEF SlotsCounted
<1>8. QED BY <1>5, <1>6, <1>7

\* Or none of it.
LEMMA SlotsKept ==
  ASSUME SlotsCounted, UNCHANGED count,
         \A j \in Instances : Slots(j)' = Slots(j)
  PROVE  SlotsCounted'
BY DEF SlotsCounted

\* What a socket is, variable by variable.
SocketsOK ==
  /\ stage \in [Sockets -> Stages]
  /\ host \in [Sockets -> Instances \cup {Nowhere}]
  /\ ses \in [Sockets -> Sessions \cup {NoSession}]
  /\ up \in [Sockets -> BOOLEAN]
  /\ count \in [Instances -> Nat]

\* The part of the invariant that is about sockets and slots.
SocketsInv == SocketsOK /\ SocketsHosted /\ SlotsCounted

\* Sockets that are cut off give back the slots there is a handler for.
LEMMA DisconnectKeepsSlots ==
  ASSUME SocketsInv, NEW i \in Instances, NEW S \in SUBSET Sockets,
         \A k \in S : host[k] = i, Disconnect(S, i)
  PROVE  SocketsInv'
<1> DEFINE handled == {k \in S : stage[k] = "live"}
<1>1. /\ host' = host /\ ses' = ses
      /\ up' = [k \in Sockets |-> up[k] /\ k \notin S]
      /\ stage' = [k \in Sockets |-> IF k \in handled THEN "gone" ELSE stage[k]]
      /\ count' = [count EXCEPT ![i] = @ - Cardinality(handled)]
  BY DEF Disconnect
<1>2. handled \subseteq Slots(i)  BY DEF Slots
<1>3. \A k \in handled : host[k] = i  OBVIOUS
<1>4. S \subseteq Sockets /\ \A k \in S : stage[k] = "live" => k \in handled
  OBVIOUS
<1> HIDE DEF handled
<1>5. Slots(i)' = Slots(i) \ handled
  BY <1>1, <1>2, <1>3 DEF Slots, SocketsInv, SocketsOK
<1>6. ASSUME NEW j \in Instances, j # i PROVE Slots(j)' = Slots(j)
  BY <1>1, <1>3, <1>6 DEF Slots
<1>7. count' \in [Instances -> Nat] /\ SlotsCounted'
  BY <1>1, <1>2, <1>5, <1>6, SlotsReleased DEF SocketsInv, SocketsOK
<1>8. SocketsOK'  BY <1>1, <1>7 DEF SocketsInv, SocketsOK, Stages
<1>9. SocketsHosted'
  BY <1>1, <1>2, <1>4 DEF SocketsInv, SocketsOK, SocketsHosted, Slots
<1>10. QED BY <1>7, <1>8, <1>9 DEF SocketsInv

\* A handshake that is refused leaves no trace but the slot it may have.
LEMMA RefusedKeepsSockets ==
  ASSUME SocketsInv, NEW k \in Sockets, Refused(k),
         \/ stage[k] = "arrived" /\ UNCHANGED count
         \/ stage[k] = "checking" /\ Release(k)
  PROVE  SocketsInv'
<1>0. PICK i \in Instances : host[k] = i
  BY DEF SocketsInv, SocketsHosted
<1>1. /\ host' = host /\ ses' = ses /\ stage' = [stage EXCEPT ![k] = "gone"]
      /\ up' = [up EXCEPT ![k] = FALSE] /\ host[k] = i
  BY <1>0 DEF Refused, Goto
<1>2. SocketsHosted'  BY <1>1 DEF SocketsInv, SocketsOK, SocketsHosted
<1>3. \A j \in Instances : j # i => Slots(j)' = Slots(j)
  BY <1>1 DEF Slots, SocketsInv, SocketsOK
<1>4. CASE stage[k] = "arrived" /\ UNCHANGED count
  <2>1. Slots(i)' = Slots(i)  BY <1>1, <1>4 DEF Slots, SocketsInv, SocketsOK
  <2>2. SlotsCounted'  BY <1>3, <1>4, <2>1, SlotsKept DEF SocketsInv
  <2>3. SocketsOK'  BY <1>1, <1>4 DEF SocketsInv, SocketsOK, Stages
  <2>4. QED BY <1>2, <2>2, <2>3 DEF SocketsInv
<1>5. CASE stage[k] = "checking" /\ Release(k)
  <2>1. Slots(i)' = Slots(i) \ {k}
    BY <1>1, <1>5 DEF Slots, SocketsInv, SocketsOK
  <2>2. {k} \subseteq Slots(i)  BY <1>1, <1>5 DEF Slots
  <2>3. Cardinality({k}) = 1  BY FS_Singleton
  <2>4. count' = [count EXCEPT ![i] = @ - Cardinality({k})]
    BY <1>1, <1>5, <2>3 DEF Release
  <2>5. count' \in [Instances -> Nat] /\ SlotsCounted'
    BY <1>1, <1>3, <2>1, <2>2, <2>4, SlotsReleased DEF SocketsInv, SocketsOK
  <2>6. SocketsOK'  BY <1>1, <2>5 DEF SocketsInv, SocketsOK, Stages
  <2>7. QED BY <1>2, <2>5, <2>6 DEF SocketsInv
<1>6. QED BY <1>4, <1>5

\* Neither does a step from one place to another between which the slot stays.
LEMMA GotoKeepsSockets ==
  ASSUME SocketsInv, NEW k \in Sockets, NEW place \in Stages, Goto(k, place),
         UNCHANGED <<host, ses, up, count>>,
         \/ stage[k] \in {"checking", "admitted", "joined", "queried"}
              /\ place \in {"admitted", "joined", "queried", "dropped", "lost"}
         \/ stage[k] \in {"joined", "queried"} /\ place = "live" /\ up[k]
         \/ stage[k] = "arrived" /\ place = "gone"
  PROVE  SocketsInv'
<1>1. stage' = [stage EXCEPT ![k] = place]  BY DEF Goto
<1>2. \A j \in Instances : Slots(j)' = Slots(j)
  BY <1>1 DEF Slots, SocketsInv, SocketsOK
<1>3. SlotsCounted'  BY <1>2, SlotsKept DEF SocketsInv
<1>4. SocketsHosted'  BY <1>1 DEF SocketsInv, SocketsOK, SocketsHosted
<1>5. SocketsOK'  BY <1>1 DEF SocketsInv, SocketsOK
<1>6. QED BY <1>3, <1>4, <1>5 DEF SocketsInv

\* What allowRequest lets in has no slot yet ...
LEMMA ArriveKeepsSockets ==
  ASSUME SocketsInv, NEW k \in Sockets, NEW i \in Instances,
         NEW s \in Sessions, Arrive(k, i, s)
  PROVE  SocketsInv'
<1>1. /\ stage[k] = "none" /\ stage' = [stage EXCEPT ![k] = "arrived"]
      /\ host' = [host EXCEPT ![k] = i] /\ ses' = [ses EXCEPT ![k] = s]
      /\ up' = [up EXCEPT ![k] = TRUE] /\ count' = count
  BY DEF Arrive, Goto
<1>2. \A j \in Instances : Slots(j)' = Slots(j)
  BY <1>1 DEF Slots, SocketsInv, SocketsOK
<1>3. SlotsCounted'  BY <1>1, <1>2, SlotsKept DEF SocketsInv
<1>4. SocketsHosted'  BY <1>1 DEF SocketsInv, SocketsOK, SocketsHosted
<1>5. SocketsOK'  BY <1>1 DEF SocketsInv, SocketsOK, Stages
<1>6. QED BY <1>3, <1>4, <1>5 DEF SocketsInv

\* ... and what the middleware lets in takes one that is free.
LEMMA ReserveKeepsSockets ==
  ASSUME SocketsInv, NEW k \in Sockets, Reserve(k)
  PROVE  SocketsInv'
<1>0. stage[k] = "arrived"  BY DEF Reserve
<1>1. PICK i \in Instances : host[k] = i
  BY <1>0 DEF SocketsInv, SocketsHosted
<1>2. CASE count[i] < MaxPerIp
  <2>1. /\ stage' = [stage EXCEPT ![k] = "checking"] /\ UNCHANGED <<host, ses, up>>
        /\ count' = [count EXCEPT ![i] = @ + 1]
    BY <1>1, <1>2 DEF Reserve, Goto
  <2>2. Slots(i)' = Slots(i) \cup {k} /\ k \notin Slots(i)
    BY <1>0, <1>1, <2>1 DEF Slots, SocketsInv, SocketsOK
  <2>3. \A j \in Instances : j # i => Slots(j)' = Slots(j)
    BY <1>0, <1>1, <2>1 DEF Slots, SocketsInv, SocketsOK
  <2>4. count' \in [Instances -> Nat] /\ SlotsCounted'
    BY <1>0, <1>1, <1>2, <2>1, <2>2, <2>3, SlotTaken DEF SocketsInv, SocketsOK
  <2>5. SocketsHosted'
    BY <1>0, <1>1, <2>1 DEF SocketsInv, SocketsOK, SocketsHosted
  <2>6. SocketsOK'  BY <2>1, <2>4 DEF SocketsInv, SocketsOK, Stages
  <2>7. QED BY <2>4, <2>5, <2>6 DEF SocketsInv
<1>3. CASE ~(count[i] < MaxPerIp)
  BY <1>0, <1>1, <1>3, RefusedKeepsSockets DEF Reserve
<1>4. QED BY <1>2, <1>3

\* An instance that dies takes all its sockets and their slots with it.
LEMMA CrashKeepsSockets ==
  ASSUME SocketsInv, NEW i \in Instances, Crash(i)
  PROVE  SocketsInv'
<1>1. /\ stage' = [k \in Sockets |-> IF host[k] = i THEN "gone" ELSE stage[k]]
      /\ up' = [k \in Sockets |-> up[k] /\ host[k] # i]
      /\ count' = [count EXCEPT ![i] = 0] /\ host' = host /\ ses' = ses
  BY DEF Crash
<1>2. Slots(i)' = {}  BY <1>1 DEF Slots
<1>3. \A j \in Instances : j # i => Slots(j)' = Slots(j)
  BY <1>1 DEF Slots
<1>4. count'[i] = 0 /\ \A j \in Instances : j # i => count'[j] = count[j]
  BY <1>1 DEF SocketsInv, SocketsOK
<1>5. Cardinality(Slots(i)') = 0 /\ 0 <= MaxPerIp
  BY <1>2, FS_EmptySet, GatewayAssumption
<1>6. SlotsCounted'  BY <1>3, <1>4, <1>5 DEF SlotsCounted, SocketsInv
<1>7. SocketsHosted'
  BY <1>1, GatewayAssumption DEF SocketsInv, SocketsOK, SocketsHosted
<1>8. SocketsOK'  BY <1>1 DEF SocketsInv, SocketsOK, Stages
<1>9. QED BY <1>6, <1>7, <1>8 DEF SocketsInv

\* The sockets of a room are on its instance.
LEMMA KickKeepsSockets ==
  ASSUME SocketsInv, NEW i \in Instances, NEW s, Kick(i, s)
  PROVE  SocketsInv'
<1>1. Room(i, s) \in SUBSET Sockets /\ \A k \in Room(i, s) : host[k] = i
  BY DEF Room
<1>2. QED BY <1>1, DisconnectKeepsSlots DEF Kick

\* However handshakes overlap, the slots in use stay those that were taken.
LEMMA NextSockets ==
  ASSUME SocketsInv, [Next]_vars
  PROVE  SocketsInv'
<1> USE DEF dbVars, socketVars, queueVars, viewVars, pastVars
<1>1. ASSUME UNCHANGED <<stage, host, ses, up, count>> PROVE SocketsInv'
  BY <1>1 DEF SocketsInv, SocketsOK, SocketsHosted, SlotsCounted, Slots
<1>2. ASSUME NEW k \in Sockets, SocketStep(k) PROVE SocketsInv'
  <2>1. CASE CheckSession(k)
    BY <2>1, RefusedKeepsSockets, GotoKeepsSockets DEF CheckSession, Stages
  <2>2. CASE CheckFails(k)  BY <2>2, RefusedKeepsSockets DEF CheckFails
  <2>3. CASE Connect(k)  BY <2>3, GotoKeepsSockets DEF Connect, Stages
  <2>4. CASE Drop(k)  BY <2>4, GotoKeepsSockets DEF Drop, Stages
  <2>5. CASE QueryUnread(k)  BY <2>5, GotoKeepsSockets DEF QueryUnread, Stages
  <2>6. CASE QueryFails(k) \/ Ready(k)
    BY <2>6, GotoKeepsSockets DEF QueryFails, Ready, Listen, Stages
  <2>7. CASE Leave(k)
    <3>1. host[k] \in Instances  BY <2>7 DEF Leave, SocketsInv, SocketsHosted
    <3>2. QED BY <2>7, <3>1, DisconnectKeepsSlots DEF Leave
  <2>8. QED
    BY <1>2, <2>1, <2>2, <2>3, <2>4, <2>5, <2>6, <2>7, ArriveKeepsSockets,
       ReserveKeepsSockets DEF SocketStep
<1>3. ASSUME NEW i \in Instances, InstanceStep(i) PROVE SocketsInv'
  <2>1. CASE \E n \in Notes : HearNote(i, n)  BY <1>1, <2>1 DEF HearNote
  <2>2. CASE \E s \in Sessions : RevokeSession(i, s)
    BY <1>1, <2>2 DEF RevokeSession
  <2>3. CASE \E s \in Sessions : \/ Announce(i, s) \/ AnnounceFails(i, s)
                                 \/ HearRevocation(i, s)
    BY <2>3, KickKeepsSockets DEF Announce, AnnounceFails, HearRevocation
  <2>4. CASE LoseMessages(i)  BY <1>1, <2>4 DEF LoseMessages
  <2>5. QED
    BY <1>3, <2>1, <2>2, <2>3, <2>4, CrashKeepsSockets DEF InstanceStep
<1>4. CASE \E n \in Notes : CreateNote(n) \/ ReadNote(n) \/ PublishNote(n)
  BY <1>1, <1>4 DEF CreateNote, ReadNote, PublishNote
<1>5. CASE UNCHANGED vars  BY <1>1, <1>5 DEF vars
<1>6. QED BY <1>2, <1>3, <1>4, <1>5 DEF Next

-----------------------------------------------------------------------------
(***************************************************************************)
(* Notifications and revocations on their way.                             *)
(***************************************************************************)

\* Everything but the sockets is well formed.
QueuesOK ==
  /\ revoked \subseteq Sessions
  /\ note \in [Notes -> {"absent", "unread", "read"}]
  /\ toAnnounce \in [Instances -> SUBSET Sessions]
  /\ notes \in [Instances -> SUBSET Notes]
  /\ kicks \in [Instances -> SUBSET Sessions]
  /\ got \in [Sockets -> SUBSET Notes]
  /\ skipped \in [Sockets -> SUBSET Notes]
  /\ published \subseteq Notes
  /\ told \in [Instances -> SUBSET Sessions]
  /\ unheard \in [Instances -> SUBSET Sessions]
  /\ late \subseteq Sockets
  /\ incidents \in 0..MaxIncidents

\* That is the type invariant, in two parts.
LEMMA TypeInParts == GatewayTypeOK <=> SocketsOK /\ QueuesOK
BY DEF GatewayTypeOK, SocketsOK, QueuesOK

\* Incidents are not forgotten.
LEMMA IncidentsGrow ==
  ASSUME QueuesOK, Incident
  PROVE  incidents' \in 0..MaxIncidents /\ incidents' # 0
BY GatewayAssumption DEF QueuesOK, Incident

\* Steps of sockets, of instances and of the users keep what is queued and
\* remembered well formed.
LEMMA NextQueues ==
  ASSUME QueuesOK, [Next]_vars
  PROVE  QueuesOK'
<1> USE DEF dbVars, socketVars, queueVars, viewVars, pastVars
<1>1. ASSUME UNCHANGED <<dbVars, queueVars, viewVars, published, told,
                         unheard>>,
             late' \subseteq Sockets, incidents' \in 0..MaxIncidents
      PROVE  QueuesOK'
  BY <1>1 DEF QueuesOK
<1>2. late \subseteq Sockets /\ incidents \in 0..MaxIncidents  BY DEF QueuesOK
<1>3. ASSUME NEW k \in Sockets, SocketStep(k) PROVE QueuesOK'
  <2>1. CASE \/ \E i \in Instances : \E s \in Sessions : Arrive(k, i, s)
             \/ Reserve(k) \/ CheckSession(k) \/ Drop(k) \/ Ready(k) \/ Leave(k)
    BY <1>1, <1>2, <2>1 DEF Arrive, Reserve, CheckSession, Drop, Ready, Leave
  <2>2. CASE CheckFails(k) \/ QueryFails(k)
    BY <1>1, <1>2, <2>2, IncidentsGrow DEF CheckFails, QueryFails
  <2>3. CASE Connect(k)  BY <1>1, <1>2, <2>3 DEF Connect
  <2>4. CASE QueryUnread(k)
    <3> DEFINE unread == {n \in Notes : note[n] = "unread"}
    <3>1. /\ got' = [got EXCEPT ![k] = @ \cup Newest(unread)]
          /\ skipped' = [skipped EXCEPT ![k] = unread \ Newest(unread)]
      BY <2>4 DEF QueryUnread
    <3>2. Newest(unread) \subseteq Notes /\ unread \subseteq Notes
      BY DEF Newest
    <3> HIDE DEF unread
    <3>3. got' \in [Sockets -> SUBSET Notes]
          /\ skipped' \in [Sockets -> SUBSET Notes]
      BY <3>1, <3>2 DEF QueuesOK
    <3>4. QED BY <2>4, <3>3 DEF QueryUnread, QueuesOK
  <2>5. QED BY <1>3, <2>1, <2>2, <2>3, <2>4 DEF SocketStep
<1>4. ASSUME NEW i \in Instances, InstanceStep(i) PROVE QueuesOK'
  <2>1. ASSUME NEW n \in Notes, HearNote(i, n) PROVE QueuesOK'
    BY <2>1 DEF HearNote, QueuesOK
  <2>2. ASSUME NEW s \in Sessions, RevokeSession(i, s) PROVE QueuesOK'
    BY <2>2 DEF RevokeSession, QueuesOK
  <2>3. ASSUME NEW s \in Sessions, Kick(i, s)
        PROVE  told' \in [Instances -> SUBSET Sessions]
    BY <2>3 DEF Kick, QueuesOK
  <2>4. ASSUME NEW s \in Sessions, Announce(i, s) PROVE QueuesOK'
    BY <2>3, <2>4 DEF Announce, QueuesOK
  <2>5. ASSUME NEW s \in Sessions, AnnounceFails(i, s) PROVE QueuesOK'
    BY <2>3, <2>5, IncidentsGrow DEF AnnounceFails, KeepFromOthers, QueuesOK
  <2>6. ASSUME NEW s \in Sessions, HearRevocation(i, s) PROVE QueuesOK'
    BY <2>3, <2>6 DEF HearRevocation, QueuesOK
  <2>7. CASE LoseMessages(i)
    BY <2>7, IncidentsGrow DEF LoseMessages, QueuesOK
  <2>8. CASE Crash(i)
    BY <2>8, IncidentsGrow DEF Crash, KeepFromOthers, QueuesOK
  <2>9. QED
    BY <1>4, <2>1, <2>2, <2>4, <2>5, <2>6, <2>7, <2>8 DEF InstanceStep
<1>5. ASSUME NEW n \in Notes, CreateNote(n) \/ ReadNote(n) PROVE QueuesOK'
  BY <1>5 DEF CreateNote, ReadNote, QueuesOK
<1>6. ASSUME NEW n \in Notes, PublishNote(n) PROVE QueuesOK'
  BY <1>6, IncidentsGrow DEF PublishNote, QueuesOK
<1>7. CASE UNCHANGED vars  BY <1>1, <1>2, <1>7 DEF vars
<1>8. QED BY <1>3, <1>4, <1>5, <1>6, <1>7 DEF Next

\* Notifications are there before they are published, and rows stay.
LEMMA NextPublished ==
  ASSUME QueuesOK, PublishedExist, [Next]_vars
  PROVE  PublishedExist'
<1> USE DEF dbVars, socketVars, queueVars, viewVars, pastVars
<1>1. ASSUME UNCHANGED <<note, published>> PROVE PublishedExist'
  BY <1>1 DEF PublishedExist
<1>2. ASSUME NEW k \in Sockets, SocketStep(k) PROVE UNCHANGED <<note, published>>
  BY <1>2 DEF SocketStep, Arrive, Reserve, CheckSession, CheckFails, Connect,
     Drop, QueryUnread, QueryFails, Ready, Leave
<1>3. ASSUME NEW i \in Instances, InstanceStep(i)
      PROVE  UNCHANGED <<note, published>>
  BY <1>3 DEF InstanceStep, HearNote, RevokeSession, Announce, AnnounceFails,
     HearRevocation, LoseMessages, Crash
<1>4. ASSUME NEW n \in Notes, CreateNote(n) \/ ReadNote(n) PROVE PublishedExist'
  BY <1>4 DEF CreateNote, ReadNote, PublishedExist, QueuesOK
<1>5. ASSUME NEW n \in Notes, PublishNote(n) PROVE PublishedExist'
  BY <1>5 DEF PublishNote, PublishedExist
<1>6. CASE UNCHANGED vars  BY <1>1, <1>6 DEF vars
<1>7. QED BY <1>1, <1>2, <1>3, <1>4, <1>5, <1>6 DEF Next

\* A step that is neither a query nor about notifications misses none.
LEMMA ViewStays ==
  ASSUME UpToDate, UNCHANGED <<note, notes, viewVars, published>>,
         incidents' = 0 =>
           /\ incidents = 0
           /\ \A k \in Sockets : up'[k] /\ stage'[k] \in {"queried", "live"} =>
                /\ up[k] /\ stage[k] \in {"queried", "live"}
                /\ host'[k] = host[k]
  PROVE  UpToDate'
BY DEF UpToDate, viewVars

\* Cutting sockets off brings none up.
LEMMA CutOffsKeepView ==
  ASSUME UpToDate, NEW i, NEW S, Disconnect(S, i), UNCHANGED incidents,
         UNCHANGED <<note, notes, viewVars, published>>
  PROVE  UpToDate'
<1>1. \A k \in Sockets : up'[k] /\ stage'[k] \in {"queried", "live"} =>
        /\ up[k] /\ stage[k] \in {"queried", "live"} /\ host'[k] = host[k]
  BY DEF Disconnect
<1>2. QED BY <1>1, ViewStays

\* Every socket that has made its query is up to date after every step.
LEMMA NextUpToDate ==
  ASSUME SocketsInv, QueuesOK, PublishedExist, UpToDate, [Next]_vars
  PROVE  UpToDate'
<1> USE DEF dbVars, socketVars, queueVars, pastVars
<1>0. /\ stage \in [Sockets -> Stages] /\ up \in [Sockets -> BOOLEAN]
      /\ host \in [Sockets -> Instances \cup {Nowhere}]
      /\ SocketsHosted
  BY DEF SocketsInv, SocketsOK
<1>1. ASSUME incidents' # 0 PROVE UpToDate'  BY <1>1 DEF UpToDate
<1>2. ASSUME Incident PROVE UpToDate'  BY <1>1, <1>2, IncidentsGrow
<1>3. ASSUME NEW k \in Sockets, SocketStep(k) PROVE UpToDate'
  <2>1. CASE \E i \in Instances : \E s \in Sessions : Arrive(k, i, s)
    BY <1>0, <2>1, ViewStays DEF Arrive, Goto
  <2>2. CASE Reserve(k)
    BY <1>0, <2>2, ViewStays DEF Reserve, Refused, Goto
  <2>3. CASE CheckSession(k)
    BY <1>0, <2>3, ViewStays DEF CheckSession, Refused, Goto
  <2>4. CASE CheckFails(k) \/ QueryFails(k)
    BY <1>2, <2>4 DEF CheckFails, QueryFails
  <2>5. CASE Connect(k) \/ Drop(k)
    BY <1>0, <2>5, ViewStays DEF Connect, Drop, Goto
  <2>6. CASE Ready(k)
    BY <1>0, <2>6, ViewStays DEF Ready, Listen, Goto
  <2>7. CASE Leave(k)  BY <2>7, CutOffsKeepView DEF Leave
  <2>8. CASE QueryUnread(k)
    <3>1. /\ stage' = [stage EXCEPT ![k] = "queried"]
          /\ UNCHANGED <<note, notes, published, up, host, incidents>>
      BY <2>8 DEF QueryUnread, Goto
    <3>2. /\ \A x \in Sockets : x # k =>
               got'[x] = got[x] /\ skipped'[x] = skipped[x]
          /\ \A n \in Notes : note[n] = "unread" => n \in got'[k] \cup skipped'[k]
      BY <2>8 DEF QueryUnread, QueuesOK
    <3>3. published \subseteq Notes  BY DEF QueuesOK
    <3>4. QED BY <1>0, <3>1, <3>2, <3>3 DEF UpToDate
  <2>9. QED
    BY <1>3, <2>1, <2>2, <2>3, <2>4, <2>5, <2>6, <2>7, <2>8 DEF SocketStep
<1>4. ASSUME NEW i \in Instances, InstanceStep(i) PROVE UpToDate'
  <2>1. ASSUME NEW n \in Notes, HearNote(i, n) PROVE UpToDate'
    <3>1. /\ UNCHANGED <<note, published, up, host, stage, skipped, incidents>>
          /\ notes' = [notes EXCEPT ![i] = @ \ {n}]
          /\ \A k \in Sockets : got'[k] = IF InRoom(k) /\ host[k] = i
                                          THEN got[k] \cup {n} ELSE got[k]
      BY <2>1 DEF HearNote
    <3>2. ASSUME NEW k \in Sockets, NEW m \in published, incidents = 0,
                 up[k], stage[k] \in {"queried", "live"}, note[m] = "unread",
                 m \notin notes'[host[k]]
          PROVE  m \in got'[k] \cup skipped[k]
      <4>1. CASE m \in notes[host[k]]
        <5>1. host[k] \in Instances  BY <1>0, <3>2 DEF SocketsHosted
        <5>2. host[k] = i /\ m = n
          BY <3>1, <3>2, <4>1, <5>1 DEF QueuesOK
        <5>3. InRoom(k)  BY <3>2 DEF InRoom
        <5>4. QED BY <3>1, <5>2, <5>3
      <4>2. CASE m \notin notes[host[k]]
        BY <3>1, <3>2, <4>2 DEF UpToDate
      <4>3. QED BY <4>1, <4>2
    <3>3. QED BY <3>1, <3>2 DEF UpToDate
  <2>2. CASE \E s \in Sessions : RevokeSession(i, s)
    BY <2>2, ViewStays DEF RevokeSession
  <2>3. CASE \E s \in Sessions : Announce(i, s) \/ HearRevocation(i, s)
    BY <2>3, CutOffsKeepView DEF Announce, HearRevocation, Kick
  <2>4. CASE (\E s \in Sessions : AnnounceFails(i, s)) \/ LoseMessages(i)
             \/ Crash(i)
    BY <1>2, <2>4 DEF AnnounceFails, LoseMessages, Crash
  <2>5. QED BY <1>4, <2>1, <2>2, <2>3, <2>4 DEF InstanceStep
<1>5. ASSUME NEW n \in Notes, CreateNote(n) \/ ReadNote(n) PROVE UpToDate'
  <2>1. \A m \in published : note'[m] = "unread" => note[m] = "unread"
    BY <1>5 DEF CreateNote, ReadNote, PublishedExist, QueuesOK
  <2>2. UNCHANGED <<published, up, host, stage, got, skipped, notes, incidents>>
    BY <1>5 DEF CreateNote, ReadNote, viewVars
  <2>3. QED BY <2>1, <2>2 DEF UpToDate
<1>6. ASSUME NEW n \in Notes, PublishNote(n) PROVE UpToDate'
  <2>1. /\ UNCHANGED <<note, up, host, stage, got, skipped>>
        /\ published' = published \cup {n}
        /\ \A i \in Instances : notes'[i] = notes[i] \cup {n}
        /\ Incident \/ UNCHANGED incidents
    BY <1>6 DEF PublishNote, viewVars
  <2>2. CASE UNCHANGED incidents
    <3>1. ASSUME NEW k \in Sockets, up[k] PROVE host[k] \in Instances
      BY <1>0, <3>1 DEF SocketsHosted
    <3>2. QED BY <2>1, <2>2, <3>1 DEF UpToDate
  <2>3. QED BY <1>2, <2>1, <2>2
<1>7. CASE UNCHANGED vars  BY <1>7, ViewStays DEF vars
<1>8. QED BY <1>3, <1>4, <1>5, <1>6, <1>7 DEF Next

\* A step that neither revokes nor announces leaves the news where they are.
LEMMA NewsStay ==
  ASSUME RevocationsSpread, UNCHANGED <<revoked, toAnnounce, kicks, told, unheard>>
  PROVE  RevocationsSpread'
BY DEF RevocationsSpread

\* No revocation is lost on the way from the database to the instances without
\* its being known to whom.
LEMMA NextSpread ==
  ASSUME QueuesOK, RevocationsSpread, [Next]_vars
  PROVE  RevocationsSpread'
<1> USE DEF dbVars, socketVars, queueVars, viewVars, pastVars
<1>1. ASSUME NEW k \in Sockets, SocketStep(k) PROVE RevocationsSpread'
  BY <1>1, NewsStay DEF SocketStep, Arrive, Reserve, CheckSession, CheckFails,
     Connect, Drop, QueryUnread, QueryFails, Ready, Leave
<1>2. ASSUME NEW i \in Instances, InstanceStep(i) PROVE RevocationsSpread'
  <2>1. CASE \E n \in Notes : HearNote(i, n)
    BY <2>1, NewsStay DEF HearNote
  <2>2. ASSUME NEW s \in Sessions, RevokeSession(i, s) PROVE RevocationsSpread'
    BY <2>2 DEF RevokeSession, RevocationsSpread, QueuesOK
  <2>3. ASSUME NEW s \in Sessions, Announce(i, s) PROVE RevocationsSpread'
    <3>1. /\ UNCHANGED <<revoked, unheard>>
          /\ toAnnounce' = [toAnnounce EXCEPT ![i] = @ \ {s}]
          /\ told' = [told EXCEPT ![i] = @ \cup {s}]
          /\ \A j \in Instances : kicks'[j] = kicks[j] \cup {s}
      BY <2>3 DEF Announce, Kick
    <3>2. \A j \in Instances : /\ told[j] \subseteq told'[j]
                               /\ toAnnounce[j] \ {s} \subseteq toAnnounce'[j]
      BY <3>1 DEF QueuesOK
    <3>3. QED BY <3>1, <3>2 DEF RevocationsSpread
  <2>4. ASSUME NEW s \in Sessions, AnnounceFails(i, s) PROVE RevocationsSpread'
    <3>1. /\ UNCHANGED <<revoked, kicks>>
          /\ toAnnounce' = [toAnnounce EXCEPT ![i] = @ \ {s}]
          /\ told' = [told EXCEPT ![i] = @ \cup {s}]
          /\ \A j \in Instances : unheard'[j] =
               IF j = i THEN unheard[j] ELSE unheard[j] \cup {s}
      BY <2>4 DEF AnnounceFails, Kick, KeepFromOthers
    <3>2. \A j \in Instances : /\ told[j] \subseteq told'[j]
                               /\ toAnnounce[j] \ {s} \subseteq toAnnounce'[j]
      BY <3>1 DEF QueuesOK
    <3>3. s \in told'[i]  BY <3>1 DEF QueuesOK
    <3>4. QED BY <3>1, <3>2, <3>3 DEF RevocationsSpread
  <2>5. ASSUME NEW s \in Sessions, HearRevocation(i, s) PROVE RevocationsSpread'
    <3>1. /\ UNCHANGED <<revoked, toAnnounce, unheard>>
          /\ told' = [told EXCEPT ![i] = @ \cup {s}]
          /\ kicks' = [kicks EXCEPT ![i] = @ \ {s}]
      BY <2>5 DEF HearRevocation, Kick
    <3>2. \A j \in Instances :
            kicks[j] \cup told[j] \subseteq kicks'[j] \cup told'[j]
      BY <3>1 DEF QueuesOK
    <3>3. QED BY <3>1, <3>2 DEF RevocationsSpread
  <2>6. CASE LoseMessages(i)
    <3>1. /\ UNCHANGED <<revoked, toAnnounce, told>>
          /\ kicks' = [kicks EXCEPT ![i] = {}]
          /\ unheard' = [unheard EXCEPT ![i] = @ \cup kicks[i]]
      BY <2>6 DEF LoseMessages
    <3>2. \A j \in Instances :
            kicks[j] \cup unheard[j] \subseteq kicks'[j] \cup unheard'[j]
      BY <3>1 DEF QueuesOK
    <3>3. QED BY <3>1, <3>2 DEF RevocationsSpread
  <2>7. CASE Crash(i)
    <3>1. /\ UNCHANGED revoked
          /\ toAnnounce' = [toAnnounce EXCEPT ![i] = {}]
          /\ kicks' = [kicks EXCEPT ![i] = {}]
          /\ told' = [told EXCEPT ![i] = revoked]
          /\ \A j \in Instances : unheard'[j] =
               IF j = i THEN unheard[j] ELSE unheard[j] \cup toAnnounce[i]
      BY <2>7 DEF Crash, KeepFromOthers
    <3>2. told'[i] = revoked  BY <3>1 DEF QueuesOK
    <3>3. \A j \in Instances : j # i =>
            /\ kicks'[j] = kicks[j] /\ told'[j] = told[j]
            /\ toAnnounce'[j] = toAnnounce[j]
            /\ unheard'[j] = unheard[j] \cup toAnnounce[i]
      BY <3>1 DEF QueuesOK
    <3>4. QED BY <3>1, <3>2, <3>3 DEF RevocationsSpread
  <2>8. QED
    BY <1>2, <2>1, <2>2, <2>3, <2>4, <2>5, <2>6, <2>7 DEF InstanceStep
<1>3. ASSUME NEW n \in Notes, CreateNote(n) \/ ReadNote(n) \/ PublishNote(n)
      PROVE  RevocationsSpread'
  BY <1>3, NewsStay DEF CreateNote, ReadNote, PublishNote
<1>4. CASE UNCHANGED vars  BY <1>4, NewsStay DEF vars
<1>5. QED BY <1>1, <1>2, <1>3, <1>4 DEF Next

\* Who stays in a room without news of its session stays in the right.
LEMMA RoomsShrink ==
  ASSUME ToldAreGone, UNCHANGED told, late \subseteq late',
         \A k \in Sockets : InRoom(k)' =>
           InRoom(k) /\ ses'[k] = ses[k] /\ host'[k] = host[k]
  PROVE  ToldAreGone'
BY DEF ToldAreGone

\* An instance that is told cuts off the room of the session.
LEMMA KicksEmptyRooms ==
  ASSUME SocketsInv, QueuesOK, ToldAreGone, NEW i \in Instances,
         NEW s \in Sessions, Kick(i, s), UNCHANGED late
  PROVE  ToldAreGone'
<1>1. /\ host' = host /\ ses' = ses
      /\ told' = [told EXCEPT ![i] = @ \cup {s}]
      /\ up' = [k \in Sockets |-> up[k] /\ k \notin Room(i, s)]
  BY DEF Kick, Disconnect
<1>2. ASSUME NEW k \in Sockets, InRoom(k)'
      PROVE  InRoom(k) /\ k \notin Room(i, s)
  BY <1>1, <1>2 DEF InRoom, Kick, Disconnect
<1>3. ASSUME NEW k \in Sockets, InRoom(k)', ses[k] \in told'[host[k]]
      PROVE  k \in late
  <2>1. InRoom(k) /\ ~(host[k] = i /\ ses[k] = s)  BY <1>2, <1>3 DEF Room
  <2>2. host[k] \in Instances
    BY <2>1 DEF InRoom, SocketsInv, SocketsHosted
  <2>3. ses[k] \in told[host[k]]  BY <1>1, <1>3, <2>1, <2>2 DEF QueuesOK
  <2>4. QED BY <2>1, <2>3 DEF ToldAreGone
<1>4. QED BY <1>1, <1>3 DEF ToldAreGone

\* Whoever joins a room after that is known to have come late.
LEMMA NextToldAreGone ==
  ASSUME SocketsInv, QueuesOK, ToldAreGone, [Next]_vars
  PROVE  ToldAreGone'
<1> USE DEF dbVars, socketVars, queueVars, viewVars, pastVars
<1>0. /\ stage \in [Sockets -> Stages] /\ up \in [Sockets -> BOOLEAN]
      /\ SocketsHosted
  BY DEF SocketsInv, SocketsOK
<1>1. ASSUME NEW k \in Sockets, SocketStep(k) PROVE ToldAreGone'
  <2>1. CASE \E i \in Instances : \E s \in Sessions : Arrive(k, i, s)
    <3>1. PICK i \in Instances, s \in Sessions : Arrive(k, i, s)  BY <2>1
    <3>2. /\ stage' = [stage EXCEPT ![k] = "arrived"]
          /\ host' = [host EXCEPT ![k] = i] /\ ses' = [ses EXCEPT ![k] = s]
          /\ up' = [up EXCEPT ![k] = TRUE] /\ told' = told /\ late' = late
      BY <3>1 DEF Arrive, Goto
    <3>3. \A x \in Sockets : InRoom(x)' =>
            InRoom(x) /\ ses'[x] = ses[x] /\ host'[x] = host[x]
      BY <1>0, <3>2 DEF InRoom
    <3>4. QED BY <3>2, <3>3, RoomsShrink
  <2>2. CASE Reserve(k) \/ CheckSession(k) \/ CheckFails(k)
    BY <1>0, <2>2, RoomsShrink
       DEF Reserve, CheckSession, CheckFails, Refused, Goto, InRoom
  <2>3. CASE Drop(k) \/ QueryUnread(k)
    BY <1>0, <2>3, RoomsShrink DEF Drop, QueryUnread, Goto, InRoom
  <2>4. CASE QueryFails(k) \/ Ready(k)
    BY <1>0, <2>4, RoomsShrink DEF QueryFails, Ready, Listen, Goto, InRoom
  <2>5. CASE Leave(k)
    BY <1>0, <2>5, RoomsShrink DEF Leave, Disconnect, InRoom
  <2>6. CASE Connect(k)
    <3>1. /\ stage' = [stage EXCEPT ![k] = "joined"]
          /\ UNCHANGED <<host, ses, up, told>>
          /\ late' = IF ses[k] \in told[host[k]] THEN late \cup {k} ELSE late
      BY <2>6 DEF Connect, Goto
    <3>2. \A x \in Sockets : x # k => (InRoom(x)' <=> InRoom(x))
      BY <1>0, <3>1 DEF InRoom
    <3>3. QED BY <3>1, <3>2 DEF ToldAreGone
  <2>7. QED
    BY <1>1, <2>1, <2>2, <2>3, <2>4, <2>5, <2>6 DEF SocketStep
<1>2. ASSUME NEW i \in Instances, InstanceStep(i) PROVE ToldAreGone'
  <2>1. CASE \/ \E n \in Notes : HearNote(i, n)
             \/ \E s \in Sessions : RevokeSession(i, s)
             \/ LoseMessages(i)
    BY <2>1, RoomsShrink DEF HearNote, RevokeSession, LoseMessages, InRoom
  <2>2. CASE \E s \in Sessions : \/ Announce(i, s) \/ AnnounceFails(i, s)
                                 \/ HearRevocation(i, s)
    BY <2>2, KicksEmptyRooms DEF Announce, AnnounceFails, HearRevocation
  <2>3. CASE Crash(i)
    <3>1. /\ host' = host /\ ses' = ses /\ late' = late
          /\ told' = [told EXCEPT ![i] = revoked]
          /\ up' = [k \in Sockets |-> up[k] /\ host[k] # i]
          /\ stage' = [k \in Sockets |->
               IF host[k] = i THEN "gone" ELSE stage[k]]
      BY <2>3 DEF Crash
    <3>2. \A k \in Sockets : InRoom(k)' => InRoom(k) /\ host[k] # i
      BY <3>1 DEF InRoom
    <3>3. \A k \in Sockets : InRoom(k) => host[k] \in Instances
      BY <1>0 DEF InRoom, SocketsHosted
    <3>4. \A j \in Instances : j # i => told'[j] = told[j]
      BY <3>1 DEF QueuesOK
    <3>5. QED BY <3>1, <3>2, <3>3, <3>4 DEF ToldAreGone
  <2>4. QED BY <1>2, <2>1, <2>2, <2>3 DEF InstanceStep
<1>3. CASE \/ \E n \in Notes : CreateNote(n) \/ ReadNote(n) \/ PublishNote(n)
           \/ UNCHANGED vars
  BY <1>3, RoomsShrink DEF CreateNote, ReadNote, PublishNote, vars, InRoom
<1>4. QED BY <1>1, <1>2, <1>3 DEF Next

-----------------------------------------------------------------------------
(***************************************************************************)
(* The invariant, and what follows from it.                                *)
(***************************************************************************)

\* It holds while nobody has come ...
LEMMA InitGateway == Init => GatewayInv
<1> SUFFICES ASSUME Init PROVE GatewayInv  OBVIOUS
<1>1. GatewayTypeOK
  BY GatewayAssumption DEF Init, GatewayTypeOK, Stages
<1>2. SocketsHosted  BY DEF Init, SocketsHosted
<1>3. \A i \in Instances : Slots(i) = {} /\ count[i] = 0
  BY DEF Init, Slots
<1>4. SlotsCounted
  BY <1>3, FS_EmptySet, GatewayAssumption DEF SlotsCounted
<1>5. PublishedExist /\ UpToDate /\ RevocationsSpread /\ ToldAreGone
  BY DEF Init, PublishedExist, UpToDate, RevocationsSpread, ToldAreGone, InRoom
<1>6. QED BY <1>1, <1>2, <1>4, <1>5 DEF GatewayInv

\* ... and every step keeps it.
LEMMA NextGateway == GatewayInv /\ [Next]_vars => GatewayInv'
<1> SUFFICES ASSUME GatewayInv, [Next]_vars PROVE GatewayInv'  OBVIOUS
<1>1. /\ SocketsInv /\ QueuesOK /\ PublishedExist /\ UpToDate
      /\ RevocationsSpread /\ ToldAreGone
  BY TypeInParts DEF GatewayInv, SocketsInv
<1>2. SocketsInv' /\ QueuesOK'  BY <1>1, NextSockets, NextQueues
<1>3. PublishedExist' /\ UpToDate' /\ RevocationsSpread' /\ ToldAreGone'
  BY <1>1, NextPublished, NextUpToDate, NextSpread, NextToldAreGone
<1>4. GatewayTypeOK'
  BY <1>2 DEF SocketsInv, SocketsOK, QueuesOK, GatewayTypeOK
<1>5. QED BY <1>2, <1>3, <1>4 DEF GatewayInv, SocketsInv

\* Sockets, slots, rooms and what is on its way agree in every reachable state.
THEOREM GatewayInvariant == Spec => []GatewayInv
<1>1. QED BY InitGateway, NextGateway, PTL DEF Spec

\* Sockets and messages are well formed, and no counter of connections is ever
\* negative.
THEOREM GatewayTypeCorrect == Spec => []GatewayTypeOK
<1>1. GatewayInv => GatewayTypeOK  BY DEF GatewayInv
<1>2. QED BY <1>1, GatewayInvariant, PTL

\* However many handshakes overlap, an instance never serves more sockets of an
\* address than WS_MAX_CONNECTIONS_PER_IP.
THEOREM TheLimitHolds == Spec => []LimitHolds
<1>1. ASSUME GatewayInv, NEW i \in Instances
      PROVE  Cardinality(Served(i)) <= MaxPerIp
  <2>1. Served(i) \subseteq Slots(i) /\ Slots(i) \subseteq Sockets
    BY SlotsAreServed
  <2>2. IsFiniteSet(Slots(i)) /\ Cardinality(Slots(i)) \in Nat
    BY <2>1, SlotsFinite
  <2>3. Cardinality(Served(i)) <= Cardinality(Slots(i))
    BY <2>1, <2>2, FS_Subset
  <2>4. Cardinality(Served(i)) \in Nat  BY <2>1, SlotsFinite
  <2>5. Cardinality(Slots(i)) <= MaxPerIp
    BY <1>1 DEF GatewayInv, SlotsCounted
  <2>6. QED BY <2>2, <2>3, <2>4, <2>5, GatewayAssumption
<1>2. GatewayInv => LimitHolds  BY <1>1 DEF LimitHolds
<1>3. QED BY <1>2, GatewayInvariant, PTL

\* The slots in use are those of the sockets being served and of those that
\* went away before the disconnect handler was there: none is returned twice.
THEOREM SlotsAreAccountedFor == Spec => []SlotsAccountedFor
<1>1. GatewayInv => SlotsAccountedFor
  BY SlotsAreServed DEF GatewayInv, SlotsCounted, SlotsAccountedFor
<1>2. QED BY <1>1, GatewayInvariant, PTL

\* Between the sync and the room no notification is missed: what was published
\* and has reached the instance of a connected socket has been sent to it,
\* unless it was read or the sync was full.
THEOREM NothingIsMissed == Spec => []NothingMissed
<1>1. GatewayInv => NothingMissed
  BY DEF GatewayInv, UpToDate, SocketsHosted, NothingMissed
<1>2. QED BY <1>1, GatewayInvariant, PTL

\* Once a revocation has been announced and has reached a socket's instance,
\* only a socket that had passed its session check before and joined its room
\* afterwards is still connected, whatever else failed or got lost.
THEOREM OnlyLateSocketsSurvive == Spec => []RevokedSocketsCameLate
<1>1. ASSUME GatewayInv, NEW k \in Sockets, InRoom(k),
             ses[k] \in revoked \ (kicks[host[k]] \cup unheard[host[k]]),
             \A i \in Instances : ses[k] \notin toAnnounce[i]
      PROVE  k \in late
  <2>1. host[k] \in Instances
    BY <1>1 DEF GatewayInv, SocketsHosted, InRoom
  <2>2. ses[k] \in told[host[k]]
    BY <1>1, <2>1 DEF GatewayInv, RevocationsSpread
  <2>3. QED BY <1>1, <2>2 DEF GatewayInv, ToldAreGone
<1>2. GatewayInv => RevokedSocketsCameLate
  BY <1>1 DEF RevokedSocketsCameLate
<1>3. QED BY <1>2, GatewayInvariant, PTL

=============================================================================
