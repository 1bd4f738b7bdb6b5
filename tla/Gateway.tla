------------------------------- MODULE Gateway -------------------------------
(***************************************************************************)
(* The WebSocket gateway: sockets on several server instances, the rooms   *)
(* they join, the unread notifications they are brought up to date with,   *)
(* the messages Redis fans out to every instance, and the revocation of    *)
(* the sessions the sockets were opened under (src/src/websocket).         *)
(*                                                                         *)
(* All sockets belong to one user and come from one IP address, the ones   *)
(* the per-user room and the per-IP limit are about.  A socket goes        *)
(* through its handshake await by await, and may be cut off at any point.  *)
(***************************************************************************)
EXTENDS Integers, FiniteSets

CONSTANTS
  Instances,    \* server processes
  Sockets,      \* connection attempts, each made once
  Sessions,     \* sessions of the user
  Notes,        \* notifications, numbered by created_at
  Nowhere, NoSession,
  MaxPerIp,     \* WS_MAX_CONNECTIONS_PER_IP
  SyncLimit,    \* how many unread notifications a sync holds
  MaxIncidents  \* bound on crashes, lost messages, failed queries

ASSUME GatewayAssumption ==
  /\ Notes \subseteq Nat /\ IsFiniteSet(Sockets)
  /\ Nowhere \notin Instances /\ NoSession \notin Sessions
  /\ MaxPerIp \in Nat \ {0} /\ SyncLimit \in Nat \ {0} /\ MaxIncidents \in Nat

VARIABLES
  revoked,     \* sessions with revoked_at set
  note,        \* each notification's row: absent, unread, or read or deleted
  stage,       \* where each socket is in its life
  host, ses,   \* the instance it came to, the session of its token
  up,          \* its transport is open
  count,       \* connectionsByIp of each instance
  toAnnounce,  \* revocations committed at an instance, not yet announced
  notes,       \* notification messages on their way to each instance
  kicks,       \* revocation messages on their way to each instance
  got,         \* notifications a socket was sent, live or in its sync
  skipped,     \* history: unread ones its sync had no room for
  published,   \* history: notifications published over Redis
  told,        \* history: revocations an instance has acted on, or older than it
  unheard,     \* history: revocations an instance will not hear of
  late,        \* history: sockets that joined when their instance had been told
  incidents

dbVars     == <<revoked, note>>
socketVars == <<stage, host, ses, up>>
queueVars  == <<toAnnounce, notes, kicks>>
viewVars   == <<got, skipped>>
pastVars   == <<published, told, unheard, late>>
vars       == <<dbVars, socketVars, count, queueVars, viewVars, pastVars, incidents>>

\* "dropped", "lost": gone before resp. after 'connection', and the handler that
\* returns its slot will never run.
Stages == {"none", "arrived", "checking", "admitted", "joined", "queried",
           "live", "gone", "dropped", "lost"}

GatewayTypeOK ==
  /\ revoked \subseteq Sessions
  /\ note \in [Notes -> {"absent", "unread", "read"}]
  /\ stage \in [Sockets -> Stages]
  /\ host \in [Sockets -> Instances \cup {Nowhere}]
  /\ ses \in [Sockets -> Sessions \cup {NoSession}]
  /\ up \in [Sockets -> BOOLEAN]
  /\ count \in [Instances -> Nat]
  /\ toAnnounce \in [Instances -> SUBSET Sessions]
  /\ notes \in [Instances -> SUBSET Notes]
  /\ kicks \in [Instances -> SUBSET Sessions]
  /\ got \in [Sockets -> SUBSET Notes]
  /\ skipped \in [Sockets -> SUBSET Notes]
  /\ published \subseteq Notes
  /\ told \in [Instances -> SUBSET Sessions]
  /\ unheard \in [Instances -> SUBSET Sessions]
  /\ late \subseteq Sockets
  /\ incidents \in 0..MaxIncidents

Init ==
  /\ revoked = {}
  /\ note = [n \in Notes |-> "absent"]
  /\ stage = [k \in Sockets |-> "none"]
  /\ host = [k \in Sockets |-> Nowhere]
  /\ ses = [k \in Sockets |-> NoSession]
  /\ up = [k \in Sockets |-> FALSE]
  /\ count = [i \in Instances |-> 0]
  /\ toAnnounce = [i \in Instances |-> {}]
  /\ notes = [i \in Instances |-> {}]
  /\ kicks = [i \in Instances |-> {}]
  /\ got = [k \in Sockets |-> {}]
  /\ skipped = [k \in Sockets |-> {}]
  /\ published = {}
  /\ told = [i \in Instances |-> {}]
  /\ unheard = [i \in Instances |-> {}]
  /\ late = {}
  /\ incidents = 0

-----------------------------------------------------------------------------
Incident == incidents < MaxIncidents /\ incidents' = incidents + 1

Goto(k, place) == stage' = [stage EXCEPT ![k] = place]

\* Slip: the rooms are joined when everything else is done.
InRoomLate(k) == up[k] /\ stage[k] = "live"

\* A socket is in its rooms from its connection to its disconnection.
InRoom(k) == up[k] /\ stage[k] \in {"joined", "queried", "live"}

\* Sockets of a session on an instance: io.in(`session:${id}`).
Room(i, s) == {k \in Sockets : InRoom(k) /\ host[k] = i /\ ses[k] = s}

\* The sockets of S on instance i are cut off.  The disconnect handler, which
\* returns the slot, is registered when the sync is over, not before.
Disconnect(S, i) ==
  LET handled == {k \in S : stage[k] = "live"}
  IN  /\ up' = [k \in Sockets |-> up[k] /\ k \notin S]
      /\ stage' = [k \in Sockets |-> IF k \in handled THEN "gone" ELSE stage[k]]
      /\ count' = [count EXCEPT ![i] = @ - Cardinality(handled)]
      /\ UNCHANGED <<host, ses>>

-----------------------------------------------------------------------------
(* A handshake.                                                            *)

(* allowRequest                                                            *)
Arrive(k, i, s) ==
  /\ stage[k] = "none"
  /\ count[i] < MaxPerIp
  /\ Goto(k, "arrived")
  /\ host' = [host EXCEPT ![k] = i]
  /\ ses' = [ses EXCEPT ![k] = s]
  /\ up' = [up EXCEPT ![k] = TRUE]
  /\ UNCHANGED <<dbVars, count, queueVars, viewVars, pastVars, incidents>>

\* The handshake ends; the socket never gets as far as 'connection'.
Refused(k) ==
  /\ Goto(k, "gone")
  /\ up' = [up EXCEPT ![k] = FALSE]
  /\ UNCHANGED <<host, ses>>

\* Slip: the limit was looked at in allowRequest, and that will do.
ReserveUnchecked(k) ==
  /\ stage[k] = "arrived" /\ up[k]
  /\ Goto(k, "checking")
  /\ UNCHANGED <<host, ses, up>>
  /\ count' = [count EXCEPT ![host[k]] = @ + 1]
  /\ UNCHANGED <<dbVars, queueVars, viewVars, pastVars, incidents>>

(* socketAuthMiddleware up to its await: the limit, looked at once more,   *)
(* and the slot it reserves.                                               *)
Reserve(k) ==
  /\ stage[k] = "arrived" /\ up[k]
  /\ IF count[host[k]] < MaxPerIp
     THEN /\ Goto(k, "checking")
          /\ UNCHANGED <<host, ses, up>>
          /\ count' = [count EXCEPT ![host[k]] = @ + 1]
     ELSE Refused(k) /\ UNCHANGED count
  /\ UNCHANGED <<dbVars, queueVars, viewVars, pastVars, incidents>>

\* Slip: the slot is returned in the catch block and then once more.
ReleaseTwice(k) == count' = [count EXCEPT ![host[k]] = @ - 2]

Release(k) == count' = [count EXCEPT ![host[k]] = @ - 1]

(* isSessionActive answers ...                                             *)
CheckSession(k) ==
  /\ stage[k] = "checking"
  /\ IF ses[k] \in revoked
     THEN Refused(k) /\ Release(k)
     ELSE Goto(k, "admitted") /\ UNCHANGED <<host, ses, up, count>>
  /\ UNCHANGED <<dbVars, queueVars, viewVars, pastVars, incidents>>

\* Slip: the catch block keeps the slot.
CheckFailsKeeping(k) ==
  /\ stage[k] = "checking"
  /\ Incident
  /\ Refused(k)
  /\ UNCHANGED <<count, dbVars, queueVars, viewVars, pastVars>>

(* ... or throws.                                                          *)
CheckFails(k) ==
  /\ stage[k] = "checking"
  /\ Incident
  /\ Refused(k) /\ Release(k)
  /\ UNCHANGED <<dbVars, queueVars, viewVars, pastVars>>

(* The 'connection' handler up to its await: both rooms are joined.        *)
Connect(k) ==
  /\ stage[k] = "admitted" /\ up[k]
  /\ Goto(k, "joined")
  /\ late' = IF ses[k] \in told[host[k]] THEN late \cup {k} ELSE late
  /\ UNCHANGED <<dbVars, host, ses, up, count, queueVars, viewVars,
                 published, told, unheard, incidents>>

\* Socket.IO drops a socket whose transport closed during the handshake.
Drop(k) ==
  /\ ~up[k]
  /\ \/ stage[k] = "arrived" /\ Goto(k, "gone")
     \/ stage[k] = "admitted" /\ Goto(k, "dropped")
  /\ UNCHANGED <<dbVars, host, ses, up, count, queueVars, viewVars, pastVars,
                 incidents>>

Newest(S) == {n \in S : Cardinality({m \in S : m > n}) < SyncLimit}

(* getUnreadNotificationsForUser; the sync event carries what it returns.  *)
QueryUnread(k) ==
  /\ stage[k] = "joined"
  /\ Goto(k, "queried")
  /\ LET unread == {n \in Notes : note[n] = "unread"}
     IN  /\ got' = [got EXCEPT ![k] = @ \cup Newest(unread)]
         /\ skipped' = [skipped EXCEPT ![k] = unread \ Newest(unread)]
  /\ UNCHANGED <<dbVars, host, ses, up, count, queueVars, pastVars, incidents>>

\* The handler ends by listening for 'disconnect'.
Listen(k) == Goto(k, IF up[k] THEN "live" ELSE "lost")

Ready(k) ==
  /\ stage[k] = "queried"
  /\ Listen(k)
  /\ UNCHANGED <<dbVars, host, ses, up, count, queueVars, viewVars, pastVars,
                 incidents>>

\* The socket stays connected without a sync.
QueryFails(k) ==
  /\ stage[k] = "joined"
  /\ Incident
  /\ Listen(k)
  /\ UNCHANGED <<dbVars, host, ses, up, count, queueVars, viewVars, pastVars>>

(* The client goes away, or is cut off for sending too much.               *)
Leave(k) ==
  /\ up[k]
  /\ Disconnect({k}, host[k])
  /\ UNCHANGED <<dbVars, queueVars, viewVars, pastVars, incidents>>

-----------------------------------------------------------------------------
(* Notifications and revocations.                                          *)

CreateNote(n) ==
  /\ note[n] = "absent"
  /\ note' = [note EXCEPT ![n] = "unread"]
  /\ UNCHANGED <<revoked, socketVars, count, queueVars, viewVars, pastVars,
                 incidents>>

\* markAsRead or deleteNotification; doing so again changes nothing.
ReadNote(n) ==
  /\ note[n] # "absent"
  /\ note' = [note EXCEPT ![n] = "read"]
  /\ UNCHANGED <<revoked, socketVars, count, queueVars, viewVars, pastVars,
                 incidents>>

(* emitToUser; an event that is delivered again is published again.        *)
PublishNote(n) ==
  /\ note[n] # "absent"
  /\ IF n \in published THEN Incident ELSE UNCHANGED incidents
  /\ notes' = [i \in Instances |-> notes[i] \cup {n}]
  /\ published' = published \cup {n}
  /\ UNCHANGED <<dbVars, socketVars, count, toAnnounce, kicks, viewVars, told,
                 unheard, late>>

(* deliverLocally                                                          *)
HearNote(i, n) ==
  /\ n \in notes[i]
  /\ notes' = [notes EXCEPT ![i] = @ \ {n}]
  /\ got' = [k \in Sockets |->
       IF InRoom(k) /\ host[k] = i THEN got[k] \cup {n} ELSE got[k]]
  /\ UNCHANGED <<dbVars, socketVars, count, toAnnounce, kicks, skipped,
                 pastVars, incidents>>

(* A request at instance i commits the end of a session.                   *)
RevokeSession(i, s) ==
  /\ s \notin revoked
  /\ revoked' = revoked \cup {s}
  /\ toAnnounce' = [toAnnounce EXCEPT ![i] = @ \cup {s}]
  /\ UNCHANGED <<note, socketVars, count, notes, kicks, viewVars, pastVars,
                 incidents>>

\* Instance i cuts off its own sockets of session s.
Kick(i, s) ==
  /\ Disconnect(Room(i, s), i)
  /\ told' = [told EXCEPT ![i] = @ \cup {s}]

\* Slip: the instance that revokes tells its own sockets only.
AnnounceAtHome(i, s) ==
  /\ s \in toAnnounce[i]
  /\ toAnnounce' = [toAnnounce EXCEPT ![i] = @ \ {s}]
  /\ Kick(i, s)
  /\ UNCHANGED <<kicks, dbVars, notes, viewVars, published, unheard, late,
                 incidents>>

(* publishSessionRevocation: at home first, then everywhere.               *)
Announce(i, s) ==
  /\ s \in toAnnounce[i]
  /\ toAnnounce' = [toAnnounce EXCEPT ![i] = @ \ {s}]
  /\ Kick(i, s)
  /\ kicks' = [j \in Instances |-> kicks[j] \cup {s}]
  /\ UNCHANGED <<dbVars, notes, viewVars, published, unheard, late, incidents>>

\* The instances other than i will not hear of the revocations of S.
KeepFromOthers(i, S) ==
  unheard' = [j \in Instances |-> IF j = i THEN unheard[j] ELSE unheard[j] \cup S]

\* Redis rejects it, which is logged and not tried again.
AnnounceFails(i, s) ==
  /\ s \in toAnnounce[i]
  /\ Incident
  /\ toAnnounce' = [toAnnounce EXCEPT ![i] = @ \ {s}]
  /\ Kick(i, s)
  /\ KeepFromOthers(i, {s})
  /\ UNCHANGED <<dbVars, notes, kicks, viewVars, published, late>>

(* disconnectSessionLocally                                                *)
HearRevocation(i, s) ==
  /\ s \in kicks[i]
  /\ kicks' = [kicks EXCEPT ![i] = @ \ {s}]
  /\ Kick(i, s)
  /\ UNCHANGED <<dbVars, toAnnounce, notes, viewVars, published, unheard, late,
                 incidents>>

(* Pub/sub keeps nothing for a subscriber that is away.                    *)
LoseMessages(i) ==
  /\ notes[i] # {} \/ kicks[i] # {}
  /\ Incident
  /\ notes' = [notes EXCEPT ![i] = {}]
  /\ kicks' = [kicks EXCEPT ![i] = {}]
  /\ unheard' = [unheard EXCEPT ![i] = @ \cup kicks[i]]
  /\ UNCHANGED <<dbVars, socketVars, count, toAnnounce, viewVars, published,
                 told, late>>

(* An instance dies, with what it had to announce, and another takes its   *)
(* place that has no sockets of sessions revoked before.                   *)
Crash(i) ==
  /\ Incident
  /\ LET here == {k \in Sockets : host[k] = i}
     IN  /\ stage' = [k \in Sockets |-> IF k \in here THEN "gone" ELSE stage[k]]
         /\ up' = [k \in Sockets |-> up[k] /\ k \notin here]
  /\ count' = [count EXCEPT ![i] = 0]
  /\ toAnnounce' = [toAnnounce EXCEPT ![i] = {}]
  /\ notes' = [notes EXCEPT ![i] = {}]
  /\ kicks' = [kicks EXCEPT ![i] = {}]
  /\ told' = [told EXCEPT ![i] = revoked]
  /\ KeepFromOthers(i, toAnnounce[i])
  /\ UNCHANGED <<dbVars, host, ses, viewVars, published, late>>

-----------------------------------------------------------------------------
SocketStep(k) ==
  \/ \E i \in Instances : \E s \in Sessions : Arrive(k, i, s)
  \/ Reserve(k) \/ CheckSession(k) \/ CheckFails(k) \/ Connect(k) \/ Drop(k)
  \/ QueryUnread(k) \/ QueryFails(k) \/ Ready(k) \/ Leave(k)

InstanceStep(i) ==
  \/ \E n \in Notes : HearNote(i, n)
  \/ \E s \in Sessions : \/ RevokeSession(i, s) \/ Announce(i, s)
                         \/ AnnounceFails(i, s) \/ HearRevocation(i, s)
  \/ LoseMessages(i) \/ Crash(i)

Next ==
  \/ \E k \in Sockets : SocketStep(k)
  \/ \E i \in Instances : InstanceStep(i)
  \/ \E n \in Notes : CreateNote(n) \/ ReadNote(n) \/ PublishNote(n)

Spec == Init /\ [][Next]_vars

-----------------------------------------------------------------------------
\* Sockets that have a slot on i, in their handshake or connected.
Served(i) ==
  {k \in Sockets : host[k] = i /\
     stage[k] \in {"checking", "admitted", "joined", "queried", "live"}}

Dropped(i) == {k \in Sockets : host[k] = i /\ stage[k] = "dropped"}
Lost(i)    == {k \in Sockets : host[k] = i /\ stage[k] = "lost"}

(* However handshakes overlap, an instance never serves more sockets of an *)
(* address than its limit.                                                 *)
LimitHolds == \A i \in Instances : Cardinality(Served(i)) <= MaxPerIp

(* The slots in use are those of the sockets being served and of those     *)
(* that went away before the disconnect handler was there.                 *)
SlotsAccountedFor ==
  \A i \in Instances :
    count[i] = Cardinality(Served(i) \cup Dropped(i) \cup Lost(i))

(* Joining the room before asking for the unread notifications leaves no   *)
(* gap: what was published and has reached the instance of a connected     *)
(* socket has been sent to it, live or with the sync, unless it was read   *)
(* or the sync was full.                                                   *)
NothingMissed ==
  incidents = 0 =>
    \A k \in Sockets : \A n \in published :
      stage[k] = "live" /\ note[n] = "unread" /\ n \notin notes[host[k]]
        => n \in got[k] \cup skipped[k]

(* Once a revocation has been announced and has reached a socket's         *)
(* instance, the socket is connected only if it passed its session check   *)
(* before and joined its room afterwards.  It takes a publish that failed, *)
(* a message that got lost or a crash of the instance that had it to send  *)
(* to keep the revocation from an instance.                                *)
RevokedSocketsCameLate ==
  \A k \in Sockets :
    /\ InRoom(k) /\ ses[k] \in revoked \ (kicks[host[k]] \cup unheard[host[k]])
    /\ \A i \in Instances : ses[k] \notin toAnnounce[i]
    => k \in late

-----------------------------------------------------------------------------
(* What the project says of itself.                                        *)

(* websocket.test.js: a slot is reserved during authentication and         *)
(* released on disconnect.  Sockets that never get as far as a disconnect  *)
(* event are left out of it.                                               *)
SlotsReturned ==
  \A i \in Instances : count[i] = Cardinality(Served(i) \cup Dropped(i))

=============================================================================
