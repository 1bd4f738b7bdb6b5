------------------------------ MODULE Sessions ------------------------------
(***************************************************************************)
(* Device sessions and their rotating refresh tokens: user_sessions and    *)
(* refresh_tokens, and the requests that work on them at the same time     *)
(* (auth.service.js over refreshToken.repository.js).                      *)
(*                                                                         *)
(* A request goes through its statements one by one and waits at a row     *)
(* another transaction has locked.  What a transaction writes shows when   *)
(* it commits, so the writes are made by the step that commits and until   *)
(* then the transaction only collects locks.  A statement that takes no    *)
(* lock anyone can be waiting for is part of the step that follows it.     *)
(*                                                                         *)
(* A tick is a day, far longer than a request: no tick falls into one.     *)
(* Access tokens carry their session; those issued before there were       *)
(* sessions lived for minutes.                                             *)
(***************************************************************************)
EXTENDS Integers, FiniteSets

CONSTANTS
  Users, Sessions, Tokens,
  LegacyTokens,         \* issued before there were sessions, hence without one
  Requests,             \* requests and timers being served at a time
  NoSession, NoToken, NoUser,
  Lifetime, Retention,  \* ticks a session lives unrefreshed, and is kept dead
  MaxIncidents          \* bound on crashes, failed statements, lost answers

ASSUME IdsAssumption ==
  /\ LegacyTokens \subseteq Tokens
  /\ NoSession \notin Sessions /\ NoToken \notin Tokens /\ NoUser \notin Users
ASSUME DatesAssumption ==
  /\ Lifetime \in Nat \ {0} /\ Retention \in Nat /\ Lifetime <= Retention
  /\ MaxIncidents \in Nat

VARIABLES
  session,    \* user_sessions, by id
  token,      \* refresh_tokens, by id
  kind,       \* what a request is
  pc,         \* the statement it is at
  tok,        \* the refresh token it came with
  todo,       \* sessions its statement has yet to reach, or it has to announce
  mine,       \* rows of user_sessions it has locked
  kept,       \* rows of refresh_tokens it has locked
  used,       \* history: refreshes with a token that committed or were answered,
              \* two standing for more
  asked,      \* history: sessions a logout was requested for
  announced,  \* history: sessions whose revocation went out over Redis
  incidents   \* how many of the MaxIncidents have happened

rows        == <<session, token>>
requestVars == <<kind, pc, tok, todo, mine, kept>>
historyVars == <<used, asked, announced>>
vars        == <<rows, requestVars, historyVars, incidents>>

Days == -(Retention + 1)..Lifetime

SessionRow == [status : {"absent", "active", "revoked", "deleted"},
               user   : Users \cup {NoUser},
               ttl    : Days,             \* ticks until expires_at
               since  : 0..Retention+1]   \* ticks since revoked_at

\* A rotated token is revoked and knows the one that replaced it.
TokenRow == [status  : {"absent", "live", "rotated", "revoked", "deleted"},
             user    : Users \cup {NoUser},
             session : Sessions \cup {NoSession},
             next    : Tokens \cup {NoToken},
             ttl     : Days]

Kinds  == {"none", "refresh", "logout", "logoutAll", "cleanup"}
Places == {"free", "token", "session", "reuse", "rotate", "logout", "sweep",
           "revoke", "cascade", "legacy", "announce"}

SessionsTypeOK ==
  /\ session \in [Sessions -> SessionRow]
  /\ token \in [Tokens -> TokenRow]
  /\ kind \in [Requests -> Kinds]
  /\ pc \in [Requests -> Places]
  /\ tok \in [Requests -> Tokens \cup {NoToken}]
  /\ todo \in [Requests -> SUBSET Sessions]
  /\ mine \in [Requests -> SUBSET Sessions]
  /\ kept \in [Requests -> SUBSET Tokens]
  /\ used \in [Tokens -> 0..2]
  /\ asked \subseteq Sessions
  /\ announced \subseteq Sessions
  /\ incidents \in 0..MaxIncidents

-----------------------------------------------------------------------------
(* Rows, and what the statements make of them.                             *)

Absent(r)  == r.status = "absent"
Exists(r)  == r.status \notin {"absent", "deleted"}
Expired(r) == r.ttl <= 0

\* revoked_at IS NULL AND expires_at > NOW()
Usable(r) == r.status = "active" /\ ~Expired(r)

NewSession(u) == [status |-> "active", user |-> u, ttl |-> Lifetime, since |-> 0]

NewToken(u, s) ==
  [status |-> "live", user |-> u, session |-> s, next |-> NoToken,
   ttl |-> Lifetime]

\* Slip: the new lifetime is added to what was left of the old one.
ProlongedFurther(r) == [r EXCEPT !.ttl = @ + Lifetime]

Prolonged(r) == [r EXCEPT !.ttl = Lifetime]

\* revoked_at = COALESCE(revoked_at, NOW())
Revoked(r) ==
  IF r.status = "active" THEN [r EXCEPT !.status = "revoked", !.since = 0] ELSE r

RotatedInto(r, t, s) ==
  [r EXCEPT !.status = "rotated", !.next = t, !.session = s]

DeletedSession(r) == [r EXCEPT !.status = "deleted", !.ttl = 0, !.since = 0]
DeletedToken(r)   == [r EXCEPT !.status = "deleted", !.ttl = 0]

\* Slip: a revoked session is dropped without the thirty days.
PurgeableAtOnce(r) == r.ttl < -Retention \/ r.status = "revoked"

\* expires_at or revoked_at < NOW() - INTERVAL '30 days'
Purgeable(r) ==
  \/ r.ttl < -Retention
  \/ r.status = "revoked" /\ r.since > Retention

-----------------------------------------------------------------------------
(* Requests and the row locks between them.                                *)

\* Slip: the token is read without FOR UPDATE.
TokenFreeAlways(t) == TRUE

TokenFree(t)   == \A q \in Requests : t \notin kept[q]
SessionFree(s) == \A q \in Requests : s \notin mine[q]

SessionOf(r) == token[tok[r]].session

\* The tokens that go when the sessions r has locked are deleted.
Children(r) ==
  {t \in Tokens : Exists(token[t]) /\ token[t].session \in mine[r]}

Goto(r, place) == pc' = [pc EXCEPT ![r] = place]

Begin(r, k, place, t, S) ==
  /\ pc[r] = "free"
  /\ kind' = [kind EXCEPT ![r] = k]
  /\ Goto(r, place)
  /\ tok' = [tok EXCEPT ![r] = t]
  /\ todo' = [todo EXCEPT ![r] = S]
  /\ UNCHANGED <<mine, kept>>

\* The request is over and its connection back in the pool.
Finish(r) ==
  /\ kind' = [kind EXCEPT ![r] = "none"]
  /\ Goto(r, "free")
  /\ tok' = [tok EXCEPT ![r] = NoToken]
  /\ todo' = [todo EXCEPT ![r] = {}]
  /\ mine' = [mine EXCEPT ![r] = {}]
  /\ kept' = [kept EXCEPT ![r] = {}]

\* Its transaction has committed; what is left is to announce S.
FinishAnnouncing(r, S) ==
  IF S = {} THEN Finish(r)
  ELSE /\ Goto(r, "announce")
       /\ todo' = [todo EXCEPT ![r] = S]
       /\ mine' = [mine EXCEPT ![r] = {}]
       /\ kept' = [kept EXCEPT ![r] = {}]
       /\ UNCHANGED <<kind, tok>>

Counted(t) == [used EXCEPT ![t] = IF @ < 2 THEN @ + 1 ELSE @]

Incident == incidents < MaxIncidents /\ incidents' = incidents + 1

\* A commit whose answer gets lost is a commit all the same.
Committed(lost) == IF lost THEN Incident ELSE UNCHANGED incidents

\* Legacy tokens are as good as new, and may have been revoked by a logout.
Init ==
  /\ session = [s \in Sessions |-> [status |-> "absent", user |-> NoUser,
                                    ttl |-> 0, since |-> 0]]
  /\ \E old \in [LegacyTokens -> [status : {"live", "revoked"}, user : Users]] :
       token = [t \in Tokens |-> IF t \in LegacyTokens
                 THEN [NewToken(old[t].user, NoSession)
                         EXCEPT !.status = old[t].status]
                 ELSE [status |-> "absent", user |-> NoUser,
                       session |-> NoSession, next |-> NoToken, ttl |-> 0]]
  /\ kind = [r \in Requests |-> "none"]
  /\ pc = [r \in Requests |-> "free"]
  /\ tok = [r \in Requests |-> NoToken]
  /\ todo = [r \in Requests |-> {}]
  /\ mine = [r \in Requests |-> {}]
  /\ kept = [r \in Requests |-> {}]
  /\ used = [t \in Tokens |-> 0]
  /\ asked = {} /\ announced = {}
  /\ incidents = 0

-----------------------------------------------------------------------------
(* refreshAccessToken                                                      *)

StartRefresh(r, t) ==
  /\ ~Absent(token[t])
  /\ Begin(r, "refresh", "token", t, {})
  /\ UNCHANGED <<rows, historyVars, incidents>>

\* The refresh ends in an answer and changes nothing.
Answer(r) ==
  /\ Finish(r)
  /\ used' = Counted(tok[r])
  /\ UNCHANGED <<rows, asked, announced, incidents>>

\* SELECT ... FOR UPDATE has returned the row of r's token.
Found(r) == pc[r] = "token" /\ Exists(token[tok[r]]) /\ TokenFree(tok[r])

KeepToken(r, place) ==
  /\ kept' = [kept EXCEPT ![r] = {tok[r]}]
  /\ Goto(r, place)
  /\ UNCHANGED <<rows, kind, tok, todo, mine, historyVars, incidents>>

TokenUnknown(r) ==
  /\ pc[r] = "token"
  /\ ~Exists(token[tok[r]])
  /\ Answer(r)

\* Slip: the date is looked at before revoked_at.
TokenReplayedUnexpired(r) ==
  /\ Found(r)
  /\ token[tok[r]].status = "rotated"
  /\ IF Expired(token[tok[r]]) THEN Answer(r) ELSE KeepToken(r, "reuse")

TokenReplayed(r) ==
  /\ Found(r)
  /\ token[tok[r]].status = "rotated"
  /\ KeepToken(r, "reuse")

\* Slip: the early return leaves the transaction open.
TokenRefusedOpen(r) ==
  /\ Found(r)
  /\ \/ token[tok[r]].status = "revoked"
     \/ token[tok[r]].status = "live" /\ Expired(token[tok[r]])
  /\ kept' = [kept EXCEPT ![r] = {tok[r]}]
  /\ Goto(r, "free")
  /\ UNCHANGED <<rows, kind, tok, todo, mine, historyVars, incidents>>

TokenRefused(r) ==
  /\ Found(r)
  /\ \/ token[tok[r]].status = "revoked"
     \/ token[tok[r]].status = "live" /\ Expired(token[tok[r]])
  /\ Answer(r)

TokenAccepted(r) ==
  /\ Found(r)
  /\ token[tok[r]].status = "live" /\ ~Expired(token[tok[r]])
  /\ KeepToken(r, IF SessionOf(r) = NoSession THEN "rotate" ELSE "session")

\* Slip: the session is read without FOR UPDATE.
LockSessionUnlocked(r) ==
  /\ pc[r] = "session"
  /\ Usable(session[SessionOf(r)])
  /\ Goto(r, "rotate")
  /\ UNCHANGED <<rows, kind, tok, todo, mine, kept, historyVars, incidents>>

(* lockActiveSession: a row that is not active is not waited for, and one  *)
(* that was waited for is looked at again.                                 *)
LockSession(r) ==
  /\ pc[r] = "session"
  /\ Usable(session[SessionOf(r)])
  /\ SessionFree(SessionOf(r))
  /\ mine' = [mine EXCEPT ![r] = {SessionOf(r)}]
  /\ Goto(r, "rotate")
  /\ UNCHANGED <<rows, kind, tok, todo, kept, historyVars, incidents>>

SessionOver(r) ==
  /\ pc[r] = "session"
  /\ ~Usable(session[SessionOf(r)])
  /\ Answer(r)

\* createSession for a token that has none, storeRefreshToken with t,
\* rotateRefreshToken, COMMIT.
Rotate(r, s, t, lost) ==
  /\ pc[r] = "rotate"
  /\ Absent(token[t])
  /\ IF SessionOf(r) = NoSession THEN Absent(session[s]) ELSE s = SessionOf(r)
  /\ session' = [session EXCEPT ![s] =
       IF Absent(@) THEN NewSession(token[tok[r]].user) ELSE Prolonged(@)]
  /\ token' = [token EXCEPT ![tok[r]] = RotatedInto(@, t, s),
                            ![t] = NewToken(token[tok[r]].user, s)]
  /\ Finish(r)
  /\ used' = Counted(tok[r])
  /\ Committed(lost)
  /\ UNCHANGED <<asked, announced>>

\* The bound on ids: past it a statement fails and the transaction with it.
OutOfIds(r) ==
  /\ pc[r] = "rotate"
  /\ \/ \A t \in Tokens : ~Absent(token[t])
     \/ SessionOf(r) = NoSession /\ \A s \in Sessions : ~Absent(session[s])
  /\ Finish(r)
  /\ UNCHANGED <<rows, historyVars, incidents>>

\* Slip: a replay deletes the session and, by the foreign key, its tokens.
RevokeForReuseDeleting(r) ==
  /\ pc[r] = "reuse"
  /\ SessionFree(SessionOf(r))
  /\ mine' = [mine EXCEPT ![r] = {SessionOf(r)}]
  /\ Goto(r, "cascade")
  /\ UNCHANGED <<rows, kind, tok, todo, kept, historyVars, incidents>>

(* revokeSessionForReuse                                                   *)
RevokeForReuse(r) ==
  /\ pc[r] = "reuse"
  /\ SessionFree(SessionOf(r))
  /\ mine' = [mine EXCEPT ![r] = {SessionOf(r)}]
  /\ Goto(r, "revoke")
  /\ UNCHANGED <<rows, kind, tok, todo, kept, historyVars, incidents>>

-----------------------------------------------------------------------------
(* logoutSession, logoutAllSessions and what they share with a replay.     *)

RevokedRows(S) ==
  [s \in Sessions |-> IF s \in S THEN Revoked(session[s]) ELSE session[s]]

\* Slip: a replay revokes the session and tells nobody.
CommitRevocationQuietly(r, lost) ==
  /\ pc[r] = "revoke"
  /\ session' = RevokedRows(mine[r])
  /\ FinishAnnouncing(r, IF lost \/ kind[r] = "refresh" THEN {} ELSE mine[r])
  /\ used' = IF kind[r] = "refresh" THEN Counted(tok[r]) ELSE used
  /\ Committed(lost)
  /\ UNCHANGED <<token, asked, announced>>

(* COMMIT of a replay or of UPDATE ... RETURNING over all sessions.        *)
CommitRevocation(r, lost) ==
  /\ pc[r] = "revoke"
  /\ session' = RevokedRows(mine[r])
  /\ FinishAnnouncing(r, IF lost THEN {} ELSE mine[r])
  /\ used' = IF kind[r] = "refresh" THEN Counted(tok[r]) ELSE used
  /\ Committed(lost)
  /\ UNCHANGED <<token, asked, announced>>

\* requireAuth: the caller's own session is active when it is looked up.
Authorised(u) == \E s \in Sessions : Usable(session[s]) /\ session[s].user = u

\* Slip: any session can be named, whoever it belongs to.
StartLogoutOfAny(r, s) ==
  /\ \E u \in Users : Authorised(u)
  /\ ~Absent(session[s])
  /\ Begin(r, "logout", "logout", NoToken, {s})
  /\ asked' = IF Authorised(session[s].user) THEN asked \cup {s} ELSE asked
  /\ UNCHANGED <<rows, used, announced, incidents>>

\* Of another user's session the statement matches no row.
StartLogout(r, s) ==
  /\ Authorised(session[s].user)
  /\ Begin(r, "logout", "logout", NoToken, {s})
  /\ asked' = asked \cup {s}
  /\ UNCHANGED <<rows, used, announced, incidents>>

(* revokeSession, a single UPDATE outside any transaction.                 *)
Logout(r, lost) ==
  /\ pc[r] = "logout"
  /\ \A s \in todo[r] : SessionFree(s)
  /\ session' = RevokedRows(todo[r])
  /\ FinishAnnouncing(r,
       IF lost THEN {} ELSE {s \in todo[r] : Exists(session[s])})
  /\ Committed(lost)
  /\ UNCHANGED <<token, historyVars>>

\* A statement over several rows reaches them one by one, in no set order.
AfterSweep(k) == IF k = "logoutAll" THEN "revoke" ELSE "cascade"

StartLogoutAll(r, u) ==
  /\ Authorised(u)
  /\ LET S == {s \in Sessions : session[s].status = "active"
                                /\ session[s].user = u}
     IN  /\ Begin(r, "logoutAll", "sweep", NoToken, S)
         /\ asked' = asked \cup S
  /\ UNCHANGED <<rows, used, announced, incidents>>

\* A row that had to be waited for is looked at again.
StillMeant(r, s) ==
  IF kind[r] = "logoutAll" THEN session[s].status = "active"
  ELSE Exists(session[s]) /\ Purgeable(session[s])

Sweep(r, s) ==
  /\ pc[r] = "sweep"
  /\ s \in todo[r]
  /\ SessionFree(s)
  /\ mine' = IF StillMeant(r, s)
             THEN [mine EXCEPT ![r] = @ \cup {s}] ELSE mine
  /\ todo' = [todo EXCEPT ![r] = @ \ {s}]
  /\ Goto(r, IF todo[r] = {s} THEN AfterSweep(kind[r]) ELSE "sweep")
  /\ UNCHANGED <<rows, kind, tok, kept, historyVars, incidents>>

(* publishSessionRevocation; the announcements of one request run at once. *)
Announced(r, s) ==
  /\ pc[r] = "announce"
  /\ s \in todo[r]
  /\ FinishAnnouncing(r, todo[r] \ {s})
  /\ UNCHANGED <<rows, used, asked>>

Announce(r, s) ==
  /\ Announced(r, s)
  /\ announced' = announced \cup {s}
  /\ UNCHANGED incidents

\* Redis rejects it: that is logged and the request goes on.
AnnounceFails(r, s) ==
  /\ Announced(r, s)
  /\ Incident
  /\ UNCHANGED announced

-----------------------------------------------------------------------------
(* createUserSession, and cleanupExpiredSessions after it or by a timer.   *)

PurgeableSessions ==
  {s \in Sessions : Exists(session[s]) /\ Purgeable(session[s])}

\* Tokens that never got a session are left to a second statement; one that
\* was revoked has been so for Lifetime - ttl ticks.
OldLegacy ==
  {t \in Tokens : /\ Exists(token[t]) /\ token[t].session = NoSession
                  /\ \/ token[t].ttl < -Retention
                     \/ token[t].status = "revoked"
                          /\ Lifetime - token[t].ttl > Retention}

\* Statements that find nothing to delete are left out.
BeginCleanup(r) ==
  Begin(r, "cleanup", IF PurgeableSessions = {} THEN "legacy" ELSE "sweep",
        NoToken, PurgeableSessions)

NothingToPurge == PurgeableSessions = {} /\ OldLegacy = {}

StartCleanup(r) ==
  /\ ~NothingToPurge
  /\ BeginCleanup(r)
  /\ UNCHANGED <<rows, historyVars, incidents>>

\* Rows of both tables outlive what they stand for, so they tell who is there.
Registered(u) == \/ \E s \in Sessions : session[s].user = u
                 \/ \E t \in Tokens : token[t].user = u

CreateUserSession(r, u, s, t) ==
  /\ pc[r] = "free"
  /\ Absent(session[s]) /\ Absent(token[t])
  /\ session' = [session EXCEPT ![s] = NewSession(u)]
  /\ token' = [token EXCEPT ![t] = NewToken(u, s)]

\* registerUser: the address is looked for, and of two registrations that
\* both find it free the unique constraint lets one commit.
Register(r, u, s, t, lost) ==
  /\ ~Registered(u)
  /\ CreateUserSession(r, u, s, t)
  /\ Committed(lost)
  /\ UNCHANGED <<requestVars, historyVars>>

Login(r, u, s, t, lost) ==
  /\ Registered(u)
  /\ CreateUserSession(r, u, s, t)
  /\ IF lost \/ NothingToPurge
     THEN UNCHANGED requestVars ELSE BeginCleanup(r)
  /\ Committed(lost)
  /\ UNCHANGED historyVars

\* ON DELETE CASCADE locks the tokens after the sessions.
Cascade(r, t) ==
  /\ pc[r] = "cascade"
  /\ t \in Children(r) \ kept[r]
  /\ TokenFree(t)
  /\ kept' = [kept EXCEPT ![r] = @ \cup {t}]
  /\ UNCHANGED <<rows, kind, pc, tok, todo, mine, historyVars, incidents>>

Purge(r) ==
  /\ pc[r] = "cascade"
  /\ Children(r) \subseteq kept[r]
  /\ session' = [s \in Sessions |->
       IF s \in mine[r] THEN DeletedSession(session[s]) ELSE session[s]]
  /\ token' = [t \in Tokens |->
       IF t \in Children(r) THEN DeletedToken(token[t]) ELSE token[t]]
  /\ IF OldLegacy = {} THEN Finish(r)
     ELSE /\ Goto(r, "legacy")
          /\ mine' = [mine EXCEPT ![r] = {}]
          /\ kept' = [kept EXCEPT ![r] = {}]
          /\ UNCHANGED <<kind, tok, todo>>
  /\ UNCHANGED <<historyVars, incidents>>

PurgeLegacy(r) ==
  /\ pc[r] = "legacy"
  /\ \A t \in OldLegacy : TokenFree(t)
  /\ token' = [t \in Tokens |->
       IF t \in OldLegacy THEN DeletedToken(token[t]) ELSE token[t]]
  /\ Finish(r)
  /\ UNCHANGED <<session, historyVars, incidents>>

-----------------------------------------------------------------------------
(* What goes wrong.                                                        *)

(* A statement fails or the process dies: the open transaction is rolled   *)
(* back, and what was still to be announced is not.                        *)
Abort(r) ==
  /\ pc[r] # "free"
  /\ Incident
  /\ Finish(r)
  /\ UNCHANGED <<rows, historyVars>>

\* The rows a request may take next; it is blocked when all are taken.
WantedSessions(r) ==
  CASE pc[r] = "session" ->
         IF Usable(session[SessionOf(r)]) THEN {SessionOf(r)} ELSE {}
    [] pc[r] = "reuse" -> {SessionOf(r)}
    [] pc[r] \in {"logout", "sweep"} -> todo[r]
    [] OTHER -> {}

WantedTokens(r) ==
  CASE pc[r] = "token" -> IF Exists(token[tok[r]]) THEN {tok[r]} ELSE {}
    [] pc[r] = "cascade" -> Children(r) \ kept[r]
    [] OTHER -> {}

Stuck(r, D) ==
  /\ WantedSessions(r) # {} \/ WantedTokens(r) # {}
  /\ \A s \in WantedSessions(r) : \E q \in D \ {r} : s \in mine[q]
  /\ \A t \in WantedTokens(r) : \E q \in D \ {r} : t \in kept[q]

Deadlocked(D) == D # {} /\ \A r \in D : Stuck(r, D)

(* PostgreSQL finds the cycle and lets one of the transactions fail.       *)
DeadlockVictim(r) ==
  /\ \E D \in SUBSET Requests :
       /\ r \in D /\ Deadlocked(D)
       /\ \A C \in SUBSET D : Deadlocked(C) => C = D
  /\ Finish(r)
  /\ UNCHANGED <<rows, historyVars, incidents>>

Aged(r) ==
  [r EXCEPT !.ttl = IF Exists(r) /\ @ >= -Retention THEN @ - 1 ELSE @]

AgedSession(r) ==
  [Aged(r) EXCEPT !.since =
     IF r.status = "revoked" /\ @ <= Retention THEN @ + 1 ELSE @]

Tick ==
  /\ \A r \in Requests : pc[r] = "free"
  /\ session' = [s \in Sessions |-> AgedSession(session[s])]
  /\ token' = [t \in Tokens |-> Aged(token[t])]
  /\ UNCHANGED <<requestVars, historyVars, incidents>>

-----------------------------------------------------------------------------
\* A request that has begun goes on.
RequestStep(r) ==
  \/ TokenUnknown(r) \/ TokenReplayed(r) \/ TokenRefused(r) \/ TokenAccepted(r)
  \/ LockSession(r) \/ SessionOver(r) \/ RevokeForReuse(r)
  \/ \E s \in Sessions : \E t \in Tokens : Rotate(r, s, t, FALSE)
  \/ OutOfIds(r)
  \/ CommitRevocation(r, FALSE) \/ Logout(r, FALSE)
  \/ \E s \in Sessions : Sweep(r, s) \/ Announce(r, s)
  \/ \E t \in Tokens : Cascade(r, t)
  \/ Purge(r) \/ PurgeLegacy(r)
  \/ DeadlockVictim(r)

RequestIncident(r) ==
  \/ \E s \in Sessions : \E t \in Tokens : Rotate(r, s, t, TRUE)
  \/ CommitRevocation(r, TRUE) \/ Logout(r, TRUE)
  \/ \E s \in Sessions : AnnounceFails(r, s)
  \/ Abort(r)

RequestBegins(r) ==
  \/ \E t \in Tokens : StartRefresh(r, t)
  \/ \E s \in Sessions : StartLogout(r, s)
  \/ \E u \in Users : StartLogoutAll(r, u)
  \/ \E u \in Users : \E s \in Sessions : \E t \in Tokens :
       \E lost \in BOOLEAN :
         Register(r, u, s, t, lost) \/ Login(r, u, s, t, lost)
  \/ StartCleanup(r)

Next ==
  \/ \E r \in Requests : RequestStep(r) \/ RequestIncident(r) \/ RequestBegins(r)
  \/ Tick

Spec == Init /\ [][Next]_vars

(* Statements return, and whoever waits for a row gets its turn: the       *)
(* database queues those who wait for a lock.                              *)
FairSpec == Spec /\ \A r \in Requests : SF_vars(RequestStep(r))

-----------------------------------------------------------------------------
(* A session that exists has exactly one token that refreshes it.          *)
OneLiveToken ==
  \A s \in Sessions : Exists(session[s]) =>
    Cardinality({t \in Tokens :
      token[t].session = s /\ token[t].status = "live"}) = 1

(* Whoever exchanges a token that was exchanged before has ended the       *)
(* session by the time of the answer, whether the two followed each other  *)
(* or ran at the same time, and however old the token is.                  *)
ReplayIsFatal ==
  \A t \in Tokens :
    used[t] = 2 /\ token[t].session # NoSession
      => ~Usable(session[token[t].session])

(* Sessions do not end by themselves: somebody asked for it, or one of the *)
(* session's tokens was used more than once.                               *)
EveryRevocationHasACause ==
  \A s \in Sessions : session[s].status = "revoked" =>
    s \in asked \/ \E t \in Tokens : token[t].session = s /\ used[t] = 2

Unannounced(s) ==
  /\ session[s].status = "revoked"
  /\ s \notin announced
  /\ ~\E r \in Requests : pc[r] = "announce" /\ s \in todo[r]

(* Each revocation is announced to the sockets, whoever made it and        *)
(* whatever has failed before: only a failure of its own step, between the *)
(* commit and the answer from Redis, keeps the news from going out.        *)
NothingUnannounced ==
  [][\A s \in Sessions :
       Unannounced(s)' /\ ~Unannounced(s) => incidents' > incidents]_vars

(* Refreshes and single logouts never lock each other out: it takes a      *)
(* statement over several rows to close a circle.                          *)
DeadlocksNeedASweep ==
  \A D \in SUBSET Requests :
    Deadlocked(D) => \E r \in D : kind[r] \in {"logoutAll", "cleanup"}

(* A token is forgotten only when it has expired, so that every token that *)
(* is still good for something is recognised when it comes back.           *)
PurgeTakesOnlyTheExpired ==
  [][\A t \in Tokens :
       Exists(token[t]) /\ ~Exists(token'[t]) => Expired(token[t])]_vars

(* Every request comes to an end, whoever it has to wait for.              *)
RequestsEnd == \A r \in Requests : pc[r] # "free" ~> pc[r] = "free"

-----------------------------------------------------------------------------
(* The promise to the holders of tokens, implemented.                      *)

\* A session that has expired counts as open until it is revoked or deleted:
\* nothing happens to it when the day comes, and no statement reopens it.
Phase(r) ==
  CASE r.status = "absent" -> "unborn"
    [] r.status = "active" -> "open"
    [] OTHER -> "ended"

Issued(s) == {t \in Tokens : token[t].session = s}
Latest(s) == {t \in Issued(s) : token[t].next = NoToken}

Family == INSTANCE TokenFamily WITH
  phase   <- [s \in Sessions |-> Phase(session[s])],
  current <- [s \in Sessions |-> IF Latest(s) = {} THEN NoToken
                                 ELSE CHOOSE t \in Latest(s) : TRUE],
  spent   <- [s \in Sessions |-> Issued(s) \ Latest(s)]

FamilySpec == Family!Spec

=============================================================================
