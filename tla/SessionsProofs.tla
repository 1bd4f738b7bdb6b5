--------------------------- MODULE SessionsProofs ---------------------------
(***************************************************************************)
(* Proofs about Sessions, for any numbers of users, sessions, tokens and   *)
(* requests, whatever fails and in whatever order statements take turns.   *)
(***************************************************************************)
EXTENDS Sessions, FiniteSetTheorems, TLAPS

-----------------------------------------------------------------------------
(***************************************************************************)
(* The inductive invariant.                                                *)
(***************************************************************************)

\* What a request does decides where it can be ...
PlacesOf(k) ==
  CASE k = "none"      -> {"free"}
    [] k = "refresh"   -> {"token", "session", "reuse", "rotate", "revoke",
                           "announce"}
    [] k = "logout"    -> {"logout", "announce"}
    [] k = "logoutAll" -> {"sweep", "revoke", "announce"}
    [] OTHER           -> {"sweep", "cascade", "legacy"}

\* ... and both decide which locks it can have.
InPlace(r) ==
  /\ pc[r] \in PlacesOf(kind[r])
  /\ kind[r] = "refresh" =>
       /\ tok[r] \in Tokens /\ ~Absent(token[tok[r]])
       /\ kept[r] = IF pc[r] \in {"token", "announce"} THEN {} ELSE {tok[r]}
  /\ kind[r] # "refresh" /\ pc[r] # "cascade" => kept[r] = {}
  /\ pc[r] \notin {"rotate", "revoke", "sweep", "cascade"} => mine[r] = {}
  /\ kind[r] \in {"logout", "logoutAll"} /\ pc[r] # "announce" =>
       todo[r] \cup mine[r] \subseteq asked

\* Every request is where its kind can be, with the locks of that place.
RequestsInPlace == \A r \in Requests : InPlace(r)

\* Two transactions never have the same row.
LocksExclude ==
  \A q, r \in Requests : q # r => mine[q] \cap mine[r] = {}
                                  /\ kept[q] \cap kept[r] = {}

\* What a transaction has read of a row it has locked is still so.
Knows(r) ==
  /\ \A s \in mine[r] : Exists(session[s])
  /\ \A t \in kept[r] : Exists(token[t])
  /\ kind[r] = "cleanup" => \A s \in mine[r] : Purgeable(session[s])
  /\ pc[r] \in {"session", "rotate"} =>
       token[tok[r]].status = "live" /\ ~Expired(token[tok[r]])
  /\ pc[r] = "session" => SessionOf(r) # NoSession
  /\ pc[r] = "rotate" =>
       IF SessionOf(r) = NoSession THEN mine[r] = {}
       ELSE mine[r] = {SessionOf(r)} /\ Usable(session[SessionOf(r)])
  /\ kind[r] = "refresh" /\ pc[r] \in {"reuse", "revoke"} =>
       token[tok[r]].status = "rotated"
  /\ kind[r] = "refresh" /\ pc[r] = "revoke" => mine[r] = {SessionOf(r)}

\* That is what row locks are for.
LocksProtect == \A r \in Requests : Knows(r)

\* A token of a session lives and dies with it and expires no later.
TokensFollowSessions ==
  \A t \in Tokens : token[t].session # NoSession =>
    LET s == session[token[t].session] IN
    /\ ~Absent(s)
    /\ \/ token[t].status = "deleted" /\ s.status = "deleted"
       \/ /\ token[t].status \in {"live", "rotated"} /\ Exists(s)
          /\ token[t].ttl <= s.ttl
    /\ token[t].status = "live" => token[t].ttl = s.ttl

\* The history of a token is in its status.
TokensTellTheirPast ==
  \A t \in Tokens :
    /\ token[t].status = "absent" =>
         token[t].session = NoSession /\ used[t] = 0
    /\ token[t].status = "live" => token[t].next = NoToken
    /\ token[t].status = "rotated" =>
         token[t].session # NoSession /\ token[t].next # NoToken /\ used[t] > 0
    /\ token[t].status = "live" /\ used[t] > 0 =>
         \/ Expired(token[t])
         \/ /\ token[t].session # NoSession
            /\ ~Usable(session[token[t].session])

\* The token a session has got last was not exchanged.
OneLatestToken ==
  \A s \in Sessions : ~Absent(session[s]) => \E t \in Tokens : Latest(s) = {t}

\* A session that has been revoked for long has expired.
RevokedExpire ==
  \A s \in Sessions : session[s].status = "revoked" =>
    session[s].ttl <= 0 \/ session[s].ttl + session[s].since <= Lifetime

\* What the rows of the two tables say of each other and of the past ...
TablesInv ==
  /\ TokensFollowSessions /\ TokensTellTheirPast /\ OneLatestToken
  /\ RevokedExpire /\ ReplayIsFatal

\* ... what every request knows while it works on them ...
RequestsInv == RequestsInPlace /\ LocksExclude /\ LocksProtect

\* ... and with the causes of revocations, all of it.
SessionsInv ==
  /\ SessionsTypeOK /\ TablesInv /\ RequestsInv
  /\ EveryRevocationHasACause

-----------------------------------------------------------------------------
(***************************************************************************)
(* What statements and days make of a row is a row again.                  *)
(***************************************************************************)

\* A day shortens what is left of a row that exists and changes nothing else.
LEMMA SessionAges ==
  ASSUME NEW r \in SessionRow
  PROVE  /\ AgedSession(r) \in SessionRow
         /\ AgedSession(r).status = r.status /\ AgedSession(r).user = r.user
         /\ AgedSession(r).ttl = Aged(r).ttl
         /\ AgedSession(r).since =
              IF r.status = "revoked" /\ r.since <= Retention
              THEN r.since + 1 ELSE r.since
<1> USE DatesAssumption DEF SessionRow, Days
<1> DEFINE ttl == IF Exists(r) /\ r.ttl >= -Retention THEN r.ttl - 1 ELSE r.ttl
           since == IF r.status = "revoked" /\ r.since <= Retention
                    THEN r.since + 1 ELSE r.since
<1>1. ttl \in Days /\ since \in 0..Retention+1  OBVIOUS
<1> HIDE DEF ttl, since
<1>2. Aged(r) = [r EXCEPT !.ttl = ttl]  BY DEF Aged, ttl
<1>3. Aged(r).since = r.since /\ Aged(r).ttl = ttl /\ Aged(r) \in SessionRow
  BY <1>1, <1>2
<1>4. AgedSession(r) = [Aged(r) EXCEPT !.since = since]
  BY <1>3 DEF AgedSession, since
<1>5. AgedSession(r) \in SessionRow /\ AgedSession(r).since = since
  BY <1>1, <1>3, <1>4
<1>6. QED BY <1>2, <1>3, <1>4, <1>5 DEF since

\* So do the statements over user_sessions ...
LEMMA SessionOps ==
  ASSUME NEW r \in SessionRow, NEW u \in Users \cup {NoUser}
  PROVE  /\ NewSession(u) \in SessionRow /\ Prolonged(r) \in SessionRow
         /\ Revoked(r) \in SessionRow /\ DeletedSession(r) \in SessionRow
<1> USE DatesAssumption DEF SessionRow, Days
<1>1. NewSession(u) \in SessionRow  BY DEF NewSession
<1>2. Prolonged(r) \in SessionRow  BY DEF Prolonged
<1>3. Revoked(r) \in SessionRow
  <2>1. 0 \in 0..Retention+1  OBVIOUS
  <2>2. CASE r.status = "active"  BY <2>1, <2>2 DEF Revoked
  <2>3. QED BY <2>2 DEF Revoked
<1>4. DeletedSession(r) \in SessionRow
  <2>1. 0 \in 0..Retention+1 /\ 0 \in Days  OBVIOUS
  <2>2. QED BY <2>1 DEF DeletedSession
<1>5. QED BY <1>1, <1>2, <1>3, <1>4

\* ... and over refresh_tokens.
LEMMA TokenOps ==
  ASSUME NEW r \in TokenRow, NEW u \in Users \cup {NoUser},
         NEW t \in Tokens, NEW s \in Sessions \cup {NoSession}
  PROVE  /\ NewToken(u, s) \in TokenRow /\ RotatedInto(r, t, s) \in TokenRow
         /\ DeletedToken(r) \in TokenRow /\ Aged(r) \in TokenRow
<1> USE DatesAssumption DEF TokenRow, Days
<1>1. NewToken(u, s) \in TokenRow  BY DEF NewToken
<1>2. RotatedInto(r, t, s) \in TokenRow  BY DEF RotatedInto
<1>3. DeletedToken(r) \in TokenRow
  <2>1. 0 \in Days  OBVIOUS
  <2>2. QED BY <2>1 DEF DeletedToken
<1>4. Aged(r) \in TokenRow
  <2> DEFINE ttl == IF Exists(r) /\ r.ttl >= -Retention
                    THEN r.ttl - 1 ELSE r.ttl
  <2>1. ttl \in Days  OBVIOUS
  <2> HIDE DEF ttl
  <2>2. Aged(r) = [r EXCEPT !.ttl = ttl]  BY DEF Aged, ttl
  <2>3. QED BY <2>1, <2>2
<1>5. QED BY <1>1, <1>2, <1>3, <1>4

-----------------------------------------------------------------------------
(***************************************************************************)
(* Type correctness.                                                       *)
(***************************************************************************)

\* The variables of the requests are well formed.
RequestVarsOK ==
  /\ kind \in [Requests -> Kinds] /\ pc \in [Requests -> Places]
  /\ tok \in [Requests -> Tokens \cup {NoToken}]
  /\ todo \in [Requests -> SUBSET Sessions]
  /\ mine \in [Requests -> SUBSET Sessions]
  /\ kept \in [Requests -> SUBSET Tokens]

\* Requests begin and end well formed.
LEMMA BeginType ==
  ASSUME RequestVarsOK, NEW r \in Requests, NEW k \in Kinds,
         NEW place \in Places, NEW t \in Tokens \cup {NoToken},
         NEW S \in SUBSET Sessions, Begin(r, k, place, t, S)
  PROVE  RequestVarsOK'
BY DEF RequestVarsOK, Begin, Goto

\* They end well formed ...
LEMMA FinishType ==
  ASSUME RequestVarsOK, NEW r \in Requests, Finish(r)
  PROVE  RequestVarsOK'
BY DEF RequestVarsOK, Finish, Goto, Kinds, Places

\* ... also those that go on to announce what they have committed.
LEMMA FinishAnnouncingType ==
  ASSUME RequestVarsOK, NEW r \in Requests, NEW S \in SUBSET Sessions,
         FinishAnnouncing(r, S)
  PROVE  RequestVarsOK'
<1>1. CASE S = {}  BY <1>1, FinishType DEF FinishAnnouncing
<1>2. CASE S # {}
  BY <1>2 DEF RequestVarsOK, FinishAnnouncing, Goto, Places
<1>3. QED BY <1>1, <1>2

\* What the cleanup is about.
LEMMA BeginCleanupType ==
  ASSUME RequestVarsOK, NEW r \in Requests, BeginCleanup(r)
  PROVE  RequestVarsOK'
<1>1. PurgeableSessions \in SUBSET Sessions  BY DEF PurgeableSessions
<1>2. QED BY <1>1, BeginType DEF BeginCleanup, Kinds, Places

\* The histories and the bound.
LEMMA CountedType ==
  ASSUME used \in [Tokens -> 0..2], NEW t \in Tokens
  PROVE  Counted(t) \in [Tokens -> 0..2]
BY DEF Counted

\* Incidents stay within their bound, whether an answer got lost or not.
LEMMA IncidentType ==
  ASSUME incidents \in 0..MaxIncidents, NEW lost \in BOOLEAN,
         Incident \/ Committed(lost) \/ UNCHANGED incidents
  PROVE  incidents' \in 0..MaxIncidents
BY DatesAssumption DEF Incident, Committed

\* Only refreshes are where a token is looked up.
LEMMA RefreshHasToken ==
  ASSUME SessionsTypeOK, RequestsInPlace, NEW r \in Requests
  PROVE  /\ pc[r] \in {"token", "session", "reuse", "rotate"}
              => kind[r] = "refresh"
         /\ kind[r] = "refresh" => tok[r] \in Tokens /\ token[tok[r]] \in TokenRow
         /\ pc[r] = "free" <=> kind[r] = "none"
         /\ pc[r] = "revoke" => kind[r] \in {"refresh", "logoutAll"}
         /\ pc[r] = "sweep" => kind[r] \in {"logoutAll", "cleanup"}
         /\ pc[r] \in {"cascade", "legacy"} => kind[r] = "cleanup"
         /\ pc[r] = "logout" => kind[r] = "logout"
         /\ pc[r] = "announce" => kind[r] \in {"refresh", "logout", "logoutAll"}
BY DEF SessionsTypeOK, RequestsInPlace, InPlace, PlacesOf, Kinds

\* The tables after each of the statements that write.
LEMMA TablesType ==
  ASSUME SessionsTypeOK, RequestsInPlace, NEW r \in Requests
  PROVE  /\ \A S \in SUBSET Sessions : RevokedRows(S) \in [Sessions -> SessionRow]
         /\ \A s \in Sessions, t \in Tokens :
              \A lost \in BOOLEAN : Rotate(r, s, t, lost) =>
                /\ session' \in [Sessions -> SessionRow]
                /\ token' \in [Tokens -> TokenRow]
         /\ \A u \in Users, s \in Sessions, t \in Tokens :
              CreateUserSession(r, u, s, t) =>
                /\ session' \in [Sessions -> SessionRow]
                /\ token' \in [Tokens -> TokenRow]
         /\ Purge(r) => /\ session' \in [Sessions -> SessionRow]
                        /\ token' \in [Tokens -> TokenRow]
         /\ PurgeLegacy(r) => token' \in [Tokens -> TokenRow]
<1>1. /\ session \in [Sessions -> SessionRow]
      /\ token \in [Tokens -> TokenRow]
      /\ \A q \in SessionRow : q.user \in Users \cup {NoUser}
      /\ \A q \in TokenRow : q.user \in Users \cup {NoUser}
  BY DEF SessionsTypeOK, SessionRow, TokenRow
<1>2. ASSUME NEW S \in SUBSET Sessions
      PROVE  RevokedRows(S) \in [Sessions -> SessionRow]
  BY <1>1, SessionOps DEF RevokedRows
<1>3. ASSUME NEW s \in Sessions, NEW t \in Tokens, NEW lost \in BOOLEAN,
             Rotate(r, s, t, lost)
      PROVE  /\ session' \in [Sessions -> SessionRow]
             /\ token' \in [Tokens -> TokenRow]
  <2>1. tok[r] \in Tokens /\ token[tok[r]] \in TokenRow
    BY <1>3, RefreshHasToken DEF Rotate
  <2>2. token[tok[r]].user \in Users \cup {NoUser}  BY <1>1, <2>1
  <2>3. session' \in [Sessions -> SessionRow]
    BY <1>1, <1>3, <2>2, SessionOps DEF Rotate
  <2>4. token' \in [Tokens -> TokenRow]
    BY <1>1, <1>3, <2>1, <2>2, TokenOps DEF Rotate
  <2>5. QED BY <2>3, <2>4
<1>4. ASSUME NEW u \in Users, NEW s \in Sessions, NEW t \in Tokens,
             CreateUserSession(r, u, s, t)
      PROVE  /\ session' \in [Sessions -> SessionRow]
             /\ token' \in [Tokens -> TokenRow]
  BY <1>1, <1>4, SessionOps, TokenOps DEF CreateUserSession
<1>5. ASSUME Purge(r)
      PROVE  /\ session' \in [Sessions -> SessionRow]
             /\ token' \in [Tokens -> TokenRow]
  BY <1>1, <1>5, SessionOps, TokenOps DEF Purge
<1>6. ASSUME PurgeLegacy(r) PROVE token' \in [Tokens -> TokenRow]
  BY <1>1, <1>6, TokenOps DEF PurgeLegacy
<1>7. QED BY <1>2, <1>3, <1>4, <1>5, <1>6

\* The tables after a day.
LEMMA TickType ==
  ASSUME SessionsTypeOK, Tick
  PROVE  /\ session' \in [Sessions -> SessionRow]
         /\ token' \in [Tokens -> TokenRow]
<1>1. ASSUME NEW t \in Tokens PROVE Aged(token[t]) \in TokenRow
  <2>1. token[t] \in TokenRow /\ NoSession \in Sessions \cup {NoSession}
        /\ NoUser \in Users \cup {NoUser}
    BY DEF SessionsTypeOK
  <2>2. QED BY <2>1, TokenOps
<1>2. QED BY <1>1, SessionAges DEF Tick, SessionsTypeOK

\* The first state is well formed, with any tokens of old.
LEMMA InitTypeOK == Init => SessionsTypeOK
<1> SUFFICES ASSUME Init PROVE SessionsTypeOK  OBVIOUS
<1> USE DatesAssumption, IdsAssumption
<1>1. session \in [Sessions -> SessionRow]
  BY DEF Init, SessionRow, Days
<1>2. token \in [Tokens -> TokenRow]
  <2>1. PICK old \in [LegacyTokens -> [status : {"live", "revoked"},
                                       user : Users]] :
          token = [t \in Tokens |-> IF t \in LegacyTokens
                     THEN [NewToken(old[t].user, NoSession)
                             EXCEPT !.status = old[t].status]
                     ELSE [status |-> "absent", user |-> NoUser,
                           session |-> NoSession, next |-> NoToken, ttl |-> 0]]
    BY DEF Init
  <2>2. ASSUME NEW t \in LegacyTokens
        PROVE  [NewToken(old[t].user, NoSession) EXCEPT !.status = old[t].status]
                 \in TokenRow
    <3>1. old[t].user \in Users /\ old[t].status \in {"live", "revoked"}
      BY <2>2
    <3>2. NewToken(old[t].user, NoSession) \in TokenRow
      BY <3>1 DEF NewToken, TokenRow, Days
    <3>3. QED BY <3>1, <3>2 DEF TokenRow
  <2>3. [status |-> "absent", user |-> NoUser, session |-> NoSession,
         next |-> NoToken, ttl |-> 0] \in TokenRow
    BY DEF TokenRow, Days
  <2>4. QED BY <2>1, <2>2, <2>3
<1>3. QED BY <1>1, <1>2 DEF Init, SessionsTypeOK, Kinds, Places

\* One step preserves the types, action by action.
LEMMA NextTypeOK ==
  ASSUME SessionsTypeOK, TokensTellTheirPast, RequestsInv, [Next]_vars
  PROVE  SessionsTypeOK'
<1> USE DEF rows, requestVars, historyVars
<1>0. /\ RequestVarsOK /\ used \in [Tokens -> 0..2]
      /\ session \in [Sessions -> SessionRow] /\ token \in [Tokens -> TokenRow]
      /\ asked \subseteq Sessions /\ announced \subseteq Sessions
      /\ incidents \in 0..MaxIncidents
      /\ RequestsInPlace
  BY DEF SessionsTypeOK, RequestVarsOK, RequestsInv
<1> DEFINE SessionsOK == session \in [Sessions -> SessionRow]
           TokensOK == token \in [Tokens -> TokenRow]
           UsedOK == used \in [Tokens -> 0..2]
           AskedOK == asked \subseteq Sessions /\ announced \subseteq Sessions
           IncidentsOK == incidents \in 0..MaxIncidents
<1>1. ASSUME RequestVarsOK', SessionsOK', TokensOK', UsedOK', AskedOK',
             IncidentsOK'
      PROVE  SessionsTypeOK'
  BY <1>1 DEF SessionsTypeOK, RequestVarsOK
<1>2. /\ kind' = kind /\ pc' = pc /\ tok' = tok /\ todo' = todo
           /\ mine' = mine /\ kept' = kept => RequestVarsOK'
      /\ (session' = session => SessionsOK') /\ (token' = token => TokensOK')
      /\ used' = used => UsedOK'
      /\ asked' = asked /\ announced' = announced => AskedOK'
      /\ incidents' = incidents => IncidentsOK'
  BY <1>0 DEF RequestVarsOK
<1>3. ASSUME NEW r \in Requests, Answer(r), tok[r] \in Tokens
      PROVE  SessionsTypeOK'
  BY <1>0, <1>1, <1>2, <1>3, FinishType, CountedType DEF Answer
<1>4. ASSUME NEW r \in Requests, NEW place \in Places, KeepToken(r, place),
             tok[r] \in Tokens
      PROVE  SessionsTypeOK'
  <2>1. RequestVarsOK'  BY <1>0, <1>4 DEF KeepToken, Goto, RequestVarsOK
  <2>2. QED BY <1>1, <1>2, <1>4, <2>1 DEF KeepToken
<1>5. ASSUME NEW r \in Requests, NEW s \in Sessions, NEW t \in Tokens,
             NEW lost \in BOOLEAN, Rotate(r, s, t, lost)
      PROVE  SessionsTypeOK'
  <2>1. tok[r] \in Tokens  BY <1>5, <1>0, RefreshHasToken DEF Rotate
  <2>2. SessionsOK' /\ TokensOK'  BY <1>5, <1>0, TablesType
  <2>3. RequestVarsOK' /\ UsedOK' /\ IncidentsOK'
    BY <1>0, <1>5, <2>1, FinishType, CountedType, IncidentType DEF Rotate
  <2>4. QED BY <1>1, <1>2, <1>5, <2>2, <2>3 DEF Rotate
<1>6. ASSUME NEW r \in Requests, NEW lost \in BOOLEAN, CommitRevocation(r, lost)
      PROVE  SessionsTypeOK'
  <2>1. mine[r] \in SUBSET Sessions  BY <1>0 DEF RequestVarsOK
  <2>2. SessionsOK'  BY <1>6, <2>1, <1>0, TablesType DEF CommitRevocation
  <2>3. RequestVarsOK'
    BY <1>0, <1>6, <2>1, FinishAnnouncingType DEF CommitRevocation
  <2>4. UsedOK'
    BY <1>0, <1>6, RefreshHasToken, CountedType DEF CommitRevocation
  <2>5. IncidentsOK'  BY <1>0, <1>6, IncidentType DEF CommitRevocation
  <2>6. QED BY <1>1, <1>2, <1>6, <2>2, <2>3, <2>4, <2>5 DEF CommitRevocation
<1>7. ASSUME NEW r \in Requests, NEW lost \in BOOLEAN, Logout(r, lost)
      PROVE  SessionsTypeOK'
  <2>1. todo[r] \in SUBSET Sessions  BY <1>0 DEF RequestVarsOK
  <2>2. SessionsOK'  BY <1>7, <2>1, <1>0, TablesType DEF Logout
  <2>3. {s \in todo[r] : Exists(session[s])} \in SUBSET Sessions  BY <2>1
  <2>4. RequestVarsOK' /\ IncidentsOK'
    BY <1>0, <1>7, <2>3, FinishAnnouncingType, IncidentType DEF Logout
  <2>5. QED BY <1>1, <1>2, <1>7, <2>2, <2>4 DEF Logout
<1>8. ASSUME NEW r \in Requests, RequestStep(r) PROVE SessionsTypeOK'
  <2>1. CASE TokenUnknown(r) \/ TokenRefused(r) \/ SessionOver(r)
    BY <1>3, <2>1, <1>0, RefreshHasToken DEF TokenUnknown, TokenRefused, SessionOver,
       Found
  <2>2. CASE TokenReplayed(r)
    BY <1>4, <2>2, <1>0, RefreshHasToken DEF TokenReplayed, Found, Places
  <2>3. CASE TokenAccepted(r)
    BY <1>4, <2>3, <1>0, RefreshHasToken DEF TokenAccepted, Found, Places
  <2>4. CASE LockSession(r)
    <3>1. SessionOf(r) \in Sessions
      BY <2>4, <1>0, RefreshHasToken
         DEF LockSession, SessionOf, TokenRow, RequestsInv, LocksProtect, Knows
    <3>2. RequestVarsOK'
      BY <1>0, <2>4, <3>1 DEF LockSession, Goto, RequestVarsOK, Places
    <3>3. QED BY <1>1, <1>2, <2>4, <3>2 DEF LockSession
  <2>5. CASE RevokeForReuse(r)
    <3>1. SessionOf(r) \in Sessions
      BY <2>5, <1>0, RefreshHasToken
         DEF RevokeForReuse, SessionOf, TokenRow, RequestsInv, LocksProtect,
             Knows, TokensTellTheirPast
    <3>2. RequestVarsOK'
      BY <1>0, <2>5, <3>1 DEF RevokeForReuse, Goto, RequestVarsOK, Places
    <3>3. QED BY <1>1, <1>2, <2>5, <3>2 DEF RevokeForReuse
  <2>6. CASE OutOfIds(r)
    BY <1>0, <1>1, <1>2, <2>6, FinishType DEF OutOfIds
  <2>7. CASE \E s \in Sessions : Sweep(r, s)
    <3>1. RequestVarsOK'
      BY <1>0, <2>7 DEF Sweep, AfterSweep, Goto, RequestVarsOK, Places
    <3>2. QED BY <1>1, <1>2, <2>7, <3>1 DEF Sweep
  <2>8. CASE \E t \in Tokens : Cascade(r, t)
    <3>1. RequestVarsOK'  BY <1>0, <2>8 DEF Cascade, RequestVarsOK
    <3>2. QED BY <1>1, <1>2, <2>8, <3>1 DEF Cascade
  <2>9. CASE Purge(r)
    <3>1. RequestVarsOK'
      <4>1. CASE Finish(r)  BY <1>0, <4>1, FinishType
      <4>2. CASE ~Finish(r)
        BY <1>0, <2>9, <4>2 DEF Purge, Goto, RequestVarsOK, Places
      <4>3. QED BY <4>1, <4>2
    <3>2. QED BY <1>1, <1>2, <2>9, <3>1, <1>0, TablesType DEF Purge
  <2>10. CASE PurgeLegacy(r)
    BY <1>0, <1>1, <1>2, <2>10, FinishType, TablesType DEF PurgeLegacy
  <2>11. CASE DeadlockVictim(r)
    BY <1>0, <1>1, <1>2, <2>11, FinishType DEF DeadlockVictim
  <2>12. CASE \E s \in Sessions : Announce(r, s)
    <3>1. PICK s \in Sessions : Announce(r, s)  BY <2>12
    <3>2. todo[r] \ {s} \in SUBSET Sessions  BY <1>0 DEF RequestVarsOK
    <3>3. RequestVarsOK'
      BY <1>0, <3>1, <3>2, FinishAnnouncingType DEF Announce, Announced
    <3>4. QED BY <1>0, <1>1, <1>2, <3>1, <3>3 DEF Announce, Announced
  <2>13. QED
    BY <1>5, <1>6, <1>7, <1>8, <2>1, <2>2, <2>3, <2>4, <2>5, <2>6, <2>7, <2>8,
       <2>9, <2>10, <2>11, <2>12 DEF RequestStep
<1>9. ASSUME NEW r \in Requests, RequestIncident(r) PROVE SessionsTypeOK'
  <2>1. CASE \E s \in Sessions : AnnounceFails(r, s)
    <3>1. PICK s \in Sessions : AnnounceFails(r, s)  BY <2>1
    <3>2. todo[r] \ {s} \in SUBSET Sessions  BY <1>0 DEF RequestVarsOK
    <3>3. RequestVarsOK' /\ IncidentsOK'
      BY <1>0, <3>1, <3>2, FinishAnnouncingType, IncidentType
         DEF AnnounceFails, Announced
    <3>4. QED BY <1>1, <1>2, <3>1, <3>3 DEF AnnounceFails, Announced
  <2>2. CASE Abort(r)
    BY <1>0, <1>1, <1>2, <2>2, FinishType, IncidentType DEF Abort
  <2>3. QED BY <1>5, <1>6, <1>7, <1>9, <2>1, <2>2 DEF RequestIncident
<1>10. ASSUME NEW r \in Requests, RequestBegins(r) PROVE SessionsTypeOK'
  <2>1. CASE \E t \in Tokens : StartRefresh(r, t)
    BY <1>0, <1>1, <1>2, <2>1, BeginType DEF StartRefresh, Kinds, Places
  <2>2. CASE \E s \in Sessions : StartLogout(r, s)
    <3>1. PICK s \in Sessions : StartLogout(r, s)  BY <2>2
    <3>2. Begin(r, "logout", "logout", NoToken, {s})  BY <3>1 DEF StartLogout
    <3>3. "logout" \in Kinds /\ "logout" \in Places /\ {s} \in SUBSET Sessions
      BY DEF Kinds, Places
    <3>4. RequestVarsOK'  BY <1>0, <3>2, <3>3, BeginType
    <3>5. QED BY <1>0, <1>1, <1>2, <3>1, <3>4 DEF StartLogout
  <2>3. CASE \E u \in Users : StartLogoutAll(r, u)
    <3>1. PICK u \in Users : StartLogoutAll(r, u)  BY <2>3
    <3> DEFINE S == {s \in Sessions : session[s].status = "active"
                                      /\ session[s].user = u}
    <3>2. Begin(r, "logoutAll", "sweep", NoToken, S) /\ asked' = asked \cup S
      BY <3>1 DEF StartLogoutAll
    <3>3. RequestVarsOK'
      <4>1. "logoutAll" \in Kinds /\ "sweep" \in Places /\ S \in SUBSET Sessions
        BY DEF Kinds, Places
      <4>2. QED BY <1>0, <3>2, <4>1, BeginType
    <3>4. QED BY <1>0, <1>1, <1>2, <3>1, <3>2, <3>3 DEF StartLogoutAll
  <2>4. ASSUME NEW u \in Users, NEW s \in Sessions, NEW t \in Tokens,
               NEW lost \in BOOLEAN,
               Register(r, u, s, t, lost) \/ Login(r, u, s, t, lost)
        PROVE  SessionsTypeOK'
    <3>1. CreateUserSession(r, u, s, t)  BY <2>4 DEF Register, Login
    <3>2. SessionsOK' /\ TokensOK'  BY <3>1, <1>0, TablesType
    <3>3. RequestVarsOK'
      BY <1>0, <1>2, <2>4, BeginCleanupType DEF Register, Login
    <3>4. IncidentsOK'  BY <1>0, <2>4, IncidentType DEF Register, Login
    <3>5. QED BY <1>1, <1>2, <2>4, <3>2, <3>3, <3>4 DEF Register, Login
  <2>5. CASE StartCleanup(r)
    BY <1>0, <1>1, <1>2, <2>5, BeginCleanupType DEF StartCleanup
  <2>6. QED BY <1>10, <2>1, <2>2, <2>3, <2>4, <2>5 DEF RequestBegins
<1>11. CASE Tick
  <2>1. SessionsOK' /\ TokensOK'
    BY <1>0, <1>11, TickType
  <2>2. QED BY <1>1, <1>2, <1>11, <2>1 DEF Tick
<1>12. CASE UNCHANGED vars  BY <1>1, <1>2, <1>12 DEF vars
<1>13. QED BY <1>8, <1>9, <1>10, <1>11, <1>12 DEF Next

-----------------------------------------------------------------------------
(***************************************************************************)
(* The tables, statement by statement.                                     *)
(***************************************************************************)

\* What a row is, field by field.
LEMMA Fields ==
  ASSUME SessionsTypeOK
  PROVE  /\ \A s \in Sessions :
              /\ session[s] \in SessionRow /\ session[s].ttl \in Int
              /\ session[s].since \in Int
         /\ \A t \in Tokens :
              /\ token[t] \in TokenRow /\ token[t].ttl \in Int
              /\ token[t].session \in Sessions \cup {NoSession}
              /\ token[t].next \in Tokens \cup {NoToken}
              /\ used[t] \in 0..2
         /\ Lifetime \in Nat \ {0} /\ Retention \in Nat /\ Lifetime <= Retention
BY DatesAssumption DEF SessionsTypeOK, SessionRow, TokenRow, Days

\* At first there are no sessions and no token has been used.
LEMMA InitTables == Init => TablesInv
<1> SUFFICES ASSUME Init PROVE TablesInv  OBVIOUS
<1>1. /\ \A s \in Sessions : session[s].status = "absent"
      /\ \A t \in Tokens : used[t] = 0
  BY DEF Init
<1>2. ASSUME NEW t \in Tokens
      PROVE  /\ token[t].session = NoSession /\ token[t].next = NoToken
             /\ token[t].status \in {"absent", "live", "revoked"}
  BY DEF Init, NewToken
<1>3. TokensFollowSessions  BY <1>2 DEF TokensFollowSessions
<1>4. TokensTellTheirPast  BY <1>1, <1>2 DEF TokensTellTheirPast
<1>5. OneLatestToken  BY <1>1 DEF OneLatestToken, Absent
<1>6. RevokedExpire  BY <1>1 DEF RevokedExpire
<1>7. ReplayIsFatal  BY <1>1 DEF ReplayIsFatal
<1>8. QED BY <1>3, <1>4, <1>5, <1>6, <1>7 DEF TablesInv

\* The tables and the history as they were.
LEMMA TablesStay ==
  ASSUME TablesInv, UNCHANGED <<session, token, used>>
  PROVE  TablesInv'
BY DEF TablesInv, TokensFollowSessions, TokensTellTheirPast, OneLatestToken,
       RevokedExpire, ReplayIsFatal, Latest, Issued

\* A refresh that is refused is counted, and its token is past use.
LEMMA RefusedIsCounted ==
  ASSUME SessionsTypeOK, TablesInv, NEW t \in Tokens,
         UNCHANGED <<session, token>>, used' = Counted(t),
         \/ token[t].status \in {"deleted", "revoked"}
         \/ /\ token[t].status = "live"
            /\ \/ Expired(token[t])
               \/ /\ token[t].session # NoSession
                  /\ ~Usable(session[token[t].session])
  PROVE  TablesInv'
<1>1. /\ \A x \in Tokens : x # t => used'[x] = used[x]
      /\ used'[t] \in 0..2 /\ used'[t] > 0
  BY Fields DEF Counted, SessionsTypeOK
<1>2. TokensFollowSessions' /\ OneLatestToken' /\ RevokedExpire'
  BY DEF TablesInv, TokensFollowSessions, OneLatestToken, RevokedExpire,
         Latest, Issued
<1>3. TokensTellTheirPast'
  BY <1>1 DEF TablesInv, TokensTellTheirPast
<1>4. token[t].session # NoSession => ~Usable(session[token[t].session])
  BY Fields DEF TablesInv, TokensFollowSessions, Usable, Expired
<1>5. ReplayIsFatal'
  BY <1>1, <1>4 DEF TablesInv, ReplayIsFatal
<1>6. QED BY <1>2, <1>3, <1>5 DEF TablesInv

\* Sessions that end take nothing from what is known of their tokens; a replay
\* that is counted has ended the session.
LEMMA RevocationKeepsTables ==
  ASSUME SessionsTypeOK, TablesInv, NEW S \in SUBSET Sessions,
         session' = RevokedRows(S), token' = token,
         \/ used' = used
         \/ \E t \in Tokens :
              /\ used' = Counted(t)
              /\ token[t].status = "rotated" /\ token[t].session \in S
  PROVE  TablesInv'
<1>1. ASSUME NEW s \in Sessions
      PROVE  /\ session'[s].ttl = session[s].ttl
             /\ Absent(session'[s]) <=> Absent(session[s])
             /\ Exists(session'[s]) <=> Exists(session[s])
             /\ session'[s].status = "deleted" <=> session[s].status = "deleted"
             /\ Usable(session'[s]) => Usable(session[s]) /\ s \notin S
             /\ \/ session'[s] = session[s]
                \/ session'[s].since = 0
  <2>1. session[s] \in SessionRow  BY Fields
  <2>2. session'[s] = IF s \in S THEN Revoked(session[s]) ELSE session[s]
    BY DEF RevokedRows
  <2>3. QED BY <2>1, <2>2
    DEF Revoked, SessionRow, Absent, Exists, Usable, Expired
<1>2. ASSUME NEW t \in Tokens
      PROVE  \/ used'[t] = used[t]
             \/ /\ token[t].status = "rotated" /\ token[t].session \in S
                /\ used[t] > 0 /\ used'[t] > 0
  <2>1. CASE used' = used  BY <2>1
  <2>2. ASSUME NEW v \in Tokens, used' = Counted(v),
               token[v].status = "rotated", token[v].session \in S
        PROVE  \/ used'[t] = used[t]
               \/ /\ t = v
                  /\ used[t] > 0 /\ used'[t] > 0
    <3>1. used[v] > 0  BY <2>2 DEF TablesInv, TokensTellTheirPast
    <3>2. used'[t] = IF t = v /\ used[t] < 2 THEN used[t] + 1 ELSE used[t]
      BY <2>2 DEF Counted, SessionsTypeOK
    <3>3. used[t] \in 0..2  BY Fields
    <3>4. QED BY <3>1, <3>2, <3>3
  <2>3. QED BY <2>1, <2>2
<1>3. TokensFollowSessions'
  BY <1>1, Fields DEF TablesInv, TokensFollowSessions
<1>4. TokensTellTheirPast'
  BY <1>1, <1>2, Fields DEF TablesInv, TokensTellTheirPast
<1>5. OneLatestToken'
  BY <1>1 DEF TablesInv, OneLatestToken, Latest, Issued
<1>6. RevokedExpire'
  <2>1. ASSUME NEW s \in Sessions PROVE session[s].ttl <= Lifetime
    BY Fields DEF SessionRow, Days
  <2>2. QED BY <1>1, <2>1, Fields DEF TablesInv, RevokedExpire
<1>7. ReplayIsFatal'
  BY <1>1, <1>2, Fields DEF TablesInv, ReplayIsFatal
<1>8. QED BY <1>3, <1>4, <1>5, <1>6, <1>7 DEF TablesInv

\* A session begins with a token of its own.
LEMMA CreationKeepsTables ==
  ASSUME SessionsTypeOK, TablesInv, NEW r \in Requests, NEW u \in Users,
         NEW s \in Sessions, NEW t \in Tokens, CreateUserSession(r, u, s, t),
         UNCHANGED used
  PROVE  TablesInv'
<1>1. /\ session'[s] = NewSession(u) /\ token'[t] = NewToken(u, s)
      /\ \A x \in Sessions : x # s => session'[x] = session[x]
      /\ \A x \in Tokens : x # t => token'[x] = token[x]
      /\ Absent(session[s]) /\ Absent(token[t])
  BY DEF CreateUserSession, SessionsTypeOK
<1>2. /\ session'[s].status = "active" /\ session'[s].ttl = Lifetime
      /\ token'[t].status = "live" /\ token'[t].ttl = Lifetime
      /\ token'[t].session = s /\ token'[t].next = NoToken
  BY <1>1 DEF NewSession, NewToken
<1>3. \A x \in Tokens : token[x].session # s
  BY <1>1, IdsAssumption DEF TablesInv, TokensFollowSessions
<1>4. token[t].session = NoSession /\ used[t] = 0
  BY <1>1 DEF TablesInv, TokensTellTheirPast, Absent
<1>5. TokensFollowSessions'
  BY <1>1, <1>2, <1>3, Fields
     DEF TablesInv, TokensFollowSessions, Exists, Absent
<1>6. TokensTellTheirPast'
  BY <1>1, <1>2, <1>3, <1>4, Fields DEF TablesInv, TokensTellTheirPast
<1>7. OneLatestToken'
  <2>1. Latest(s)' = {t}
    BY <1>1, <1>2, <1>3 DEF Latest, Issued
  <2>2. ASSUME NEW x \in Sessions, x # s PROVE Latest(x)' = Latest(x)
    BY <1>1, <1>2, <1>4, <2>2, IdsAssumption DEF Latest, Issued
  <2>3. QED BY <1>1, <2>1, <2>2 DEF TablesInv, OneLatestToken
<1>8. RevokedExpire'  BY <1>1, <1>2 DEF TablesInv, RevokedExpire
<1>9. ReplayIsFatal'
  <2>1. ASSUME NEW x \in Tokens, used[x] = 2, x # t,
               token[x].session # NoSession
        PROVE  ~Usable(session'[token[x].session])
    BY <1>1, <1>3, <2>1, Fields DEF TablesInv, ReplayIsFatal
  <2>2. QED BY <1>1, <1>4, <2>1 DEF ReplayIsFatal
<1>10. QED BY <1>5, <1>6, <1>7, <1>8, <1>9 DEF TablesInv

\* A refresh that is about to rotate has the one token of the session that
\* was never exchanged, or an old one and a session nobody has used yet.
LEMMA RotationFacts ==
  ASSUME SessionsTypeOK, TablesInv, RequestsInv, NEW r \in Requests,
         NEW s \in Sessions, NEW t \in Tokens, NEW lost \in BOOLEAN,
         Rotate(r, s, t, lost)
  PROVE  LET v == tok[r] IN
         /\ v \in Tokens /\ v # t /\ used[v] = 0 /\ token[v].status = "live"
         /\ token[v].next = NoToken
         /\ IF token[v].session = NoSession
            THEN Absent(session[s]) /\ mine[r] = {}
            ELSE /\ token[v].session = s /\ Usable(session[s])
                 /\ Latest(s) = {v} /\ mine[r] = {s}
         /\ Absent(token[t]) /\ token[t].session = NoSession /\ used[t] = 0
         /\ kept[r] = {v}
<1> DEFINE v == tok[r]
<1>0. pc[r] = "rotate"  BY DEF Rotate
<1>1. kind[r] = "refresh" /\ v \in Tokens /\ kept[r] = {v}
  BY <1>0, RefreshHasToken DEF RequestsInv, RequestsInPlace, InPlace
<1>2. token[v].status = "live" /\ ~Expired(token[v])
  BY <1>0 DEF RequestsInv, LocksProtect, Knows
<1>3. IF token[v].session = NoSession
      THEN Absent(session[s]) /\ mine[r] = {}
      ELSE token[v].session = s /\ Usable(session[s]) /\ mine[r] = {s}
  BY <1>0 DEF Rotate, SessionOf, RequestsInv, LocksProtect, Knows
<1>4. used[v] = 0 /\ token[v].next = NoToken
  BY <1>1, <1>2, <1>3, Fields DEF TablesInv, TokensTellTheirPast
<1>5. token[v].session # NoSession => Latest(s) = {v}
  BY <1>1, <1>3, <1>4
     DEF TablesInv, OneLatestToken, Latest, Issued, Usable, Absent
<1>6. Absent(token[t]) /\ token[t].session = NoSession /\ used[t] = 0 /\ v # t
  BY <1>2 DEF Rotate, Absent, TablesInv, TokensTellTheirPast
<1>7. QED BY <1>1, <1>2, <1>3, <1>4, <1>5, <1>6

\* What a rotation writes.
LEMMA RotationWrites ==
  ASSUME SessionsTypeOK, TablesInv, RequestsInv, NEW r \in Requests,
         NEW s \in Sessions, NEW t \in Tokens, NEW lost \in BOOLEAN,
         Rotate(r, s, t, lost)
  PROVE  LET v == tok[r] IN
         /\ \A x \in Sessions : x # s => session'[x] = session[x]
         /\ \A x \in Tokens \ {v, t} : token'[x] = token[x] /\ used'[x] = used[x]
         /\ session'[s].status = "active" /\ session'[s].ttl = Lifetime
         /\ token'[v].status = "rotated" /\ token'[v].ttl = token[v].ttl
         /\ token'[v].session = s /\ token'[v].next = t /\ used'[v] = 1
         /\ token'[t].status = "live" /\ token'[t].ttl = Lifetime
         /\ token'[t].session = s /\ token'[t].next = NoToken /\ used'[t] = 0
<1> DEFINE v == tok[r]
<1>1. v \in Tokens /\ v # t /\ used[v] = 0 /\ used[t] = 0
  BY RotationFacts
<1>2. /\ used' = [used EXCEPT ![v] = 1] /\ DOMAIN used = Tokens
      /\ DOMAIN token = Tokens /\ DOMAIN session = Sessions
      /\ token[v] \in TokenRow /\ session[s] \in SessionRow
  BY <1>1 DEF Rotate, Counted, SessionsTypeOK
<1>3. /\ session' = [session EXCEPT ![s] =
           IF Absent(@) THEN NewSession(token[v].user) ELSE Prolonged(@)]
      /\ token' = [token EXCEPT ![v] = RotatedInto(@, t, s),
                                ![t] = NewToken(token[v].user, s)]
  BY DEF Rotate
<1>4. Absent(session[s]) \/ session[s].status = "active"
  BY RotationFacts DEF Usable
<1>5. session'[s].status = "active" /\ session'[s].ttl = Lifetime
  BY <1>2, <1>3, <1>4 DEF NewSession, Prolonged, SessionRow, Absent
<1>6. token'[v] = RotatedInto(token[v], t, s)
      /\ token'[t] = NewToken(token[v].user, s)
  BY <1>1, <1>2, <1>3
<1>7. /\ token'[v].status = "rotated" /\ token'[v].ttl = token[v].ttl
      /\ token'[v].session = s /\ token'[v].next = t
  BY <1>2, <1>6 DEF RotatedInto, TokenRow
<1>8. /\ token'[t].status = "live" /\ token'[t].ttl = Lifetime
      /\ token'[t].session = s /\ token'[t].next = NoToken
  BY <1>6 DEF NewToken
<1>9. QED BY <1>1, <1>2, <1>3, <1>5, <1>7, <1>8

\* The token that was current is spent, the new one is, and no other is touched.
LEMMA RotationKeepsTables ==
  ASSUME SessionsTypeOK, TablesInv, RequestsInv, NEW r \in Requests,
         NEW s \in Sessions, NEW t \in Tokens, NEW lost \in BOOLEAN,
         Rotate(r, s, t, lost)
  PROVE  TablesInv'
<1> DEFINE v == tok[r]
<1>1. /\ v \in Tokens /\ v # t /\ used[v] = 0 /\ token[v].status = "live"
      /\ token[v].next = NoToken
      /\ IF token[v].session = NoSession THEN Absent(session[s])
         ELSE /\ token[v].session = s /\ Usable(session[s])
              /\ Latest(s) = {v}
      /\ token[t].session = NoSession
  BY RotationFacts
<1>2. /\ \A x \in Sessions : x # s => session'[x] = session[x]
      /\ \A x \in Tokens \ {v, t} : token'[x] = token[x] /\ used'[x] = used[x]
      /\ session'[s].status = "active" /\ session'[s].ttl = Lifetime
      /\ token'[v].status = "rotated" /\ token'[v].ttl = token[v].ttl
      /\ token'[v].session = s /\ token'[v].next = t /\ used'[v] = 1
      /\ token'[t].status = "live" /\ token'[t].ttl = Lifetime
      /\ token'[t].session = s /\ token'[t].next = NoToken /\ used'[t] = 0
  BY RotationWrites
<1> HIDE DEF v
<1>3. \A x \in Tokens : token[x] \in TokenRow /\ token[x].ttl \in Int
                        /\ token[x].ttl <= Lifetime
  BY Fields DEF TokenRow, Days
<1>4. ASSUME NEW x \in Tokens \ {v, t}, token[x].session = s
      PROVE  token[x].status = "rotated" /\ used[x] # 2
  <2>1. ~Absent(session[s]) /\ s # NoSession
    BY <1>4, IdsAssumption DEF TablesInv, TokensFollowSessions
  <2>2. Usable(session[s]) /\ Latest(s) = {v}  BY <1>1, <2>1
  <2>3. token[x].next # NoToken  BY <1>4, <2>2 DEF Latest, Issued
  <2>4. token[x].status \in {"live", "rotated"}
    BY <1>4, <2>1, <2>2 DEF TablesInv, TokensFollowSessions, Usable
  <2>5. used[x] # 2  BY <1>4, <2>1, <2>2 DEF TablesInv, ReplayIsFatal
  <2>6. QED BY <2>3, <2>4, <2>5 DEF TablesInv, TokensTellTheirPast
<1>5. TokensFollowSessions'
  <2>1. ASSUME NEW x \in Tokens \ {v, t}, token[x].session = s
        PROVE  token'[x].status = "rotated" /\ token'[x].ttl <= Lifetime
    BY <1>2, <1>3, <1>4, <2>1
  <2>2. ASSUME NEW x \in Tokens \ {v, t}, token[x].session # s
        PROVE  /\ token'[x] = token[x]
               /\ token[x].session # NoSession =>
                    session'[token[x].session] = session[token[x].session]
    BY <1>2, <2>2, Fields
  <2>3. ~Absent(session'[s]) /\ Exists(session'[s])
    BY <1>2 DEF Exists, Absent
  <2>4. ASSUME NEW x \in Tokens \ {v, t}, token'[x].session # NoSession
        PROVE  LET y == session'[token'[x].session] IN
               /\ ~Absent(y)
               /\ \/ token'[x].status = "deleted" /\ y.status = "deleted"
                  \/ /\ token'[x].status \in {"live", "rotated"} /\ Exists(y)
                     /\ token'[x].ttl <= y.ttl
               /\ token'[x].status = "live" => token'[x].ttl = y.ttl
    <3>1. CASE token[x].session = s  BY <1>2, <2>1, <2>3, <3>1
    <3>2. CASE token[x].session # s
      BY <2>2, <2>4, <3>2 DEF TablesInv, TokensFollowSessions
    <3>3. QED BY <3>1, <3>2
  <2>5. token'[v].ttl <= Lifetime  BY <1>1, <1>2, <1>3
  <2>6. Lifetime <= Lifetime  BY DatesAssumption
  <2>7. QED BY <1>2, <2>3, <2>4, <2>5, <2>6 DEF TokensFollowSessions
<1>6. TokensTellTheirPast'
  <2>1. ASSUME NEW x \in Tokens \ {v, t}, token'[x].status = "live",
               used'[x] > 0
        PROVE  \/ Expired(token'[x])
               \/ /\ token'[x].session # NoSession
                  /\ ~Usable(session'[token'[x].session])
    <3>1. token[x].session # s  BY <1>2, <1>4, <2>1
    <3>2. QED BY <1>2, <2>1, <3>1, Fields DEF TablesInv, TokensTellTheirPast
  <2>2. s # NoSession /\ t # NoToken  BY IdsAssumption
  <2>3. QED BY <1>1, <1>2, <2>1, <2>2 DEF TablesInv, TokensTellTheirPast
<1>7. OneLatestToken'
  <2>1. Latest(s)' = {t}
    <3>1. ASSUME NEW x \in Tokens \ {v, t}, token[x].session = s
          PROVE  token[x].next # NoToken
      BY <1>4, <3>1 DEF TablesInv, TokensTellTheirPast
    <3>2. t # NoToken  BY IdsAssumption
    <3>3. QED BY <1>1, <1>2, <3>1, <3>2 DEF Latest, Issued
  <2>2. ASSUME NEW x \in Sessions, x # s PROVE Latest(x)' = Latest(x)
    BY <1>1, <1>2, <2>2, IdsAssumption DEF Latest, Issued
  <2>3. QED BY <1>2, <2>1, <2>2 DEF TablesInv, OneLatestToken
<1>8. RevokedExpire'  BY <1>2 DEF TablesInv, RevokedExpire
<1>9. ReplayIsFatal'
  <2>1. ASSUME NEW x \in Tokens \ {v, t}, used'[x] = 2,
               token'[x].session # NoSession
        PROVE  ~Usable(session'[token'[x].session])
    <3>1. token[x].session # s  BY <1>2, <1>4, <2>1
    <3>2. QED BY <1>2, <2>1, <3>1, Fields DEF TablesInv, ReplayIsFatal
  <2>2. QED BY <1>2, <2>1 DEF ReplayIsFatal
<1>10. QED BY <1>5, <1>6, <1>7, <1>8, <1>9 DEF TablesInv

\* A cleanup deletes sessions and, with them, all tokens that go by them.
LEMMA PurgeKeepsTables ==
  ASSUME SessionsTypeOK, TablesInv, RequestsInv, NEW r \in Requests, Purge(r)
  PROVE  TablesInv'
<1>1. mine[r] \subseteq Sessions  BY DEF SessionsTypeOK
<1>2. ASSUME NEW s \in Sessions
      PROVE  /\ s \in mine[r] => session'[s].status = "deleted"
             /\ s \notin mine[r] => session'[s] = session[s]
  BY <1>2, Fields DEF Purge, DeletedSession, SessionRow
<1>3. ASSUME NEW t \in Tokens
      PROVE  /\ token'[t].session = token[t].session
             /\ token'[t].next = token[t].next
             /\ IF t \in Children(r) THEN token'[t].status = "deleted"
                                     ELSE token'[t] = token[t]
  <2>1. token'[t] = IF t \in Children(r) THEN DeletedToken(token[t]) ELSE token[t]
    BY DEF Purge
  <2>2. token[t] \in TokenRow  BY Fields
  <2>3. QED BY <2>1, <2>2 DEF DeletedToken, TokenRow
<1>4. used' = used  BY DEF Purge, historyVars
<1>5. ASSUME NEW t \in Tokens, token[t].session # NoSession,
             token[t].session \in mine[r]
      PROVE  token'[t].status = "deleted"
  <2>1. t \in Children(r) \/ token[t].status = "deleted"
    BY <1>5 DEF Children, TablesInv, TokensFollowSessions, Exists, Absent
  <2>2. QED BY <1>3, <2>1
<1>6. ASSUME NEW t \in Tokens, token[t].session \notin mine[r]
      PROVE  token'[t] = token[t]
  BY <1>3, <1>6 DEF Children
<1>7. TokensFollowSessions'
  BY <1>1, <1>2, <1>3, <1>5, <1>6, Fields
     DEF TablesInv, TokensFollowSessions, Absent
<1>8. TokensTellTheirPast'
  BY <1>1, <1>2, <1>3, <1>4, <1>5, <1>6, Fields, IdsAssumption
     DEF TablesInv, TokensTellTheirPast
<1>9. OneLatestToken'
  <2>1. \A s \in Sessions : Latest(s)' = Latest(s)  BY <1>3 DEF Latest, Issued
  <2>2. \A s \in mine[r] : ~Absent(session[s])
    BY DEF RequestsInv, LocksProtect, Knows, Exists, Absent
  <2>3. \A s \in Sessions : ~Absent(session'[s]) => ~Absent(session[s])
    BY <1>2, <2>2
  <2>4. QED BY <2>1, <2>3 DEF TablesInv, OneLatestToken
<1>10. RevokedExpire'  BY <1>2 DEF TablesInv, RevokedExpire
<1>11. ReplayIsFatal'
  BY <1>2, <1>3, <1>4, Fields DEF TablesInv, ReplayIsFatal, Usable
<1>12. QED BY <1>7, <1>8, <1>9, <1>10, <1>11 DEF TablesInv

\* Old tokens without a session leave nothing behind.
LEMMA PurgeLegacyKeepsTables ==
  ASSUME SessionsTypeOK, TablesInv, NEW r \in Requests, PurgeLegacy(r)
  PROVE  TablesInv'
<1>1. session' = session /\ used' = used  BY DEF PurgeLegacy, historyVars
<1>2. ASSUME NEW t \in Tokens
      PROVE  /\ token'[t].session = token[t].session
             /\ token'[t].next = token[t].next
             /\ token'[t] = token[t] \/ token'[t].status = "deleted"
             /\ token[t].session # NoSession => token'[t] = token[t]
  <2>1. token'[t] = IF t \in OldLegacy THEN DeletedToken(token[t]) ELSE token[t]
    BY DEF PurgeLegacy
  <2>2. token[t] \in TokenRow  BY Fields
  <2>3. t \in OldLegacy => token[t].session = NoSession  BY DEF OldLegacy
  <2>4. QED BY <2>1, <2>2, <2>3 DEF DeletedToken, TokenRow
<1>3. TokensFollowSessions'  BY <1>1, <1>2 DEF TablesInv, TokensFollowSessions
<1>4. TokensTellTheirPast'
  BY <1>1, <1>2 DEF TablesInv, TokensTellTheirPast
<1>5. OneLatestToken'
  BY <1>1, <1>2 DEF TablesInv, OneLatestToken, Latest, Issued
<1>6. RevokedExpire'  BY <1>1 DEF TablesInv, RevokedExpire
<1>7. ReplayIsFatal'  BY <1>1, <1>2 DEF TablesInv, ReplayIsFatal
<1>8. QED BY <1>3, <1>4, <1>5, <1>6, <1>7 DEF TablesInv

\* Sessions and their tokens age together.
LEMMA TickKeepsTables ==
  ASSUME SessionsTypeOK, TablesInv, Tick
  PROVE  TablesInv'
<1>1. used' = used  BY DEF Tick, historyVars
<1>2. ASSUME NEW s \in Sessions
      PROVE  /\ session'[s].status = session[s].status
             /\ session'[s].ttl = IF Exists(session[s])
                                     /\ session[s].ttl >= -Retention
                                  THEN session[s].ttl - 1 ELSE session[s].ttl
             /\ session'[s].since =
                  IF session[s].status = "revoked" /\ session[s].since <= Retention
                  THEN session[s].since + 1 ELSE session[s].since
             /\ session[s].ttl \in Int /\ session[s].since \in Int
             /\ session[s].ttl >= -(Retention + 1)
  <2>1. session[s] \in SessionRow  BY Fields
  <2>2. session'[s] = AgedSession(session[s])  BY DEF Tick
  <2>3. Aged(session[s]).ttl = IF Exists(session[s])
                                  /\ session[s].ttl >= -Retention
                               THEN session[s].ttl - 1 ELSE session[s].ttl
    BY <2>1 DEF Aged, SessionRow
  <2>4. session[s].ttl \in Days  BY <2>1 DEF SessionRow
  <2>5. QED BY <2>1, <2>2, <2>3, <2>4, SessionAges, Fields DEF Days
<1>3. ASSUME NEW t \in Tokens
      PROVE  /\ token'[t].status = token[t].status
             /\ token'[t].session = token[t].session
             /\ token'[t].next = token[t].next
             /\ token'[t].ttl = IF Exists(token[t]) /\ token[t].ttl >= -Retention
                                THEN token[t].ttl - 1 ELSE token[t].ttl
             /\ token[t].ttl \in Int
  <2>1. token[t] \in TokenRow  BY Fields
  <2>2. QED BY <2>1, Fields DEF Tick, Aged, TokenRow
<1>4. ASSUME NEW t \in Tokens, token[t].session # NoSession
      PROVE  token[t].session \in Sessions
  BY <1>4, Fields
<1>5. Retention \in Nat /\ Lifetime \in Nat /\ Lifetime <= Retention
  BY Fields
<1>6. TokensFollowSessions'
  BY <1>2, <1>3, <1>4, <1>5 DEF TablesInv, TokensFollowSessions, Exists, Absent
<1>7. ASSUME NEW s \in Sessions, Usable(session'[s]) PROVE Usable(session[s])
  BY <1>2, <1>5, <1>7 DEF Usable, Expired
<1>8. TokensTellTheirPast'
  <2>1. \A t \in Tokens : Expired(token[t]) => Expired(token'[t])
    BY <1>3 DEF Expired
  <2>2. QED BY <1>1, <1>3, <1>4, <1>7, <2>1 DEF TablesInv, TokensTellTheirPast
<1>9. OneLatestToken'
  <2>1. \A s \in Sessions : Latest(s)' = Latest(s)  BY <1>3 DEF Latest, Issued
  <2>2. QED BY <1>2, <2>1 DEF TablesInv, OneLatestToken, Absent
<1>10. RevokedExpire'
  BY <1>2, <1>5 DEF TablesInv, RevokedExpire, Exists
<1>11. ReplayIsFatal'
  BY <1>1, <1>3, <1>4, <1>7 DEF TablesInv, ReplayIsFatal
<1>12. QED BY <1>6, <1>8, <1>9, <1>10, <1>11 DEF TablesInv

\* Every step of every request and every day keeps what the tables say.
LEMMA NextTables ==
  ASSUME SessionsTypeOK, TablesInv, RequestsInv, [Next]_vars
  PROVE  TablesInv'
<1> USE DEF rows, requestVars, historyVars
<1>0. RequestsInPlace  BY DEF RequestsInv
<1>1. ASSUME NEW r \in Requests,
             TokenUnknown(r) \/ TokenRefused(r) \/ SessionOver(r)
      PROVE  TablesInv'
  <2>1. tok[r] \in Tokens /\ token[tok[r]] \in TokenRow
        /\ ~Absent(token[tok[r]])
    BY <1>0, <1>1, RefreshHasToken
       DEF TokenUnknown, TokenRefused, SessionOver, Found, RequestsInPlace, InPlace
  <2>2. UNCHANGED <<session, token>> /\ used' = Counted(tok[r])
    BY <1>1 DEF TokenUnknown, TokenRefused, SessionOver, Answer
  <2>3. CASE TokenUnknown(r)
    <3>1. token[tok[r]].status = "deleted"
      BY <2>1, <2>3 DEF TokenUnknown, Exists, Absent
    <3>2. QED BY <2>1, <2>2, <3>1, RefusedIsCounted
  <2>4. CASE TokenRefused(r)
    BY <2>1, <2>2, <2>4, RefusedIsCounted DEF TokenRefused
  <2>5. CASE SessionOver(r)
    <3>1. /\ token[tok[r]].status = "live" /\ token[tok[r]].session # NoSession
          /\ ~Usable(session[token[tok[r]].session])
      BY <2>5 DEF SessionOver, SessionOf, RequestsInv, LocksProtect, Knows
    <3>2. QED BY <2>1, <2>2, <3>1, RefusedIsCounted
  <2>6. QED BY <1>1, <2>3, <2>4, <2>5
<1>2. ASSUME NEW r \in Requests, NEW lost \in BOOLEAN, CommitRevocation(r, lost)
      PROVE  TablesInv'
  <2>1. mine[r] \in SUBSET Sessions /\ token' = token
        /\ session' = RevokedRows(mine[r])
    BY <1>2 DEF CommitRevocation, SessionsTypeOK
  <2>2. CASE kind[r] = "refresh"
    <3>1. /\ tok[r] \in Tokens /\ used' = Counted(tok[r])
          /\ token[tok[r]].status = "rotated"
          /\ token[tok[r]].session \in mine[r]
      BY <1>0, <1>2, <2>2, RefreshHasToken
         DEF CommitRevocation, RequestsInv, LocksProtect, Knows, SessionOf
    <3>2. QED BY <2>1, <3>1, RevocationKeepsTables
  <2>3. CASE kind[r] # "refresh"
    BY <1>2, <2>1, <2>3, RevocationKeepsTables DEF CommitRevocation
  <2>4. QED BY <2>2, <2>3
<1>3. ASSUME NEW r \in Requests, NEW lost \in BOOLEAN, Logout(r, lost)
      PROVE  TablesInv'
  <2>1. todo[r] \in SUBSET Sessions  BY DEF SessionsTypeOK
  <2>2. QED BY <1>3, <2>1, RevocationKeepsTables DEF Logout
<1>4. ASSUME NEW r \in Requests, RequestStep(r) PROVE TablesInv'
  <2>1. CASE TokenReplayed(r) \/ TokenAccepted(r)
    BY <2>1, TablesStay DEF TokenReplayed, TokenAccepted, KeepToken
  <2>2. CASE LockSession(r) \/ RevokeForReuse(r) \/ OutOfIds(r)
             \/ DeadlockVictim(r)
    BY <2>2, TablesStay DEF LockSession, RevokeForReuse, OutOfIds, DeadlockVictim
  <2>3. CASE \E s \in Sessions : Sweep(r, s) \/ Announce(r, s)
    BY <2>3, TablesStay DEF Sweep, Announce, Announced
  <2>4. CASE \E t \in Tokens : Cascade(r, t)
    BY <2>4, TablesStay DEF Cascade
  <2>5. QED
    BY <1>1, <1>2, <1>3, <1>4, <2>1, <2>2, <2>3, <2>4, RotationKeepsTables,
       PurgeKeepsTables, PurgeLegacyKeepsTables DEF RequestStep
<1>5. ASSUME NEW r \in Requests, RequestIncident(r) PROVE TablesInv'
  <2>1. CASE (\E s \in Sessions : AnnounceFails(r, s)) \/ Abort(r)
    BY <2>1, TablesStay DEF AnnounceFails, Announced, Abort
  <2>2. QED BY <1>2, <1>3, <1>5, <2>1, RotationKeepsTables DEF RequestIncident
<1>6. ASSUME NEW r \in Requests, RequestBegins(r) PROVE TablesInv'
  <2>1. CASE \E t \in Tokens : StartRefresh(r, t)
    BY <2>1, TablesStay DEF StartRefresh
  <2>2. CASE (\E s \in Sessions : StartLogout(r, s))
             \/ (\E u \in Users : StartLogoutAll(r, u)) \/ StartCleanup(r)
    BY <2>2, TablesStay DEF StartLogout, StartLogoutAll, StartCleanup
  <2>3. ASSUME NEW u \in Users, NEW s \in Sessions, NEW t \in Tokens,
               NEW lost \in BOOLEAN,
               Register(r, u, s, t, lost) \/ Login(r, u, s, t, lost)
        PROVE  TablesInv'
    BY <2>3, CreationKeepsTables DEF Register, Login
  <2>4. QED BY <1>6, <2>1, <2>2, <2>3 DEF RequestBegins
<1>7. CASE UNCHANGED vars  BY <1>7, TablesStay DEF vars
<1>8. QED BY <1>4, <1>5, <1>6, <1>7, TickKeepsTables DEF Next

-----------------------------------------------------------------------------
(***************************************************************************)
(* The requests and their locks.                                           *)
(***************************************************************************)

\* What a step of request r leaves to the others: all they do and hold ...
OthersWait(r) ==
  \A q \in Requests \ {r} :
    /\ kind'[q] = kind[q] /\ pc'[q] = pc[q] /\ tok'[q] = tok[q]
    /\ todo'[q] = todo[q] /\ mine'[q] = mine[q] /\ kept'[q] = kept[q]

\* ... and the rows they have locked. No step takes a row out of the tables or
\* a request for a logout back.
LocksHonoured(r) ==
  /\ \A q \in Requests \ {r} :
       /\ \A s \in mine[q] : session'[s] = session[s]
       /\ \A t \in kept[q] : token'[t] = token[t]
  /\ \A t \in Tokens : Absent(token'[t]) => Absent(token[t])
  /\ asked \subseteq asked'

\* Then the others are where they were and know what they knew.
LEMMA OthersKeepKnowing ==
  ASSUME RequestsInv, NEW r \in Requests, OthersWait(r), LocksHonoured(r),
         NEW q \in Requests \ {r}
  PROVE  InPlace(q)' /\ Knows(q)'
<1>1. InPlace(q) /\ Knows(q)
  BY DEF RequestsInv, RequestsInPlace, LocksProtect
<1>2. /\ kind'[q] = kind[q] /\ pc'[q] = pc[q] /\ tok'[q] = tok[q]
      /\ todo'[q] = todo[q] /\ mine'[q] = mine[q] /\ kept'[q] = kept[q]
  BY DEF OthersWait
<1>3. /\ \A s \in mine[q] : session'[s] = session[s]
      /\ \A t \in kept[q] : token'[t] = token[t]
      /\ \A t \in Tokens : Absent(token'[t]) => Absent(token[t])
      /\ asked \subseteq asked'
  BY DEF LocksHonoured
<1>4. InPlace(q)'  BY <1>1, <1>2, <1>3 DEF InPlace
<1>5. pc[q] \in {"session", "rotate", "reuse"}
        \/ (kind[q] = "refresh" /\ pc[q] = "revoke") => kept[q] = {tok[q]}
  BY <1>1 DEF InPlace, PlacesOf
<1>6. Knows(q)'
  <2>1. /\ \A s \in mine'[q] : Exists(session'[s])
        /\ \A t \in kept'[q] : Exists(token'[t])
        /\ kind'[q] = "cleanup" => \A s \in mine'[q] : Purgeable(session'[s])
    BY <1>1, <1>2, <1>3 DEF Knows
  <2>2. kept[q] = {tok[q]} => token'[tok[q]] = token[tok[q]]  BY <1>3
  <2>3. \A s : mine[q] = {s} => session'[s] = session[s]  BY <1>3
  <2>4. QED BY <1>1, <1>2, <1>5, <2>1, <2>2, <2>3 DEF Knows, SessionOf
<1>7. QED BY <1>4, <1>6

\* So only the request that steps has to be looked at.
LEMMA OneRequestSteps ==
  ASSUME RequestsInv, NEW r \in Requests, OthersWait(r), LocksHonoured(r),
         InPlace(r)', Knows(r)',
         \A q \in Requests \ {r} : /\ mine'[r] \cap mine[q] = {}
                                   /\ kept'[r] \cap kept[q] = {}
  PROVE  RequestsInv'
<1>1. \A q \in Requests : InPlace(q)' /\ Knows(q)'  BY OthersKeepKnowing
<1>2. RequestsInPlace'  BY <1>1 DEF RequestsInPlace
<1>3. LocksProtect'  BY <1>1 DEF LocksProtect
<1>4. LocksExclude'
  BY DEF LocksExclude, OthersWait, RequestsInv
<1>5. QED BY <1>2, <1>3, <1>4 DEF RequestsInv

\* A request that has let go of its locks knows nothing.
LEMMA KnowsNothing ==
  ASSUME NEW r \in Requests, mine'[r] = {}, kept'[r] = {},
         pc'[r] \notin {"session", "rotate", "reuse", "revoke"}
  PROVE  Knows(r)'
BY DEF Knows

\* A request that is over holds nothing.
LEMMA FinishedIsInPlace ==
  ASSUME SessionsTypeOK, RequestsInv, NEW r \in Requests, Finish(r),
         LocksHonoured(r)
  PROVE  RequestsInv'
<1>1. /\ kind'[r] = "none" /\ pc'[r] = "free" /\ todo'[r] = {}
      /\ mine'[r] = {} /\ kept'[r] = {}
  BY DEF Finish, Goto, SessionsTypeOK
<1>2. OthersWait(r)  BY DEF Finish, Goto, SessionsTypeOK, OthersWait
<1>3. InPlace(r)'  BY <1>1 DEF InPlace, PlacesOf
<1>4. Knows(r)'  BY <1>1, KnowsNothing
<1>5. QED BY <1>1, <1>2, <1>3, <1>4, OneRequestSteps

\* One that has committed and goes on to announce holds no lock any more.
LEMMA AnnouncingIsInPlace ==
  ASSUME SessionsTypeOK, RequestsInv, NEW r \in Requests, NEW S,
         FinishAnnouncing(r, S), LocksHonoured(r),
         kind[r] \in {"refresh", "logout", "logoutAll"}
  PROVE  RequestsInv'
<1>1. CASE S = {}  BY <1>1, FinishedIsInPlace DEF FinishAnnouncing
<1>2. CASE S # {}
  <2>1. /\ kind' = kind /\ tok' = tok /\ pc'[r] = "announce"
        /\ mine'[r] = {} /\ kept'[r] = {}
    BY <1>2 DEF FinishAnnouncing, Goto, SessionsTypeOK
  <2>2. OthersWait(r)
    BY <1>2 DEF FinishAnnouncing, Goto, SessionsTypeOK, OthersWait
  <2>3. InPlace(r)  BY DEF RequestsInv, RequestsInPlace
  <2>4. InPlace(r)'  BY <2>1, <2>3 DEF InPlace, PlacesOf, LocksHonoured
  <2>5. Knows(r)'  BY <2>1, KnowsNothing
  <2>6. QED BY <2>1, <2>2, <2>4, <2>5, OneRequestSteps
<1>3. QED BY <1>1, <1>2

\* One that begins holds none yet.
LEMMA BegunIsInPlace ==
  ASSUME SessionsTypeOK, RequestsInv, NEW r \in Requests, NEW k, NEW place,
         NEW t, NEW S, Begin(r, k, place, t, S), LocksHonoured(r),
         \/ k = "refresh" /\ place = "token" /\ t \in Tokens /\ ~Absent(token[t])
         \/ k = "logout" /\ place = "logout" /\ S \subseteq asked'
         \/ k = "logoutAll" /\ place = "sweep" /\ S \subseteq asked'
         \/ k = "cleanup" /\ place \in {"sweep", "legacy"}
  PROVE  RequestsInv'
<1>1. /\ pc[r] = "free" /\ pc'[r] = place /\ kind'[r] = k /\ tok'[r] = t
      /\ todo'[r] = S /\ mine' = mine /\ kept' = kept
  BY DEF Begin, Goto, SessionsTypeOK
<1>2. OthersWait(r)  BY DEF Begin, Goto, SessionsTypeOK, OthersWait
<1>3. InPlace(r)  BY DEF RequestsInv, RequestsInPlace
<1>4. kind[r] = "none"  BY <1>1, RefreshHasToken DEF RequestsInv
<1>5. mine[r] = {} /\ kept[r] = {}  BY <1>1, <1>3, <1>4 DEF InPlace
<1>6. InPlace(r)'  BY <1>1, <1>5 DEF InPlace, PlacesOf, LocksHonoured
<1>7. Knows(r)'  BY <1>1, <1>5, KnowsNothing
<1>8. QED BY <1>1, <1>2, <1>5, <1>6, <1>7, OneRequestSteps

\* A statement that writes nothing honours every lock.
LEMMA ReadersHonourLocks ==
  ASSUME NEW r \in Requests, UNCHANGED <<session, token>>, asked \subseteq asked'
  PROVE  LocksHonoured(r)
BY DEF LocksHonoured

\* One that writes what it has locked, or what nobody has, does so too.
LEMMA WritersHonourLocks ==
  ASSUME SessionsTypeOK, RequestsInv, NEW r \in Requests, asked' = asked,
         \A s \in Sessions : \/ session'[s] = session[s]
                             \/ s \in mine[r] \/ SessionFree(s)
                             \/ ~Exists(session[s]),
         \A t \in Tokens : /\ Absent(token'[t]) => Absent(token[t])
                           /\ \/ token'[t] = token[t]
                              \/ t \in kept[r] \/ TokenFree(t)
                              \/ ~Exists(token[t])
  PROVE  LocksHonoured(r)
<1>1. ASSUME NEW q \in Requests \ {r}, NEW s \in mine[q]
      PROVE  session'[s] = session[s]
  <2>1. s \in Sessions /\ ~SessionFree(s)
    BY DEF SessionsTypeOK, SessionFree
  <2>2. s \notin mine[r] /\ Exists(session[s])
    BY DEF RequestsInv, LocksExclude, LocksProtect, Knows
  <2>3. QED BY <2>1, <2>2
<1>2. ASSUME NEW q \in Requests \ {r}, NEW t \in kept[q]
      PROVE  token'[t] = token[t]
  <2>1. t \in Tokens /\ ~TokenFree(t)  BY DEF SessionsTypeOK, TokenFree
  <2>2. t \notin kept[r] /\ Exists(token[t])
    BY DEF RequestsInv, LocksExclude, LocksProtect, Knows
  <2>3. QED BY <2>1, <2>2
<1>3. QED BY <1>1, <1>2 DEF LocksHonoured

\* Nobody has locked a row that was not there: a creation ...
LEMMA CreationHonoursLocks ==
  ASSUME SessionsTypeOK, RequestsInv, NEW r \in Requests, NEW u \in Users,
         NEW s \in Sessions, NEW t \in Tokens, CreateUserSession(r, u, s, t),
         asked' = asked
  PROVE  LocksHonoured(r)
<1>1. /\ \A x \in Sessions : session'[x] = session[x] \/ ~Exists(session[x])
      /\ \A x \in Tokens : /\ token'[x] = token[x] \/ ~Exists(token[x])
                           /\ Absent(token'[x]) => Absent(token[x])
  BY DEF CreateUserSession, SessionsTypeOK, Exists, Absent
<1>2. QED BY <1>1, WritersHonourLocks

\* ... and a rotation, which also writes what it has locked, honour the locks.
LEMMA RotationHonoursLocks ==
  ASSUME SessionsTypeOK, TablesInv, RequestsInv, NEW r \in Requests,
         NEW s \in Sessions, NEW t \in Tokens, NEW lost \in BOOLEAN,
         Rotate(r, s, t, lost)
  PROVE  LocksHonoured(r)
<1> DEFINE v == tok[r]
<1>1. /\ v \in Tokens /\ kept[r] = {v} /\ Absent(token[t])
      /\ mine[r] = {s} \/ Absent(session[s])
  BY RotationFacts
<1>2. /\ \A x \in Sessions : x # s => session'[x] = session[x]
      /\ \A x \in Tokens \ {v, t} : token'[x] = token[x]
      /\ token'[v].status = "rotated" /\ token'[t].status = "live"
  BY RotationWrites
<1>3. asked' = asked  BY DEF Rotate
<1>4. \A x \in Sessions : \/ session'[x] = session[x]
                          \/ x \in mine[r] \/ ~Exists(session[x])
  BY <1>1, <1>2 DEF Exists, Absent
<1>5. \A x \in Tokens : /\ Absent(token'[x]) => Absent(token[x])
                        /\ \/ token'[x] = token[x]
                           \/ x \in kept[r] \/ ~Exists(token[x])
  BY <1>1, <1>2 DEF Exists, Absent
<1>6. QED BY <1>3, <1>4, <1>5, WritersHonourLocks

\* A revocation writes rows it has locked, or that are free when it commits.
LEMMA RevocationHonoursLocks ==
  ASSUME SessionsTypeOK, RequestsInv, NEW r \in Requests, asked' = asked,
         token' = token, NEW S \in SUBSET Sessions, session' = RevokedRows(S),
         S \subseteq mine[r] \/ \A s \in S : SessionFree(s)
  PROVE  LocksHonoured(r)
<1>1. \A s \in Sessions : s \in S \/ session'[s] = session[s]
  BY DEF RevokedRows
<1>2. QED BY <1>1, WritersHonourLocks

\* So do the statements of a cleanup.
LEMMA PurgesHonourLocks ==
  ASSUME SessionsTypeOK, RequestsInv, NEW r \in Requests,
         Purge(r) \/ PurgeLegacy(r)
  PROVE  LocksHonoured(r)
<1>1. asked' = asked  BY DEF Purge, PurgeLegacy, historyVars
<1>2. \A x \in Tokens : token[x] \in TokenRow  BY Fields
<1>3. \A x \in Tokens : token'[x] = token[x] \/ ~Absent(token'[x])
  BY <1>2 DEF Purge, PurgeLegacy, DeletedToken, TokenRow, Absent
<1>4. CASE Purge(r)
  <2>1. \A s \in Sessions : s \in mine[r] \/ session'[s] = session[s]
    BY <1>4 DEF Purge
  <2>2. \A t \in Tokens : t \in kept[r] \/ token'[t] = token[t]
    BY <1>4 DEF Purge
  <2>3. QED BY <1>1, <1>3, <2>1, <2>2, WritersHonourLocks
<1>5. CASE PurgeLegacy(r)
  <2>1. session' = session  BY <1>5 DEF PurgeLegacy
  <2>2. \A t \in Tokens : TokenFree(t) \/ token'[t] = token[t]
    BY <1>5 DEF PurgeLegacy
  <2>3. QED BY <1>1, <1>3, <2>1, <2>2, WritersHonourLocks
<1>6. QED BY <1>4, <1>5

\* SELECT ... FOR UPDATE has found the token and nobody else has it.
LEMMA KeepTokenInPlace ==
  ASSUME SessionsTypeOK, TablesInv, RequestsInv, NEW r \in Requests,
         TokenReplayed(r) \/ TokenAccepted(r)
  PROVE  RequestsInv'
<1> DEFINE v == tok[r]
<1>1. PICK place :
        /\ Found(r) /\ KeepToken(r, place)
        /\ \/ place = "reuse" /\ token[v].status = "rotated"
           \/ /\ token[v].status = "live" /\ ~Expired(token[v])
              /\ place = IF token[v].session = NoSession
                         THEN "rotate" ELSE "session"
  BY DEF TokenReplayed, TokenAccepted, SessionOf
<1>2. place \in {"reuse", "rotate", "session"}  BY <1>1
<1>3. InPlace(r) /\ kind[r] = "refresh" /\ v \in Tokens
  BY <1>1, RefreshHasToken DEF Found, RequestsInv, RequestsInPlace
<1>4. /\ kind' = kind /\ tok' = tok /\ todo' = todo /\ mine' = mine
      /\ kept'[r] = {v} /\ pc'[r] = place
      /\ UNCHANGED <<session, token, asked>>
  BY <1>1 DEF KeepToken, Goto, SessionsTypeOK, rows, historyVars
<1>5. OthersWait(r)  BY <1>1 DEF KeepToken, Goto, SessionsTypeOK, OthersWait
<1>6. LocksHonoured(r)  BY <1>4, ReadersHonourLocks
<1>7. mine[r] = {}  BY <1>1, <1>3 DEF InPlace, Found
<1>8. InPlace(r)'
  BY <1>2, <1>3, <1>4, <1>7 DEF InPlace, PlacesOf
<1>9. Knows(r)'
  BY <1>1, <1>2, <1>3, <1>4, <1>7 DEF Knows, SessionOf, Found
<1>10. \A q \in Requests \ {r} : kept'[r] \cap kept[q] = {}
  BY <1>1, <1>4 DEF Found, TokenFree
<1>11. QED BY <1>4, <1>5, <1>6, <1>7, <1>8, <1>9, <1>10, OneRequestSteps

\* The token's session is locked next, to prolong or to revoke it.
LEMMA LockSessionInPlace ==
  ASSUME SessionsTypeOK, TablesInv, RequestsInv, NEW r \in Requests,
         LockSession(r) \/ RevokeForReuse(r)
  PROVE  RequestsInv'
<1> DEFINE v == tok[r]
           s == token[v].session
<1>1. PICK place :
        /\ pc'[r] = place /\ mine'[r] = {s} /\ SessionFree(s)
        /\ \/ place = "rotate" /\ pc[r] = "session" /\ Usable(session[s])
           \/ place = "revoke" /\ pc[r] = "reuse"
        /\ kind' = kind /\ tok' = tok /\ todo' = todo /\ kept' = kept
        /\ UNCHANGED <<session, token, asked>>
  BY DEF LockSession, RevokeForReuse, SessionOf, Goto, SessionsTypeOK, rows,
         historyVars
<1>2. InPlace(r) /\ Knows(r) /\ kind[r] = "refresh" /\ v \in Tokens
  BY <1>1, RefreshHasToken DEF RequestsInv, RequestsInPlace, LocksProtect
<1>3. OthersWait(r)
  BY DEF LockSession, RevokeForReuse, Goto, SessionsTypeOK, OthersWait
<1>4. LocksHonoured(r)  BY <1>1, ReadersHonourLocks
<1>5. InPlace(r)'  BY <1>1, <1>2 DEF InPlace, PlacesOf
<1>6. s # NoSession /\ Exists(session[s])
  <2>1. CASE pc[r] = "session"
    BY <1>1, <1>2, <2>1 DEF Knows, SessionOf, Usable, Exists
  <2>2. CASE pc[r] = "reuse"
    BY <1>2, <2>2
       DEF Knows, TablesInv, TokensTellTheirPast, TokensFollowSessions
  <2>3. QED BY <1>1, <2>1, <2>2
<1>7. Knows(r)'
  BY <1>1, <1>2, <1>6 DEF Knows, SessionOf
<1>8. \A q \in Requests \ {r} : /\ mine'[r] \cap mine[q] = {}
                                /\ kept'[r] \cap kept[q] = {}
  BY <1>1 DEF SessionFree, RequestsInv, LocksExclude
<1>9. QED BY <1>3, <1>4, <1>5, <1>7, <1>8, OneRequestSteps

\* A statement over several rows collects one more, or passes it by.
LEMMA SweepInPlace ==
  ASSUME SessionsTypeOK, TablesInv, RequestsInv, NEW r \in Requests,
         NEW s \in Sessions, Sweep(r, s)
  PROVE  RequestsInv'
<1>1. /\ pc[r] = "sweep" /\ s \in todo[r] /\ SessionFree(s)
      /\ mine'[r] = IF StillMeant(r, s) THEN mine[r] \cup {s} ELSE mine[r]
      /\ todo'[r] = todo[r] \ {s}
      /\ pc'[r] \in {"sweep", AfterSweep(kind[r])}
      /\ kind' = kind /\ tok' = tok /\ kept' = kept
      /\ UNCHANGED <<session, token, asked>>
  BY DEF Sweep, Goto, SessionsTypeOK, rows, historyVars
<1>2. InPlace(r) /\ Knows(r) /\ kind[r] \in {"logoutAll", "cleanup"}
  BY <1>1, RefreshHasToken DEF RequestsInv, RequestsInPlace, LocksProtect
<1>3. OthersWait(r)  BY DEF Sweep, Goto, SessionsTypeOK, OthersWait
<1>4. LocksHonoured(r)  BY <1>1, ReadersHonourLocks
<1>5. kept[r] = {}  BY <1>1, <1>2 DEF InPlace
<1>6. InPlace(r)'
  BY <1>1, <1>2, <1>5 DEF InPlace, PlacesOf, AfterSweep
<1>7. Knows(r)'
  <2>1. pc'[r] \notin {"session", "rotate", "reuse"} /\ kind'[r] # "refresh"
    BY <1>1, <1>2 DEF AfterSweep
  <2>2. \A x \in mine'[r] : Exists(session[x])
    BY <1>1, <1>2 DEF Knows, StillMeant, Exists
  <2>3. kind[r] = "cleanup" => \A x \in mine'[r] : Purgeable(session[x])
    BY <1>1, <1>2 DEF Knows, StillMeant
  <2>4. QED BY <1>1, <1>5, <2>1, <2>2, <2>3 DEF Knows
<1>8. \A q \in Requests \ {r} : /\ mine'[r] \cap mine[q] = {}
                                /\ kept'[r] \cap kept[q] = {}
  BY <1>1 DEF SessionFree, RequestsInv, LocksExclude
<1>9. QED BY <1>3, <1>4, <1>6, <1>7, <1>8, OneRequestSteps

\* So does the cascade, one token at a time.
LEMMA CascadeInPlace ==
  ASSUME SessionsTypeOK, TablesInv, RequestsInv, NEW r \in Requests,
         NEW t \in Tokens, Cascade(r, t)
  PROVE  RequestsInv'
<1>1. /\ pc[r] = "cascade" /\ t \in Children(r) /\ TokenFree(t)
      /\ kept'[r] = kept[r] \cup {t}
      /\ kind' = kind /\ tok' = tok /\ pc' = pc /\ todo' = todo /\ mine' = mine
      /\ UNCHANGED <<session, token, asked>>
  BY DEF Cascade, SessionsTypeOK, rows, historyVars
<1>2. InPlace(r) /\ Knows(r) /\ kind[r] = "cleanup"
  BY <1>1, RefreshHasToken DEF RequestsInv, RequestsInPlace, LocksProtect
<1>3. OthersWait(r)  BY DEF Cascade, SessionsTypeOK, OthersWait
<1>4. LocksHonoured(r)  BY <1>1, ReadersHonourLocks
<1>5. InPlace(r)'  BY <1>1, <1>2 DEF InPlace, PlacesOf
<1>6. Knows(r)'  BY <1>1, <1>2 DEF Knows, Children
<1>7. \A q \in Requests \ {r} : /\ mine'[r] \cap mine[q] = {}
                                /\ kept'[r] \cap kept[q] = {}
  BY <1>1 DEF TokenFree, RequestsInv, LocksExclude
<1>8. QED BY <1>3, <1>4, <1>5, <1>6, <1>7, OneRequestSteps

\* With the sessions and their tokens gone, the old tokens are next.
LEMMA PurgeInPlace ==
  ASSUME SessionsTypeOK, TablesInv, RequestsInv, NEW r \in Requests, Purge(r)
  PROVE  RequestsInv'
<1>1. LocksHonoured(r)  BY PurgesHonourLocks
<1>2. CASE Finish(r)  BY <1>1, <1>2, FinishedIsInPlace
<1>3. CASE ~Finish(r)
  <2>1. /\ pc[r] = "cascade" /\ pc'[r] = "legacy" /\ kind' = kind
        /\ mine'[r] = {} /\ kept'[r] = {}
    BY <1>3 DEF Purge, Goto, SessionsTypeOK
  <2>2. kind[r] = "cleanup"  BY <2>1, RefreshHasToken DEF RequestsInv
  <2>3. OthersWait(r)  BY <1>3 DEF Purge, Goto, SessionsTypeOK, OthersWait
  <2>4. InPlace(r)'  BY <2>1, <2>2 DEF InPlace, PlacesOf
  <2>5. Knows(r)'  BY <2>1, KnowsNothing
  <2>6. QED BY <1>1, <2>1, <2>3, <2>4, <2>5, OneRequestSteps
<1>4. QED BY <1>2, <1>3

\* In the beginning nobody does anything.
LEMMA InitRequests == Init => RequestsInv
<1> SUFFICES ASSUME Init PROVE RequestsInv  OBVIOUS
<1>1. \A r \in Requests : /\ kind[r] = "none" /\ pc[r] = "free"
                          /\ mine[r] = {} /\ kept[r] = {}
  BY DEF Init
<1>2. RequestsInPlace  BY <1>1 DEF RequestsInPlace, InPlace, PlacesOf
<1>3. LocksExclude  BY <1>1 DEF LocksExclude
<1>4. LocksProtect  BY <1>1 DEF LocksProtect, Knows
<1>5. QED BY <1>2, <1>3, <1>4 DEF RequestsInv

\* Days pass when nobody does anything, and no row vanishes from age.
LEMMA TickInPlace ==
  ASSUME SessionsTypeOK, RequestsInv, Tick
  PROVE  RequestsInv'
<1>1. UNCHANGED <<kind, pc, tok, todo, mine, kept>> /\ asked' = asked
  BY DEF Tick, requestVars, historyVars
<1>2. ASSUME NEW r \in Requests
      PROVE  /\ kind[r] = "none" /\ pc[r] = "free"
             /\ mine[r] = {} /\ kept[r] = {}
  <2>1. pc[r] = "free"  BY DEF Tick
  <2>2. kind[r] = "none"  BY <2>1, RefreshHasToken DEF RequestsInv
  <2>3. QED BY <2>1, <2>2 DEF RequestsInv, RequestsInPlace, InPlace
<1>3. RequestsInPlace'
  BY <1>1, <1>2 DEF RequestsInPlace, InPlace, PlacesOf
<1>4. LocksExclude'  BY <1>1, <1>2 DEF LocksExclude
<1>5. LocksProtect'  BY <1>1, <1>2 DEF LocksProtect, Knows
<1>6. QED BY <1>3, <1>4, <1>5 DEF RequestsInv

\* Whoever commits a revocation has locked what it revokes, and whoever logs
\* out a single session finds it unlocked.
LEMMA RevocationInPlace ==
  ASSUME SessionsTypeOK, RequestsInv, NEW r \in Requests, NEW lost \in BOOLEAN,
         CommitRevocation(r, lost) \/ Logout(r, lost)
  PROVE  RequestsInv'
<1>1. CASE CommitRevocation(r, lost)
  <2>1. mine[r] \in SUBSET Sessions  BY DEF SessionsTypeOK
  <2>2. LocksHonoured(r)
    BY <1>1, <2>1, RevocationHonoursLocks DEF CommitRevocation
  <2>3. kind[r] \in {"refresh", "logout", "logoutAll"}
    BY <1>1, RefreshHasToken DEF CommitRevocation, RequestsInv
  <2>4. PICK S : FinishAnnouncing(r, S)  BY <1>1 DEF CommitRevocation
  <2>5. QED BY <2>2, <2>3, <2>4, AnnouncingIsInPlace
<1>2. CASE Logout(r, lost)
  <2>1. todo[r] \in SUBSET Sessions  BY DEF SessionsTypeOK
  <2>2. LocksHonoured(r)
    BY <1>2, <2>1, RevocationHonoursLocks DEF Logout, historyVars
  <2>3. kind[r] \in {"refresh", "logout", "logoutAll"}
    BY <1>2, RefreshHasToken DEF Logout, RequestsInv
  <2>4. PICK S : FinishAnnouncing(r, S)  BY <1>2 DEF Logout
  <2>5. QED BY <2>2, <2>3, <2>4, AnnouncingIsInPlace
<1>3. QED BY <1>1, <1>2

\* Announcements touch no row.
LEMMA AnnouncedInPlace ==
  ASSUME SessionsTypeOK, RequestsInv, NEW r \in Requests, NEW s \in Sessions,
         Announced(r, s)
  PROVE  RequestsInv'
<1>1. LocksHonoured(r)  BY ReadersHonourLocks DEF Announced, rows
<1>2. kind[r] \in {"refresh", "logout", "logoutAll"}
  BY RefreshHasToken DEF Announced, RequestsInv
<1>3. QED BY <1>1, <1>2, AnnouncingIsInPlace DEF Announced

\* A new session and its token are nobody's; a cleanup may follow.
LEMMA CreationInPlace ==
  ASSUME SessionsTypeOK, RequestsInv, NEW r \in Requests, NEW u \in Users,
         NEW s \in Sessions, NEW t \in Tokens, NEW lost \in BOOLEAN,
         Register(r, u, s, t, lost) \/ Login(r, u, s, t, lost)
  PROVE  RequestsInv'
<1>1. CreateUserSession(r, u, s, t) /\ asked' = asked
  BY DEF Register, Login, historyVars
<1>2. LocksHonoured(r)  BY <1>1, CreationHonoursLocks
<1>3. CASE BeginCleanup(r)
  <2>1. PICK place \in {"sweep", "legacy"} :
          Begin(r, "cleanup", place, NoToken, PurgeableSessions)
    BY <1>3 DEF BeginCleanup
  <2>2. QED BY <1>2, <2>1, BegunIsInPlace
<1>4. CASE UNCHANGED requestVars
  <2>1. UNCHANGED <<kind, pc, tok, todo, mine, kept>>
    BY <1>4 DEF requestVars
  <2>2. OthersWait(r)  BY <2>1 DEF OthersWait
  <2>3. InPlace(r) /\ Knows(r)
    BY DEF RequestsInv, RequestsInPlace, LocksProtect
  <2>4. pc[r] = "free"  BY <1>1 DEF CreateUserSession
  <2>5. kind[r] = "none"  BY <2>4, RefreshHasToken DEF RequestsInv
  <2>6. mine[r] = {} /\ kept[r] = {}  BY <2>3, <2>4, <2>5 DEF InPlace
  <2>7. InPlace(r)'  BY <2>1, <2>4, <2>5, <2>6 DEF InPlace, PlacesOf
  <2>8. Knows(r)'  BY <2>1, <2>4, <2>6, KnowsNothing
  <2>9. QED BY <1>2, <2>1, <2>2, <2>6, <2>7, <2>8, OneRequestSteps
<1>5. QED BY <1>3, <1>4 DEF Register, Login

\* Every step leaves each request with the locks its place calls for.
LEMMA NextRequests ==
  ASSUME SessionsTypeOK, TablesInv, RequestsInv, [Next]_vars
  PROVE  RequestsInv'
<1> USE DEF rows, requestVars, historyVars
<1>1. ASSUME NEW r \in Requests, Finish(r), UNCHANGED <<session, token, asked>>
      PROVE  RequestsInv'
  BY <1>1, ReadersHonourLocks, FinishedIsInPlace
<1>2. ASSUME NEW r \in Requests, NEW s \in Sessions, NEW t \in Tokens,
             NEW lost \in BOOLEAN, Rotate(r, s, t, lost)
      PROVE  RequestsInv'
  <2>1. LocksHonoured(r)  BY <1>2, RotationHonoursLocks
  <2>2. QED BY <1>2, <2>1, FinishedIsInPlace DEF Rotate
<1>3. ASSUME NEW r \in Requests, RequestStep(r) PROVE RequestsInv'
  <2>1. CASE TokenUnknown(r) \/ TokenRefused(r) \/ SessionOver(r)
    BY <1>1, <2>1 DEF TokenUnknown, TokenRefused, SessionOver, Answer
  <2>2. CASE OutOfIds(r) \/ DeadlockVictim(r)
    BY <1>1, <2>2 DEF OutOfIds, DeadlockVictim
  <2>3. CASE PurgeLegacy(r)
    BY <2>3, PurgesHonourLocks, FinishedIsInPlace DEF PurgeLegacy
  <2>4. CASE \E s \in Sessions : Announce(r, s)
    BY <2>4, AnnouncedInPlace DEF Announce
  <2>5. QED
    BY <1>2, <1>3, <2>1, <2>2, <2>3, <2>4, KeepTokenInPlace,
       LockSessionInPlace, RevocationInPlace, SweepInPlace, CascadeInPlace,
       PurgeInPlace DEF RequestStep
<1>4. ASSUME NEW r \in Requests, RequestIncident(r) PROVE RequestsInv'
  <2>1. CASE \E s \in Sessions : AnnounceFails(r, s)
    BY <2>1, AnnouncedInPlace DEF AnnounceFails
  <2>2. CASE Abort(r)  BY <1>1, <2>2 DEF Abort
  <2>3. QED BY <1>2, <1>4, <2>1, <2>2, RevocationInPlace DEF RequestIncident
<1>5. ASSUME NEW r \in Requests, RequestBegins(r) PROVE RequestsInv'
  <2>1. ASSUME NEW t \in Tokens, StartRefresh(r, t) PROVE RequestsInv'
    <3>1. LocksHonoured(r)  BY <2>1, ReadersHonourLocks DEF StartRefresh
    <3>2. QED BY <2>1, <3>1, BegunIsInPlace DEF StartRefresh
  <2>2. ASSUME NEW s \in Sessions, StartLogout(r, s) PROVE RequestsInv'
    <3>1. LocksHonoured(r)  BY <2>2, ReadersHonourLocks DEF StartLogout
    <3>2. Begin(r, "logout", "logout", NoToken, {s}) /\ {s} \subseteq asked'
      BY <2>2 DEF StartLogout
    <3>3. QED BY <3>1, <3>2, BegunIsInPlace
  <2>3. ASSUME NEW u \in Users, StartLogoutAll(r, u) PROVE RequestsInv'
    <3>1. LocksHonoured(r)  BY <2>3, ReadersHonourLocks DEF StartLogoutAll
    <3>2. PICK S : Begin(r, "logoutAll", "sweep", NoToken, S) /\ S \subseteq asked'
      BY <2>3 DEF StartLogoutAll
    <3>3. QED BY <3>1, <3>2, BegunIsInPlace
  <2>4. CASE StartCleanup(r)
    <3>1. LocksHonoured(r)  BY <2>4, ReadersHonourLocks DEF StartCleanup
    <3>2. PICK place \in {"sweep", "legacy"} :
            Begin(r, "cleanup", place, NoToken, PurgeableSessions)
      BY <2>4 DEF StartCleanup, BeginCleanup
    <3>3. QED BY <3>1, <3>2, BegunIsInPlace
  <2>5. QED BY <1>5, <2>1, <2>2, <2>3, <2>4, CreationInPlace DEF RequestBegins
<1>6. CASE UNCHANGED vars
  BY <1>6 DEF vars, RequestsInv, RequestsInPlace, InPlace, LocksExclude,
     LocksProtect, Knows, SessionOf
<1>7. QED BY <1>3, <1>4, <1>5, <1>6, TickInPlace DEF Next

-----------------------------------------------------------------------------
(***************************************************************************)
(* What was asked for, used and announced.                                 *)
(***************************************************************************)

\* A request acts for itself only.
LEMMA RequestsActAlone ==
  ASSUME SessionsTypeOK, NEW r \in Requests,
         RequestStep(r) \/ RequestIncident(r) \/ RequestBegins(r)
  PROVE  OthersWait(r)
<1> USE DEF SessionsTypeOK, OthersWait, Goto
<1>1. Finish(r) => OthersWait(r)  BY DEF Finish
<1>2. ASSUME NEW S, FinishAnnouncing(r, S) PROVE OthersWait(r)
  BY <1>1, <1>2 DEF FinishAnnouncing
<1>3. ASSUME NEW k, NEW place, NEW t, NEW S, Begin(r, k, place, t, S)
      PROVE  OthersWait(r)
  BY <1>3 DEF Begin
<1>4. ASSUME NEW place, KeepToken(r, place) PROVE OthersWait(r)
  BY <1>4 DEF KeepToken
<1>5. CASE RequestStep(r)
  <2>1. CASE TokenUnknown(r) \/ TokenRefused(r) \/ SessionOver(r)
    BY <1>1, <2>1 DEF TokenUnknown, TokenRefused, SessionOver, Answer
  <2>2. CASE TokenReplayed(r) \/ TokenAccepted(r)
    BY <1>4, <2>2 DEF TokenReplayed, TokenAccepted
  <2>3. CASE LockSession(r) \/ RevokeForReuse(r)
    BY <2>3 DEF LockSession, RevokeForReuse
  <2>4. CASE (\E s \in Sessions : \E t \in Tokens : Rotate(r, s, t, FALSE))
             \/ OutOfIds(r) \/ PurgeLegacy(r) \/ DeadlockVictim(r)
    BY <1>1, <2>4 DEF Rotate, OutOfIds, PurgeLegacy, DeadlockVictim
  <2>5. CASE CommitRevocation(r, FALSE) \/ Logout(r, FALSE)
             \/ (\E s \in Sessions : Announce(r, s))
    BY <1>2, <2>5 DEF CommitRevocation, Logout, Announce, Announced
  <2>6. CASE (\E s \in Sessions : Sweep(r, s)) \/ \E t \in Tokens : Cascade(r, t)
    BY <2>6 DEF Sweep, Cascade
  <2>7. CASE Purge(r)  BY <1>1, <2>7 DEF Purge
  <2>8. QED BY <1>5, <2>1, <2>2, <2>3, <2>4, <2>5, <2>6, <2>7 DEF RequestStep
<1>6. CASE RequestIncident(r)
  BY <1>1, <1>2, <1>6 DEF RequestIncident, Rotate, CommitRevocation, Logout,
     AnnounceFails, Announced, Abort
<1>7. CASE RequestBegins(r)
  BY <1>3, <1>7 DEF RequestBegins, StartRefresh, StartLogout, StartLogoutAll,
     Register, Login, StartCleanup, BeginCleanup, requestVars
<1>8. QED BY <1>5, <1>6, <1>7

\* What has happened stays so: histories only grow, and a token that has got a
\* session keeps it.
Remembered ==
  /\ asked \subseteq asked' /\ announced \subseteq announced'
  /\ \A t \in Tokens : used[t] = 2 => used'[t] = 2
  /\ \A t \in Tokens : token[t].session # NoSession =>
       token'[t].session = token[t].session

\* No step of the specification forgets.
LEMMA NothingIsForgotten ==
  ASSUME SessionsTypeOK, TablesInv, RequestsInv, [Next]_vars
  PROVE  Remembered
<1> USE DEF rows, requestVars, historyVars
<1>1. used \in [Tokens -> 0..2]  BY DEF SessionsTypeOK
<1>2. ASSUME NEW t PROVE \A v \in Tokens : used[v] = 2 => Counted(t)[v] = 2
  BY <1>1 DEF Counted
<1>3. ASSUME UNCHANGED <<token, used>>,
             asked \subseteq asked', announced \subseteq announced'
      PROVE  Remembered
  BY <1>3 DEF Remembered
<1>4. ASSUME NEW r \in Requests, NEW s \in Sessions, NEW t \in Tokens,
             NEW lost \in BOOLEAN, Rotate(r, s, t, lost)
      PROVE  Remembered
  <2>1. asked' = asked /\ announced' = announced
        /\ used' = Counted(tok[r])
    BY <1>4 DEF Rotate
  <2>2. \A x \in Tokens : token[x].session # NoSession =>
          token'[x].session = token[x].session
    BY <1>4, RotationFacts, RotationWrites
  <2>3. QED BY <1>2, <2>1, <2>2 DEF Remembered
<1>5. ASSUME NEW r \in Requests, NEW lost \in BOOLEAN,
             CommitRevocation(r, lost) \/ Logout(r, lost)
      PROVE  Remembered
  BY <1>2, <1>5 DEF CommitRevocation, Logout, Remembered
<1>6. ASSUME NEW r \in Requests, RequestStep(r) PROVE Remembered
  <2>1. CASE TokenUnknown(r) \/ TokenRefused(r) \/ SessionOver(r)
    BY <1>2, <2>1 DEF TokenUnknown, TokenRefused, SessionOver, Answer, Remembered
  <2>2. CASE TokenReplayed(r) \/ TokenAccepted(r)
    BY <1>3, <2>2 DEF TokenReplayed, TokenAccepted, KeepToken
  <2>3. CASE LockSession(r) \/ RevokeForReuse(r) \/ OutOfIds(r)
             \/ DeadlockVictim(r)
    BY <1>3, <2>3 DEF LockSession, RevokeForReuse, OutOfIds, DeadlockVictim
  <2>4. CASE \E s \in Sessions : Sweep(r, s) \/ Announce(r, s)
    BY <1>3, <2>4 DEF Sweep, Announce, Announced
  <2>5. CASE \E t \in Tokens : Cascade(r, t)  BY <1>3, <2>5 DEF Cascade
  <2>6. CASE Purge(r) \/ PurgeLegacy(r)
    <3>1. \A t \in Tokens : DeletedToken(token[t]).session = token[t].session
      BY Fields DEF DeletedToken, TokenRow
    <3>2. \A t \in Tokens : token'[t].session = token[t].session
      BY <2>6, <3>1 DEF Purge, PurgeLegacy
    <3>3. used' = used /\ asked' = asked /\ announced' = announced
      BY <2>6 DEF Purge, PurgeLegacy
    <3>4. QED BY <3>2, <3>3 DEF Remembered
  <2>7. QED
    BY <1>4, <1>5, <1>6, <2>1, <2>2, <2>3, <2>4, <2>5, <2>6 DEF RequestStep
<1>7. ASSUME NEW r \in Requests, RequestIncident(r) PROVE Remembered
  <2>1. CASE (\E s \in Sessions : AnnounceFails(r, s)) \/ Abort(r)
    BY <2>1 DEF AnnounceFails, Announced, Abort, Remembered
  <2>2. QED BY <1>4, <1>5, <1>7, <2>1 DEF RequestIncident
<1>8. ASSUME NEW r \in Requests, RequestBegins(r) PROVE Remembered
  <2>1. CASE \E t \in Tokens : StartRefresh(r, t)
    BY <1>3, <2>1 DEF StartRefresh
  <2>2. CASE (\E s \in Sessions : StartLogout(r, s))
             \/ (\E u \in Users : StartLogoutAll(r, u)) \/ StartCleanup(r)
    BY <1>3, <2>2 DEF StartLogout, StartLogoutAll, StartCleanup
  <2>3. ASSUME NEW u \in Users, NEW s \in Sessions, NEW t \in Tokens,
               NEW lost \in BOOLEAN,
               Register(r, u, s, t, lost) \/ Login(r, u, s, t, lost)
        PROVE  Remembered
    <3>1. CreateUserSession(r, u, s, t) /\ used' = used /\ asked' = asked
          /\ announced' = announced
      BY <2>3 DEF Register, Login
    <3>2. token[t].session = NoSession /\ \A x \in Tokens : x # t =>
            token'[x] = token[x]
      BY <3>1 DEF CreateUserSession, TablesInv, TokensTellTheirPast, Absent,
         SessionsTypeOK
    <3>3. QED BY <3>1, <3>2 DEF Remembered
  <2>4. QED BY <1>8, <2>1, <2>2, <2>3 DEF RequestBegins
<1>9. CASE Tick
  <2>1. \A t \in Tokens : token'[t].session = token[t].session
    BY <1>9, Fields DEF Tick, Aged, TokenRow
  <2>2. QED BY <1>9, <2>1 DEF Tick, Remembered
<1>10. CASE UNCHANGED vars  BY <1>3, <1>10 DEF vars
<1>11. QED BY <1>6, <1>7, <1>8, <1>9, <1>10 DEF Next

\* A session that ends with this step: it was asked for or a token of it was
\* used twice, and unless something fails the request goes on to announce it.
EndsRightly(r, s) ==
  /\ s \in asked' \/ \E t \in Tokens : token'[t].session = s /\ used'[t] = 2
  /\ incidents' > incidents \/ (pc'[r] = "announce" /\ s \in todo'[r])

\* Every revocation is of that kind.
LEMMA SessionsEndRightly ==
  ASSUME SessionsTypeOK, TablesInv, RequestsInv, NEW r \in Requests,
         RequestStep(r) \/ RequestIncident(r) \/ RequestBegins(r),
         NEW s \in Sessions, session'[s].status = "revoked"
  PROVE  session[s].status = "revoked" \/ EndsRightly(r, s)
<1> SUFFICES ASSUME session[s].status # "revoked" PROVE EndsRightly(r, s)
  OBVIOUS
<1> USE DEF rows, requestVars, historyVars
<1>0. session'[s] # session[s]  OBVIOUS
<1>1. incidents \in Nat /\ used \in [Tokens -> 0..2]
  BY DatesAssumption DEF SessionsTypeOK
<1>2. ASSUME NEW S, FinishAnnouncing(r, S), s \in S
      PROVE  pc'[r] = "announce" /\ s \in todo'[r]
  BY <1>2 DEF FinishAnnouncing, Goto, SessionsTypeOK
<1>3. ASSUME NEW lost \in BOOLEAN, Committed(lost), lost
      PROVE  incidents' > incidents
  BY <1>1, <1>3 DEF Committed, Incident
<1>4. InPlace(r) /\ Knows(r)  BY DEF RequestsInv, RequestsInPlace, LocksProtect
<1>5. ASSUME NEW lost \in BOOLEAN, CommitRevocation(r, lost)
      PROVE  EndsRightly(r, s)
  <2>1. s \in mine[r]  BY <1>0, <1>5 DEF CommitRevocation, RevokedRows
  <2>2. incidents' > incidents \/ (pc'[r] = "announce" /\ s \in todo'[r])
    BY <1>2, <1>3, <1>5, <2>1 DEF CommitRevocation
  <2>3. CASE kind[r] = "refresh"
    <3>1. /\ tok[r] \in Tokens /\ token[tok[r]].status = "rotated"
          /\ token[tok[r]].session = s
      BY <1>4, <1>5, <2>1, <2>3
         DEF CommitRevocation, InPlace, Knows, SessionOf
    <3>2. used[tok[r]] > 0  BY <3>1 DEF TablesInv, TokensTellTheirPast
    <3>3. used' = Counted(tok[r]) /\ token' = token
      BY <1>5, <2>3 DEF CommitRevocation
    <3>4. used'[tok[r]] = 2  BY <1>1, <3>1, <3>2, <3>3 DEF Counted
    <3>5. QED BY <2>2, <3>1, <3>3, <3>4 DEF EndsRightly
  <2>4. CASE kind[r] # "refresh"
    <3>1. kind[r] = "logoutAll"
      BY <1>5, <2>4, RefreshHasToken DEF CommitRevocation, RequestsInv
    <3>2. s \in asked /\ asked' = asked
      BY <1>4, <1>5, <2>1, <3>1 DEF CommitRevocation, InPlace
    <3>3. QED BY <2>2, <3>2 DEF EndsRightly
  <2>5. QED BY <2>3, <2>4
<1>6. ASSUME NEW lost \in BOOLEAN, Logout(r, lost) PROVE EndsRightly(r, s)
  <2>1. s \in todo[r] /\ session[s].status = "active"
    BY <1>0, <1>6 DEF Logout, RevokedRows, Revoked
  <2>2. incidents' > incidents \/ (pc'[r] = "announce" /\ s \in todo'[r])
    BY <1>2, <1>3, <1>6, <2>1 DEF Logout, Exists
  <2>3. kind[r] = "logout"  BY <1>6, RefreshHasToken DEF Logout, RequestsInv
  <2>4. s \in asked /\ asked' = asked
    BY <1>4, <1>6, <2>1, <2>3 DEF Logout, InPlace
  <2>5. QED BY <2>2, <2>4 DEF EndsRightly
<1>7. ASSUME NEW x \in Sessions, NEW t \in Tokens, NEW lost \in BOOLEAN,
             Rotate(r, x, t, lost)
      PROVE  FALSE
  BY <1>0, <1>7, RotationWrites
<1>8. ~Purge(r) /\ ~PurgeLegacy(r)
  <2>1. DeletedSession(session[s]).status = "deleted"
    BY Fields DEF DeletedSession, SessionRow
  <2>2. QED BY <1>0, <2>1 DEF Purge, PurgeLegacy
<1>9. ASSUME NEW u \in Users, NEW x \in Sessions, NEW t \in Tokens,
             CreateUserSession(r, u, x, t)
      PROVE  FALSE
  BY <1>0, <1>9 DEF CreateUserSession, NewSession, SessionsTypeOK
<1>10. CASE RequestStep(r)
  <2>1. ~TokenUnknown(r) /\ ~TokenRefused(r) /\ ~SessionOver(r)
        /\ ~TokenReplayed(r) /\ ~TokenAccepted(r)
    BY <1>0 DEF TokenUnknown, TokenRefused, SessionOver, Answer, TokenReplayed,
       TokenAccepted, KeepToken
  <2>2. ~LockSession(r) /\ ~RevokeForReuse(r) /\ ~OutOfIds(r)
        /\ ~DeadlockVictim(r)
    BY <1>0 DEF LockSession, RevokeForReuse, OutOfIds, DeadlockVictim
  <2>3. /\ ~\E x \in Sessions : Sweep(r, x) \/ Announce(r, x)
        /\ ~\E t \in Tokens : Cascade(r, t)
    BY <1>0 DEF Sweep, Announce, Announced, Cascade
  <2>4. QED
    BY <1>5, <1>6, <1>7, <1>8, <1>10, <2>1, <2>2, <2>3 DEF RequestStep
<1>11. CASE RequestIncident(r)
  <2>1. ~Abort(r) /\ ~\E x \in Sessions : AnnounceFails(r, x)
    BY <1>0 DEF Abort, AnnounceFails, Announced
  <2>2. QED BY <1>5, <1>6, <1>7, <1>11, <2>1 DEF RequestIncident
<1>12. CASE RequestBegins(r)
  BY <1>0, <1>9, <1>12 DEF RequestBegins, StartRefresh, StartLogout,
     StartLogoutAll, Register, Login, StartCleanup
<1>13. QED BY <1>10, <1>11, <1>12

\* What a request has yet to announce it announces, unless something fails.
LEMMA AnnouncementsGoOut ==
  ASSUME SessionsTypeOK, RequestsInv, NEW r \in Requests,
         RequestStep(r) \/ RequestIncident(r) \/ RequestBegins(r),
         pc[r] = "announce", ~(incidents' > incidents), NEW s \in todo[r]
  PROVE  s \in announced' \/ (pc'[r] = "announce" /\ s \in todo'[r])
<1>1. incidents \in Nat  BY DatesAssumption DEF SessionsTypeOK
<1>2. ~Incident  BY <1>1 DEF Incident
<1>3. CASE RequestIncident(r)
  <2>1. ~Abort(r) /\ ~\E x \in Sessions : AnnounceFails(r, x)
    BY <1>2 DEF Abort, AnnounceFails
  <2>2. ~(\E x \in Sessions : \E t \in Tokens : Rotate(r, x, t, TRUE))
        /\ ~CommitRevocation(r, TRUE) /\ ~Logout(r, TRUE)
    BY DEF Rotate, CommitRevocation, Logout
  <2>3. QED BY <1>3, <2>1, <2>2 DEF RequestIncident
<1>4. ~RequestBegins(r)
  BY DEF RequestBegins, StartRefresh, StartLogout, StartLogoutAll, Register,
     Login, CreateUserSession, StartCleanup, BeginCleanup, Begin
<1>5. CASE RequestStep(r)
  <2>1. ~DeadlockVictim(r)
    BY DEF DeadlockVictim, Deadlocked, Stuck, WantedSessions, WantedTokens
  <2>2. ~(\E x \in Sessions : \E t \in Tokens : Rotate(r, x, t, FALSE))
        /\ ~CommitRevocation(r, FALSE) /\ ~Logout(r, FALSE) /\ ~OutOfIds(r)
        /\ ~Purge(r) /\ ~PurgeLegacy(r)
        /\ ~\E t \in Tokens : Cascade(r, t)
    BY DEF Rotate, CommitRevocation, Logout, OutOfIds, Purge, PurgeLegacy,
       Cascade
  <2>3. ~TokenUnknown(r) /\ ~TokenReplayed(r) /\ ~TokenRefused(r)
        /\ ~TokenAccepted(r) /\ ~LockSession(r) /\ ~SessionOver(r)
        /\ ~RevokeForReuse(r)
        /\ ~\E x \in Sessions : Sweep(r, x)
    BY DEF TokenUnknown, TokenReplayed, TokenRefused, TokenAccepted, Found,
       LockSession, SessionOver, RevokeForReuse, Sweep
  <2>4. PICK x \in Sessions : Announce(r, x)
    BY <1>5, <2>1, <2>2, <2>3 DEF RequestStep
  <2>5. CASE s = x  BY <2>4, <2>5 DEF Announce
  <2>6. CASE s # x
    BY <2>4, <2>6 DEF Announce, Announced, FinishAnnouncing, Goto,
       SessionsTypeOK
  <2>7. QED BY <2>5, <2>6
<1>6. QED BY <1>3, <1>4, <1>5

\* A session that has ended keeps its cause, and one that ends has one.
LEMMA NextCauses ==
  ASSUME SessionsInv, [Next]_vars
  PROVE  EveryRevocationHasACause'
<1>1. /\ SessionsTypeOK /\ TablesInv /\ RequestsInv
      /\ EveryRevocationHasACause
  BY DEF SessionsInv
<1>2. Remembered  BY <1>1, NothingIsForgotten
<1>3. ASSUME NEW s \in Sessions, session[s].status = "revoked"
      PROVE  s \in asked' \/ \E t \in Tokens : token'[t].session = s /\ used'[t] = 2
  BY <1>1, <1>2, <1>3, IdsAssumption DEF Remembered, EveryRevocationHasACause
<1>4. CASE \E r \in Requests :
             RequestStep(r) \/ RequestIncident(r) \/ RequestBegins(r)
  <2>1. PICK r \in Requests :
          RequestStep(r) \/ RequestIncident(r) \/ RequestBegins(r)
    BY <1>4
  <2>2. \A s \in Sessions : session'[s].status = "revoked" =>
          session[s].status = "revoked" \/ EndsRightly(r, s)
    BY <1>1, <2>1, SessionsEndRightly
  <2>3. QED BY <1>3, <2>2 DEF EveryRevocationHasACause, EndsRightly
<1>5. CASE Tick \/ UNCHANGED vars
  <2>1. ASSUME NEW s \in Sessions PROVE session'[s].status = session[s].status
    BY <1>1, <1>5, Fields, SessionAges DEF Tick, vars, rows
  <2>2. QED BY <1>3, <2>1 DEF EveryRevocationHasACause
<1>6. QED BY <1>4, <1>5 DEF Next

\* The news of a revocation is lost by a step that fails and by no other.
LEMMA OnlyFailuresSilence ==
  ASSUME SessionsInv, [Next]_vars, NEW s \in Sessions,
         Unannounced(s)', ~Unannounced(s)
  PROVE  incidents' > incidents
<1> SUFFICES ASSUME ~(incidents' > incidents) PROVE FALSE  OBVIOUS
<1>1. SessionsTypeOK /\ TablesInv /\ RequestsInv  BY DEF SessionsInv
<1>2. Remembered  BY <1>1, NothingIsForgotten
<1>3. /\ session'[s].status = "revoked" /\ s \notin announced'
      /\ ~\E q \in Requests : pc'[q] = "announce" /\ s \in todo'[q]
  BY DEF Unannounced
<1>4. CASE \E r \in Requests :
             RequestStep(r) \/ RequestIncident(r) \/ RequestBegins(r)
  <2>1. PICK r \in Requests :
          RequestStep(r) \/ RequestIncident(r) \/ RequestBegins(r)
    BY <1>4
  <2>2. session[s].status = "revoked" \/ EndsRightly(r, s)
    BY <1>1, <1>3, <2>1, SessionsEndRightly
  <2>3. session[s].status = "revoked"  BY <1>3, <2>2 DEF EndsRightly
  <2>4. s \notin announced  BY <1>2, <1>3 DEF Remembered
  <2>5. PICK q \in Requests : pc[q] = "announce" /\ s \in todo[q]
    BY <2>3, <2>4 DEF Unannounced
  <2>6. CASE q = r  BY <1>1, <1>3, <2>1, <2>5, <2>6, AnnouncementsGoOut
  <2>7. CASE q # r
    BY <1>1, <1>3, <2>1, <2>5, <2>7, RequestsActAlone DEF OthersWait
  <2>8. QED BY <2>6, <2>7
<1>5. CASE Tick \/ UNCHANGED vars
  <2>1. session'[s].status = session[s].status
    BY <1>1, <1>5, Fields, SessionAges DEF Tick, vars, rows
  <2>2. announced' = announced /\ pc' = pc /\ todo' = todo
    BY <1>5 DEF Tick, vars, requestVars, historyVars
  <2>3. QED BY <1>3, <2>1, <2>2 DEF Unannounced
<1>6. QED BY <1>4, <1>5 DEF Next

-----------------------------------------------------------------------------
(***************************************************************************)
(* The invariant, and what follows from it.                                *)
(***************************************************************************)

\* It holds before anybody does anything ...
LEMMA InitSessionsInv == Init => SessionsInv
<1> SUFFICES ASSUME Init PROVE SessionsInv  OBVIOUS
<1>1. \A s \in Sessions : session[s].status = "absent"  BY DEF Init
<1>2. EveryRevocationHasACause  BY <1>1 DEF EveryRevocationHasACause
<1>3. QED BY <1>2, InitTypeOK, InitTables, InitRequests DEF SessionsInv

\* ... and every step keeps it.
LEMMA NextSessionsInv == SessionsInv /\ [Next]_vars => SessionsInv'
<1> SUFFICES ASSUME SessionsInv, [Next]_vars PROVE SessionsInv'  OBVIOUS
<1>1. /\ SessionsTypeOK /\ TablesInv /\ RequestsInv /\ TokensTellTheirPast
  BY DEF SessionsInv, TablesInv
<1>2. SessionsTypeOK'  BY <1>1, NextTypeOK
<1>3. TablesInv' /\ RequestsInv'  BY <1>1, NextTables, NextRequests
<1>4. QED BY <1>2, <1>3, NextCauses DEF SessionsInv

\* Tables, requests, locks and histories agree in every reachable state.
THEOREM SessionsInvariant == Spec => []SessionsInv
<1>1. QED BY InitSessionsInv, NextSessionsInv, PTL DEF Spec

\* Rows, requests and histories are well formed.
THEOREM SessionsTypeCorrect == Spec => []SessionsTypeOK
<1>1. SessionsInv => SessionsTypeOK  BY DEF SessionsInv
<1>2. QED BY <1>1, SessionsInvariant, PTL

\* A session that has not been deleted has exactly one token that refreshes it:
\* not none, which would lock its user out at the next refresh, and not two,
\* which would be a stolen one that goes unnoticed.
THEOREM OneLiveTokenEach == Spec => []OneLiveToken
<1>1. ASSUME SessionsInv, NEW s \in Sessions, Exists(session[s])
      PROVE  Cardinality({t \in Tokens :
               token[t].session = s /\ token[t].status = "live"}) = 1
  <2>1. /\ TokensFollowSessions /\ TokensTellTheirPast /\ OneLatestToken
        /\ SessionsTypeOK /\ s # NoSession
    BY <1>1, IdsAssumption DEF SessionsInv, TablesInv
  <2>2. PICK t \in Tokens : Latest(s) = {t}
    BY <1>1, <2>1 DEF OneLatestToken, Exists, Absent
  <2>3. ASSUME NEW x \in Tokens, token[x].session = s
        PROVE  token[x].status = "live" <=> token[x].next = NoToken
    <3>1. token[x].status \in {"live", "rotated"}
      BY <1>1, <2>1, <2>3 DEF TokensFollowSessions, Exists
    <3>2. QED BY <2>1, <3>1 DEF TokensTellTheirPast
  <2>4. {x \in Tokens : token[x].session = s /\ token[x].status = "live"} = {t}
    BY <2>2, <2>3 DEF Latest, Issued
  <2>5. QED BY <2>4, FS_Singleton
<1>2. SessionsInv => OneLiveToken  BY <1>1 DEF OneLiveToken
<1>3. QED BY <1>2, SessionsInvariant, PTL

\* Whoever exchanges a token that was exchanged before has ended the session
\* by the time of the answer, in whatever order the two requests ran.
THEOREM ReplaysAreFatal == Spec => []ReplayIsFatal
<1>1. SessionsInv => ReplayIsFatal  BY DEF SessionsInv, TablesInv
<1>2. QED BY <1>1, SessionsInvariant, PTL

\* A session is revoked only when somebody asked for it or one of its tokens
\* was used more than once.
THEOREM RevocationsHaveCauses == Spec => []EveryRevocationHasACause
<1>1. SessionsInv => EveryRevocationHasACause  BY DEF SessionsInv
<1>2. QED BY <1>1, SessionsInvariant, PTL

\* Whatever has failed before, a revocation goes out over Redis or the request
\* that made it is about to send it, until a step fails that had it in hand.
THEOREM RevocationsAreAnnounced == Spec => NothingUnannounced
<1>1. ASSUME SessionsInv, [Next]_vars
      PROVE  \A s \in Sessions :
               Unannounced(s)' /\ ~Unannounced(s) => incidents' > incidents
  BY <1>1, OnlyFailuresSilence
<1>2. SessionsInv /\ [Next]_vars
        => [\A s \in Sessions : Unannounced(s)' /\ ~Unannounced(s)
                                  => incidents' > incidents]_vars
  BY <1>1
<1>3. QED BY <1>2, SessionsInvariant, PTL DEF Spec, NothingUnannounced

\* Refreshes and single logouts take one session and one token each, in the
\* same order, so whoever waits waits for somebody who does not: it takes a
\* logout of all devices or a cleanup to close a circle.
THEOREM DeadlocksTakeASweep == Spec => []DeadlocksNeedASweep
<1>1. ASSUME SessionsInv, NEW D \in SUBSET Requests, Deadlocked(D),
             \A r \in D : kind[r] \notin {"logoutAll", "cleanup"}
      PROVE  FALSE
  <2>1. SessionsTypeOK /\ RequestsInPlace  BY <1>1 DEF SessionsInv, RequestsInv
  <2>2. ASSUME NEW q \in D
        PROVE  /\ InPlace(q) /\ kind[q] \in {"none", "refresh", "logout"}
               /\ WantedSessions(q) # {} \/ WantedTokens(q) # {}
               /\ \A s \in WantedSessions(q) : \E p \in D : s \in mine[p]
               /\ \A t \in WantedTokens(q) : \E p \in D : t \in kept[p]
    BY <1>1, <2>1, <2>2
       DEF RequestsInPlace, Deadlocked, Stuck, SessionsTypeOK, Kinds
  <2>3. ASSUME NEW q \in D PROVE pc[q] \in {"token", "session", "reuse", "logout"}
    <3>1. pc[q] \notin {"sweep", "cascade"}  BY <2>2 DEF InPlace, PlacesOf
    <3>2. QED BY <2>2, <3>1 DEF WantedSessions, WantedTokens
  <2>4. ASSUME NEW q \in D PROVE mine[q] = {}
    BY <2>2, <2>3 DEF InPlace
  <2>5. ASSUME NEW q \in D PROVE pc[q] = "token"
    <3>1. WantedSessions(q) = {}  BY <2>2, <2>4
    <3>2. WantedTokens(q) # {}  BY <2>2, <3>1
    <3>3. QED BY <2>3, <3>2 DEF WantedTokens
  <2>6. ASSUME NEW q \in D PROVE kept[q] = {}
    BY <2>2, <2>5 DEF InPlace, PlacesOf
  <2>7. ASSUME NEW q \in D PROVE FALSE
    <3>1. WantedSessions(q) = {} /\ WantedTokens(q) = {}
      BY <2>2, <2>4, <2>6
    <3>2. QED BY <2>2, <3>1
  <2>8. QED BY <1>1, <2>7 DEF Deadlocked
<1>2. SessionsInv => DeadlocksNeedASweep  BY <1>1 DEF DeadlocksNeedASweep
<1>3. QED BY <1>2, SessionsInvariant, PTL

\* What a cleanup deletes has expired.
LEMMA PurgesTakeTheExpired ==
  ASSUME SessionsInv, NEW r \in Requests, Purge(r) \/ PurgeLegacy(r),
         NEW t \in Tokens, Exists(token[t]), ~Exists(token'[t])
  PROVE  Expired(token[t])
<1>0. SessionsTypeOK /\ TablesInv /\ RequestsInv  BY DEF SessionsInv
<1>1. CASE Purge(r)
  <2>1. t \in Children(r)  BY <1>1 DEF Purge
  <2>2. kind[r] = "cleanup" /\ Knows(r)
    BY <1>0, <1>1, RefreshHasToken DEF Purge, RequestsInv, LocksProtect
  <2>3. PICK s \in Sessions :
          /\ token[t].session = s /\ Exists(session[s]) /\ Purgeable(session[s])
    BY <1>0, <2>1, <2>2 DEF Children, Knows, SessionsTypeOK
  <2>4. token[t].ttl <= session[s].ttl
    BY <1>0, <2>3, IdsAssumption
       DEF TablesInv, TokensFollowSessions, Exists
  <2>5. session[s].ttl <= 0
    <3>1. CASE session[s].ttl < -Retention  BY <1>0, <3>1, Fields
    <3>2. CASE session[s].status = "revoked" /\ session[s].since > Retention
      <4>1. session[s].ttl <= 0 \/ session[s].ttl + session[s].since <= Lifetime
        BY <1>0, <3>2 DEF TablesInv, RevokedExpire
      <4>2. QED BY <1>0, <3>2, <4>1, Fields
    <3>3. QED BY <2>3, <3>1, <3>2 DEF Purgeable
  <2>6. QED BY <1>0, <2>4, <2>5, Fields DEF Expired
<1>2. CASE PurgeLegacy(r)
  <2>1. t \in OldLegacy  BY <1>2 DEF PurgeLegacy
  <2>2. QED BY <1>0, <2>1, Fields DEF OldLegacy, Expired
<1>3. QED BY <1>1, <1>2

\* No other step deletes a token.
LEMMA OnlyPurgesDelete ==
  ASSUME SessionsInv, [Next]_vars, NEW t \in Tokens, Exists(token[t]),
         ~Exists(token'[t])
  PROVE  \E r \in Requests : Purge(r) \/ PurgeLegacy(r)
<1> USE DEF rows
<1>0. SessionsTypeOK /\ TablesInv /\ RequestsInv  BY DEF SessionsInv
<1>1. token'[t] # token[t]  OBVIOUS
<1>2. ASSUME NEW r \in Requests, NEW s \in Sessions, NEW x \in Tokens,
             NEW lost \in BOOLEAN, Rotate(r, s, x, lost)
      PROVE  FALSE
  BY <1>0, <1>1, <1>2, RotationWrites DEF Exists
<1>3. ASSUME NEW r \in Requests, NEW u \in Users, NEW s \in Sessions,
             NEW x \in Tokens, CreateUserSession(r, u, s, x)
      PROVE  FALSE
  BY <1>0, <1>1, <1>3 DEF CreateUserSession, NewToken, Exists, SessionsTypeOK
<1>4. ~Tick
  <2>1. Aged(token[t]).status = token[t].status
    BY <1>0, Fields DEF Aged, TokenRow
  <2>2. QED BY <2>1 DEF Tick, Exists
<1>5. ASSUME NEW r \in Requests, RequestStep(r)
      PROVE  Purge(r) \/ PurgeLegacy(r)
  <2>1. ~TokenUnknown(r) /\ ~TokenRefused(r) /\ ~SessionOver(r)
        /\ ~TokenReplayed(r) /\ ~TokenAccepted(r)
    BY <1>1 DEF TokenUnknown, TokenRefused, SessionOver, Answer, TokenReplayed,
       TokenAccepted, KeepToken
  <2>2. ~LockSession(r) /\ ~RevokeForReuse(r) /\ ~OutOfIds(r)
        /\ ~DeadlockVictim(r) /\ ~CommitRevocation(r, FALSE)
        /\ ~Logout(r, FALSE)
    BY <1>1 DEF LockSession, RevokeForReuse, OutOfIds, DeadlockVictim,
       CommitRevocation, Logout
  <2>3. /\ ~\E x \in Sessions : Sweep(r, x) \/ Announce(r, x)
        /\ ~\E x \in Tokens : Cascade(r, x)
    BY <1>1 DEF Sweep, Announce, Announced, Cascade
  <2>4. QED BY <1>2, <1>5, <2>1, <2>2, <2>3 DEF RequestStep
<1>6. ASSUME NEW r \in Requests PROVE ~RequestIncident(r)
  BY <1>1, <1>2 DEF RequestIncident, CommitRevocation, Logout, Abort,
     AnnounceFails, Announced
<1>7. ASSUME NEW r \in Requests PROVE ~RequestBegins(r)
  BY <1>1, <1>3 DEF RequestBegins, StartRefresh, StartLogout, StartLogoutAll,
     Register, Login, StartCleanup
<1>8. ~UNCHANGED vars  BY <1>1 DEF vars
<1>9. QED BY <1>4, <1>5, <1>6, <1>7, <1>8 DEF Next

\* A token that is still good for something is recognised when it comes back:
\* what is deleted has expired, although the statement goes by the dates of
\* the session and not of the token.
THEOREM OnlyTheExpiredAreForgotten == Spec => PurgeTakesOnlyTheExpired
<1>1. ASSUME SessionsInv, [Next]_vars
      PROVE  \A t \in Tokens :
               Exists(token[t]) /\ ~Exists(token'[t]) => Expired(token[t])
  BY <1>1, OnlyPurgesDelete, PurgesTakeTheExpired
<1>2. SessionsInv /\ [Next]_vars
        => [\A t \in Tokens : Exists(token[t]) /\ ~Exists(token'[t])
                                => Expired(token[t])]_vars
  BY <1>1
<1>3. QED BY <1>2, SessionsInvariant, PTL DEF Spec, PurgeTakesOnlyTheExpired

-----------------------------------------------------------------------------
(***************************************************************************)
(* The sessions implement TokenFamily.                                     *)
(***************************************************************************)

\* What the holders of tokens see of the tables.
OneOf(S)  == IF S = {} THEN NoToken ELSE CHOOSE t \in S : TRUE
phases    == [s \in Sessions |-> Phase(session[s])]
currents  == [s \in Sessions |-> OneOf(Latest(s))]
spents    == [s \in Sessions |-> Issued(s) \ Latest(s)]

\* In their terms, what the actions of TokenFamily say under the refinement
\* mapping.
LEMMA FamilyStutters ==
  UNCHANGED <<phases, currents, spents>> => UNCHANGED Family!vars
BY DEF Family!vars, phases, currents, spents, OneOf

\* A token that is nobody's.
LEMMA FamilyUnused ==
  ASSUME NEW t, \A s \in Sessions : t # currents[s] /\ t \notin spents[s]
  PROVE  Family!Unused(t)
BY DEF Family!Unused, currents, spents, OneOf

\* A session that begins.
LEMMA FamilyOpens ==
  ASSUME NEW s \in Sessions, NEW t \in Tokens, NEW old, phases[s] = "unborn",
         Family!Unused(t), t \notin old, \A o \in old : Family!Unused(o),
         phases' = [phases EXCEPT ![s] = "open"],
         currents' = [currents EXCEPT ![s] = t],
         spents' = [spents EXCEPT ![s] = old]
  PROVE  Family!Open(s, t, old)
BY DEF Family!Open, phases, currents, spents, OneOf

\* One that gets a new token.
LEMMA FamilyRotates ==
  ASSUME NEW s \in Sessions, NEW t \in Tokens, phases[s] = "open",
         Family!Unused(t), phases' = phases,
         currents' = [currents EXCEPT ![s] = t],
         spents' = [spents EXCEPT ![s] = @ \cup {currents[s]}]
  PROVE  Family!Rotate(s, t)
BY DEF Family!Rotate, phases, currents, spents, OneOf

\* And sessions that end.
LEMMA FamilyEnds ==
  ASSUME NEW S \in SUBSET Sessions, \A s \in S : phases[s] = "open",
         phases' = [s \in Sessions |-> IF s \in S THEN "ended" ELSE phases[s]],
         currents' = currents, spents' = spents
  PROVE  Family!End(S)
BY DEF Family!End, phases, currents, spents, OneOf

\* The one of a set of one.
LEMMA OneOfOne == OneOf({}) = NoToken /\ \A t : OneOf({t}) = t
BY DEF OneOf

\* A token without a session is nobody's.
LEMMA StrangersAreUnused ==
  ASSUME SessionsInv, NEW t \in Tokens, token[t].session = NoSession
  PROVE  Family!Unused(t)
<1>1. ASSUME NEW s \in Sessions PROVE t # currents[s] /\ t \notin spents[s]
  <2>1. t \notin Issued(s)  BY IdsAssumption DEF Issued
  <2>2. t \notin spents[s]  BY <2>1 DEF spents
  <2>3. t \notin Latest(s)  BY <2>1 DEF Latest
  <2>4. Latest(s) = {} \/ \E x \in Latest(s) : Latest(s) = {x}
    <3>1. CASE Absent(session[s])
      BY <3>1, IdsAssumption
         DEF SessionsInv, TablesInv, TokensFollowSessions, Latest, Issued
    <3>2. CASE ~Absent(session[s])
      BY <3>2 DEF SessionsInv, TablesInv, OneLatestToken
    <3>3. QED BY <3>1, <3>2
  <2>5. currents[s] = OneOf(Latest(s))  BY DEF currents
  <2>6. t # NoToken  BY IdsAssumption
  <2>7. QED BY <2>2, <2>3, <2>4, <2>5, <2>6, OneOfOne
<1>2. QED BY <1>1, FamilyUnused

\* As long as tokens keep their sessions and successors, nothing is issued.
LEMMA NothingIssued ==
  ASSUME \A t \in Tokens : /\ token'[t].session = token[t].session
                           /\ token'[t].next = token[t].next
  PROVE  currents' = currents /\ spents' = spents
<1>1. \A s \in Sessions : Issued(s)' = Issued(s)  BY DEF Issued
<1>2. \A s \in Sessions : Latest(s)' = Latest(s)  BY <1>1 DEF Latest, Issued
<1>3. QED BY <1>1, <1>2 DEF currents, spents

\* A step after which every session is in the phase it was in, or open before
\* and ended after, is the end of those.
LEMMA EndsRefine ==
  ASSUME currents' = currents, spents' = spents,
         \A s \in Sessions :
           \/ Phase(session'[s]) = Phase(session[s])
           \/ Phase(session[s]) = "open" /\ Phase(session'[s]) = "ended"
  PROVE  [Family!Next]_(Family!vars)
<1> DEFINE S == {s \in Sessions : phases'[s] # phases[s]}
<1>1. \A s \in Sessions : /\ phases[s] = Phase(session[s])
                          /\ phases'[s] = Phase(session'[s])
  BY DEF phases
<1>2. \A s \in S : phases[s] = "open"  BY <1>1
<1>3. phases' = [s \in Sessions |-> IF s \in S THEN "ended" ELSE phases[s]]
  <2>1. phases' = [s \in Sessions |-> phases'[s]]  BY DEF phases
  <2>2. \A s \in Sessions :
          phases'[s] = IF s \in S THEN "ended" ELSE phases[s]
    BY <1>1
  <2>3. QED BY <2>1, <2>2
<1>4. S \in SUBSET Sessions  OBVIOUS
<1> HIDE DEF S
<1>5. Family!End(S)  BY <1>2, <1>3, <1>4, FamilyEnds
<1>6. Family!Next  BY <1>4, <1>5 DEF Family!Next
<1>7. QED BY <1>6

\* A rotation is one, or opens a session over a token that had none.
LEMMA RotationRefines ==
  ASSUME SessionsInv, NEW r \in Requests, NEW s \in Sessions, NEW t \in Tokens,
         NEW lost \in BOOLEAN, Rotate(r, s, t, lost)
  PROVE  Family!Next
<1> DEFINE v == tok[r]
<1>0. SessionsTypeOK /\ TablesInv /\ RequestsInv  BY DEF SessionsInv
<1>1. /\ v \in Tokens /\ v # t /\ token[v].next = NoToken
      /\ IF token[v].session = NoSession THEN Absent(session[s])
         ELSE /\ token[v].session = s /\ Usable(session[s])
              /\ Latest(s) = {v}
      /\ token[t].session = NoSession
  BY <1>0, RotationFacts
<1>2. /\ \A x \in Sessions : x # s => session'[x] = session[x]
      /\ \A x \in Tokens \ {v, t} : token'[x] = token[x]
      /\ session'[s].status = "active"
      /\ token'[v].session = s /\ token'[v].next = t
      /\ token'[t].session = s /\ token'[t].next = NoToken
  BY <1>0, RotationWrites
<1> HIDE DEF v
<1>3. Family!Unused(t) /\ (token[v].session = NoSession => Family!Unused(v))
  BY <1>1, StrangersAreUnused
<1>4. ASSUME NEW x \in Sessions, x # s
      PROVE  Issued(x)' = Issued(x) /\ Latest(x)' = Latest(x)
  BY <1>1, <1>2, <1>4, IdsAssumption DEF Issued, Latest
<1>5. Issued(s)' = Issued(s) \cup {v, t} /\ t \notin Issued(s)
  BY <1>1, <1>2, IdsAssumption DEF Issued
<1>6. ASSUME NEW x \in Issued(s), x # v PROVE token'[x].next # NoToken
  <2>1. x \in Tokens /\ token[x].session = s /\ x # t
    BY <1>5, <1>6 DEF Issued
  <2>2. ~Absent(session[s])
    BY <1>0, <2>1, IdsAssumption DEF TablesInv, TokensFollowSessions
  <2>3. Latest(s) = {v}  BY <1>1, <2>2
  <2>4. token[x].next # NoToken  BY <1>6, <2>3 DEF Latest
  <2>5. QED BY <1>2, <1>6, <2>1, <2>4
<1>7. Latest(s)' = {t}
  <2>1. t # NoToken  BY IdsAssumption
  <2>2. QED BY <1>2, <1>5, <1>6, <2>1 DEF Latest
<1>8. currents' = [currents EXCEPT ![s] = t]
  BY <1>4, <1>7, OneOfOne DEF currents
<1>9. phases' = [phases EXCEPT ![s] = "open"]
  BY <1>2 DEF phases, Phase
<1>10. CASE token[v].session = NoSession
  <2>1. Issued(s) = {}
    BY <1>0, <1>1, <1>10, IdsAssumption
       DEF TablesInv, TokensFollowSessions, Issued
  <2>2. spents' = [spents EXCEPT ![s] = {v}]
    BY <1>1, <1>4, <1>5, <1>7, <2>1 DEF spents
  <2>3. phases[s] = "unborn"  BY <1>1, <1>10 DEF phases, Phase, Absent
  <2>4. Family!Open(s, t, {v})
    BY <1>1, <1>3, <1>8, <1>9, <1>10, <2>2, <2>3, FamilyOpens
  <2>5. QED BY <1>1, <2>4 DEF Family!Next
<1>11. CASE token[v].session # NoSession
  <2>1. Latest(s) = {v} /\ v \in Issued(s) /\ Usable(session[s])
    BY <1>1, <1>11 DEF Latest
  <2>2. currents[s] = v  BY <2>1, OneOfOne DEF currents
  <2>3. Issued(s)' \ {t} = (Issued(s) \ {v}) \cup {v}
    BY <1>5, <2>1
  <2>4. spents' = [spents EXCEPT ![s] = @ \cup {currents[s]}]
    BY <1>4, <1>7, <2>1, <2>2, <2>3 DEF spents
  <2>5. phases[s] = "open"  BY <2>1 DEF phases, Phase, Usable
  <2>6. phases' = phases  BY <1>9, <2>5 DEF phases
  <2>7. Family!Rotate(s, t)
    BY <1>3, <1>8, <2>4, <2>5, <2>6, FamilyRotates
  <2>8. QED BY <2>7 DEF Family!Next
<1>12. QED BY <1>10, <1>11

\* A registration or a login opens a session.
LEMMA CreationRefines ==
  ASSUME SessionsInv, NEW r \in Requests, NEW u \in Users, NEW s \in Sessions,
         NEW t \in Tokens, CreateUserSession(r, u, s, t)
  PROVE  Family!Next
<1>0. SessionsTypeOK /\ TablesInv  BY DEF SessionsInv
<1>1. /\ Absent(session[s]) /\ Absent(token[t])
      /\ session' = [session EXCEPT ![s] = NewSession(u)]
      /\ token' = [token EXCEPT ![t] = NewToken(u, s)]
  BY DEF CreateUserSession
<1>2. token[t].session = NoSession
  BY <1>0, <1>1 DEF TablesInv, TokensTellTheirPast, Absent
<1>3. /\ token'[t].session = s /\ token'[t].next = NoToken
      /\ \A x \in Tokens : x # t => token'[x] = token[x]
  BY <1>0, <1>1 DEF NewToken, SessionsTypeOK
<1>4. Issued(s) = {}
  BY <1>0, <1>1, IdsAssumption DEF TablesInv, TokensFollowSessions, Issued
<1>5. Issued(s)' = {t}  BY <1>3, <1>4 DEF Issued
<1>6. Latest(s)' = {t}  BY <1>3, <1>5 DEF Latest
<1>7. ASSUME NEW x \in Sessions, x # s
      PROVE  Issued(x)' = Issued(x) /\ Latest(x)' = Latest(x)
  BY <1>2, <1>3, <1>7, IdsAssumption DEF Issued, Latest
<1>8. currents' = [currents EXCEPT ![s] = t]
  BY <1>6, <1>7, OneOfOne DEF currents
<1>9. spents' = [spents EXCEPT ![s] = {}]
  BY <1>5, <1>6, <1>7 DEF spents
<1>10. phases[s] = "unborn" /\ phases' = [phases EXCEPT ![s] = "open"]
  BY <1>0, <1>1 DEF phases, Phase, Absent, NewSession, SessionsTypeOK
<1>11. Family!Unused(t)  BY <1>2, StrangersAreUnused
<1>12. Family!Open(s, t, {})  BY <1>8, <1>9, <1>10, <1>11, FamilyOpens
<1>13. QED BY <1>12 DEF Family!Next

\* Revocations and purges end sessions.
LEMMA RevocationRefines ==
  ASSUME SessionsInv, NEW S \in SUBSET Sessions, session' = RevokedRows(S),
         token' = token
  PROVE  [Family!Next]_(Family!vars)
<1>1. currents' = currents /\ spents' = spents  BY NothingIssued
<1>2. ASSUME NEW s \in Sessions
      PROVE  \/ Phase(session'[s]) = Phase(session[s])
             \/ Phase(session[s]) = "open" /\ Phase(session'[s]) = "ended"
  <2>1. session[s] \in SessionRow  BY Fields DEF SessionsInv
  <2>2. session'[s] = IF s \in S THEN Revoked(session[s]) ELSE session[s]
    BY DEF RevokedRows
  <2>3. QED BY <2>1, <2>2 DEF Revoked, Phase, SessionRow
<1>3. QED BY <1>1, <1>2, EndsRefine

\* So do purges, of those that were still open; old tokens never had one.
LEMMA PurgeRefines ==
  ASSUME SessionsInv, NEW r \in Requests, Purge(r) \/ PurgeLegacy(r)
  PROVE  [Family!Next]_(Family!vars)
<1>0. SessionsTypeOK /\ TablesInv /\ RequestsInv  BY DEF SessionsInv
<1>1. \A t \in Tokens : /\ DeletedToken(token[t]).session = token[t].session
                        /\ DeletedToken(token[t]).next = token[t].next
  BY <1>0, Fields DEF DeletedToken, TokenRow
<1>2. \A t \in Tokens : /\ token'[t].session = token[t].session
                        /\ token'[t].next = token[t].next
  BY <1>1 DEF Purge, PurgeLegacy
<1>3. currents' = currents /\ spents' = spents  BY <1>2, NothingIssued
<1>4. ASSUME NEW s \in Sessions
      PROVE  \/ Phase(session'[s]) = Phase(session[s])
             \/ Phase(session[s]) = "open" /\ Phase(session'[s]) = "ended"
  <2>1. CASE session'[s] = session[s]  BY <2>1
  <2>2. CASE s \in mine[r] /\ session'[s] = DeletedSession(session[s])
    <3>1. Exists(session[s]) /\ session[s] \in SessionRow
      BY <1>0, <2>2, Fields DEF RequestsInv, LocksProtect, Knows
    <3>2. QED BY <2>2, <3>1 DEF DeletedSession, SessionRow, Phase, Exists
  <2>3. QED BY <2>1, <2>2 DEF Purge, PurgeLegacy
<1>5. QED BY <1>3, <1>4, EndsRefine

\* What leaves both tables alone shows in neither.
LEMMA TablesUntouched ==
  ASSUME UNCHANGED <<session, token>>
  PROVE  [Family!Next]_(Family!vars)
<1>1. currents' = currents /\ spents' = spents  BY NothingIssued
<1>2. phases' = phases  BY DEF phases
<1>3. QED BY <1>1, <1>2, FamilyStutters

\* At first there are no sessions.
LEMMA InitFamily == Init => Family!Init
<1> SUFFICES ASSUME Init PROVE Family!Init  OBVIOUS
<1>1. \A s \in Sessions : session[s].status = "absent"  BY DEF Init
<1>2. \A t \in Tokens : token[t].session = NoSession  BY DEF Init, NewToken
<1>3. \A s \in Sessions : Issued(s) = {} /\ Latest(s) = {}
  BY <1>2, IdsAssumption DEF Issued, Latest
<1>4. \A s \in Sessions : Phase(session[s]) = "unborn"  BY <1>1 DEF Phase
<1>5. QED BY <1>3, <1>4 DEF Family!Init

\* Every step is one of TokenFamily or not to be seen there.
LEMMA NextFamily ==
  ASSUME SessionsInv, [Next]_vars
  PROVE  [Family!Next]_(Family!vars)
<1> USE DEF rows
<1>1. ASSUME NEW r \in Requests, NEW lost \in BOOLEAN,
             CommitRevocation(r, lost) \/ Logout(r, lost)
      PROVE  [Family!Next]_(Family!vars)
  <2>1. mine[r] \in SUBSET Sessions /\ todo[r] \in SUBSET Sessions
    BY DEF SessionsInv, SessionsTypeOK
  <2>2. QED BY <1>1, <2>1, RevocationRefines DEF CommitRevocation, Logout
<1>2. ASSUME NEW r \in Requests, RequestStep(r)
      PROVE  [Family!Next]_(Family!vars)
  <2>1. CASE TokenUnknown(r) \/ TokenRefused(r) \/ SessionOver(r)
             \/ TokenReplayed(r) \/ TokenAccepted(r)
    BY <2>1, TablesUntouched
       DEF TokenUnknown, TokenRefused, SessionOver, Answer, TokenReplayed,
           TokenAccepted, KeepToken
  <2>2. CASE LockSession(r) \/ RevokeForReuse(r) \/ OutOfIds(r)
             \/ DeadlockVictim(r)
    BY <2>2, TablesUntouched
       DEF LockSession, RevokeForReuse, OutOfIds, DeadlockVictim
  <2>3. CASE \/ \E s \in Sessions : Sweep(r, s) \/ Announce(r, s)
             \/ \E t \in Tokens : Cascade(r, t)
    BY <2>3, TablesUntouched DEF Sweep, Announce, Announced, Cascade
  <2>4. CASE Purge(r) \/ PurgeLegacy(r)  BY <2>4, PurgeRefines
  <2>5. QED
    BY <1>1, <1>2, <2>1, <2>2, <2>3, <2>4, RotationRefines DEF RequestStep
<1>3. ASSUME NEW r \in Requests, RequestIncident(r)
      PROVE  [Family!Next]_(Family!vars)
  <2>1. CASE Abort(r) \/ \E s \in Sessions : AnnounceFails(r, s)
    BY <2>1, TablesUntouched DEF Abort, AnnounceFails, Announced
  <2>2. QED BY <1>1, <1>3, <2>1, RotationRefines DEF RequestIncident
<1>4. ASSUME NEW r \in Requests, RequestBegins(r)
      PROVE  [Family!Next]_(Family!vars)
  <2>1. CASE \/ \E t \in Tokens : StartRefresh(r, t)
             \/ \E s \in Sessions : StartLogout(r, s)
             \/ \E u \in Users : StartLogoutAll(r, u)
             \/ StartCleanup(r)
    BY <2>1, TablesUntouched
       DEF StartRefresh, StartLogout, StartLogoutAll, StartCleanup
  <2>2. QED BY <1>4, <2>1, CreationRefines DEF RequestBegins, Register, Login
<1>5. CASE Tick
  <2>0. SessionsTypeOK  BY DEF SessionsInv
  <2>1. \A t \in Tokens : /\ token'[t].session = token[t].session
                          /\ token'[t].next = token[t].next
    BY <1>5, <2>0, Fields DEF Tick, Aged, TokenRow
  <2>2. \A s \in Sessions : session'[s].status = session[s].status
    BY <1>5, <2>0, Fields, SessionAges DEF Tick
  <2>3. currents' = currents /\ spents' = spents  BY <2>1, NothingIssued
  <2>4. \A s \in Sessions : Phase(session'[s]) = Phase(session[s])
    BY <2>2 DEF Phase
  <2>5. QED BY <2>3, <2>4, EndsRefine
<1>6. CASE UNCHANGED vars  BY <1>6, TablesUntouched DEF vars
<1>7. QED BY <1>2, <1>3, <1>4, <1>5, <1>6 DEF Next

\* Whatever requests run at the same time, are rolled back or cut short,
\* those who hold a session's tokens find what TokenFamily promises: one
\* current token, exchanged tokens that never come back, and an end that is
\* final.
THEOREM SessionsImplementFamily == Spec => FamilySpec
<1>1. Init => Family!Init  BY InitFamily
<1>2. SessionsInv /\ [Next]_vars => [Family!Next]_(Family!vars)
  BY NextFamily
<1>3. QED
  BY <1>1, <1>2, SessionsInvariant, PTL DEF Spec, FamilySpec, Family!Spec

=============================================================================
