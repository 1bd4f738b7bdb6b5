------------------------------- MODULE Windows -------------------------------
(***************************************************************************)
(* The rolling minutes of the WebSocket gateway (websocket/index.js): how  *)
(* many handshakes and messages one instance takes from an address.        *)
(*                                                                         *)
(* A timestamp is kept as its age.  The code asks only whether it is less  *)
(* than a minute old, so ages stop there.  Handshakes are seen in less     *)
(* detail than in Gateway: a slot is taken, and returned or not.           *)
(***************************************************************************)
EXTENDS Naturals, Sequences, FiniteSets, Functions

CONSTANTS
  Addresses,
  Minute,           \* steps of time in a minute
  MaxHandshakes,    \* WS_MAX_HANDSHAKES_PER_MINUTE
  MaxMessages,      \* WS_MAX_MESSAGES_PER_MINUTE
  MaxConnections,   \* WS_MAX_CONNECTIONS_PER_IP
  MaxTracked        \* addresses from which on the handshakes are swept

ASSUME WindowsAssumption ==
  {Minute, MaxHandshakes, MaxMessages, MaxConnections, MaxTracked}
    \subseteq Nat \ {0}

VARIABLES
  handshakeTimes,   \* handshakeTimesByIp
  messageTimes,     \* messageTimesByIp
  slots,            \* connectionsByIp
  pending,          \* handshakes that hold a slot
  connected,        \* sockets in their 'connection' handler or past it
  shaken,           \* history: ages of the handshakes taken this minute
  sent,             \* history: ages of the messages taken this minute
  forgotten         \* history: ages of the times a message window was dropped

windowVars == <<handshakeTimes, messageTimes, slots, pending, connected,
                shaken, sent, forgotten>>

WindowsInit ==
  /\ handshakeTimes = <<>> /\ messageTimes = <<>>
  /\ slots = [ip \in Addresses |-> 0]
  /\ pending = [ip \in Addresses |-> 0]
  /\ connected = [ip \in Addresses |-> 0]
  /\ shaken = [ip \in Addresses |-> <<>>]
  /\ sent = [ip \in Addresses |-> <<>>]
  /\ forgotten = [ip \in Addresses |-> <<>>]

-----------------------------------------------------------------------------
IsRecent(age)  == age < Minute
Old(ages)      == {i \in DOMAIN ages : ~IsRecent(ages[i])}
\* Timestamps are in the order they were taken in: the filter drops the first.
Recent(ages)   == SubSeq(ages, Cardinality(Old(ages)) + 1, Len(ages))
TimesOf(m, ip) == IF ip \in DOMAIN m THEN Recent(m[ip]) ELSE <<>>

Under(m, ip, limit) == Len(TimesOf(m, ip)) < limit

\* What is no longer recent goes; the new timestamp comes if there is room.
Consumed(m, ip, limit) ==
  [q \in DOMAIN m \cup {ip} |->
     IF q # ip THEN m[q]
     ELSE IF Under(m, ip, limit) THEN Append(TimesOf(m, ip), 0)
                                 ELSE TimesOf(m, ip)]

\* Slip: an address goes when any of its timestamps is old.
SweptByAny(m) == Restrict(m, {ip \in DOMAIN m : Recent(m[ip]) = m[ip]})

Swept(m) == Restrict(m, {ip \in DOMAIN m : Recent(m[ip]) # <<>>})

ConsumeHandshake(ip) ==
  LET m == Consumed(handshakeTimes, ip, MaxHandshakes)
  IN  IF Under(handshakeTimes, ip, MaxHandshakes)
         /\ Cardinality(DOMAIN m) > MaxTracked
      THEN Swept(m) ELSE m

Noted(history, ip) == [history EXCEPT ![ip] = Append(@, 0)]

-----------------------------------------------------------------------------
\* allowRequest: a handshake counts before the connection limit is looked at;
\* within both, the authentication takes a slot.
AllowRequest(ip) ==
  LET allowed == Under(handshakeTimes, ip, MaxHandshakes) IN
  /\ handshakeTimes' = ConsumeHandshake(ip)
  /\ shaken' = IF allowed THEN Noted(shaken, ip) ELSE shaken
  /\ IF allowed /\ slots[ip] < MaxConnections
     THEN /\ slots' = [slots EXCEPT ![ip] = @ + 1]
          /\ pending' = [pending EXCEPT ![ip] = @ + 1]
     ELSE UNCHANGED <<slots, pending>>
  /\ UNCHANGED <<messageTimes, connected, sent, forgotten>>

\* The authentication refuses: the slot is returned, the window is kept.
Refuse(ip) ==
  /\ pending[ip] > 0
  /\ pending' = [pending EXCEPT ![ip] = @ - 1]
  /\ slots' = [slots EXCEPT ![ip] = @ - 1]
  /\ UNCHANGED <<handshakeTimes, messageTimes, connected, shaken, sent,
                 forgotten>>

Connected(ip) ==
  /\ pending[ip] > 0
  /\ pending' = [pending EXCEPT ![ip] = @ - 1]
  /\ connected' = [connected EXCEPT ![ip] = @ + 1]
  /\ UNCHANGED <<handshakeTimes, messageTimes, slots, shaken, sent, forgotten>>

\* A socket disconnects.  If its listener is there (index.js:143) the slot is
\* returned, and with the last slot of the address its messages are forgotten.
Disconnects(ip, heard, times) ==
  LET last == heard /\ slots[ip] = 1 IN
  /\ connected[ip] > 0
  /\ connected' = [connected EXCEPT ![ip] = @ - 1]
  /\ slots' = IF heard THEN [slots EXCEPT ![ip] = @ - 1] ELSE slots
  /\ messageTimes' =
       IF last THEN Restrict(times, DOMAIN times \ {ip}) ELSE times
  /\ forgotten' = IF last THEN Noted(forgotten, ip) ELSE forgotten
  /\ UNCHANGED <<handshakeTimes, pending, shaken>>

SocketGoes(ip) ==
  /\ \E heard \in BOOLEAN : Disconnects(ip, heard, messageTimes)
  /\ UNCHANGED sent

\* onAny: a message too many cuts the socket off.
MessageTaken(ip) ==
  /\ connected[ip] > 0 /\ Under(messageTimes, ip, MaxMessages)
  /\ messageTimes' = Consumed(messageTimes, ip, MaxMessages)
  /\ sent' = Noted(sent, ip)
  /\ UNCHANGED <<handshakeTimes, slots, pending, connected, shaken, forgotten>>

MessageRefused(ip) ==
  /\ connected[ip] > 0 /\ ~Under(messageTimes, ip, MaxMessages)
  /\ \E heard \in BOOLEAN :
       Disconnects(ip, heard, Consumed(messageTimes, ip, MaxMessages))
  /\ UNCHANGED sent

Older(ages) ==
  [i \in DOMAIN ages |-> IF IsRecent(ages[i]) THEN ages[i] + 1 ELSE ages[i]]

TimePasses ==
  /\ handshakeTimes' =
       [ip \in DOMAIN handshakeTimes |-> Older(handshakeTimes[ip])]
  /\ messageTimes' =
       [ip \in DOMAIN messageTimes |-> Older(messageTimes[ip])]
  /\ shaken' = [ip \in Addresses |-> Recent(Older(shaken[ip]))]
  /\ sent' = [ip \in Addresses |-> Recent(Older(sent[ip]))]
  /\ forgotten' = [ip \in Addresses |-> Recent(Older(forgotten[ip]))]
  /\ UNCHANGED <<slots, pending, connected>>

WindowsNext ==
  \/ \E ip \in Addresses :
       \/ AllowRequest(ip) \/ Refuse(ip) \/ Connected(ip) \/ SocketGoes(ip)
       \/ MessageTaken(ip) \/ MessageRefused(ip)
  \/ TimePasses

WindowsSpec == WindowsInit /\ [][WindowsNext]_windowVars

-----------------------------------------------------------------------------
\* README:473, "Maximum Socket.IO handshakes per client IP in a rolling minute":
\* however windows are pruned and swept, whatever connects and disconnects in
\* between, an instance takes no more handshakes of an address in any minute.
HandshakesPerMinute == \A ip \in Addresses : Len(shaken[ip]) <= MaxHandshakes

\* Of messages it takes one limit more each time the window was dropped within
\* the minute, and so none more of an address that keeps a slot.
MessagesPerWindow ==
  \A ip \in Addresses :
    Len(sent[ip]) <= MaxMessages * (1 + Len(forgotten[ip]))

-----------------------------------------------------------------------------
(* What the project says of itself.                                        *)

\* README:474, "Maximum inbound Socket.IO events per IP in a rolling minute".
\* But the window goes with the last slot of the address (index.js:145), and
\* an address that comes back within the minute begins a new one.
MessagesPerMinute == \A ip \in Addresses : Len(sent[ip]) <= MaxMessages

=============================================================================
