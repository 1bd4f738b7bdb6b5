---------------------------- MODULE WindowsProofs ----------------------------
(***************************************************************************)
(* Proofs about Windows, for any addresses, any limits and any number of   *)
(* steps in a minute.                                                      *)
(***************************************************************************)
EXTENDS Windows, FiniteSetTheorems, SequenceTheorems, WellFoundedInduction,
        TLAPS

-----------------------------------------------------------------------------
(***************************************************************************)
(* The inductive invariant.  It says of every part of a minute what        *)
(* HandshakesPerMinute and MessagesPerWindow say of the whole: of the last *)
(* a steps there are no more in the history than in the window.            *)
(***************************************************************************)

\* Timestamps in the order they were taken in.
Window ==
  {s \in Seq(0..Minute) : \A i, j \in DOMAIN s : i <= j => s[i] >= s[j]}

\* How many of them are less than a steps old.
Count(s, a) == Cardinality({i \in DOMAIN s : s[i] < a})

\* What is kept of an address, pruned or not.
Kept(m, ip) == IF ip \in DOMAIN m THEN m[ip] ELSE <<>>

\* A window of which nothing is old.
History == {s \in Window : \A i \in DOMAIN s : IsRecent(s[i])}

\* Every handshake taken is in the window, which is never fuller than allowed.
HandshakesKept ==
  /\ shaken \in [Addresses -> History]
  /\ \A ip \in Addresses :
       /\ Kept(handshakeTimes, ip) \in Window
       /\ Count(Kept(handshakeTimes, ip), Minute) <= MaxHandshakes
       /\ \A a \in 1..Minute :
            Count(shaken[ip], a) <= Count(Kept(handshakeTimes, ip), a)

\* Every message taken is in the window, or one limit of them went each time
\* it was dropped.
MessagesKept ==
  /\ sent \in [Addresses -> History] /\ forgotten \in [Addresses -> History]
  /\ \A ip \in Addresses :
       /\ Kept(messageTimes, ip) \in Window
       /\ Count(Kept(messageTimes, ip), Minute) <= MaxMessages
       /\ \A a \in 1..Minute :
            Count(sent[ip], a) <= Count(Kept(messageTimes, ip), a)
                                  + MaxMessages * Count(forgotten[ip], a)

\* Both.
WindowsInv == HandshakesKept /\ MessagesKept

-----------------------------------------------------------------------------
(***************************************************************************)
(* Windows and counts.                                                     *)
(***************************************************************************)

\* A set of natural numbers that has an element has a least one.
LEMMA SomeLeast ==
  ASSUME NEW S \in SUBSET Nat, S # {}
  PROVE  \E m \in S : \A n \in S : m <= n
<1>1. PICK m \in S : \A n \in S : ~(<<n, m>> \in OpToRel(<, Nat))
  BY WFMin, NatLessThanWellFounded
<1>2. ASSUME NEW n \in S PROVE m <= n
  <2>1. ~(<<n, m>> \in OpToRel(<, Nat))  BY <1>1
  <2>2. n < m => <<n, m>> \in OpToRel(<, Nat)
    BY Zenon DEF OpToRel
  <2>3. ~(n < m)  BY <2>1, <2>2, Zenon
  <2>4. QED BY <2>3
<1>3. QED BY <1>2

\* A window has a length and timestamps.
LEMMA WindowFacts ==
  ASSUME NEW s \in Window
  PROVE  /\ s \in Seq(0..Minute) /\ Len(s) \in Nat /\ DOMAIN s = 1..Len(s)
         /\ \A i \in 1..Len(s) : s[i] \in 0..Minute
         /\ \A i, j \in 1..Len(s) : i <= j => s[i] >= s[j]
         /\ Minute \in Nat \ {0}
BY LenProperties, ElementOfSeq, WindowsAssumption DEF Window

\* Counts are numbers, from 0 at a = 0 to the length of a window of this
\* minute.
LEMMA CountFacts ==
  ASSUME NEW s \in Window
  PROVE  /\ \A a \in Nat : IsFiniteSet({i \in DOMAIN s : s[i] < a})
                           /\ Count(s, a) \in Nat
         /\ Count(s, 0) = 0
         /\ \A a, b \in Nat : a <= b => Count(s, a) <= Count(s, b)
         /\ (\A i \in DOMAIN s : IsRecent(s[i])) => Count(s, Minute) = Len(s)
<1> DEFINE C(a) == {i \in DOMAIN s : s[i] < a}
<1>1. /\ Len(s) \in Nat /\ DOMAIN s = 1..Len(s) /\ Minute \in Nat
      /\ \A i \in 1..Len(s) : s[i] \in 0..Minute
  BY WindowFacts
<1>2. IsFiniteSet(1..Len(s)) /\ Cardinality(1..Len(s)) = Len(s)
  BY <1>1, FS_Interval
<1>3. \A a \in Nat : IsFiniteSet(C(a)) /\ Cardinality(C(a)) \in Nat
  <2>1. \A a : C(a) \subseteq 1..Len(s)  BY <1>1
  <2>2. QED BY <1>2, <2>1, FS_Subset, FS_CardinalityType
<1>4. C(0) = {}  BY <1>1
<1>5. Cardinality(C(0)) = 0  BY <1>4, FS_EmptySet
<1>6. ASSUME NEW a \in Nat, NEW b \in Nat, a <= b
      PROVE  Cardinality(C(a)) <= Cardinality(C(b))
  <2>1. C(a) \subseteq C(b)  BY <1>1, <1>6
  <2>2. QED BY <1>3, <2>1, FS_Subset
<1>7. ASSUME \A i \in DOMAIN s : IsRecent(s[i])
      PROVE  Cardinality(C(Minute)) = Len(s)
  <2>1. C(Minute) = 1..Len(s)  BY <1>1, <1>7 DEF IsRecent
  <2>2. QED BY <1>2, <2>1
<1>8. QED BY <1>3, <1>5, <1>6, <1>7 DEF Count

\* Nothing is an empty window.
LEMMA EmptyWindow == <<>> \in Window /\ \A a : Count(<<>>, a) = 0
<1>1. <<>> \in Seq(0..Minute) /\ DOMAIN <<>> = {}  BY EmptySeq
<1>2. <<>> \in Window  BY <1>1 DEF Window
<1>3. \A a : {i \in DOMAIN <<>> : <<>>[i] < a} = {}  BY <1>1
<1>4. QED BY <1>2, <1>3, FS_EmptySet DEF Count

\* The old timestamps of a window come first, so that the filter drops them
\* and keeps the others.
LEMMA OldComeFirst ==
  ASSUME NEW s \in Window
  PROVE  /\ Cardinality(Old(s)) \in 0..Len(s)
         /\ \A i \in 1..Len(s) : i <= Cardinality(Old(s)) <=> ~IsRecent(s[i])
<1> DEFINE New == {i \in 1..Len(s) + 1 : i \in 1..Len(s) => IsRecent(s[i])}
<1>1. /\ Len(s) \in Nat /\ DOMAIN s = 1..Len(s) /\ Minute \in Nat
      /\ \A i \in 1..Len(s) : s[i] \in 0..Minute
      /\ \A i, j \in 1..Len(s) : i <= j => s[i] >= s[j]
  BY WindowFacts
<1>2. New \in SUBSET Nat /\ Len(s) + 1 \in New  BY <1>1
<1>3. PICK m \in New : \A n \in New : m <= n
  BY <1>2, SomeLeast
<1>4. m \in 1..Len(s) + 1  OBVIOUS
<1>5. ASSUME NEW i \in 1..Len(s) PROVE ~IsRecent(s[i]) <=> i < m
  <2>1. CASE i < m
    <3>1. i \notin New  BY <1>1, <1>3, <1>4, <2>1
    <3>2. i \in 1..Len(s) + 1  BY <1>1
    <3>3. QED BY <2>1, <3>1, <3>2
  <2>2. CASE ~(i < m)
    <3>1. m \in 1..Len(s) /\ m <= i  BY <1>1, <1>4, <2>2
    <3>2. IsRecent(s[m])  BY <3>1
    <3>3. s[m] >= s[i] /\ s[m] \in Nat /\ s[i] \in Nat  BY <1>1, <3>1
    <3>4. IsRecent(s[i])  BY <1>1, <3>2, <3>3 DEF IsRecent
    <3>5. QED BY <2>2, <3>4
  <2>3. QED BY <2>1, <2>2
<1> HIDE DEF New
<1>6. Old(s) = 1..(m - 1)
  BY <1>1, <1>4, <1>5 DEF Old
<1>7. Cardinality(Old(s)) = m - 1
  BY <1>4, <1>6, FS_Interval
<1>8. QED BY <1>1, <1>4, <1>5, <1>7

\* The filter leaves the recent timestamps as they are.
LEMMA RecentKeeps ==
  ASSUME NEW s \in Window
  PROVE  /\ Recent(s) \in Window
         /\ \A i \in DOMAIN Recent(s) : IsRecent(Recent(s)[i])
         /\ \A a \in 0..Minute : Count(Recent(s), a) = Count(s, a)
<1> DEFINE k == Cardinality(Old(s))
<1> DEFINE t == Recent(s)
<1>1. /\ s \in Seq(0..Minute) /\ Len(s) \in Nat /\ DOMAIN s = 1..Len(s)
      /\ \A i \in 1..Len(s) : s[i] \in 0..Minute
      /\ \A i, j \in 1..Len(s) : i <= j => s[i] >= s[j]
      /\ Minute \in Nat \ {0}
  BY WindowFacts
<1>2. /\ k \in 0..Len(s)
      /\ \A i \in 1..Len(s) : i <= k <=> ~IsRecent(s[i])
  BY OldComeFirst
<1> HIDE DEF k
<1>3. /\ t \in Seq(0..Minute) /\ Len(t) = Len(s) - k
      /\ \A i \in 1..(Len(s) - k) : t[i] = s[k + i]
  <2>1. \A i \in k+1..Len(s) : s[i] \in 0..Minute  BY <1>1, <1>2
  <2>2. t = SubSeq(s, k+1, Len(s))  BY DEF k, Recent
  <2>3. /\ SubSeq(s, k+1, Len(s)) \in Seq(0..Minute)
        /\ Len(SubSeq(s, k+1, Len(s)))
             = IF k+1 <= Len(s) THEN Len(s) - (k+1) + 1 ELSE 0
        /\ \A i \in 1..(Len(s) - (k+1) + 1) :
             SubSeq(s, k+1, Len(s))[i] = s[(k+1) + i - 1]
    BY <1>1, <1>2, <2>1, SubSeqProperties
  <2> HIDE DEF t
  <2>4. Len(s) - (k+1) + 1 = Len(s) - k  BY <1>1, <1>2
  <2>5. \A i \in 1..(Len(s) - k) : (k+1) + i - 1 = k + i  BY <1>1, <1>2
  <2>6. t \in Seq(0..Minute)  BY <2>2, <2>3
  <2>7. Len(t) = Len(s) - k
    <3>1. CASE k + 1 <= Len(s)
      <4>1. Len(t) = Len(s) - (k+1) + 1  BY <2>2, <2>3, <3>1
      <4>2. QED BY <2>4, <4>1
    <3>2. CASE ~(k + 1 <= Len(s))
      <4>1. t = <<>>  BY <1>1, <1>2, <2>2, <3>2, SubSeqEmpty
      <4>2. \A n \in Nat : \A m \in 0..n : ~(m + 1 <= n) => n - m = 0
        OBVIOUS
      <4>3. Len(s) - k = 0  BY <1>1, <1>2, <3>2, <4>2
      <4>4. QED BY <4>1, <4>3, EmptySeq
    <3>3. QED BY <3>1, <3>2
  <2>8. ASSUME NEW i \in 1..(Len(s) - k) PROVE t[i] = s[k + i]
    <3>1. t[i] = s[(k+1) + i - 1]  BY <2>2, <2>3, <2>4
    <3>2. QED BY <2>5, <3>1
  <2>9. QED BY <2>6, <2>7, <2>8
<1> HIDE DEF t
<1>4. Len(t) \in Nat /\ DOMAIN t = 1..Len(t)  BY <1>3, LenProperties
<1>5. \A i \in 1..Len(t) : k + i \in 1..Len(s) /\ ~(k + i <= k)
  BY <1>1, <1>2, <1>3
<1>6. t \in Window
  <2>1. ASSUME NEW i \in DOMAIN t, NEW j \in DOMAIN t, i <= j
        PROVE  t[i] >= t[j]
    <3>1. /\ t[i] = s[k + i] /\ t[j] = s[k + j] /\ k + i <= k + j
          /\ k + i \in 1..Len(s) /\ k + j \in 1..Len(s)
      BY <1>2, <1>3, <1>4, <1>5, <2>1
    <3>2. QED BY <1>1, <3>1
  <2>2. QED BY <1>3, <2>1 DEF Window
<1>7. \A i \in DOMAIN t : IsRecent(t[i])
  BY <1>2, <1>3, <1>4, <1>5
<1>8. ASSUME NEW a \in 0..Minute PROVE Count(t, a) = Count(s, a)
  <2> DEFINE S == {i \in DOMAIN t : t[i] < a}
  <2> DEFINE T == {i \in DOMAIN s : s[i] < a}
  <2> DEFINE f == [i \in S |-> k + i]
  <2>1. \A i \in S : k + i \in T
    BY <1>1, <1>3, <1>4, <1>5
  <2>2. ASSUME NEW j \in T PROVE j - k \in S /\ k + (j - k) = j
    <3>1. j \in 1..Len(s) /\ s[j] < a /\ s[j] \in 0..Minute  BY <1>1
    <3>2. IsRecent(s[j])  BY <1>1, <3>1 DEF IsRecent
    <3>3. ~(j <= k)  BY <1>2, <3>1, <3>2
    <3>4. j - k \in 1..(Len(s) - k) /\ k + (j - k) = j
      BY <1>1, <1>2, <3>1, <3>3
    <3>5. j - k \in DOMAIN t /\ t[j - k] = s[j]
      BY <1>3, <1>4, <3>4
    <3>6. QED BY <3>1, <3>4, <3>5
  <2>3. S \subseteq Nat  BY <1>4
  <2> HIDE DEF S, T
  <2>4. f \in [S -> T]  BY <2>1
  <2>5. \A i, j \in S : f[i] = f[j] => i = j  BY <1>2, <2>3
  <2>6. \A j \in T : \E i \in S : f[i] = j  BY <2>2
  <2>7. f \in Bijection(S, T)
    BY <2>4, <2>5, <2>6 DEF Bijection, Injection, Surjection, IsInjective
  <2>8. ExistsBijection(S, T)  BY <2>7 DEF ExistsBijection
  <2>9. IsFiniteSet(S)  BY <1>1, <1>6, CountFacts DEF S
  <2>10. Cardinality(T) = Cardinality(S)  BY <2>8, <2>9, FS_Bijection
  <2>11. QED BY <2>10 DEF S, T, Count
<1>9. QED BY <1>6, <1>7, <1>8 DEF t

\* What is recent of nothing is nothing.
LEMMA RecentOfNothing == Recent(<<>>) = <<>>
<1>1. Len(<<>>) = 0 /\ DOMAIN <<>> = {}  BY EmptySeq
<1>2. Cardinality(Old(<<>>)) = 0  BY <1>1, FS_EmptySet DEF Old
<1>3. QED BY <1>1, <1>2, SubSeqEmpty DEF Recent

\* A timestamp of now makes one more, however little one looks back.
LEMMA CountOneMore ==
  ASSUME NEW s \in Window
  PROVE  /\ Append(s, 0) \in Window
         /\ \A a \in 1..Minute : Count(Append(s, 0), a) = Count(s, a) + 1
         /\ (\A i \in DOMAIN s : IsRecent(s[i]))
              => \A i \in DOMAIN Append(s, 0) : IsRecent(Append(s, 0)[i])
<1> DEFINE t == Append(s, 0)
<1>1. /\ s \in Seq(0..Minute) /\ Len(s) \in Nat /\ DOMAIN s = 1..Len(s)
      /\ \A i \in 1..Len(s) : s[i] \in 0..Minute
      /\ \A i, j \in 1..Len(s) : i <= j => s[i] >= s[j]
      /\ Minute \in Nat \ {0}
  BY WindowFacts
<1>2. /\ t \in Seq(0..Minute) /\ DOMAIN t = 1..(Len(s) + 1)
      /\ t[Len(s) + 1] = 0 /\ \A i \in 1..Len(s) : t[i] = s[i]
  <2>1. 0 \in 0..Minute  BY <1>1
  <2>2. QED BY <1>1, <2>1
<1> HIDE DEF t
<1>3. t \in Window
  <2>1. ASSUME NEW i \in DOMAIN t, NEW j \in DOMAIN t, i <= j
        PROVE  t[i] >= t[j]
    <3>1. CASE j = Len(s) + 1
      <4>1. t[i] \in 0..Minute  BY <1>1, <1>2
      <4>2. QED BY <1>2, <3>1, <4>1
    <3>2. CASE j # Len(s) + 1
      <4>1. i \in 1..Len(s) /\ j \in 1..Len(s)  BY <1>1, <1>2, <2>1, <3>2
      <4>2. QED BY <1>1, <1>2, <2>1, <4>1
    <3>3. QED BY <3>1, <3>2
  <2>2. QED BY <1>2, <2>1 DEF Window
<1>4. ASSUME NEW a \in 1..Minute PROVE Count(t, a) = Count(s, a) + 1
  <2> DEFINE S == {i \in DOMAIN s : s[i] < a}
  <2>1. {i \in DOMAIN t : t[i] < a} = S \cup {Len(s) + 1}
    BY <1>1, <1>2
  <2>2. Len(s) + 1 \notin S  BY <1>1
  <2>3. IsFiniteSet(S)  BY CountFacts
  <2> HIDE DEF S
  <2>4. Cardinality(S \cup {Len(s) + 1}) = Cardinality(S) + 1
    BY <2>2, <2>3, FS_AddElement
  <2>5. QED BY <2>1, <2>4 DEF Count, S
<1>5. ASSUME \A i \in DOMAIN s : IsRecent(s[i])
      PROVE  \A i \in DOMAIN t : IsRecent(t[i])
  BY <1>1, <1>2, <1>5 DEF IsRecent
<1>6. QED BY <1>3, <1>4, <1>5 DEF t

\* When time passes, what is less than a steps old was less than a-1 steps old.
LEMMA CountOlder ==
  ASSUME NEW s \in Window
  PROVE  /\ Older(s) \in Window
         /\ \A a \in 1..Minute : Count(Older(s), a) = Count(s, a - 1)
<1> DEFINE t == Older(s)
<1>1. /\ s \in Seq(0..Minute) /\ Len(s) \in Nat /\ DOMAIN s = 1..Len(s)
      /\ \A i \in 1..Len(s) : s[i] \in 0..Minute
      /\ \A i, j \in 1..Len(s) : i <= j => s[i] >= s[j]
      /\ Minute \in Nat \ {0}
  BY WindowFacts
<1>2. t = [i \in 1..Len(s) |-> IF s[i] < Minute THEN s[i] + 1 ELSE s[i]]
  BY <1>1 DEF Older, IsRecent
<1> HIDE DEF t
<1>3. /\ DOMAIN t = 1..Len(s)
      /\ \A i \in 1..Len(s) : t[i] \in 0..Minute
      /\ \A i \in 1..Len(s) :
           t[i] = IF s[i] < Minute THEN s[i] + 1 ELSE s[i]
  BY <1>1, <1>2
<1>4. t \in Seq(0..Minute)
  <2>1. t \in [1..Len(s) -> 0..Minute]  BY <1>2, <1>3
  <2>2. QED BY <1>1, <2>1, SeqDef
<1>5. \A i, j \in 1..Len(s) : i <= j => t[i] >= t[j]
  <2>1. ASSUME NEW i \in 1..Len(s), NEW j \in 1..Len(s), i <= j
        PROVE  t[i] >= t[j]
    <3>1. s[i] \in Nat /\ s[j] \in Nat /\ s[i] >= s[j] /\ s[i] <= Minute
      BY <1>1, <2>1
    <3>2. QED BY <1>1, <1>3, <3>1
  <2>2. QED BY <2>1
<1>6. ASSUME NEW a \in 1..Minute PROVE Count(t, a) = Count(s, a - 1)
  <2>1. \A i \in 1..Len(s) : t[i] < a <=> s[i] < a - 1
    <3>1. ASSUME NEW i \in 1..Len(s) PROVE t[i] < a <=> s[i] < a - 1
      <4>1. s[i] \in 0..Minute /\ a \in Nat /\ a <= Minute  BY <1>1
      <4>2. QED BY <1>1, <1>3, <4>1
    <3>2. QED BY <3>1
  <2>2. {i \in DOMAIN t : t[i] < a} = {i \in DOMAIN s : s[i] < a - 1}
    BY <1>1, <1>3, <2>1
  <2>3. QED BY <2>2 DEF Count
<1>7. QED BY <1>3, <1>4, <1>5, <1>6 DEF t, Window

-----------------------------------------------------------------------------
(***************************************************************************)
(* What the operators of the gateway make of a window.                     *)
(***************************************************************************)

\* A history counts what is noted, and forgets what is older than a minute.
LEMMA HistoryFacts ==
  ASSUME NEW s \in History
  PROVE  /\ s \in Window /\ Count(s, Minute) = Len(s)
         /\ Append(s, 0) \in History
         /\ \A a \in 1..Minute : Count(Append(s, 0), a) = Count(s, a) + 1
         /\ Recent(Older(s)) \in History
         /\ \A a \in 1..Minute : Count(Recent(Older(s)), a) = Count(s, a - 1)
<1>1. s \in Window /\ \A i \in DOMAIN s : IsRecent(s[i])  BY DEF History
<1>2. Count(s, Minute) = Len(s)  BY <1>1, CountFacts
<1>3. /\ Append(s, 0) \in History
      /\ \A a \in 1..Minute : Count(Append(s, 0), a) = Count(s, a) + 1
  BY <1>1, CountOneMore DEF History
<1>4. /\ Older(s) \in Window
      /\ \A a \in 1..Minute : Count(Older(s), a) = Count(s, a - 1)
  BY <1>1, CountOlder
<1>5. /\ Recent(Older(s)) \in History
      /\ \A a \in 0..Minute : Count(Recent(Older(s)), a) = Count(Older(s), a)
  BY <1>4, RecentKeeps DEF History
<1>6. 1..Minute \subseteq 0..Minute  BY <1>1, WindowFacts
<1>7. QED BY <1>1, <1>2, <1>3, <1>4, <1>5, <1>6

\* Of an address without a window nothing is recent either.
LEMMA TimesAreRecent ==
  ASSUME NEW m, NEW ip, Kept(m, ip) \in Window
  PROVE  /\ TimesOf(m, ip) \in History
         /\ \A a \in 1..Minute :
              Count(TimesOf(m, ip), a) = Count(Kept(m, ip), a)
         /\ Len(TimesOf(m, ip)) = Count(Kept(m, ip), Minute)
<1>1. TimesOf(m, ip) = Recent(Kept(m, ip))
  BY RecentOfNothing DEF TimesOf, Kept
<1>2. Minute \in 1..Minute /\ 1..Minute \subseteq 0..Minute
  BY WindowFacts
<1>3. QED BY <1>1, <1>2, RecentKeeps, HistoryFacts DEF History

\* Consuming counts one more if there is room, and touches no other address.
LEMMA ConsumedKeeps ==
  ASSUME NEW m, NEW ip \in Addresses, NEW limit \in Nat \ {0},
         Kept(m, ip) \in Window
  PROVE  /\ \A q : q # ip => Kept(Consumed(m, ip, limit), q) = Kept(m, q)
         /\ Kept(Consumed(m, ip, limit), ip) \in Window
         /\ \A a \in 1..Minute :
              Count(Kept(Consumed(m, ip, limit), ip), a)
                = IF Under(m, ip, limit) THEN Count(Kept(m, ip), a) + 1
                                         ELSE Count(Kept(m, ip), a)
         /\ Under(m, ip, limit) <=> Count(Kept(m, ip), Minute) < limit
<1> DEFINE times == TimesOf(m, ip)
<1>1. /\ \A q : q # ip => Kept(Consumed(m, ip, limit), q) = Kept(m, q)
      /\ Kept(Consumed(m, ip, limit), ip)
           = IF Under(m, ip, limit) THEN Append(times, 0) ELSE times
  BY DEF Consumed, Kept
<1>2. /\ times \in History
      /\ \A a \in 1..Minute : Count(times, a) = Count(Kept(m, ip), a)
      /\ Len(times) = Count(Kept(m, ip), Minute)
  BY TimesAreRecent
<1>3. Under(m, ip, limit) <=> Count(Kept(m, ip), Minute) < limit
  BY <1>2 DEF Under
<1> HIDE DEF times
<1>4. /\ times \in Window /\ Append(times, 0) \in Window
      /\ \A a \in 1..Minute : Count(Append(times, 0), a) = Count(times, a) + 1
  BY <1>2, HistoryFacts DEF History
<1>5. QED BY <1>1, <1>2, <1>3, <1>4

\* The sweep takes only windows that count for nothing.
LEMMA SweptKeeps ==
  ASSUME NEW m, NEW ip, Kept(m, ip) \in Window
  PROVE  /\ Kept(Swept(m), ip) \in Window
         /\ \A a \in 1..Minute :
              Count(Kept(Swept(m), ip), a) = Count(Kept(m, ip), a)
<1>1. CASE ip \in DOMAIN Swept(m)
  <2>1. Kept(Swept(m), ip) = Kept(m, ip)
    BY <1>1 DEF Swept, Restrict, Kept
  <2>2. QED BY <2>1
<1>2. CASE ip \notin DOMAIN Swept(m)
  <2>1. Kept(Swept(m), ip) = <<>>  BY <1>2 DEF Kept
  <2>2. Recent(Kept(m, ip)) = <<>>
    BY <1>2, RecentOfNothing DEF Swept, Restrict, Kept
  <2>3. \A a \in 0..Minute : Count(<<>>, a) = Count(Kept(m, ip), a)
    BY <2>2, RecentKeeps
  <2>4. 1..Minute \subseteq 0..Minute  BY WindowFacts
  <2>5. QED BY <2>1, <2>3, <2>4, EmptyWindow
<1>3. QED BY <1>1, <1>2

\* Time moves every window on.
LEMMA OlderKeeps ==
  ASSUME NEW m, NEW ip, Kept(m, ip) \in Window
  PROVE  LET o == [q \in DOMAIN m |-> Older(m[q])] IN
         /\ Kept(o, ip) \in Window
         /\ \A a \in 1..Minute :
              Count(Kept(o, ip), a) = Count(Kept(m, ip), a - 1)
<1> DEFINE o == [q \in DOMAIN m |-> Older(m[q])]
<1>1. CASE ip \in DOMAIN m
  <2>1. Kept(o, ip) = Older(Kept(m, ip))  BY <1>1 DEF Kept
  <2>2. QED BY <2>1, CountOlder
<1>2. CASE ip \notin DOMAIN m
  <2>1. Kept(o, ip) = <<>> /\ Kept(m, ip) = <<>>  BY <1>2 DEF Kept
  <2>2. QED BY <2>1, EmptyWindow
<1>3. QED BY <1>1, <1>2

-----------------------------------------------------------------------------
(***************************************************************************)
(* Steps.                                                                  *)
(***************************************************************************)

\* What the limits are compared with.
LEMMA Limits ==
  /\ Minute \in Nat \ {0} /\ Minute \in 1..Minute
  /\ MaxHandshakes \in Nat \ {0} /\ MaxMessages \in Nat \ {0}
  /\ \A a \in 1..Minute : a \in Nat /\ a - 1 \in Nat /\ a - 1 <= Minute
                         /\ (a - 1 = 0 \/ a - 1 \in 1..Minute)
BY WindowsAssumption

\* A handshake is in the history if and only if it is in the window.
LEMMA HandshakeConsumed ==
  ASSUME HandshakesKept, NEW ip \in Addresses,
         handshakeTimes' = ConsumeHandshake(ip),
         shaken' = IF Under(handshakeTimes, ip, MaxHandshakes)
                   THEN Noted(shaken, ip) ELSE shaken
  PROVE  HandshakesKept'
<1> DEFINE m == Consumed(handshakeTimes, ip, MaxHandshakes)
<1> DEFINE taken == Under(handshakeTimes, ip, MaxHandshakes)
<1> DEFINE old(q) == Kept(handshakeTimes, q)
<1>1. /\ \A q : q # ip => Kept(m, q) = old(q)
      /\ Kept(m, ip) \in Window
      /\ \A a \in 1..Minute :
           Count(Kept(m, ip), a)
             = IF taken THEN Count(old(ip), a) + 1 ELSE Count(old(ip), a)
      /\ taken <=> Count(old(ip), Minute) < MaxHandshakes
  BY ConsumedKeeps, Limits DEF HandshakesKept
<1>2. handshakeTimes' = m \/ handshakeTimes' = Swept(m)
  BY DEF ConsumeHandshake
<1> HIDE DEF m, taken
<1>3. ASSUME NEW q \in Addresses
      PROVE  /\ Kept(handshakeTimes', q) \in Window
             /\ \A a \in 1..Minute :
                  Count(Kept(handshakeTimes', q), a) = Count(Kept(m, q), a)
  <2>1. Kept(m, q) \in Window  BY <1>1 DEF HandshakesKept
  <2>2. QED BY <1>2, <2>1, SweptKeeps
<1>4. shaken \in [Addresses -> History]  BY DEF HandshakesKept
<1>5. shaken' \in [Addresses -> History]
  BY <1>4, HistoryFacts DEF Noted
<1>6. ASSUME NEW q \in Addresses
      PROVE  /\ Count(Kept(handshakeTimes', q), Minute) <= MaxHandshakes
             /\ \A a \in 1..Minute :
                  Count(shaken'[q], a) <= Count(Kept(handshakeTimes', q), a)
  <2>1. /\ old(q) \in Window /\ Count(old(q), Minute) <= MaxHandshakes
        /\ \A a \in 1..Minute : Count(shaken[q], a) <= Count(old(q), a)
    BY DEF HandshakesKept
  <2>2. \A a \in 1..Minute :
          Count(shaken[q], a) \in Nat /\ Count(old(q), a) \in Nat
    BY <1>4, <2>1, HistoryFacts, CountFacts, Limits
  <2>3. CASE q = ip /\ taken
    <3>1. shaken'[q] = Append(shaken[q], 0)
      BY <1>4, <2>3 DEF Noted, taken
    <3>2. \A a \in 1..Minute : Count(shaken'[q], a) = Count(shaken[q], a) + 1
      BY <1>4, <3>1, HistoryFacts
    <3>3. \A a \in 1..Minute :
            Count(Kept(handshakeTimes', q), a) = Count(old(q), a) + 1
      BY <1>1, <1>3, <2>3
    <3>4. Count(old(q), Minute) < MaxHandshakes  BY <1>1, <2>3
    <3> HIDE DEF old
    <3>5. QED BY <2>1, <2>2, <3>2, <3>3, <3>4, Limits
  <2>4. CASE ~(q = ip /\ taken)
    <3>1. shaken'[q] = shaken[q]  BY <1>4, <2>4 DEF Noted, taken
    <3>2. \A a \in 1..Minute :
            Count(Kept(handshakeTimes', q), a) = Count(old(q), a)
      BY <1>1, <1>3, <2>4
    <3>3. QED BY <2>1, <3>1, <3>2, Limits
  <2>5. QED BY <2>3, <2>4
<1>7. QED BY <1>3, <1>5, <1>6 DEF HandshakesKept

\* When time passes, the parts of a minute move up by one.
LEMMA HandshakesAge == HandshakesKept /\ TimePasses => HandshakesKept'
<1> SUFFICES ASSUME HandshakesKept, TimePasses PROVE HandshakesKept'
  OBVIOUS
<1>1. /\ shaken \in [Addresses -> History]
      /\ shaken' = [ip \in Addresses |-> Recent(Older(shaken[ip]))]
      /\ handshakeTimes' =
           [ip \in DOMAIN handshakeTimes |-> Older(handshakeTimes[ip])]
  BY DEF HandshakesKept, TimePasses
<1>2. shaken' \in [Addresses -> History]  BY <1>1, HistoryFacts
<1>3. ASSUME NEW q \in Addresses
      PROVE  /\ Kept(handshakeTimes', q) \in Window
             /\ Count(Kept(handshakeTimes', q), Minute) <= MaxHandshakes
             /\ \A a \in 1..Minute :
                  Count(shaken'[q], a) <= Count(Kept(handshakeTimes', q), a)
  <2> DEFINE old == Kept(handshakeTimes, q)
  <2> DEFINE new == Kept(handshakeTimes', q)
  <2>1. /\ old \in Window /\ Count(old, Minute) <= MaxHandshakes
        /\ \A a \in 1..Minute : Count(shaken[q], a) <= Count(old, a)
    BY DEF HandshakesKept
  <2>2. /\ new \in Window
        /\ \A a \in 1..Minute : Count(new, a) = Count(old, a - 1)
    BY <1>1, <2>1, OlderKeeps
  <2>3. \A a \in 1..Minute : Count(shaken'[q], a) = Count(shaken[q], a - 1)
    BY <1>1, HistoryFacts
  <2>4. shaken[q] \in Window  BY <1>1, HistoryFacts
  <2> HIDE DEF old, new
  <2>5. \A a \in 1..Minute : Count(shaken[q], a - 1) <= Count(old, a - 1)
    BY <2>1, <2>4, CountFacts, Limits
  <2>6. Count(old, Minute - 1) <= Count(old, Minute)
    BY <2>1, CountFacts, Limits
  <2>7. Count(old, Minute - 1) \in Nat /\ Count(old, Minute) \in Nat
    BY <2>1, CountFacts, Limits
  <2>8. Count(new, Minute) <= MaxHandshakes
    BY <2>1, <2>2, <2>6, <2>7, Limits
  <2>9. QED BY <2>2, <2>3, <2>5, <2>8 DEF new
<1>4. QED BY <1>2, <1>3 DEF HandshakesKept

\* A message that is taken is in the history and in the window.
LEMMA MessageConsumed ==
  ASSUME MessagesKept, NEW ip \in Addresses, MessageTaken(ip)
  PROVE  MessagesKept'
<1> DEFINE old(q) == Kept(messageTimes, q)
<1> DEFINE new(q) == Kept(messageTimes', q)
<1>1. /\ sent \in [Addresses -> History] /\ forgotten \in [Addresses -> History]
      /\ \A q \in Addresses :
           /\ old(q) \in Window /\ Count(old(q), Minute) <= MaxMessages
           /\ \A a \in 1..Minute :
                Count(sent[q], a) <= Count(old(q), a)
                                     + MaxMessages * Count(forgotten[q], a)
  BY DEF MessagesKept
<1>2. /\ \A q \in Addresses : q # ip => new(q) = old(q)
      /\ new(ip) \in Window /\ Count(old(ip), Minute) < MaxMessages
      /\ \A a \in 1..Minute : Count(new(ip), a) = Count(old(ip), a) + 1
  BY <1>1, ConsumedKeeps, Limits DEF MessageTaken
<1>3. sent' = Noted(sent, ip) /\ forgotten' = forgotten  BY DEF MessageTaken
<1>4. sent' \in [Addresses -> History]  BY <1>1, <1>3, HistoryFacts DEF Noted
<1> HIDE DEF old, new
<1>5. ASSUME NEW q \in Addresses
      PROVE  /\ new(q) \in Window /\ Count(new(q), Minute) <= MaxMessages
             /\ \A a \in 1..Minute :
                  Count(sent'[q], a) <= Count(new(q), a)
                                        + MaxMessages * Count(forgotten'[q], a)
  <2>1. CASE q = ip
    <3>1. \A a \in 1..Minute : Count(sent'[q], a) = Count(sent[q], a) + 1
      BY <1>1, <1>3, <2>1, HistoryFacts DEF Noted
    <3>2. Count(old(q), Minute) \in Nat  BY <1>1, CountFacts, Limits
    <3>3. Count(new(q), Minute) <= MaxMessages
      BY <1>2, <2>1, <3>2, Limits
    <3>4. ASSUME NEW a \in 1..Minute
          PROVE  Count(sent'[q], a) <= Count(new(q), a)
                                       + MaxMessages * Count(forgotten'[q], a)
      <4> DEFINE dropped == MaxMessages * Count(forgotten[q], a)
      <4>1. /\ Count(sent[q], a) \in Nat /\ Count(old(q), a) \in Nat
            /\ Count(forgotten[q], a) \in Nat
        BY <1>1, HistoryFacts, CountFacts, Limits
      <4>2. dropped \in Nat  BY <4>1, Limits
      <4>3. Count(sent[q], a) <= Count(old(q), a) + dropped  BY <1>1
      <4> HIDE DEF dropped
      <4>4. Count(sent[q], a) + 1 <= (Count(old(q), a) + 1) + dropped
        BY <4>1, <4>2, <4>3
      <4>5. QED BY <1>2, <1>3, <2>1, <3>1, <4>4 DEF dropped
    <3>5. QED BY <1>2, <2>1, <3>3, <3>4
  <2>2. CASE q # ip
    BY <1>1, <1>2, <1>3, <2>2 DEF Noted
  <2>3. QED BY <2>1, <2>2
<1>6. QED BY <1>1, <1>3, <1>4, <1>5 DEF new, MessagesKept

\* A window that goes with the last slot is written down as forgotten.
LEMMA DisconnectKeeps ==
  ASSUME MessagesKept, NEW ip \in Addresses, NEW heard \in BOOLEAN, NEW times,
         Disconnects(ip, heard, times), sent' = sent,
         \A q \in Addresses :
           /\ Kept(times, q) \in Window
           /\ \A a \in 1..Minute :
                Count(Kept(times, q), a) = Count(Kept(messageTimes, q), a)
  PROVE  MessagesKept'
<1> DEFINE last == heard /\ slots[ip] = 1
<1> DEFINE kept(q) == Kept(times, q)
<1> DEFINE new(q) == Kept(messageTimes', q)
<1>1. /\ sent \in [Addresses -> History] /\ forgotten \in [Addresses -> History]
      /\ \A q \in Addresses :
           /\ kept(q) \in Window /\ Count(kept(q), Minute) <= MaxMessages
           /\ \A a \in 1..Minute :
                Count(sent[q], a) <= Count(kept(q), a)
                                     + MaxMessages * Count(forgotten[q], a)
  BY Limits DEF MessagesKept
<1>2. /\ messageTimes' = IF last THEN Restrict(times, DOMAIN times \ {ip})
                                 ELSE times
      /\ forgotten' = IF last THEN Noted(forgotten, ip) ELSE forgotten
  BY DEF Disconnects
<1>3. /\ last => new(ip) = <<>>
      /\ \A q : ~(last /\ q = ip) => new(q) = kept(q)
  BY <1>2 DEF Restrict, Kept
<1> HIDE DEF last
<1>4. forgotten' \in [Addresses -> History]
  BY <1>1, <1>2, HistoryFacts DEF Noted
<1> HIDE DEF kept, new
<1>5. ASSUME NEW q \in Addresses
      PROVE  /\ new(q) \in Window /\ Count(new(q), Minute) <= MaxMessages
             /\ \A a \in 1..Minute :
                  Count(sent'[q], a) <= Count(new(q), a)
                                        + MaxMessages * Count(forgotten'[q], a)
  <2>1. CASE last /\ q = ip
    <3>1. /\ new(q) \in Window /\ \A a : Count(new(q), a) = 0
      BY <1>3, <2>1, EmptyWindow
    <3>2. \A a \in 1..Minute :
            Count(forgotten'[q], a) = Count(forgotten[q], a) + 1
      BY <1>1, <1>2, <2>1, HistoryFacts DEF Noted
    <3>3. ASSUME NEW a \in 1..Minute
          PROVE  Count(sent'[q], a) <= Count(new(q), a)
                                       + MaxMessages * Count(forgotten'[q], a)
      <4> DEFINE c == Count(kept(q), a)
      <4> DEFINE f == Count(forgotten[q], a)
      <4>1. /\ Count(sent[q], a) \in Nat /\ c \in Nat /\ f \in Nat
            /\ c <= Count(kept(q), Minute) /\ Count(kept(q), Minute) \in Nat
        <5>1. /\ sent[q] \in Window /\ forgotten[q] \in Window
              /\ kept(q) \in Window
          BY <1>1, HistoryFacts
        <5>2. a \in Nat /\ Minute \in Nat /\ a <= Minute  BY Limits
        <5>3. Count(sent[q], a) \in Nat /\ f \in Nat  BY <5>1, <5>2, CountFacts
        <5>4. /\ c \in Nat /\ c <= Count(kept(q), Minute)
              /\ Count(kept(q), Minute) \in Nat
          BY <5>1, <5>2, CountFacts
        <5>5. QED BY <5>3, <5>4
      <4>2. Count(sent[q], a) <= c + MaxMessages * f  BY <1>1
      <4>3. Count(forgotten'[q], a) = f + 1 /\ Count(new(q), a) = 0
        BY <3>1, <3>2
      <4>4. c <= MaxMessages  BY <1>1, <4>1, Limits
      <4> HIDE DEF c, f
      <4>5. MaxMessages * (f + 1) = MaxMessages * f + MaxMessages
            /\ MaxMessages * f \in Nat
        BY <4>1, Limits
      <4>6. Count(sent[q], a) <= MaxMessages * f + MaxMessages
        BY <4>1, <4>2, <4>4, <4>5, Limits
      <4>7. QED BY <4>1, <4>3, <4>5, <4>6, Limits
    <3>4. QED BY <3>1, <3>3, Limits
  <2>2. CASE ~(last /\ q = ip)
    <3>1. new(q) = kept(q) /\ forgotten'[q] = forgotten[q]
      BY <1>1, <1>2, <1>3, <2>2 DEF Noted
    <3>2. QED BY <1>1, <3>1
  <2>3. QED BY <2>1, <2>2
<1>6. QED BY <1>1, <1>4, <1>5 DEF new, MessagesKept

\* When time passes, the parts of a minute move up by one.
LEMMA MessagesAge == MessagesKept /\ TimePasses => MessagesKept'
<1> SUFFICES ASSUME MessagesKept, TimePasses PROVE MessagesKept'
  OBVIOUS
<1>1. /\ sent \in [Addresses -> History] /\ forgotten \in [Addresses -> History]
      /\ sent' = [ip \in Addresses |-> Recent(Older(sent[ip]))]
      /\ forgotten' = [ip \in Addresses |-> Recent(Older(forgotten[ip]))]
      /\ messageTimes' =
           [ip \in DOMAIN messageTimes |-> Older(messageTimes[ip])]
  BY DEF MessagesKept, TimePasses
<1>2. sent' \in [Addresses -> History] /\ forgotten' \in [Addresses -> History]
  BY <1>1, HistoryFacts
<1>3. ASSUME NEW q \in Addresses
      PROVE  /\ Kept(messageTimes', q) \in Window
             /\ Count(Kept(messageTimes', q), Minute) <= MaxMessages
             /\ \A a \in 1..Minute :
                  Count(sent'[q], a) <= Count(Kept(messageTimes', q), a)
                                        + MaxMessages * Count(forgotten'[q], a)
  <2> DEFINE old == Kept(messageTimes, q)
  <2> DEFINE new == Kept(messageTimes', q)
  <2>1. /\ old \in Window /\ Count(old, Minute) <= MaxMessages
        /\ \A a \in 1..Minute :
             Count(sent[q], a) <= Count(old, a)
                                  + MaxMessages * Count(forgotten[q], a)
    BY DEF MessagesKept
  <2>2. /\ new \in Window
        /\ \A a \in 1..Minute : Count(new, a) = Count(old, a - 1)
    BY <1>1, <2>1, OlderKeeps
  <2>3. \A a \in 1..Minute :
          /\ Count(sent'[q], a) = Count(sent[q], a - 1)
          /\ Count(forgotten'[q], a) = Count(forgotten[q], a - 1)
    BY <1>1, HistoryFacts
  <2>4. sent[q] \in Window /\ forgotten[q] \in Window
    BY <1>1, HistoryFacts
  <2> HIDE DEF old, new
  <2>5. ASSUME NEW a \in 1..Minute
        PROVE  Count(sent[q], a - 1)
                 <= Count(old, a - 1) + MaxMessages * Count(forgotten[q], a - 1)
    <3>1. CASE a - 1 \in 1..Minute
      BY <2>1, <3>1
    <3>2. CASE a - 1 = 0
      <4>1. /\ Count(sent[q], 0) = 0 /\ Count(old, 0) = 0
            /\ Count(forgotten[q], 0) = 0
        BY <2>1, <2>4, CountFacts
      <4>2. MaxMessages * 0 = 0  BY Limits
      <4>3. QED BY <3>2, <4>1, <4>2
    <3>3. QED BY <3>1, <3>2, Limits
  <2>6. /\ Count(old, Minute - 1) <= Count(old, Minute)
        /\ Count(old, Minute - 1) \in Nat /\ Count(old, Minute) \in Nat
    BY <2>1, CountFacts, Limits
  <2>7. Count(new, Minute) <= MaxMessages
    BY <2>1, <2>2, <2>6, Limits
  <2>8. QED BY <2>2, <2>3, <2>5, <2>7 DEF new
<1>4. QED BY <1>2, <1>3 DEF MessagesKept

\* At first there is nothing to count.
LEMMA InitWindowsInv == WindowsInit => WindowsInv
<1> SUFFICES ASSUME WindowsInit PROVE WindowsInv
  OBVIOUS
<1>1. <<>> \in History /\ \A a : Count(<<>>, a) = 0
  BY EmptyWindow, EmptySeq DEF History
<1>2. \A ip : Kept(handshakeTimes, ip) = <<>> /\ Kept(messageTimes, ip) = <<>>
  BY EmptySeq DEF WindowsInit, Kept
<1>3. HandshakesKept
  BY <1>1, <1>2, EmptyWindow, Limits DEF WindowsInit, HandshakesKept
<1>4. MaxMessages * 0 = 0  BY Limits
<1>5. MessagesKept
  BY <1>1, <1>2, <1>4, EmptyWindow, Limits DEF WindowsInit, MessagesKept
<1>6. QED BY <1>3, <1>5 DEF WindowsInv

\* Every step keeps both.
LEMMA NextWindowsInv ==
  WindowsInv /\ [WindowsNext]_windowVars => WindowsInv'
<1> SUFFICES ASSUME WindowsInv, [WindowsNext]_windowVars PROVE WindowsInv'
  OBVIOUS
<1>0. HandshakesKept /\ MessagesKept  BY DEF WindowsInv
<1>1. UNCHANGED <<handshakeTimes, shaken>> => HandshakesKept'
  BY <1>0 DEF HandshakesKept
<1>2. UNCHANGED <<messageTimes, sent, forgotten>> => MessagesKept'
  BY <1>0 DEF MessagesKept
<1>3. ASSUME NEW ip \in Addresses, AllowRequest(ip) PROVE WindowsInv'
  <2>1. HandshakesKept'
    BY <1>0, <1>3, HandshakeConsumed DEF AllowRequest
  <2>2. QED BY <1>2, <1>3, <2>1 DEF AllowRequest, WindowsInv
<1>4. ASSUME NEW ip \in Addresses, Refuse(ip) \/ Connected(ip) PROVE WindowsInv'
  BY <1>1, <1>2, <1>4 DEF Refuse, Connected, WindowsInv
<1>5. ASSUME NEW ip \in Addresses, SocketGoes(ip) PROVE WindowsInv'
  <2>1. PICK heard \in BOOLEAN : Disconnects(ip, heard, messageTimes)
    BY <1>5 DEF SocketGoes
  <2>2. sent' = sent  BY <1>5 DEF SocketGoes
  <2>3. MessagesKept'
    BY <1>0, <2>1, <2>2, DisconnectKeeps DEF MessagesKept
  <2>4. QED BY <1>1, <2>1, <2>3 DEF Disconnects, WindowsInv
<1>6. ASSUME NEW ip \in Addresses, MessageTaken(ip) PROVE WindowsInv'
  <2>1. MessagesKept'  BY <1>0, <1>6, MessageConsumed
  <2>2. QED BY <1>1, <1>6, <2>1 DEF MessageTaken, WindowsInv
<1>7. ASSUME NEW ip \in Addresses, MessageRefused(ip) PROVE WindowsInv'
  <2> DEFINE times == Consumed(messageTimes, ip, MaxMessages)
  <2>1. PICK heard \in BOOLEAN : Disconnects(ip, heard, times)
    BY <1>7 DEF MessageRefused
  <2>2. sent' = sent /\ ~Under(messageTimes, ip, MaxMessages)
    BY <1>7 DEF MessageRefused
  <2>3. ASSUME NEW q \in Addresses
        PROVE  /\ Kept(times, q) \in Window
               /\ \A a \in 1..Minute :
                    Count(Kept(times, q), a) = Count(Kept(messageTimes, q), a)
    <3>1. /\ Kept(messageTimes, q) \in Window
          /\ Kept(messageTimes, ip) \in Window
      BY <1>0 DEF MessagesKept
    <3>2. CASE q = ip  BY <2>2, <3>1, <3>2, ConsumedKeeps, Limits
    <3>3. CASE q # ip  BY <3>1, <3>3, ConsumedKeeps, Limits
    <3>4. QED BY <3>2, <3>3
  <2> HIDE DEF times
  <2>4. MessagesKept'
    BY <1>0, <2>1, <2>2, <2>3, DisconnectKeeps
  <2>5. QED BY <1>1, <2>1, <2>4 DEF Disconnects, WindowsInv
<1>8. ASSUME TimePasses PROVE WindowsInv'
  BY <1>0, <1>8, HandshakesAge, MessagesAge DEF WindowsInv
<1>9. ASSUME UNCHANGED windowVars PROVE WindowsInv'
  BY <1>1, <1>2, <1>9 DEF windowVars, WindowsInv
<1>10. QED
  BY <1>3, <1>4, <1>5, <1>6, <1>7, <1>8, <1>9 DEF WindowsNext

-----------------------------------------------------------------------------
\* Windows and histories agree for every part of a minute, whatever is pruned,
\* swept or dropped.
THEOREM WindowsInvariant == WindowsSpec => []WindowsInv
<1>1. QED BY InitWindowsInv, NextWindowsInv, PTL DEF WindowsSpec

\* In no minute does an instance take more handshakes of an address than its
\* limit.
THEOREM HandshakesAreLimited == WindowsSpec => []HandshakesPerMinute
<1>1. ASSUME WindowsInv, NEW ip \in Addresses
      PROVE  Len(shaken[ip]) <= MaxHandshakes
  <2> DEFINE c == Count(Kept(handshakeTimes, ip), Minute)
  <2>1. shaken[ip] \in History
    BY <1>1 DEF WindowsInv, HandshakesKept
  <2>2. Count(shaken[ip], Minute) = Len(shaken[ip]) /\ Len(shaken[ip]) \in Nat
    BY <2>1, HistoryFacts, WindowFacts
  <2>3. Len(shaken[ip]) <= c /\ c <= MaxHandshakes
    BY <1>1, <2>2, Limits DEF WindowsInv, HandshakesKept
  <2>4. c \in Nat
    BY <1>1, CountFacts, Limits DEF WindowsInv, HandshakesKept
  <2> HIDE DEF c
  <2>5. QED BY <2>2, <2>3, <2>4, Limits
<1>2. WindowsInv => HandshakesPerMinute  BY <1>1 DEF HandshakesPerMinute
<1>3. QED BY <1>2, WindowsInvariant, PTL

\* In no minute does it take more messages of an address than its limit and
\* one limit more for each time the window was dropped with the last slot.
THEOREM MessagesAreLimitedPerWindow == WindowsSpec => []MessagesPerWindow
<1>1. ASSUME WindowsInv, NEW ip \in Addresses
      PROVE  Len(sent[ip]) <= MaxMessages * (1 + Len(forgotten[ip]))
  <2> DEFINE c == Count(Kept(messageTimes, ip), Minute)
  <2> DEFINE f == Len(forgotten[ip])
  <2>1. sent[ip] \in History /\ forgotten[ip] \in History
    BY <1>1 DEF WindowsInv, MessagesKept
  <2>2. /\ Count(sent[ip], Minute) = Len(sent[ip])
        /\ Count(forgotten[ip], Minute) = Len(forgotten[ip])
        /\ Len(sent[ip]) \in Nat /\ Len(forgotten[ip]) \in Nat
    BY <2>1, HistoryFacts, WindowFacts
  <2>3. /\ Len(sent[ip]) <= c + MaxMessages * f /\ c <= MaxMessages
    BY <1>1, <2>2, Limits DEF WindowsInv, MessagesKept
  <2>4. c \in Nat /\ f \in Nat
    BY <1>1, <2>2, CountFacts, Limits DEF WindowsInv, MessagesKept
  <2> HIDE DEF c, f
  <2>5. MaxMessages * (1 + f) = MaxMessages + MaxMessages * f
        /\ MaxMessages * f \in Nat
    BY <2>4, Limits
  <2>6. Len(sent[ip]) <= MaxMessages * (1 + f)
    BY <2>2, <2>3, <2>4, <2>5, Limits
  <2>7. QED BY <2>6 DEF f
<1>2. WindowsInv => MessagesPerWindow  BY <1>1 DEF MessagesPerWindow
<1>3. QED BY <1>2, WindowsInvariant, PTL

=============================================================================
