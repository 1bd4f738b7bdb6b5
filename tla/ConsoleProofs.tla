---------------------------- MODULE ConsoleProofs ----------------------------
(***************************************************************************)
(* Proofs about Console and the feed it reads, for any notifications, any  *)
(* size of a page and any number of loads in flight.                       *)
(***************************************************************************)
EXTENDS Console, FiniteSetTheorems, SequenceTheorems, TLAPS

-----------------------------------------------------------------------------
(***************************************************************************)
(* The inductive invariant.                                                *)
(***************************************************************************)

\* A notification of a page, a cursor, an answered page, and a call of
\* loadNotifications.
Item    == [id : Ids, state : RowStates]
Cursors == {NoCursor} \cup {Encoded(i) : i \in Ids}
Reply   == [items : Seq(Item), hasMore : BOOLEAN, cursor : Cursors]
Load    == [append : BOOLEAN, cursor : Cursors, reply : {NoReply} \cup Reply,
            base : SUBSET Ids, overtaken : BOOLEAN]

\* The rows of a list, its last one, and its order.
IdsOf(items)  == {items[k].id : k \in DOMAIN items}
LastOf(items) == items[Len(items)].id
Sorted(items) ==
  \A j, k \in DOMAIN items : j < k => Newer(items[j].id, items[k].id)

\* What a cursor leaves to be read, and a list to the next page.
Behind(c, i) == \/ c = NoCursor
                \/ CreatedAt[i] < c[1]
                \/ CreatedAt[i] = c[1] /\ i < c[2]
After(items, i) == items # <<>> /\ Newer(LastOf(items), i)

\* Behind the cursor, down to its last row, a list shows all of S.
Covers(items, c, S) ==
  \A i \in S : Behind(c, i) => i \in IdsOf(items) \/ After(items, i)

\* It shows just what a table holds, and says whether there is more.
Alive(table) == {i \in Ids : table[i] \in {"unread", "read"}}
Exact(table, items, c, more) ==
  /\ \A k \in DOMAIN items : items[k].state = table[items[k].id]
  /\ \A i \in Alive(table) \ IdsOf(items) :
       Behind(c, i) => more /\ After(items, i)

\* Loads by what will become of them: answered; to be appended to the list
\* they were asked for; the first page that was asked for last.
Served(l)       == l.reply # NoReply
Continues(l, x) == l.append /\ ~l.overtaken /\ ~x /\ l.cursor # NoCursor
Latest(ls, k)   == /\ ~ls[k].append /\ ~ls[k].overtaken
                   /\ \A j \in DOMAIN ls : j > k => ls[j].append
Reloading(ls)   == \E k \in DOMAIN ls : ~ls[k].append

\* The page has yet to ask for what has changed: it is not connected, an event
\* is on its way, or the answer to a change.
ReloadDue == ~online \/ events > 0
             \/ (mutation # NoMutation /\ mutation.stage = "done")

\* Lists, pages and loads are what their names say.
LoadsTyped(ls) ==
  /\ ls \in Seq(Load) /\ Len(ls) <= MaxLoads
  /\ \A k \in DOMAIN ls : Served(ls[k]) => Len(ls[k].reply.items) <= Limit

ConsoleTyped ==
  /\ rows \in [Ids -> RowStates]
  /\ list \in Seq(Item) /\ cursor \in Cursors /\ hasMore \in BOOLEAN
  /\ LoadsTyped(loads)
  /\ mutation \in {NoMutation} \cup Mutation
  /\ online \in BOOLEAN /\ events \in 0..MaxEvents
  /\ base \subseteq Ids /\ crossed \in BOOLEAN /\ outdated \in BOOLEAN
  /\ incidents \in 0..MaxIncidents

\* Only rows that were there were there when a page was read.
Existing(table) == {i \in Ids : table[i] # "absent"}
BasesExist ==
  /\ base \subseteq Existing(rows)
  /\ \A k \in DOMAIN loads : loads[k].base \subseteq Existing(rows)

\* A first page has no cursor.  An answered page is a stretch of the feed, and
\* its cursor its end.
Right(l, table) ==
  /\ ~l.append => l.cursor = NoCursor
  /\ Served(l) =>
       /\ Sorted(l.reply.items)
       /\ \A i \in IdsOf(l.reply.items) : Behind(l.cursor, i)
       /\ l.reply.hasMore => /\ l.reply.items # <<>>
                             /\ l.reply.cursor = Encoded(LastOf(l.reply.items))
       /\ ~l.append => Covers(l.reply.items, NoCursor, l.base \cap Alive(table))

PagesRight == \A k \in DOMAIN loads : Right(loads[k], rows)

\* A page that is not overtaken starts where the list ends, and leaves out
\* nothing of its base.
Follows(l, items, S) ==
  /\ items # <<>> /\ l.cursor = Encoded(LastOf(items))
  /\ Served(l) => Covers(l.reply.items, l.cursor, S)

PagesContinue ==
  \A k \in DOMAIN loads :
    Continues(loads[k], crossed)
      => Follows(loads[k], list, base \cap Alive(rows))

\* WholeUnlessCrossed, with what "load more" goes by.
ListWhole ==
  ~crossed =>
    /\ Sorted(list) /\ Covers(list, NoCursor, base \cap Alive(rows))
    /\ hasMore => list # <<>> /\ cursor \in {NoCursor, Encoded(LastOf(list))}

\* If nothing has changed that the page has yet to ask for, the pages it is
\* about to show are current, those that continue the list if that is ...
RepliesCurrent ==
  ~ReloadDue =>
    \A k \in DOMAIN loads :
      /\ Served(loads[k])
      /\ \/ Latest(loads, k)
         \/ Continues(loads[k], crossed) /\ ~Reloading(loads) /\ ~outdated
      => Exact(rows, loads[k].reply.items, loads[k].cursor,
               loads[k].reply.hasMore)

\* ... and so is the list, if none of them will replace it.
ListCurrent ==
  ~ReloadDue /\ ~Reloading(loads) /\ ~crossed /\ ~outdated
  => Exact(rows, list, NoCursor, hasMore)

\* All of it.
ConsoleInv ==
  /\ ConsoleTyped /\ BasesExist /\ PagesRight /\ PagesContinue
  /\ ListWhole /\ RepliesCurrent /\ ListCurrent

-----------------------------------------------------------------------------
(***************************************************************************)
(* The order of the feed, and the places of rows in it.                    *)
(***************************************************************************)

\* How many rows of S come before i.
Rank(S, i) == Cardinality({j \in S : Newer(j, i)})

\* Two rows are never in the same place, whatever they share.
LEMMA NewerIsTotal ==
  /\ \A i \in Ids : ~Newer(i, i)
  /\ \A i, j \in Ids : i # j => Newer(i, j) \/ Newer(j, i)
  /\ \A i, j, k \in Ids : Newer(i, j) /\ Newer(j, k) => Newer(i, k)
<1>1. /\ \A i \in Ids : i \in Nat /\ CreatedAt[i] \in Nat  BY FeedAssumption
<1>2. \A i \in Ids : ~Newer(i, i)  BY <1>1 DEF Newer
<1>3. \A i, j \in Ids : i # j => Newer(i, j) \/ Newer(j, i)
  BY <1>1 DEF Newer
<1>4. ASSUME NEW i \in Ids, NEW j \in Ids, NEW k \in Ids,
             Newer(i, j), Newer(j, k)
      PROVE  Newer(i, k)
  BY <1>1, <1>4 DEF Newer
<1>5. QED BY <1>2, <1>3, <1>4

\* What comes before has fewer before it.
LEMMA RankFacts ==
  ASSUME NEW S \in SUBSET Ids
  PROVE  /\ IsFiniteSet(S) /\ Cardinality(S) \in Nat
         /\ \A i \in S : Rank(S, i) \in Nat /\ Rank(S, i) < Cardinality(S)
         /\ \A i, j \in S : Newer(i, j) => Rank(S, i) < Rank(S, j)
<1> DEFINE B(i) == {j \in S : Newer(j, i)}
<1>1. IsFiniteSet(S) /\ Cardinality(S) \in Nat
  BY FeedAssumption, FS_Subset, FS_CardinalityType
<1>2. \A i : IsFiniteSet(B(i)) /\ Cardinality(B(i)) \in Nat
             /\ Cardinality(B(i)) <= Cardinality(S)
             /\ (Cardinality(B(i)) = Cardinality(S) => B(i) = S)
  <2>1. \A i : B(i) \in SUBSET S  OBVIOUS
  <2> HIDE DEF B
  <2>2. \A i : IsFiniteSet(B(i)) /\ Cardinality(B(i)) <= Cardinality(S)
               /\ (Cardinality(S) = Cardinality(B(i)) => S = B(i))
    BY <1>1, <2>1, FS_Subset
  <2>3. QED BY <2>2, FS_CardinalityType
<1>3. ASSUME NEW i \in S PROVE Cardinality(B(i)) < Cardinality(S)
  <2>1. i \notin B(i)  BY NewerIsTotal
  <2>2. B(i) # S  BY <2>1
  <2> HIDE DEF B
  <2>3. QED BY <1>1, <1>2, <2>2
<1>4. ASSUME NEW i \in S, NEW j \in S, Newer(i, j)
      PROVE  Cardinality(B(i)) < Cardinality(B(j))
  <2>1. B(i) \subseteq B(j)  BY <1>4, NewerIsTotal
  <2>2. i \in B(j) /\ i \notin B(i)  BY <1>4, NewerIsTotal
  <2> HIDE DEF B
  <2>3. /\ Cardinality(B(i)) <= Cardinality(B(j))
        /\ Cardinality(B(j)) = Cardinality(B(i)) => B(j) = B(i)
    BY <1>2, <2>1, FS_Subset
  <2>4. QED BY <1>2, <2>2, <2>3
<1>5. QED BY <1>1, <1>2, <1>3, <1>4 DEF Rank

\* Every place up to the number of rows is taken.
LEMMA PlaceTaken ==
  ASSUME NEW S \in SUBSET Ids, NEW k \in 1..Cardinality(S)
  PROVE  InPlace(S, k) \in S /\ Rank(S, InPlace(S, k)) = k - 1
<1> DEFINE n == Cardinality(S)
<1> DEFINE T == 0..(n - 1)
<1> DEFINE f == [i \in S |-> Rank(S, i)]
<1>1. /\ IsFiniteSet(S) /\ n \in Nat
      /\ \A i \in S : Rank(S, i) \in Nat /\ Rank(S, i) < n
      /\ \A i, j \in S : Newer(i, j) => Rank(S, i) < Rank(S, j)
  BY RankFacts
<1>2. IsFiniteSet(T) /\ Cardinality(T) = n
  <2>1. n - 1 \in Int /\ (0 > n - 1 <=> n = 0)  BY <1>1
  <2>2. /\ IsFiniteSet(T)
        /\ Cardinality(T) = IF 0 > n - 1 THEN 0 ELSE n - 1 - 0 + 1
    BY <2>1, FS_Interval
  <2> HIDE DEF n
  <2>3. QED BY <1>1, <2>1, <2>2
<1>3. \A i \in S : Rank(S, i) \in T  BY <1>1
<1>4. \A i, j \in S : Rank(S, i) = Rank(S, j) => i = j
  <2>1. ASSUME NEW i \in S, NEW j \in S, i # j PROVE Rank(S, i) # Rank(S, j)
    <3>1. Newer(i, j) \/ Newer(j, i)  BY <2>1, NewerIsTotal
    <3>2. QED BY <1>1, <3>1
  <2>2. QED BY <2>1
<1> HIDE DEF n, T
<1>5. f \in [S -> T]  BY <1>3
<1>6. \A i, j \in S : f[i] = f[j] => i = j  BY <1>4
<1>7. f \in Injection(S, T)
  BY <1>5, <1>6 DEF Injection, IsInjective
<1>8. f \in Surjection(S, T)
  BY <1>1, <1>2, <1>7, FS_Injection DEF n
<1>9. k - 1 \in T  BY <1>1 DEF n, T
<1>10. \E i \in S : f[i] = k - 1  BY <1>8, <1>9 DEF Surjection
<1>11. \E i \in S : Rank(S, i) = k - 1  BY <1>10
<1>12. QED BY <1>11 DEF InPlace, Rank

\* Places are in the order of the rows that take them.
LEMMA PlacesInOrder ==
  ASSUME NEW S \in SUBSET Ids, NEW j \in 1..Cardinality(S),
         NEW k \in 1..Cardinality(S), j < k
  PROVE  Newer(InPlace(S, j), InPlace(S, k))
<1> DEFINE a == InPlace(S, j)
<1> DEFINE b == InPlace(S, k)
<1>1. a \in S /\ b \in S /\ Rank(S, a) = j - 1 /\ Rank(S, b) = k - 1
  BY PlaceTaken
<1> HIDE DEF a, b
<1>2. j \in Nat /\ k \in Nat  BY RankFacts
<1>3. a # b  BY <1>1, <1>2
<1>4. ~Newer(b, a)
  <2>1. Newer(b, a) => Rank(S, b) < Rank(S, a)  BY <1>1, RankFacts
  <2>2. QED BY <1>1, <1>2, <2>1
<1>5. Newer(a, b)  BY <1>1, <1>3, <1>4, NewerIsTotal
<1>6. QED BY <1>5 DEF a, b

\* A row that is in none of the first places comes after them.
LEMMA RestComesAfter ==
  ASSUME NEW S \in SUBSET Ids, NEW size \in 1..Cardinality(S), NEW i \in S,
         \A k \in 1..size : i # InPlace(S, k)
  PROVE  size < Cardinality(S) /\ Newer(InPlace(S, size), i)
<1> DEFINE a == InPlace(S, size)
<1> DEFINE r == Rank(S, i)
<1>1. /\ Cardinality(S) \in Nat /\ r \in Nat /\ r < Cardinality(S)
      /\ size \in Nat
  BY RankFacts
<1>2. a \in S /\ Rank(S, a) = size - 1  BY PlaceTaken
<1>3. i = InPlace(S, r + 1)
  <2>1. r + 1 \in 1..Cardinality(S) /\ (r + 1) - 1 = r  BY <1>1
  <2> DEFINE b == InPlace(S, r + 1)
  <2>2. b \in S /\ Rank(S, b) = r  BY <2>1, PlaceTaken
  <2> HIDE DEF b
  <2>3. \A x, y \in S : x # y => Newer(x, y) \/ Newer(y, x)
    BY NewerIsTotal
  <2>4. /\ Newer(i, b) => r < Rank(S, b)
        /\ Newer(b, i) => Rank(S, b) < r
    BY <2>2, RankFacts
  <2>5. i = b  BY <1>1, <2>2, <2>3, <2>4
  <2>6. QED BY <2>5 DEF b
<1> HIDE DEF r
<1>4. ~(r + 1 \in 1..size)  BY <1>3
<1>5. size < r + 1  BY <1>1, <1>4
<1>6. size < Cardinality(S) /\ r + 1 \in 1..Cardinality(S)  BY <1>1, <1>5
<1>7. QED BY <1>3, <1>5, <1>6, PlacesInOrder

-----------------------------------------------------------------------------
(***************************************************************************)
(* Pages.                                                                  *)
(***************************************************************************)

\* A page has the first rows behind its cursor, in order and as they are, and
\* leaves the rest to the next one.
LEMMA PageFacts ==
  ASSUME rows \in [Ids -> RowStates], NEW c \in Cursors
  PROVE  LET r == Page(c) IN
         /\ r \in Reply /\ Len(r.items) <= Limit
         /\ Sorted(r.items) /\ IdsOf(r.items) \subseteq Below(c)
         /\ r.hasMore => /\ r.items # <<>>
                         /\ r.cursor = Encoded(LastOf(r.items))
         /\ Exact(rows, r.items, c, r.hasMore)
<1> DEFINE S == Below(c)
<1> DEFINE n == Cardinality(S)
<1> DEFINE more == n > Limit
<1> DEFINE size == IF more THEN Limit ELSE n
<1> DEFINE items == Rows(S, size)
<1> DEFINE r == Page(c)
<1>1. S \in SUBSET Ids /\ n \in Nat /\ Limit \in Nat \ {0}
  <2>1. S \in SUBSET Ids  BY DEF Below, Present
  <2>2. QED BY <2>1, RankFacts, FeedAssumption
<1>2. \A i : i \in S <=> i \in Present /\ Behind(c, i)
  BY DEF Below, Behind
<1>3. /\ r.items = items /\ r.hasMore = more
      /\ r.cursor = IF more THEN Encoded(InPlace(S, Limit)) ELSE NoCursor
      /\ r = [items |-> r.items, hasMore |-> r.hasMore, cursor |-> r.cursor]
  BY DEF Page
<1> HIDE DEF S, r
<1>4. size \in Nat /\ size <= n /\ size <= Limit
      /\ (size = 0 => n = 0) /\ (more => size = Limit) /\ (~more => size = n)
  BY <1>1
<1> HIDE DEF more, size
<1>5. \A k \in 1..size : k \in 1..n  BY <1>1, <1>4
<1>6. \A k \in 1..size : InPlace(S, k) \in S
  BY <1>1, <1>5, PlaceTaken
<1>7. /\ DOMAIN items = 1..size
      /\ \A k \in 1..size : /\ items[k].id = InPlace(S, k)
                            /\ items[k].state = rows[InPlace(S, k)]
                            /\ items[k] \in Item
  BY <1>1, <1>6 DEF Rows, Item
<1>8. items \in Seq(Item) /\ Len(items) = size
  <2>1. items \in [1..size -> Item]  BY <1>7 DEF Rows
  <2>2. items \in Seq(Item)  BY <1>4, <2>1, SeqDef
  <2> HIDE DEF items
  <2>3. Len(items) \in Nat /\ DOMAIN items = 1..Len(items)
    BY <2>2, LenProperties
  <2>4. QED BY <1>4, <1>7, <2>2, <2>3
<1> HIDE DEF items
<1>9. Sorted(items)
  <2>1. ASSUME NEW j \in 1..size, NEW k \in 1..size, j < k
        PROVE  Newer(items[j].id, items[k].id)
    BY <1>1, <1>5, <1>7, <2>1, PlacesInOrder
  <2>2. QED BY <1>7, <2>1 DEF Sorted
<1>10. IdsOf(items) \subseteq S  BY <1>6, <1>7 DEF IdsOf
<1>11. ASSUME NEW i \in S, i \notin IdsOf(items)
       PROVE  more /\ After(items, i)
  <2>1. \A k \in 1..size : i # InPlace(S, k)  BY <1>7, <1>11 DEF IdsOf
  <2>2. n # 0
    <3>1. IsFiniteSet(S)  BY <1>1, RankFacts
    <3>2. QED BY <3>1, FS_EmptySet
  <2>3. size \in 1..n /\ size \in 1..size  BY <1>1, <1>4, <2>2
  <2>4. size < n /\ Newer(InPlace(S, size), i)
    BY <1>1, <2>1, <2>3, RestComesAfter
  <2>5. more  BY <1>1, <1>4, <2>4
  <2>6. items # <<>> /\ LastOf(items) = InPlace(S, size)
    BY <1>7, <1>8, <2>3, EmptySeq DEF LastOf
  <2>7. QED BY <2>4, <2>5, <2>6 DEF After
<1>12. Exact(rows, items, c, more)
  BY <1>2, <1>7, <1>11 DEF Exact, Alive, Present
<1>13. more => /\ items # <<>> /\ InPlace(S, Limit) \in S
               /\ LastOf(items) = InPlace(S, Limit)
  BY <1>1, <1>4, <1>6, <1>7, <1>8, EmptySeq DEF LastOf
<1>14. r \in Reply
  <2>1. r.cursor \in Cursors
    BY <1>1, <1>3, <1>13 DEF Cursors
  <2>2. r.hasMore \in BOOLEAN  BY <1>3 DEF more
  <2>3. QED BY <1>3, <1>8, <2>1, <2>2 DEF Reply
<1>15. QED
  BY <1>3, <1>4, <1>8, <1>9, <1>10, <1>12, <1>13, <1>14 DEF r, S

-----------------------------------------------------------------------------
(***************************************************************************)
(* Loads and lists, and what a step makes of them.                         *)
(***************************************************************************)

\* The limits of the page.
LEMMA Limits ==
  /\ MaxLoads \in Nat \ {0} /\ MaxEvents \in Nat \ {0}
  /\ MaxClicks \in Nat /\ MaxIncidents \in Nat
  /\ NoMutation \notin Mutation
BY ConsoleAssumption

\* A sequence has a length and elements.
LEMMA SeqFacts ==
  ASSUME NEW S, NEW s \in Seq(S)
  PROVE  /\ Len(s) \in Nat /\ DOMAIN s = 1..Len(s)
         /\ \A i \in DOMAIN s : s[i] \in S
         /\ s # <<>> <=> Len(s) > 0
BY LenProperties, ElementOfSeq, EmptySeq

\* A function on the first numbers is a sequence.
LEMMA OnFirstNumbers ==
  ASSUME NEW S, NEW n \in Nat, NEW s \in [1..n -> S]
  PROVE  s \in Seq(S) /\ Len(s) = n
<1>1. s \in Seq(S)  BY SeqDef
<1>2. Len(s) \in Nat /\ 1..Len(s) = 1..n  BY <1>1, SeqFacts
<1>3. QED BY <1>1, <1>2

\* The elements of a sequence but one.
LEMMA Removed ==
  ASSUME NEW S, NEW s \in Seq(S), NEW k \in DOMAIN s
  PROVE  /\ RemoveAt(s, k) \in Seq(S)
         /\ Len(RemoveAt(s, k)) = Len(s) - 1
         /\ \A q \in 1..(Len(s) - 1) :
              RemoveAt(s, k)[q] = IF q < k THEN s[q] ELSE s[q + 1]
<1> DEFINE a == SubSeq(s, 1, k - 1)
<1> DEFINE b == SubSeq(s, k + 1, Len(s))
<1>1. /\ Len(s) \in Nat /\ k \in 1..Len(s)
      /\ \A i \in 1..Len(s) : s[i] \in S
  BY SeqFacts
<1>2. /\ a \in Seq(S) /\ Len(a) = k - 1
      /\ \A q \in 1..(k - 1) : a[q] = s[q]
  <2>1. \A i \in 1..(k - 1) : s[i] \in S  BY <1>1
  <2>2. k - 1 \in Int /\ 1 \in Int  BY <1>1
  <2>3. /\ a \in Seq(S)
        /\ Len(a) = IF 1 <= k - 1 THEN (k - 1) - 1 + 1 ELSE 0
        /\ \A q \in 1..((k - 1) - 1 + 1) : a[q] = s[1 + q - 1]
    BY <2>1, <2>2, SubSeqProperties
  <2> HIDE DEF a
  <2>4. /\ (k - 1) - 1 + 1 = k - 1 /\ \A q \in 1..(k - 1) : 1 + q - 1 = q
        /\ (~(1 <= k - 1) => k - 1 = 0)
    BY <1>1
  <2>5. Len(a) = k - 1
    <3>1. CASE 1 <= k - 1  BY <2>3, <2>4, <3>1
    <3>2. CASE ~(1 <= k - 1)  BY <2>3, <2>4, <3>2
    <3>3. QED BY <3>1, <3>2
  <2>6. ASSUME NEW q \in 1..(k - 1) PROVE a[q] = s[q]
    <3>1. a[q] = s[1 + q - 1]  BY <2>3, <2>4
    <3>2. QED BY <2>4, <3>1
  <2>7. QED BY <2>3, <2>5, <2>6
<1>3. /\ b \in Seq(S) /\ Len(b) = Len(s) - k
      /\ \A q \in 1..(Len(s) - k) : b[q] = s[k + q]
  <2>1. \A i \in (k + 1)..Len(s) : s[i] \in S  BY <1>1
  <2>2. k + 1 \in Int /\ Len(s) \in Int  BY <1>1
  <2>3. /\ b \in Seq(S)
        /\ Len(b) = IF k + 1 <= Len(s) THEN Len(s) - (k + 1) + 1 ELSE 0
        /\ \A q \in 1..(Len(s) - (k + 1) + 1) : b[q] = s[(k + 1) + q - 1]
    BY <2>1, <2>2, SubSeqProperties
  <2> HIDE DEF b
  <2>4. \A n \in Nat : \A m \in 1..n :
          /\ n - (m + 1) + 1 = n - m
          /\ \A q \in 1..(n - m) : (m + 1) + q - 1 = m + q
          /\ ~(m + 1 <= n) => n - m = 0
    OBVIOUS
  <2>5. Len(b) = Len(s) - k
    <3>1. CASE k + 1 <= Len(s)  BY <1>1, <2>3, <2>4, <3>1
    <3>2. CASE ~(k + 1 <= Len(s))  BY <1>1, <2>3, <2>4, <3>2
    <3>3. QED BY <3>1, <3>2
  <2>6. ASSUME NEW q \in 1..(Len(s) - k) PROVE b[q] = s[k + q]
    <3>1. b[q] = s[(k + 1) + q - 1]  BY <1>1, <2>3, <2>4
    <3>2. QED BY <1>1, <2>4, <3>1
  <2>7. QED BY <2>3, <2>5, <2>6
<1> HIDE DEF a, b
<1>4. /\ a \o b \in Seq(S) /\ Len(a \o b) = Len(a) + Len(b)
      /\ \A q \in 1..(Len(a) + Len(b)) :
           (a \o b)[q] = IF q <= Len(a) THEN a[q] ELSE b[q - Len(a)]
  BY <1>2, <1>3, ConcatProperties
<1>5. Len(a) + Len(b) = Len(s) - 1  BY <1>1, <1>2, <1>3
<1>6. ASSUME NEW q \in 1..(Len(s) - 1)
      PROVE  (a \o b)[q] = IF q < k THEN s[q] ELSE s[q + 1]
  <2>1. (a \o b)[q] = IF q <= k - 1 THEN a[q] ELSE b[q - (k - 1)]
    BY <1>2, <1>4, <1>5
  <2>2. CASE q < k
    <3>1. q \in 1..(k - 1) /\ q <= k - 1  BY <1>1, <2>2
    <3>2. QED BY <1>2, <2>1, <2>2, <3>1
  <2>3. CASE ~(q < k)
    <3>1. /\ ~(q <= k - 1) /\ q - (k - 1) \in 1..(Len(s) - k)
          /\ k + (q - (k - 1)) = q + 1
      BY <1>1, <2>3
    <3>2. QED BY <1>3, <2>1, <2>3, <3>1
  <2>4. QED BY <2>2, <2>3
<1>7. RemoveAt(s, k) = a \o b  BY DEF RemoveAt, a, b
<1>8. QED BY <1>4, <1>5, <1>6, <1>7

\* m is l, perhaps overtaken by now.
Same(l, m) ==
  /\ m.append = l.append /\ m.cursor = l.cursor
  /\ m.reply = l.reply /\ m.base = l.base
  /\ l.overtaken => m.overtaken

\* Where the load in place q was before k was done.
From(k, q) == IF q < k THEN q ELSE q + 1

\* What is left when a load is done: the others, some of them overtaken.
LEMMA RestFacts ==
  ASSUME loads \in Seq(Load), NEW k \in DOMAIN loads
  PROVE  /\ Rest(k) \in Seq(Load) /\ Len(Rest(k)) = Len(loads) - 1
         /\ \A q \in DOMAIN Rest(k) :
              /\ From(k, q) \in DOMAIN loads \ {k}
              /\ Same(loads[From(k, q)], Rest(k)[q])
              /\ From(k, q) < k \/ loads[From(k, q)].append
                   => Rest(k)[q].overtaken
         /\ \A j \in DOMAIN loads \ {k} : \E q \in DOMAIN Rest(k) :
              From(k, q) = j
         /\ \A p, q \in DOMAIN Rest(k) : p < q <=> From(k, p) < From(k, q)
<1> DEFINE marked == [j \in DOMAIN loads |->
              [loads[j] EXCEPT !.overtaken = @ \/ j < k \/ loads[j].append]]
<1> DEFINE n == Len(loads)
<1>1. /\ n \in Nat /\ DOMAIN loads = 1..n /\ k \in 1..n
      /\ \A j \in 1..n : loads[j] \in Load
  BY SeqFacts
<1>2. \A j \in 1..n :
        /\ marked[j] \in Load /\ Same(loads[j], marked[j])
        /\ j < k \/ loads[j].append => marked[j].overtaken
  BY <1>1 DEF Load, Same
<1>3. marked \in Seq(Load) /\ DOMAIN marked = 1..n /\ Len(marked) = n
  <2>1. DOMAIN marked = 1..n  BY <1>1
  <2>2. marked \in [1..n -> Load]  BY <1>1, <1>2
  <2> HIDE DEF marked
  <2>3. QED BY <1>1, <2>1, <2>2, OnFirstNumbers
<1> HIDE DEF marked
<1>4. Rest(k) = RemoveAt(marked, k)  BY DEF Rest, marked
<1>5. /\ Rest(k) \in Seq(Load) /\ Len(Rest(k)) = n - 1
      /\ \A q \in 1..(n - 1) :
           Rest(k)[q] = IF q < k THEN marked[q] ELSE marked[q + 1]
  <2>1. marked \in Seq(Load) /\ k \in DOMAIN marked  BY <1>1, <1>3
  <2>2. /\ RemoveAt(marked, k) \in Seq(Load)
        /\ Len(RemoveAt(marked, k)) = Len(marked) - 1
        /\ \A q \in 1..(Len(marked) - 1) : RemoveAt(marked, k)[q] =
             IF q < k THEN marked[q] ELSE marked[q + 1]
    BY <2>1, Removed
  <2>3. QED BY <1>3, <1>4, <2>2
<1>6. DOMAIN Rest(k) = 1..(n - 1)  BY <1>5, SeqFacts
<1> HIDE DEF n
<1>7. \A q \in 1..(n - 1) : /\ From(k, q) \in (1..n) \ {k}
                           /\ Rest(k)[q] = marked[From(k, q)]
  BY <1>1, <1>5 DEF From
<1>8. ASSUME NEW j \in (1..n) \ {k} PROVE \E q \in 1..(n - 1) : From(k, q) = j
  <2>1. CASE j < k
    <3>1. j \in 1..(n - 1) /\ From(k, j) = j  BY <1>1, <2>1 DEF From
    <3>2. QED BY <3>1
  <2>2. CASE ~(j < k)
    <3>1. j - 1 \in 1..(n - 1) /\ From(k, j - 1) = j
      BY <1>1, <2>2 DEF From
    <3>2. QED BY <3>1
  <2>3. QED BY <2>1, <2>2
<1>9. \A p, q \in 1..(n - 1) : p < q <=> From(k, p) < From(k, q)
  BY <1>1 DEF From
<1>10. QED BY <1>1, <1>2, <1>5, <1>6, <1>7, <1>8, <1>9 DEF n

\* What is left when another load is asked for: all of them, and that one.
LEMMA AskedFacts ==
  ASSUME loads \in Seq(Load), NEW append \in BOOLEAN, NEW at \in Cursors
  PROVE  /\ LoadOf(append, at) \in Load
         /\ Asked(append, at) \in Seq(Load)
         /\ Len(Asked(append, at)) = Len(loads) + 1
         /\ DOMAIN Asked(append, at) = DOMAIN loads \cup {Len(loads) + 1}
         /\ \A q \in DOMAIN loads : /\ Asked(append, at)[q] = loads[q]
                                   /\ q < Len(loads) + 1
         /\ Asked(append, at)[Len(loads) + 1] = LoadOf(append, at)
         /\ Len(loads) + 1 \notin DOMAIN loads
<1> DEFINE l == LoadOf(append, at)
<1> DEFINE t == Append(loads, l)
<1>1. l \in Load  BY DEF LoadOf, Load
<1>2. Len(loads) \in Nat /\ DOMAIN loads = 1..Len(loads)  BY SeqFacts
<1> HIDE DEF l
<1>3. /\ t \in Seq(Load) /\ Len(t) = Len(loads) + 1
      /\ DOMAIN t = 1..(Len(loads) + 1) /\ t[Len(loads) + 1] = l
      /\ \A q \in 1..Len(loads) : t[q] = loads[q]
  BY <1>1, <1>2
<1> HIDE DEF t
<1>4. /\ 1..(Len(loads) + 1) = 1..Len(loads) \cup {Len(loads) + 1}
      /\ \A q \in 1..Len(loads) : q < Len(loads) + 1
      /\ Len(loads) + 1 \notin 1..Len(loads)
  BY <1>2
<1>5. Asked(append, at) = t  BY DEF Asked, t, l
<1>6. QED BY <1>1, <1>2, <1>3, <1>4, <1>5 DEF l

\* The loads with the answer r to one of them.
Answered(k, r, B) == [loads EXCEPT ![k].reply = r, ![k].base = B]

\* What is left when a page is read: the loads as they were, one of them with
\* its answer.
LEMMA ReadFacts ==
  ASSUME loads \in Seq(Load), NEW k \in DOMAIN loads,
         NEW r \in Reply, NEW B \in SUBSET Ids, NEW ls,
         ls = Answered(k, r, B)
  PROVE  /\ ls \in Seq(Load) /\ Len(ls) = Len(loads)
         /\ DOMAIN ls = DOMAIN loads
         /\ ls[k].append = loads[k].append /\ ls[k].cursor = loads[k].cursor
         /\ ls[k].overtaken = loads[k].overtaken
         /\ ls[k].reply = r /\ ls[k].base = B
         /\ \A j \in DOMAIN loads \ {k} : ls[j] = loads[j]
<1> DEFINE n == Len(loads)
<1>1. /\ n \in Nat /\ DOMAIN loads = 1..n
      /\ \A j \in 1..n : loads[j] \in Load
  BY SeqFacts
<1>2. loads[k] \in Load  BY <1>1
<1>3. DOMAIN ls = 1..n  BY <1>1 DEF Answered
<1>4. /\ ls[k] = [loads[k] EXCEPT !.reply = r, !.base = B]
      /\ \A j \in (1..n) \ {k} : ls[j] = loads[j]
  BY <1>1 DEF Answered
<1>5. /\ ls[k] \in Load
      /\ ls[k].append = loads[k].append /\ ls[k].cursor = loads[k].cursor
      /\ ls[k].overtaken = loads[k].overtaken
      /\ ls[k].reply = r /\ ls[k].base = B
  BY <1>2, <1>4 DEF Load
<1>6. ls \in [1..n -> Load]
  <2>1. \A j \in 1..n : ls[j] \in Load  BY <1>1, <1>4, <1>5
  <2>2. ls = [j \in 1..n |-> ls[j]]  BY <1>1, <1>3 DEF Answered
  <2>3. QED BY <2>1, <2>2
<1>7. ls \in Seq(Load) /\ Len(ls) = n  BY <1>1, <1>6, OnFirstNumbers
<1>8. QED BY <1>1, <1>3, <1>4, <1>5, <1>7

\* What is left when the page misses a change: all loads, first pages that have
\* been read overtaken.
LEMMA OvertakenFacts ==
  ASSUME loads \in Seq(Load), NEW ls,
         ls = Missing
  PROVE  /\ ls \in Seq(Load) /\ Len(ls) = Len(loads)
         /\ DOMAIN ls = DOMAIN loads
         /\ \A k \in DOMAIN loads :
              /\ Same(loads[k], ls[k])
              /\ ~ls[k].append /\ Served(ls[k]) => ls[k].overtaken
<1> DEFINE n == Len(loads)
<1>1. /\ n \in Nat /\ DOMAIN loads = 1..n
      /\ \A j \in 1..n : loads[j] \in Load
  BY SeqFacts
<1>2. \A k \in 1..n : /\ ls[k] \in Load
                      /\ Same(loads[k], ls[k])
                      /\ ~ls[k].append /\ Served(ls[k]) => ls[k].overtaken
  BY <1>1 DEF Missing, Load, Same, Served
<1>3. ls \in [1..n -> Load]  BY <1>1, <1>2 DEF Missing
<1>4. ls \in Seq(Load) /\ Len(ls) = n  BY <1>1, <1>3, OnFirstNumbers
<1>5. DOMAIN ls = 1..n  BY <1>1 DEF Missing
<1>6. QED BY <1>1, <1>2, <1>4, <1>5

\* A load that has just been asked for, at the cursor if to be appended.
Fresh(l, more, at) ==
  /\ l.reply = NoReply /\ l.base = {} /\ ~l.overtaken
  /\ IF l.append THEN more /\ l.cursor = at ELSE l.cursor = NoCursor

\* m is l with the page r, read when S was there.
JustRead(l, m, r, S) ==
  /\ m.append = l.append /\ m.cursor = l.cursor /\ m.overtaken = l.overtaken
  /\ m.reply = r /\ m.base = IF l.append THEN {} ELSE S

\* The loads in flight stay what they are, and new ones are not answered.
LoadsKept ==
  \A q \in DOMAIN loads' :
    \/ \E j \in DOMAIN loads : Same(loads[j], loads'[q])
    \/ Fresh(loads'[q], hasMore, cursor)
    \/ /\ rows' = rows
       /\ \E j \in DOMAIN loads :
            JustRead(loads[j], loads'[q], Page(loads[j].cursor), Present)

\* No row comes back that was gone, and none that was there was never there.
RowsKept ==
  /\ Existing(rows) \subseteq Existing(rows')
  /\ Existing(rows) \cap Alive(rows') \subseteq Alive(rows)

-----------------------------------------------------------------------------
(***************************************************************************)
(* Every step keeps the types.                                             *)
(***************************************************************************)

\* A load that is asked for while it may be.
LEMMA AskedTyped ==
  ASSUME LoadsTyped(loads), MayAsk,
         NEW append \in BOOLEAN, NEW at \in Cursors
  PROVE  LoadsTyped(Asked(append, at))
<1> DEFINE ls == Asked(append, at)
<1>1. loads \in Seq(Load)  BY DEF LoadsTyped
<1>2. /\ ls \in Seq(Load) /\ Len(ls) = Len(loads) + 1
      /\ DOMAIN ls = DOMAIN loads \cup {Len(loads) + 1}
      /\ \A q \in DOMAIN loads : ls[q] = loads[q]
      /\ ls[Len(loads) + 1] = LoadOf(append, at)
  BY <1>1, AskedFacts
<1> HIDE DEF ls
<1>3. Len(ls) <= MaxLoads
  <2>1. Len(loads) \in Nat /\ MaxLoads \in Nat  BY <1>1, SeqFacts, Limits
  <2>2. QED BY <1>2, <2>1 DEF MayAsk
<1>4. ASSUME NEW q \in DOMAIN ls, Served(ls[q])
      PROVE  Len(ls[q].reply.items) <= Limit
  <2>1. CASE q \in DOMAIN loads  BY <1>2, <1>4, <2>1 DEF LoadsTyped
  <2>2. CASE q = Len(loads) + 1
    BY <1>2, <1>4, <2>2 DEF LoadOf, Served
  <2>3. QED BY <1>2, <2>1, <2>2
<1>5. QED BY <1>2, <1>3, <1>4 DEF LoadsTyped, ls

\* The loads that are left.
LEMMA RestTyped ==
  ASSUME LoadsTyped(loads), NEW k \in DOMAIN loads
  PROVE  LoadsTyped(Rest(k))
<1> DEFINE ls == Rest(k)
<1>1. loads \in Seq(Load)  BY DEF LoadsTyped
<1>2. /\ ls \in Seq(Load) /\ Len(ls) = Len(loads) - 1
      /\ \A q \in DOMAIN ls : \E j \in DOMAIN loads : Same(loads[j], ls[q])
  BY <1>1, RestFacts
<1> HIDE DEF ls
<1>3. Len(ls) <= MaxLoads
  <2>1. Len(loads) \in Nat /\ MaxLoads \in Nat  BY <1>1, SeqFacts, Limits
  <2>2. QED BY <1>2, <2>1 DEF LoadsTyped
<1>4. ASSUME NEW q \in DOMAIN ls, Served(ls[q])
      PROVE  Len(ls[q].reply.items) <= Limit
  <2>1. PICK j \in DOMAIN loads : Same(loads[j], ls[q])  BY <1>2
  <2>2. ls[q].reply = loads[j].reply  BY <2>1 DEF Same
  <2>3. QED BY <1>4, <2>2 DEF LoadsTyped, Served
<1>5. QED BY <1>2, <1>3, <1>4 DEF LoadsTyped, ls

\* The page that is read for a load.
LEMMA PageOfLoad ==
  ASSUME ConsoleTyped, NEW k \in DOMAIN loads
  PROVE  LET r == Page(loads[k].cursor)
             B == IF loads[k].append THEN {} ELSE Present
         IN  /\ loads[k] \in Load /\ loads[k].cursor \in Cursors
             /\ r \in Reply /\ Len(r.items) <= Limit
             /\ Sorted(r.items)
             /\ IdsOf(r.items) \subseteq Below(loads[k].cursor)
             /\ r.hasMore => /\ r.items # <<>>
                             /\ r.cursor = Encoded(LastOf(r.items))
             /\ Exact(rows, r.items, loads[k].cursor, r.hasMore)
             /\ B \in SUBSET Ids
<1>1. loads[k] \in Load
  BY SeqFacts DEF ConsoleTyped, LoadsTyped
<1>2. loads[k].cursor \in Cursors  BY <1>1 DEF Load
<1>3. rows \in [Ids -> RowStates]  BY DEF ConsoleTyped
<1>4. Present \in SUBSET Ids  BY DEF Present
<1>5. QED BY <1>1, <1>2, <1>3, <1>4, PageFacts

\* Every step keeps the types.
LEMMA TypedStep ==
  ASSUME ConsoleTyped, ConsoleNext
  PROVE  ConsoleTyped'
<1> USE DEF ConsoleTyped
<1>1. /\ loads \in Seq(Load) /\ LoadsTyped(loads)
      /\ \A k \in DOMAIN loads : loads[k] \in Load
  BY SeqFacts DEF LoadsTyped
<1>2. NoCursor \in Cursors /\ cursor \in Cursors  BY DEF Cursors
<1>3. ASSUME NEW i \in Ids, Arrives(i) PROVE ConsoleTyped'
  <2>1. rows' \in [Ids -> RowStates]  BY <1>3 DEF Arrives, Created, RowStates
  <2>2. events' \in 0..MaxEvents  BY <1>3, Limits DEF Arrives
  <2>3. QED BY <1>3, <2>1, <2>2 DEF Arrives
<1>4. CASE ConnectSocket
  BY <1>4, Limits DEF ConnectSocket
<1>5. CASE DisconnectSocket
  <2>1. events' \in 0..MaxEvents  BY <1>5, Limits DEF DisconnectSocket
  <2>2. QED BY <1>5, <2>1 DEF DisconnectSocket
<1>6. CASE HandleEvent
  <2>1. LoadsTyped(loads')  BY <1>1, <1>2, <1>6, AskedTyped DEF HandleEvent
  <2>2. events' \in 0..MaxEvents  BY <1>6, Limits DEF HandleEvent
  <2>3. QED BY <1>6, <2>1, <2>2 DEF HandleEvent
<1>7. CASE RefreshFeed
  <2>1. LoadsTyped(loads')  BY <1>1, <1>2, <1>7, AskedTyped DEF RefreshFeed
  <2>2. QED BY <1>2, <1>7, <2>1 DEF RefreshFeed
<1>8. CASE LoadMore
  <2>1. LoadsTyped(loads')  BY <1>1, <1>2, <1>8, AskedTyped DEF LoadMore
  <2>2. QED BY <1>8, <2>1 DEF LoadMore
<1>9. ASSUME NEW k \in DOMAIN loads, LoadServed(k) PROVE ConsoleTyped'
  <2> DEFINE r == Page(loads[k].cursor)
  <2> DEFINE B == IF loads[k].append THEN {} ELSE Present
  <2>1. r \in Reply /\ Len(r.items) <= Limit /\ B \in SUBSET Ids
    BY PageOfLoad
  <2>2. loads' = Answered(k, r, B)  BY <1>9 DEF LoadServed, Answered
  <2> HIDE DEF r, B
  <2>3. /\ loads' \in Seq(Load) /\ Len(loads') = Len(loads)
        /\ DOMAIN loads' = DOMAIN loads /\ loads'[k].reply = r
        /\ \A j \in DOMAIN loads \ {k} : loads'[j] = loads[j]
    BY <1>1, <2>1, <2>2, ReadFacts
  <2>4. LoadsTyped(loads')  BY <1>1, <2>1, <2>3 DEF LoadsTyped, Served
  <2>5. QED BY <1>9, <2>4 DEF LoadServed
<1>10. ASSUME NEW k \in DOMAIN loads, LoadShown(k) PROVE ConsoleTyped'
  <2>1. LoadsTyped(loads')  BY <1>1, <1>10, RestTyped DEF LoadShown
  <2>2. loads[k] \in Load /\ loads[k].reply \in Reply
    BY <1>1, <1>10 DEF LoadShown, Load
  <2>3. list' \in Seq(Item)
    <3>1. loads[k].reply.items \in Seq(Item)  BY <2>2 DEF Reply
    <3>2. list \o loads[k].reply.items \in Seq(Item)
      BY <3>1, ConcatProperties
    <3>3. QED BY <1>10, <3>1, <3>2 DEF LoadShown
  <2>4. /\ cursor' \in Cursors /\ hasMore' \in BOOLEAN /\ base' \subseteq Ids
        /\ crossed' \in BOOLEAN /\ outdated' \in BOOLEAN
    BY <1>10, <2>2 DEF LoadShown, Load, Reply
  <2>5. QED BY <1>10, <2>1, <2>3, <2>4 DEF LoadShown
<1>11. ASSUME NEW k \in DOMAIN loads, LoadFails(k) PROVE ConsoleTyped'
  <2>1. LoadsTyped(loads')  BY <1>1, <1>11, RestTyped DEF LoadFails
  <2>2. incidents' \in 0..MaxIncidents  BY <1>11, Limits DEF LoadFails
  <2>3. QED BY <1>11, <2>1, <2>2 DEF LoadFails
<1>12. ASSUME NEW id \in Ids, Mutate("read", id) \/ Mutate("delete", id)
       PROVE  ConsoleTyped'
  <2>1. mutation' \in Mutation  BY <1>12 DEF Mutate, Mutation
  <2>2. QED BY <1>12, <2>1 DEF Mutate
<1>13. CASE MarkAllRead
  <2>1. mutation' \in Mutation  BY <1>13 DEF MarkAllRead, Mutation
  <2>2. QED BY <1>13, <2>1 DEF MarkAllRead
<1>14. CASE MutationServed
  <2>1. mutation \in Mutation  BY <1>14 DEF MutationServed
  <2>2. mutation' \in {NoMutation} \cup Mutation
    BY <1>14, <2>1 DEF MutationServed, Mutation
  <2>3. rows' \in [Ids -> RowStates]
    <3>1. /\ MarkedAllRead \in [Ids -> RowStates]
          /\ \A i \in Ids : /\ MarkedRead(i) \in [Ids -> RowStates]
                            /\ Deleted(i) \in [Ids -> RowStates]
      BY DEF MarkedAllRead, MarkedRead, Deleted, RowStates
    <3>2. \/ rows' = rows \/ rows' = MarkedAllRead
          \/ rows' = MarkedRead(mutation.id) /\ mutation.id \in Ids
          \/ rows' = Deleted(mutation.id) /\ mutation.id \in Ids
      BY <1>14, <2>1 DEF MutationServed, Mutation, Present
    <3>3. QED BY <3>1, <3>2
  <2>4. QED BY <1>14, <2>2, <2>3 DEF MutationServed
<1>15. CASE MutationAnswered
  <2>1. LoadsTyped(loads')
    BY <1>1, <1>2, <1>15, AskedTyped DEF MutationAnswered
  <2>2. QED BY <1>15, <2>1 DEF MutationAnswered
<1>16. ASSUME MutationFails \/ \E i \in Ids : ArrivesUnheard(i)
       PROVE  ConsoleTyped'
  <2>1. /\ loads' \in Seq(Load) /\ Len(loads') = Len(loads)
        /\ DOMAIN loads' = DOMAIN loads
        /\ \A k \in DOMAIN loads : Same(loads[k], loads'[k])
    BY <1>1, <1>16, OvertakenFacts DEF MutationFails, ArrivesUnheard
  <2>2. LoadsTyped(loads')  BY <1>1, <2>1 DEF LoadsTyped, Same, Served
  <2>3. incidents' \in 0..MaxIncidents
    BY <1>16, Limits DEF MutationFails, ArrivesUnheard
  <2>4. rows' \in [Ids -> RowStates]
    BY <1>16 DEF MutationFails, ArrivesUnheard, Created, RowStates
  <2>5. QED BY <1>16, <2>2, <2>3, <2>4 DEF MutationFails, ArrivesUnheard
<1>17. QED
  BY <1>3, <1>4, <1>5, <1>6, <1>7, <1>8, <1>9, <1>10, <1>11, <1>12, <1>13,
     <1>14, <1>15, <1>16 DEF ConsoleNext

-----------------------------------------------------------------------------
(***************************************************************************)
(* What a step does to the rows and to the loads in flight.                *)
(***************************************************************************)

\* No step brings back a row.
LEMMA RowsStep ==
  ASSUME ConsoleTyped, ConsoleNext
  PROVE  RowsKept
<1>1. rows \in [Ids -> RowStates]  BY DEF ConsoleTyped
<1>2. CASE rows' = rows  BY <1>2 DEF RowsKept
<1>3. ASSUME NEW i \in Ids, Arrives(i) \/ ArrivesUnheard(i) PROVE RowsKept
  <2>1. /\ rows[i] = "absent"
        /\ \A j \in Ids : rows'[j] = IF j = i THEN "unread" ELSE rows[j]
    BY <1>1, <1>3 DEF Arrives, ArrivesUnheard, Created
  <2>2. QED BY <2>1 DEF RowsKept, Existing, Alive
<1>4. CASE MutationServed
  <2>1. mutation \in Mutation  BY <1>4 DEF MutationServed, ConsoleTyped
  <2>2. \/ rows' = rows \/ rows' = MarkedAllRead
        \/ rows' = MarkedRead(mutation.id) /\ mutation.id \in Present
        \/ rows' = Deleted(mutation.id) /\ mutation.id \in Present
    BY <1>4, <2>1 DEF MutationServed, Mutation
  <2>3. CASE rows' = MarkedAllRead
    <3>1. \A j \in Ids :
            rows'[j] = IF rows[j] = "unread" THEN "read" ELSE rows[j]
      BY <2>3 DEF MarkedAllRead
    <3>2. QED BY <3>1 DEF RowsKept, Existing, Alive
  <2>4. ASSUME mutation.id \in Present,
               \E v \in {"read", "deleted"} :
                 rows' = [rows EXCEPT ![mutation.id] = v]
        PROVE  RowsKept
    <3>1. PICK v \in {"read", "deleted"} :
            \A j \in Ids : rows'[j] = IF j = mutation.id THEN v ELSE rows[j]
      BY <1>1, <2>4
    <3>2. mutation.id \in Alive(rows)  BY <2>4 DEF Present, Alive
    <3>3. QED BY <3>1, <3>2 DEF RowsKept, Existing, Alive
  <2>5. QED BY <1>2, <2>2, <2>3, <2>4 DEF MarkedRead, Deleted
<1>5. \/ rows' = rows \/ MutationServed
      \/ \E i \in Ids : Arrives(i) \/ ArrivesUnheard(i)
  BY DEF ConsoleNext, ConnectSocket, DisconnectSocket, HandleEvent,
         RefreshFeed, LoadMore, LoadServed, LoadShown, LoadFails, Mutate,
         MarkAllRead, MutationAnswered, MutationFails
<1>6. QED BY <1>2, <1>3, <1>4, <1>5

\* Loads that are asked for.
LEMMA AskedKept ==
  ASSUME loads \in Seq(Load), NEW append \in BOOLEAN, NEW at \in Cursors,
         loads' = Asked(append, at),
         IF append THEN hasMore /\ at = cursor ELSE at = NoCursor
  PROVE  LoadsKept
<1>1. /\ DOMAIN loads' = DOMAIN loads \cup {Len(loads) + 1}
      /\ \A q \in DOMAIN loads : loads'[q] = loads[q]
      /\ loads'[Len(loads) + 1] = LoadOf(append, at)
  BY AskedFacts
<1>2. \A q \in DOMAIN loads : Same(loads[q], loads'[q])  BY <1>1 DEF Same
<1>3. Fresh(loads'[Len(loads) + 1], hasMore, cursor)
  BY <1>1 DEF Fresh, LoadOf
<1>4. QED BY <1>1, <1>2, <1>3 DEF LoadsKept

\* No step makes something else of a load.
LEMMA LoadsStep ==
  ASSUME ConsoleTyped, ConsoleNext
  PROVE  LoadsKept
<1>1. loads \in Seq(Load) /\ NoCursor \in Cursors /\ cursor \in Cursors
  BY DEF ConsoleTyped, LoadsTyped, Cursors
<1>2. CASE loads' = loads  BY <1>2 DEF LoadsKept, Same
<1>3. CASE loads' = Asked(FALSE, NoCursor)  BY <1>1, <1>3, AskedKept
<1>4. CASE LoadMore
  <2>1. hasMore /\ loads' = Asked(TRUE, cursor)  BY <1>4 DEF LoadMore
  <2>2. QED BY <1>1, <2>1, AskedKept
<1>5. ASSUME NEW k \in DOMAIN loads, LoadServed(k) PROVE LoadsKept
  <2> DEFINE r == Page(loads[k].cursor)
  <2> DEFINE B == IF loads[k].append THEN {} ELSE Present
  <2>1. r \in Reply /\ B \in SUBSET Ids  BY PageOfLoad
  <2>2. loads' = Answered(k, r, B) /\ rows' = rows
    BY <1>5 DEF LoadServed, Answered
  <2>3. /\ DOMAIN loads' = DOMAIN loads
        /\ loads'[k].append = loads[k].append
        /\ loads'[k].cursor = loads[k].cursor
        /\ loads'[k].overtaken = loads[k].overtaken
        /\ loads'[k].reply = r /\ loads'[k].base = B
        /\ \A j \in DOMAIN loads \ {k} : loads'[j] = loads[j]
    <3> HIDE DEF r, B
    <3>1. QED BY <1>1, <2>1, <2>2, ReadFacts
  <2>4. JustRead(loads[k], loads'[k], Page(loads[k].cursor), Present)
    BY <2>3 DEF JustRead
  <2>5. \A j \in DOMAIN loads \ {k} : Same(loads[j], loads'[j])
    BY <2>3 DEF Same
  <2>6. QED BY <2>2, <2>3, <2>4, <2>5 DEF LoadsKept
<1>6. ASSUME NEW k \in DOMAIN loads, loads' = Rest(k) PROVE LoadsKept
  <2>1. \A q \in DOMAIN loads' : \E j \in DOMAIN loads :
          Same(loads[j], loads'[q])
    BY <1>1, <1>6, RestFacts
  <2>2. QED BY <2>1 DEF LoadsKept
<1>7. CASE loads' = Missing
  <2>1. /\ DOMAIN loads' = DOMAIN loads
        /\ \A k \in DOMAIN loads : Same(loads[k], loads'[k])
    BY <1>1, <1>7, OvertakenFacts
  <2>2. QED BY <2>1 DEF LoadsKept
<1>8. \/ loads' = loads \/ loads' = Asked(FALSE, NoCursor) \/ LoadMore
      \/ \E k \in DOMAIN loads : LoadServed(k) \/ loads' = Rest(k)
      \/ loads' = Missing
  BY DEF ConsoleNext, Arrives, ArrivesUnheard, ConnectSocket,
         DisconnectSocket, HandleEvent, RefreshFeed, LoadShown, LoadFails,
         Mutate, MarkAllRead, MutationServed, MutationAnswered, MutationFails
<1>9. QED BY <1>2, <1>3, <1>4, <1>5, <1>6, <1>7, <1>8

\* Rows that are gone are missed nowhere.
LEMMA CoversLess ==
  ASSUME NEW items, NEW c, NEW S, NEW T, T \subseteq S, Covers(items, c, S)
  PROVE  Covers(items, c, T)
BY DEF Covers

\* So bases stay what they are, and pages right.
LEMMA PagesStep ==
  ASSUME ConsoleInv, ConsoleNext
  PROVE  BasesExist' /\ PagesRight'
<1>1. ConsoleTyped /\ BasesExist /\ PagesRight  BY DEF ConsoleInv
<1>2. RowsKept /\ LoadsKept  BY <1>1, RowsStep, LoadsStep
<1>3. ASSUME NEW q \in DOMAIN loads'
      PROVE  loads'[q].base \subseteq Existing(rows') /\ Right(loads'[q], rows')
  <2>1. ASSUME NEW j \in DOMAIN loads, Same(loads[j], loads'[q])
        PROVE  /\ loads'[q].base \subseteq Existing(rows')
               /\ Right(loads'[q], rows')
    <3>1. /\ loads[j].base \subseteq Existing(rows) /\ Right(loads[j], rows)
      BY <1>1 DEF BasesExist, PagesRight
    <3>2. loads[j].base \cap Alive(rows')
            \subseteq loads[j].base \cap Alive(rows)
      BY <1>2, <3>1 DEF RowsKept
    <3>3. Covers(loads[j].reply.items, NoCursor, loads[j].base \cap Alive(rows))
          => Covers(loads[j].reply.items, NoCursor,
                    loads[j].base \cap Alive(rows'))
      BY <3>2, CoversLess
    <3>4. Right(loads[j], rows')  BY <3>1, <3>3 DEF Right
    <3>5. Right(loads'[q], rows')  BY <2>1, <3>4 DEF Right, Same, Served
    <3>6. loads'[q].base \subseteq Existing(rows')
      BY <1>2, <2>1, <3>1 DEF Same, RowsKept
    <3>7. QED BY <3>5, <3>6
  <2>2. CASE Fresh(loads'[q], hasMore, cursor)
    BY <2>2 DEF Fresh, Right, Served
  <2>3. ASSUME NEW j \in DOMAIN loads, rows' = rows,
               JustRead(loads[j], loads'[q], Page(loads[j].cursor), Present)
        PROVE  /\ loads'[q].base \subseteq Existing(rows')
               /\ Right(loads'[q], rows')
    <3> DEFINE r == Page(loads[j].cursor)
    <3>1. /\ Sorted(r.items)
          /\ \A i \in IdsOf(r.items) : Behind(loads[j].cursor, i)
          /\ r.hasMore => /\ r.items # <<>>
                          /\ r.cursor = Encoded(LastOf(r.items))
          /\ Exact(rows, r.items, loads[j].cursor, r.hasMore)
      BY <1>1, PageOfLoad DEF Below, Behind
    <3>2. ~loads[j].append => loads[j].cursor = NoCursor
      BY <1>1 DEF PagesRight, Right
    <3> HIDE DEF r
    <3>3. /\ loads'[q].append = loads[j].append /\ loads'[q].reply = r
          /\ loads'[q].cursor = loads[j].cursor
          /\ loads'[q].base = IF loads[j].append THEN {} ELSE Present
      BY <2>3 DEF JustRead, r
    <3>4. Covers(r.items, loads[j].cursor, Alive(rows))
      BY <3>1 DEF Exact, Covers
    <3>5. ~loads'[q].append =>
            Covers(r.items, NoCursor, loads'[q].base \cap Alive(rows))
      BY <3>2, <3>3, <3>4, CoversLess
    <3>6. Right(loads'[q], rows)
      BY <3>1, <3>2, <3>3, <3>5 DEF Right
    <3>7. loads'[q].base \subseteq Existing(rows)
      BY <3>3 DEF Present, Existing
    <3>8. QED BY <2>3, <3>6, <3>7
  <2>4. QED BY <1>2, <2>1, <2>2, <2>3 DEF LoadsKept
<1>4. base' \subseteq Existing(rows')
  <2>1. base' = base \/ \E k \in DOMAIN loads : base' = loads[k].base
    BY DEF ConsoleNext, Arrives, ArrivesUnheard, ConnectSocket,
           DisconnectSocket, HandleEvent, RefreshFeed, LoadMore, LoadServed,
           LoadShown, LoadFails, Mutate, MarkAllRead, MutationServed,
           MutationAnswered, MutationFails
  <2>2. base' \subseteq Existing(rows)  BY <1>1, <2>1 DEF BasesExist
  <2>3. QED BY <1>2, <2>2 DEF RowsKept
<1>5. QED BY <1>3, <1>4 DEF BasesExist, PagesRight

-----------------------------------------------------------------------------
(***************************************************************************)
(* A page that continues the list.                                         *)
(***************************************************************************)

\* A list and the page behind it show together what each of them shows.
LEMMA JoinFacts ==
  ASSUME NEW a \in Seq(Item), NEW b \in Seq(Item), a # <<>>
  PROVE  /\ IdsOf(a \o b) = IdsOf(a) \cup IdsOf(b)
         /\ a \o b # <<>>
         /\ b # <<>> => LastOf(a \o b) = LastOf(b)
         /\ b = <<>> => LastOf(a \o b) = LastOf(a)
         /\ LastOf(a) \in Ids /\ LastOf(a) \in IdsOf(a)
         /\ b # <<>> => LastOf(b) \in Ids /\ LastOf(b) \in IdsOf(b)
         /\ IdsOf(a) \subseteq Ids /\ IdsOf(b) \subseteq Ids
         /\ \A i \in IdsOf(a) :
              Sorted(a) => i = LastOf(a) \/ Newer(i, LastOf(a))
         /\ \A q \in DOMAIN (a \o b) :
              \/ q \in DOMAIN a /\ (a \o b)[q] = a[q]
              \/ /\ q > Len(a) /\ q - Len(a) \in DOMAIN b
                 /\ (a \o b)[q] = b[q - Len(a)]
<1> DEFINE c == a \o b
<1> DEFINE m == Len(a)
<1> DEFINE n == Len(b)
<1>1. /\ m \in Nat /\ m > 0 /\ DOMAIN a = 1..m
      /\ \A k \in 1..m : a[k] \in Item
      /\ n \in Nat /\ DOMAIN b = 1..n
      /\ \A k \in 1..n : b[k] \in Item
      /\ (b # <<>> <=> n > 0)
  BY SeqFacts
<1>2. /\ c \in Seq(Item) /\ Len(c) = m + n
      /\ \A k \in 1..(m + n) : c[k] = IF k <= m THEN a[k] ELSE b[k - m]
  BY ConcatProperties
<1>3. DOMAIN c = 1..(m + n) /\ (c # <<>> <=> m + n > 0)
  BY <1>2, SeqFacts
<1> HIDE DEF c
<1>4. \A q \in DOMAIN c :
        \/ q \in DOMAIN a /\ c[q] = a[q]
        \/ q > m /\ q - m \in DOMAIN b /\ c[q] = b[q - m]
  BY <1>1, <1>2, <1>3
<1>5. /\ \A q \in DOMAIN a : q \in DOMAIN c /\ c[q] = a[q]
      /\ \A q \in DOMAIN b : /\ m + q \in DOMAIN c
                             /\ m + q - m = q /\ c[m + q] = b[q]
  BY <1>1, <1>2, <1>3
<1>6. IdsOf(c) = IdsOf(a) \cup IdsOf(b)
  <2>1. \A q \in DOMAIN c : c[q].id \in IdsOf(a) \cup IdsOf(b)
    BY <1>4 DEF IdsOf
  <2>2. \A q \in DOMAIN a : a[q].id \in IdsOf(c)  BY <1>5 DEF IdsOf
  <2>3. \A q \in DOMAIN b : b[q].id \in IdsOf(c)
    <3>1. \A q \in DOMAIN b : m + q \in DOMAIN c /\ c[m + q] = b[q]  BY <1>5
    <3>2. QED BY <3>1 DEF IdsOf
  <2>4. QED BY <2>1, <2>2, <2>3 DEF IdsOf
<1>7. c # <<>>  BY <1>1, <1>3
<1>8. /\ n > 0 => m + n \in 1..(m + n) /\ ~(m + n <= m) /\ m + n - m = n
      /\ n = 0 => m + n \in 1..(m + n) /\ m + n <= m /\ m + n = m
  <2>1. \A x, y \in Nat : x > 0 =>
          /\ y > 0 => x + y \in 1..(x + y) /\ ~(x + y <= x) /\ x + y - x = y
          /\ y = 0 => x + y \in 1..(x + y) /\ x + y <= x /\ x + y = x
    OBVIOUS
  <2>2. m \in Nat /\ m > 0 /\ n \in Nat  BY <1>1
  <2> HIDE DEF m, n
  <2>3. QED BY <2>1, <2>2
<1>9. n > 0 => LastOf(c) = LastOf(b)  BY <1>2, <1>8 DEF LastOf
<1>10. n = 0 => LastOf(c) = LastOf(a)  BY <1>2, <1>8 DEF LastOf
<1>11. m \in DOMAIN a /\ (n > 0 => n \in DOMAIN b)  BY <1>1
<1>12. /\ LastOf(a) \in Ids /\ LastOf(a) \in IdsOf(a)
       /\ n > 0 => LastOf(b) \in Ids /\ LastOf(b) \in IdsOf(b)
  BY <1>1, <1>11 DEF LastOf, IdsOf, Item
<1>13. IdsOf(a) \subseteq Ids /\ IdsOf(b) \subseteq Ids
  BY <1>1 DEF IdsOf, Item
<1>14. ASSUME NEW i \in IdsOf(a), Sorted(a)
       PROVE  i = LastOf(a) \/ Newer(i, LastOf(a))
  <2>1. PICK k \in DOMAIN a : i = a[k].id  BY DEF IdsOf
  <2>2. k = m \/ k < m  BY <1>1, <2>1
  <2>3. QED BY <1>11, <1>14, <2>1, <2>2 DEF Sorted, LastOf
<1>15. b = <<>> <=> n = 0  BY <1>1
<1>16. QED
  BY <1>4, <1>6, <1>7, <1>9, <1>10, <1>1, <1>12, <1>13, <1>14, <1>15 DEF c

\* The rows behind the cursor of a row come after it.
LEMMA CursorFacts ==
  ASSUME NEW i \in Ids, NEW j \in Ids
  PROVE  Encoded(i) # NoCursor /\ (Behind(Encoded(i), j) <=> Newer(i, j))
<1>1. /\ CreatedAt[i] \in Nat /\ CreatedAt[j] \in Nat /\ i \in Nat /\ j \in Nat
      /\ NoCursor \notin Nat \X Ids
  BY FeedAssumption
<1>2. Encoded(i) = <<CreatedAt[i], i>>  BY DEF Encoded
<1>3. Encoded(i) \in Nat \X Ids  BY <1>1, <1>2
<1>4. Encoded(i) # NoCursor  BY <1>1, <1>3
<1>5. Behind(Encoded(i), j) <=> \/ CreatedAt[j] < CreatedAt[i]
                                \/ CreatedAt[j] = CreatedAt[i] /\ j < i
  BY <1>2, <1>4 DEF Behind
<1>6. Newer(i, j) <=> \/ CreatedAt[j] < CreatedAt[i]
                      \/ CreatedAt[j] = CreatedAt[i] /\ j < i
  BY <1>1 DEF Newer
<1>7. QED BY <1>4, <1>5, <1>6

\* Joined at the cursor of its last row, a list stays in order and leaves out
\* nothing, and shows what the table holds if both of them do.
LEMMA Joined ==
  ASSUME NEW a \in Seq(Item), NEW b \in Seq(Item), a # <<>>, NEW c,
         c = Encoded(LastOf(a)), Sorted(a), Sorted(b),
         \A i \in IdsOf(b) : Behind(c, i)
  PROVE  /\ Sorted(a \o b)
         /\ \A S \in SUBSET Ids :
              Covers(a, NoCursor, S) /\ Covers(b, c, S)
              => Covers(a \o b, NoCursor, S)
         /\ \A table, more, m :
              Exact(table, a, NoCursor, more) /\ Exact(table, b, c, m)
              => Exact(table, a \o b, NoCursor, m)
<1> DEFINE s == a \o b
<1> DEFINE last == LastOf(a)
<1>1. /\ IdsOf(s) = IdsOf(a) \cup IdsOf(b) /\ s # <<>>
      /\ b # <<>> => LastOf(s) = LastOf(b)
      /\ b = <<>> => LastOf(s) = last
      /\ last \in Ids /\ (b # <<>> => LastOf(b) \in Ids)
      /\ b # <<>> => LastOf(b) \in IdsOf(b)
      /\ IdsOf(a) \subseteq Ids /\ IdsOf(b) \subseteq Ids
      /\ \A i \in IdsOf(a) : i = last \/ Newer(i, last)
      /\ \A q \in DOMAIN s :
           \/ q \in DOMAIN a /\ s[q] = a[q]
           \/ q > Len(a) /\ q - Len(a) \in DOMAIN b /\ s[q] = b[q - Len(a)]
  BY JoinFacts
<1>2. /\ Len(a) \in Nat /\ DOMAIN a = 1..Len(a)
      /\ Len(b) \in Nat /\ DOMAIN b = 1..Len(b)
      /\ s \in Seq(Item) /\ Len(s) \in Nat /\ DOMAIN s = 1..Len(s)
  <2>1. s \in Seq(Item)  BY ConcatProperties
  <2>2. QED BY <2>1, SeqFacts
<1> HIDE DEF s, last
<1>3. \A i \in Ids : Behind(c, i) <=> Newer(last, i)
  BY <1>1, CursorFacts DEF last
<1>4. \A i \in IdsOf(b) : Newer(last, i)  BY <1>1, <1>3
<1>5. Sorted(s)
  <2>1. ASSUME NEW j \in DOMAIN s, NEW k \in DOMAIN s, j < k
        PROVE  Newer(s[j].id, s[k].id)
    <3>1. CASE j \in DOMAIN a /\ s[j] = a[j] /\ k \in DOMAIN a /\ s[k] = a[k]
      BY <2>1, <3>1 DEF Sorted
    <3>2. CASE /\ j \in DOMAIN a /\ s[j] = a[j]
               /\ k - Len(a) \in DOMAIN b /\ s[k] = b[k - Len(a)]
      <4>1. s[j].id \in IdsOf(a) /\ s[k].id \in IdsOf(b)
        BY <3>2 DEF IdsOf
      <4>2. Newer(last, s[k].id)  BY <4>1, <1>4
      <4>3. s[j].id = last \/ Newer(s[j].id, last)  BY <4>1, <1>1
      <4>4. s[j].id \in Ids /\ s[k].id \in Ids  BY <4>1, <1>1
      <4>5. QED BY <4>2, <4>3, <4>4, <1>1, NewerIsTotal
    <3>3. CASE /\ j - Len(a) \in DOMAIN b /\ s[j] = b[j - Len(a)]
               /\ k - Len(a) \in DOMAIN b /\ s[k] = b[k - Len(a)]
      <4>1. j - Len(a) < k - Len(a)  BY <1>2, <2>1
      <4>2. QED BY <3>3, <4>1 DEF Sorted
    <3>4. ~(j > Len(a) /\ k \in DOMAIN a)  BY <1>2, <2>1
    <3>5. QED BY <1>1, <3>1, <3>2, <3>3, <3>4
  <2>2. QED BY <2>1 DEF Sorted
<1>6. ASSUME NEW i \in Ids, After(a, i), Behind(c, i) => After(b, i)
      PROVE  After(s, i)
  BY <1>1, <1>3, <1>6 DEF After, last
<1>7. \A i \in Ids : After(a, i) => Behind(c, i)
  BY <1>3 DEF After, last
<1>8. \A i : Behind(NoCursor, i)  BY DEF Behind
<1>9. ASSUME NEW S \in SUBSET Ids, Covers(a, NoCursor, S), Covers(b, c, S)
      PROVE  Covers(s, NoCursor, S)
  <2>1. ASSUME NEW i \in S, i \notin IdsOf(s) PROVE After(s, i)
    <3>1. i \in Ids /\ i \notin IdsOf(a) /\ i \notin IdsOf(b)  BY <1>1, <2>1
    <3>2. After(a, i)  BY <1>8, <1>9, <3>1 DEF Covers
    <3>3. After(b, i)  BY <1>7, <1>9, <3>1, <3>2 DEF Covers
    <3>4. QED BY <1>6, <3>1, <3>2, <3>3
  <2>2. QED BY <2>1 DEF Covers
<1>10. ASSUME NEW table, NEW more, NEW m,
              Exact(table, a, NoCursor, more), Exact(table, b, c, m)
       PROVE  Exact(table, s, NoCursor, m)
  <2>1. \A q \in DOMAIN s : s[q].state = table[s[q].id]
    BY <1>1, <1>10 DEF Exact
  <2>2. ASSUME NEW i \in Alive(table), i \notin IdsOf(s)
        PROVE  m /\ After(s, i)
    <3>1. i \in Ids /\ i \notin IdsOf(a) /\ i \notin IdsOf(b)
      BY <1>1, <2>2 DEF Alive
    <3>2. After(a, i)  BY <1>8, <1>10, <3>1 DEF Exact
    <3>3. m /\ After(b, i)  BY <1>7, <1>10, <3>1, <3>2 DEF Exact
    <3>4. QED BY <1>6, <3>1, <3>2, <3>3
  <2>3. QED BY <2>1, <2>2 DEF Exact
<1>11. QED BY <1>5, <1>9, <1>10 DEF s

-----------------------------------------------------------------------------
(***************************************************************************)
(* Every step keeps the list whole, and the pages that continue it.        *)
(***************************************************************************)

\* When a load is done, no page is left that continues the list, and the
\* latest first page is one that was asked for after it.
LEMMA RestLatest ==
  ASSUME loads \in Seq(Load), NEW k \in DOMAIN loads
  PROVE  /\ \A x : \A q \in DOMAIN Rest(k) : ~Continues(Rest(k)[q], x)
         /\ \A q \in DOMAIN Rest(k) : Latest(Rest(k), q) =>
              \E j \in DOMAIN loads :
                Latest(loads, j) /\ Same(loads[j], Rest(k)[q])
         /\ ~Reloading(Rest(k)) =>
              \A j \in DOMAIN loads \ {k} : loads[j].append
<1> DEFINE ls == Rest(k)
<1>1. /\ \A q \in DOMAIN ls :
           /\ From(k, q) \in DOMAIN loads \ {k}
           /\ Same(loads[From(k, q)], ls[q])
           /\ From(k, q) < k \/ loads[From(k, q)].append => ls[q].overtaken
      /\ \A j \in DOMAIN loads \ {k} : \E q \in DOMAIN ls : From(k, q) = j
      /\ \A p, q \in DOMAIN ls : p < q <=> From(k, p) < From(k, q)
      /\ ls \in Seq(Load)
  BY RestFacts
<1>2. /\ DOMAIN loads \subseteq Nat
      /\ \A j \in DOMAIN loads : loads[j] \in Load
      /\ \A q \in DOMAIN ls : ls[q] \in Load
  BY <1>1, SeqFacts
<1>3. DOMAIN ls \subseteq Nat  BY <1>1, SeqFacts
<1> HIDE DEF ls
<1>4. \A x : \A q \in DOMAIN ls : ~Continues(ls[q], x)
  BY <1>1, <1>2 DEF Continues, Same
<1>5. ASSUME NEW q \in DOMAIN ls, Latest(ls, q)
      PROVE  Latest(loads, From(k, q))
  <2> DEFINE j == From(k, q)
  <2>1. /\ j \in DOMAIN loads /\ j # k /\ Same(loads[j], ls[q])
        /\ ~(j < k) /\ ~loads[j].append
    BY <1>1, <1>5 DEF Latest
  <2>2. ~loads[j].overtaken  BY <1>5, <2>1 DEF Latest, Same
  <2>3. ASSUME NEW i \in DOMAIN loads, i > j PROVE loads[i].append
    <3>1. i # k  BY <1>2, <2>1, <2>3
    <3>2. PICK p \in DOMAIN ls : From(k, p) = i  BY <1>1, <3>1
    <3>3. q < p  BY <1>1, <1>2, <2>1, <2>3, <3>2
    <3>4. p > q  BY <1>3, <3>3
    <3>5. ls[p].append  BY <1>5, <3>4 DEF Latest
    <3>6. QED BY <1>1, <3>2, <3>5 DEF Same
  <2> HIDE DEF j
  <2>4. Latest(loads, j)  BY <2>1, <2>2, <2>3 DEF Latest
  <2>5. QED BY <2>4 DEF j
<1>6. ASSUME ~Reloading(ls), NEW j \in DOMAIN loads \ {k}
      PROVE  loads[j].append
  <2>1. PICK q \in DOMAIN ls : From(k, q) = j  BY <1>1
  <2>2. ls[q].append  BY <1>6 DEF Reloading
  <2>3. QED BY <1>1, <2>1, <2>2 DEF Same
<1>7. QED BY <1>1, <1>4, <1>5, <1>6 DEF ls

\* Only a load that is shown changes the list and what is remembered of it.
LEMMA ListKept ==
  ASSUME ConsoleNext, ~\E k \in DOMAIN loads : LoadShown(k)
  PROVE  /\ list' = list /\ base' = base /\ crossed' = crossed
         /\ hasMore' = hasMore /\ cursor' \in {cursor, NoCursor}
BY DEF ConsoleNext, Arrives, ArrivesUnheard, ConnectSocket, DisconnectSocket,
       HandleEvent, RefreshFeed, LoadMore, LoadServed, LoadFails, Mutate,
       MarkAllRead, MutationServed, MutationAnswered, MutationFails

\* The rows of a base that are gone do not come back.
LEMMA BaseShrinks ==
  ASSUME BasesExist, RowsKept
  PROVE  base \cap Alive(rows') \subseteq base \cap Alive(rows)
BY DEF BasesExist, RowsKept

\* A page that is not overtaken still starts where the list ends.
LEMMA PagesContinueStep ==
  ASSUME ConsoleInv, ConsoleNext
  PROVE  PagesContinue'
<1>1. /\ ConsoleTyped /\ BasesExist /\ PagesRight /\ PagesContinue
      /\ ListWhole /\ loads \in Seq(Load)
  BY DEF ConsoleInv, ConsoleTyped, LoadsTyped
<1>2. RowsKept /\ LoadsKept  BY <1>1, RowsStep, LoadsStep
<1>3. ASSUME NEW k \in DOMAIN loads, LoadShown(k) PROVE PagesContinue'
  <2>1. loads' = Rest(k)  BY <1>3 DEF LoadShown
  <2>2. \A q \in DOMAIN loads' : ~Continues(loads'[q], crossed')
    BY <1>1, <2>1, RestLatest
  <2>3. QED BY <2>2 DEF PagesContinue
<1>4. ASSUME ~\E k \in DOMAIN loads : LoadShown(k) PROVE PagesContinue'
  <2>1. list' = list /\ base' = base /\ crossed' = crossed
    BY <1>4, ListKept
  <2>2. base \cap Alive(rows') \subseteq base \cap Alive(rows)
    BY <1>1, <1>2, BaseShrinks
  <2>3. ASSUME NEW q \in DOMAIN loads', Continues(loads'[q], crossed)
        PROVE  Follows(loads'[q], list, base \cap Alive(rows'))
    <3>1. ASSUME NEW j \in DOMAIN loads, Same(loads[j], loads'[q])
          PROVE  Follows(loads'[q], list, base \cap Alive(rows'))
      <4>1. Continues(loads[j], crossed)
        BY <2>3, <3>1 DEF Continues, Same
      <4>2. Follows(loads[j], list, base \cap Alive(rows))
        BY <1>1, <4>1 DEF PagesContinue
      <4>3. Covers(loads[j].reply.items, loads[j].cursor, base \cap Alive(rows))
            => Covers(loads[j].reply.items, loads[j].cursor,
                      base \cap Alive(rows'))
        BY <2>2, CoversLess
      <4>4. QED BY <3>1, <4>2, <4>3 DEF Follows, Same, Served
    <3>2. ASSUME Fresh(loads'[q], hasMore, cursor)
          PROVE  Follows(loads'[q], list, base \cap Alive(rows'))
      <4>1. /\ hasMore /\ loads'[q].cursor = cursor /\ cursor # NoCursor
            /\ ~crossed /\ ~Served(loads'[q])
        BY <2>3, <3>2 DEF Fresh, Continues, Served
      <4>2. list # <<>> /\ cursor = Encoded(LastOf(list))
        BY <1>1, <4>1 DEF ListWhole
      <4>3. QED BY <4>1, <4>2 DEF Follows
    <3>3. ASSUME NEW j \in DOMAIN loads, rows' = rows,
                 JustRead(loads[j], loads'[q], Page(loads[j].cursor), Present)
          PROVE  Follows(loads'[q], list, base \cap Alive(rows'))
      <4> DEFINE r == Page(loads[j].cursor)
      <4>1. Exact(rows, r.items, loads[j].cursor, r.hasMore)
        BY <1>1, PageOfLoad
      <4>2. Continues(loads[j], crossed)
        BY <2>3, <3>3 DEF Continues, JustRead
      <4>3. list # <<>> /\ loads[j].cursor = Encoded(LastOf(list))
        BY <1>1, <4>2 DEF PagesContinue, Follows
      <4> HIDE DEF r
      <4>4. loads'[q].cursor = loads[j].cursor /\ loads'[q].reply = r
        BY <3>3 DEF JustRead, r
      <4>5. Covers(r.items, loads[j].cursor, base \cap Alive(rows))
        BY <4>1 DEF Exact, Covers
      <4>6. QED BY <3>3, <4>3, <4>4, <4>5 DEF Follows
    <3>4. QED BY <1>2, <3>1, <3>2, <3>3 DEF LoadsKept
  <2>4. QED BY <2>1, <2>3 DEF PagesContinue
<1>5. QED BY <1>3, <1>4

\* What a page is that is shown as the continuation of the list.
LEMMA ShownContinues ==
  ASSUME ConsoleInv, NEW k \in DOMAIN loads, LoadShown(k),
         loads[k].append, ~crossed'
  PROVE  LET items == loads[k].reply.items IN
         /\ Continues(loads[k], crossed)
         /\ list \in Seq(Item) /\ items \in Seq(Item) /\ list # <<>>
         /\ loads[k].cursor = Encoded(LastOf(list))
         /\ Sorted(list) /\ Sorted(items)
         /\ \A i \in IdsOf(items) : Behind(loads[k].cursor, i)
         /\ Covers(list, NoCursor, base \cap Alive(rows))
         /\ Covers(items, loads[k].cursor, base \cap Alive(rows))
         /\ list' = list \o items
<1>1. Served(loads[k])  BY DEF LoadShown, Served
<1>2. /\ loads[k] \in Load /\ loads[k].reply \in Reply
      /\ list \in Seq(Item) /\ crossed \in BOOLEAN
  <2>1. loads \in Seq(Load) /\ list \in Seq(Item) /\ crossed \in BOOLEAN
    BY DEF ConsoleInv, ConsoleTyped, LoadsTyped
  <2>2. loads[k] \in Load  BY <2>1, SeqFacts
  <2>3. loads[k].reply \in Reply  BY <1>1, <2>2 DEF Load, Served
  <2>4. QED BY <2>1, <2>2, <2>3
<1>3. ~crossed /\ ~loads[k].overtaken /\ loads[k].cursor # NoCursor
  BY DEF LoadShown
<1>4. Continues(loads[k], crossed)  BY <1>3 DEF Continues
<1>5. Follows(loads[k], list, base \cap Alive(rows))
  BY <1>4 DEF ConsoleInv, PagesContinue
<1>6. Right(loads[k], rows)  BY DEF ConsoleInv, PagesRight
<1>7. Sorted(list) /\ Covers(list, NoCursor, base \cap Alive(rows))
  BY <1>3 DEF ConsoleInv, ListWhole
<1>8. loads[k].reply.items \in Seq(Item)  BY <1>2 DEF Reply
<1>9. list' = list \o loads[k].reply.items  BY DEF LoadShown
<1>10. QED
  BY <1>1, <1>2, <1>4, <1>5, <1>6, <1>7, <1>8, <1>9 DEF Follows, Right

\* The list stays in order, and leaves out nothing of its base.
LEMMA ListWholeStep ==
  ASSUME ConsoleInv, ConsoleNext
  PROVE  ListWhole'
<1>1. /\ ConsoleTyped /\ BasesExist /\ PagesRight /\ PagesContinue
      /\ ListWhole /\ loads \in Seq(Load) /\ base \subseteq Ids
  BY DEF ConsoleInv, ConsoleTyped, LoadsTyped
<1>2. RowsKept  BY <1>1, RowsStep
<1>3. base \cap Alive(rows') \subseteq base \cap Alive(rows)
  BY <1>1, <1>2, BaseShrinks
<1>4. ASSUME NEW k \in DOMAIN loads, LoadShown(k), ~crossed'
      PROVE  ListWhole'
  <2> DEFINE items == loads[k].reply.items
  <2>1. /\ rows' = rows /\ cursor' = loads[k].reply.cursor
        /\ hasMore' = loads[k].reply.hasMore
        /\ list' = IF loads[k].append THEN list \o items ELSE items
        /\ base' = IF loads[k].append THEN base ELSE loads[k].base
    BY <1>4 DEF LoadShown
  <2>2. /\ Sorted(items)
        /\ hasMore' => items # <<>> /\ cursor' = Encoded(LastOf(items))
        /\ ~loads[k].append =>
             Covers(items, NoCursor, loads[k].base \cap Alive(rows))
    BY <1>1, <1>4, <2>1 DEF PagesRight, Right, LoadShown, Served
  <2> HIDE DEF items
  <2>3. CASE ~loads[k].append  BY <2>1, <2>2, <2>3 DEF ListWhole
  <2>4. CASE loads[k].append
    <3>1. /\ list \in Seq(Item) /\ items \in Seq(Item) /\ list # <<>>
          /\ loads[k].cursor = Encoded(LastOf(list))
          /\ Sorted(list) /\ \A i \in IdsOf(items) : Behind(loads[k].cursor, i)
          /\ Covers(list, NoCursor, base \cap Alive(rows))
          /\ Covers(items, loads[k].cursor, base \cap Alive(rows))
      BY <1>4, <2>4, ShownContinues DEF items
    <3>2. base \cap Alive(rows) \in SUBSET Ids  BY <1>1
    <3>3. /\ Sorted(list \o items)
          /\ Covers(list \o items, NoCursor, base \cap Alive(rows))
      BY <2>2, <3>1, <3>2, Joined
    <3>4. /\ list \o items # <<>>
          /\ items # <<>> => LastOf(list \o items) = LastOf(items)
      BY <3>1, JoinFacts
    <3>5. list' = list \o items /\ base' = base  BY <2>1, <2>4
    <3>6. QED BY <2>1, <2>2, <3>3, <3>4, <3>5 DEF ListWhole
  <2>5. QED BY <2>3, <2>4
<1>5. ASSUME ~\E k \in DOMAIN loads : LoadShown(k) PROVE ListWhole'
  <2>1. /\ list' = list /\ base' = base /\ crossed' = crossed
        /\ hasMore' = hasMore /\ cursor' \in {cursor, NoCursor}
    BY <1>5, ListKept
  <2>2. Covers(list, NoCursor, base \cap Alive(rows))
        => Covers(list, NoCursor, base \cap Alive(rows'))
    BY <1>3, CoversLess
  <2>3. QED BY <1>1, <2>1, <2>2 DEF ListWhole
<1>6. crossed' => ListWhole'  BY DEF ListWhole
<1>7. QED BY <1>4, <1>5, <1>6

-----------------------------------------------------------------------------
(***************************************************************************)
(* Every step keeps what is current current.                               *)
(***************************************************************************)

\* The list shown, and what is known of it, is as it was.
ListStays == /\ list' = list /\ hasMore' = hasMore
             /\ crossed' = crossed /\ outdated' = outdated

\* After a step that leaves nothing to be asked for, the first page has just
\* been asked for, or the page has missed a change, or nothing had to be asked
\* for before.
LEMMA DueStep ==
  ASSUME ConsoleTyped, ConsoleNext, ~ReloadDue'
  PROVE  \/ loads' = Asked(FALSE, NoCursor)
         \/ loads' = Missing /\ outdated'
         \/ /\ rows' = rows /\ ~ReloadDue
            /\ \/ loads' = loads /\ ListStays
               \/ LoadMore /\ ListStays
               \/ \E k \in DOMAIN loads :
                    \/ LoadServed(k) /\ ListStays
                    \/ LoadShown(k) \/ LoadFails(k)
<1>1. online \in BOOLEAN /\ events \in Nat
  BY Limits DEF ConsoleTyped
<1>2. ASSUME NEW i \in Ids, Arrives(i) PROVE FALSE
  BY <1>1, <1>2 DEF Arrives, ReloadDue
<1>3. ~ConnectSocket /\ ~DisconnectSocket
  BY DEF ConnectSocket, DisconnectSocket, ReloadDue
<1>4. HandleEvent \/ RefreshFeed \/ MutationAnswered
      => loads' = Asked(FALSE, NoCursor)
  BY DEF HandleEvent, RefreshFeed, MutationAnswered
<1>5. LoadMore => rows' = rows /\ ~ReloadDue /\ ListStays
  BY DEF LoadMore, ReloadDue, ListStays
<1>6. ASSUME NEW k \in DOMAIN loads
      PROVE  /\ LoadServed(k) => rows' = rows /\ ~ReloadDue /\ ListStays
             /\ LoadShown(k) \/ LoadFails(k) => rows' = rows /\ ~ReloadDue
  BY DEF LoadServed, LoadShown, LoadFails, ReloadDue, ListStays
<1>7. ASSUME NEW id \in Ids, Mutate("read", id) \/ Mutate("delete", id)
      PROVE  rows' = rows /\ ~ReloadDue /\ loads' = loads /\ ListStays
  BY <1>7 DEF Mutate, ReloadDue, ListStays
<1>8. MarkAllRead => rows' = rows /\ ~ReloadDue /\ loads' = loads /\ ListStays
  BY DEF MarkAllRead, ReloadDue, ListStays
<1>9. MutationServed
      => rows' = rows /\ ~ReloadDue /\ loads' = loads /\ ListStays
  <2>1. SUFFICES ASSUME MutationServed
                 PROVE  /\ rows' = rows /\ ~ReloadDue
                        /\ loads' = loads /\ ListStays
    OBVIOUS
  <2>2. mutation \in Mutation /\ mutation.stage = "asked"
    BY <2>1 DEF MutationServed, ConsoleTyped
  <2>3. mutation' # [mutation EXCEPT !.stage = "done"]
    <3>1. [mutation EXCEPT !.stage = "done"] \in Mutation
          /\ [mutation EXCEPT !.stage = "done"].stage = "done"
      BY <2>2 DEF Mutation
    <3>2. QED BY <3>1, Limits DEF ReloadDue
  <2>4. rows' = rows /\ loads' = loads /\ online' = online /\ events' = events
        /\ ListStays
    BY <2>1, <2>3 DEF MutationServed, ListStays
  <2>5. QED BY <2>2, <2>4 DEF ReloadDue
<1>10. (\E i \in Ids : ArrivesUnheard(i)) \/ MutationFails
       => loads' = Missing /\ outdated'
  BY DEF ArrivesUnheard, MutationFails
<1>11. QED
  BY <1>2, <1>3, <1>4, <1>5, <1>6, <1>7, <1>8, <1>9, <1>10 DEF ConsoleNext

\* Every step keeps current the pages about to be shown, and the list.
LEMMA CurrentStep ==
  ASSUME ConsoleInv, ConsoleNext
  PROVE  RepliesCurrent' /\ ListCurrent'
<1>1. /\ ConsoleTyped /\ PagesRight /\ RepliesCurrent /\ ListCurrent
      /\ loads \in Seq(Load) /\ NoCursor \in Cursors /\ cursor \in Cursors
  BY DEF ConsoleInv, ConsoleTyped, LoadsTyped, Cursors
<1>2. CASE loads' = Asked(FALSE, NoCursor)
  <2> DEFINE new == Len(loads) + 1
  <2>1. /\ DOMAIN loads' = DOMAIN loads \cup {new}
        /\ \A q \in DOMAIN loads : q < new
        /\ loads'[new] = LoadOf(FALSE, NoCursor)
    BY <1>1, <1>2, AskedFacts
  <2> HIDE DEF new
  <2>2. ~loads'[new].append /\ ~Served(loads'[new])
    BY <2>1 DEF LoadOf, Served
  <2>3. Reloading(loads')  BY <2>1, <2>2 DEF Reloading
  <2>4. \A q \in DOMAIN loads : ~Latest(loads', q)
    <3>1. ASSUME NEW q \in DOMAIN loads PROVE ~Latest(loads', q)
      <4>1. new \in DOMAIN loads' /\ q < new  BY <2>1
      <4>2. QED BY <2>2, <4>1 DEF Latest
    <3>2. QED BY <3>1
  <2>5. RepliesCurrent'
    BY <2>1, <2>2, <2>3, <2>4 DEF RepliesCurrent
  <2>6. ListCurrent'  BY <2>3 DEF ListCurrent
  <2>7. QED BY <2>5, <2>6
<1>3. CASE loads' = Missing /\ outdated'
  <2>1. \A q \in DOMAIN loads' : Served(loads'[q]) => ~Latest(loads', q)
    BY <1>1, <1>3, OvertakenFacts DEF Latest
  <2>2. RepliesCurrent'  BY <1>3, <2>1 DEF RepliesCurrent
  <2>3. ListCurrent'  BY <1>3 DEF ListCurrent
  <2>4. QED BY <2>2, <2>3
<1>4. ASSUME rows' = rows, ~ReloadDue, loads' = loads, ListStays
      PROVE  RepliesCurrent' /\ ListCurrent'
  BY <1>1, <1>4 DEF RepliesCurrent, ListCurrent, ListStays
<1>5. ASSUME rows' = rows, ~ReloadDue, LoadMore, ListStays
      PROVE  RepliesCurrent' /\ ListCurrent'
  <2> DEFINE new == Len(loads) + 1
  <2>1. /\ DOMAIN loads' = DOMAIN loads \cup {new}
        /\ \A q \in DOMAIN loads : loads'[q] = loads[q]
        /\ loads'[new] = LoadOf(TRUE, cursor)
    BY <1>1, <1>5, AskedFacts DEF LoadMore
  <2> HIDE DEF new
  <2>2. loads'[new].append /\ ~Served(loads'[new])
    BY <2>1 DEF LoadOf, Served
  <2>3. Reloading(loads) => Reloading(loads')  BY <2>1 DEF Reloading
  <2>4. \A q \in DOMAIN loads : Latest(loads', q) => Latest(loads, q)
    BY <2>1 DEF Latest
  <2>5. RepliesCurrent'
    BY <1>1, <1>5, <2>1, <2>2, <2>3, <2>4 DEF RepliesCurrent, ListStays
  <2>6. ListCurrent'  BY <1>1, <1>5, <2>3 DEF ListCurrent, ListStays
  <2>7. QED BY <2>5, <2>6
<1>6. ASSUME rows' = rows, ~ReloadDue, ListStays,
             NEW k \in DOMAIN loads, LoadServed(k)
      PROVE  RepliesCurrent' /\ ListCurrent'
  <2> DEFINE r == Page(loads[k].cursor)
  <2> DEFINE B == IF loads[k].append THEN {} ELSE Present
  <2>1. /\ r \in Reply /\ B \in SUBSET Ids
        /\ Exact(rows, r.items, loads[k].cursor, r.hasMore)
    BY <1>1, PageOfLoad
  <2>2. loads' = Answered(k, r, B)
    BY <1>6 DEF LoadServed, Answered
  <2> HIDE DEF r, B
  <2>3. /\ DOMAIN loads' = DOMAIN loads
        /\ loads'[k].append = loads[k].append
        /\ loads'[k].cursor = loads[k].cursor
        /\ loads'[k].overtaken = loads[k].overtaken
        /\ loads'[k].reply = r
        /\ \A j \in DOMAIN loads \ {k} : loads'[j] = loads[j]
    BY <1>1, <2>1, <2>2, ReadFacts
  <2>4. \A q \in DOMAIN loads : /\ loads'[q].append = loads[q].append
                                /\ loads'[q].overtaken = loads[q].overtaken
                                /\ loads'[q].cursor = loads[q].cursor
    BY <2>3
  <2>5. Reloading(loads') <=> Reloading(loads)
    BY <2>3, <2>4 DEF Reloading
  <2>6. \A q \in DOMAIN loads :
          /\ Latest(loads', q) <=> Latest(loads, q)
          /\ Continues(loads'[q], crossed) <=> Continues(loads[q], crossed)
    BY <2>3, <2>4 DEF Latest, Continues
  <2>7. ASSUME NEW q \in DOMAIN loads, Served(loads'[q]),
               \/ Latest(loads, q)
               \/ Continues(loads[q], crossed) /\ ~Reloading(loads) /\ ~outdated
        PROVE  Exact(rows, loads'[q].reply.items, loads'[q].cursor,
                     loads'[q].reply.hasMore)
    <3>1. CASE q = k  BY <2>1, <2>3, <3>1
    <3>2. CASE q # k
      BY <1>1, <1>6, <2>3, <2>7, <3>2 DEF RepliesCurrent
    <3>3. QED BY <3>1, <3>2
  <2>8. RepliesCurrent'
    BY <1>6, <2>3, <2>5, <2>6, <2>7 DEF RepliesCurrent, ListStays
  <2>9. ListCurrent'  BY <1>1, <1>6, <2>5 DEF ListCurrent, ListStays
  <2>10. QED BY <2>8, <2>9
<1>7. ASSUME rows' = rows, ~ReloadDue,
             NEW k \in DOMAIN loads, LoadShown(k) \/ LoadFails(k)
      PROVE  RepliesCurrent' /\ ListCurrent'
  <2>1. loads' = Rest(k)  BY <1>7 DEF LoadShown, LoadFails
  <2>2. /\ \A q \in DOMAIN loads' : ~Continues(loads'[q], crossed')
        /\ \A q \in DOMAIN loads' : Latest(loads', q) =>
             \E j \in DOMAIN loads :
               Latest(loads, j) /\ Same(loads[j], loads'[q])
        /\ ~Reloading(loads') =>
             \A j \in DOMAIN loads \ {k} : loads[j].append
    BY <1>1, <2>1, RestLatest
  <2>3. RepliesCurrent'
    <3>1. ASSUME NEW q \in DOMAIN loads', Served(loads'[q]), Latest(loads', q)
          PROVE  Exact(rows, loads'[q].reply.items, loads'[q].cursor,
                       loads'[q].reply.hasMore)
      <4>1. PICK j \in DOMAIN loads :
              Latest(loads, j) /\ Same(loads[j], loads'[q])
        BY <2>2, <3>1
      <4>2. /\ loads'[q].reply = loads[j].reply
            /\ loads'[q].cursor = loads[j].cursor
        BY <4>1 DEF Same
      <4>3. Served(loads[j])  BY <3>1, <4>2 DEF Served
      <4>4. QED BY <1>1, <1>7, <4>1, <4>2, <4>3 DEF RepliesCurrent
    <3>2. QED BY <1>7, <2>2, <3>1 DEF RepliesCurrent
  <2>4. ASSUME ~Reloading(loads'), ~crossed', ~outdated'
        PROVE  Exact(rows, list', NoCursor, hasMore')
    <3> DEFINE items == loads[k].reply.items
    <3>1. LoadShown(k)  BY <1>7, <2>4 DEF LoadFails
    <3>2. Served(loads[k]) /\ hasMore' = loads[k].reply.hasMore
      BY <3>1 DEF LoadShown, Served
    <3>3. \A j \in DOMAIN loads \ {k} : loads[j].append  BY <2>2, <2>4
    <3>4. CASE ~loads[k].append
      <4>1. list' = items /\ ~loads[k].overtaken
        BY <2>4, <3>1, <3>4 DEF LoadShown
      <4>2. \A j \in DOMAIN loads : j > k => j # k
        <5>1. k \in Nat  BY <1>1, SeqFacts
        <5>2. QED BY <5>1
      <4>3. Latest(loads, k)  BY <3>3, <3>4, <4>1, <4>2 DEF Latest
      <4>4. loads[k].cursor = NoCursor
        BY <1>1, <3>4 DEF PagesRight, Right
      <4>5. QED BY <1>1, <1>7, <3>2, <4>1, <4>3, <4>4 DEF RepliesCurrent
    <3>5. CASE loads[k].append
      <4> DEFINE c == loads[k].cursor
      <4>1. /\ Continues(loads[k], crossed)
            /\ list \in Seq(Item) /\ items \in Seq(Item) /\ list # <<>>
            /\ c = Encoded(LastOf(list)) /\ Sorted(list) /\ Sorted(items)
            /\ \A i \in IdsOf(items) : Behind(c, i)
            /\ list' = list \o items
        BY <2>4, <3>1, <3>5, ShownContinues
      <4>2. ~Reloading(loads)  BY <3>3, <3>5 DEF Reloading
      <4>3. ~crossed /\ ~outdated
        BY <2>4, <3>1, <3>5, <4>1 DEF LoadShown, Continues
      <4>4. Exact(rows, items, c, hasMore')
        BY <1>1, <1>7, <3>2, <4>1, <4>2, <4>3 DEF RepliesCurrent
      <4>5. Exact(rows, list, NoCursor, hasMore)
        BY <1>1, <1>7, <4>2, <4>3 DEF ListCurrent
      <4> HIDE DEF c, items
      <4>6. Exact(rows, list \o items, NoCursor, hasMore')
        BY <4>1, <4>4, <4>5, Joined
      <4>7. QED BY <4>1, <4>6
    <3>6. QED BY <3>4, <3>5
  <2>5. ListCurrent'  BY <1>7, <2>4 DEF ListCurrent
  <2>6. QED BY <2>3, <2>5
<1>8. ReloadDue' => RepliesCurrent' /\ ListCurrent'
  BY DEF RepliesCurrent, ListCurrent
<1>9. QED
  BY <1>1, <1>2, <1>3, <1>4, <1>5, <1>6, <1>7, <1>8, DueStep

-----------------------------------------------------------------------------
(***************************************************************************)
(* The theorems.                                                           *)
(***************************************************************************)

\* The invariant is one of every behaviour.
THEOREM ConsoleInvariant == ConsoleSpec => []ConsoleInv
<1>1. ConsoleInit => ConsoleInv
  <2>1. SUFFICES ASSUME ConsoleInit PROVE ConsoleInv  OBVIOUS
  <2>2. /\ NoCursor \in Cursors /\ <<>> \in Seq(Item)
        /\ LoadOf(FALSE, NoCursor) \in Load
    BY DEF Cursors, LoadOf, Load
  <2>3. /\ loads \in Seq(Load) /\ Len(loads) = 1 /\ DOMAIN loads = {1}
        /\ loads[1] = LoadOf(FALSE, NoCursor)
    <3>1. loads = <<LoadOf(FALSE, NoCursor)>>  BY <2>1 DEF ConsoleInit
    <3> DEFINE l == LoadOf(FALSE, NoCursor)
    <3> HIDE DEF l
    <3>2. l \in Load /\ loads = <<l>>  BY <2>2, <3>1 DEF l
    <3>3. Len(loads) = 1 /\ loads[1] = l  BY <3>2
    <3>4. loads \in Seq(Load)  BY <3>2
    <3>5. DOMAIN loads = {1}
      <4>1. DOMAIN loads = 1..1  BY <3>3, <3>4, SeqFacts
      <4>2. QED BY <4>1
    <3>6. QED BY <3>3, <3>4, <3>5 DEF l
  <2>4. /\ ~loads[1].append /\ loads[1].base = {} /\ ~Served(loads[1])
        /\ loads[1].cursor = NoCursor
    BY <2>3 DEF LoadOf, Served
  <2>5. rows \in [Ids -> RowStates]
    BY <2>1 DEF ConsoleInit, FeedInit, RowStates
  <2>6. LoadsTyped(loads)
    <3>1. 1 <= MaxLoads  BY Limits
    <3>2. QED BY <2>3, <2>4, <3>1 DEF LoadsTyped
  <2>7. ConsoleTyped
    <3>1. 0 \in 0..MaxEvents /\ 0 \in 0..MaxIncidents  BY Limits
    <3>2. QED BY <2>1, <2>2, <2>5, <2>6, <3>1 DEF ConsoleInit, ConsoleTyped
  <2>8. BasesExist  BY <2>1, <2>3, <2>4 DEF ConsoleInit, BasesExist
  <2>9. PagesRight  BY <2>3, <2>4 DEF PagesRight, Right
  <2>10. PagesContinue  BY <2>3, <2>4 DEF PagesContinue, Continues
  <2>11. ListWhole
    BY <2>1 DEF ConsoleInit, ListWhole, Sorted, Covers
  <2>12. RepliesCurrent  BY <2>3, <2>4 DEF RepliesCurrent
  <2>13. ListCurrent  BY <2>3, <2>4 DEF ListCurrent, Reloading
  <2>14. QED
    BY <2>7, <2>8, <2>9, <2>10, <2>11, <2>12, <2>13 DEF ConsoleInv
<1>2. ConsoleInv /\ [ConsoleNext]_<<rows, consoleVars>> => ConsoleInv'
  <2>1. ASSUME ConsoleInv, ConsoleNext PROVE ConsoleInv'
    <3>1. ConsoleTyped'  BY <2>1, TypedStep DEF ConsoleInv
    <3>2. BasesExist' /\ PagesRight'  BY <2>1, PagesStep
    <3>3. PagesContinue'  BY <2>1, PagesContinueStep
    <3>4. ListWhole'  BY <2>1, ListWholeStep
    <3>5. RepliesCurrent' /\ ListCurrent'  BY <2>1, CurrentStep
    <3>6. QED BY <3>1, <3>2, <3>3, <3>4, <3>5 DEF ConsoleInv
  <2>2. ASSUME ConsoleInv, UNCHANGED <<rows, consoleVars>> PROVE ConsoleInv'
    BY <2>2 DEF ConsoleInv, consoleVars, ConsoleTyped, BasesExist, PagesRight,
       PagesContinue, ListWhole, RepliesCurrent, ListCurrent, ReloadDue
  <2>3. QED BY <2>1, <2>2
<1>3. QED BY <1>1, <1>2, PTL DEF ConsoleSpec

\* The console's variables are what they are declared to be, and no page that
\* is shown has more rows than were asked for (the row that is read beyond the
\* limit, notification.repository.js, is never part of it).
THEOREM ConsoleTypeCorrect == ConsoleSpec => []ConsoleTypeOK
<1>1. ConsoleInv => ConsoleTypeOK
  <2>1. SUFFICES ASSUME ConsoleInv PROVE ConsoleTypeOK  OBVIOUS
  <2>2. ConsoleTyped  BY <2>1 DEF ConsoleInv
  <2>3. \A k \in DOMAIN list : list[k] \in [id : Ids, state : RowStates]
    BY <2>2, SeqFacts DEF ConsoleTyped, Item
  <2>4. \A k \in DOMAIN loads : loads[k] \in Load
    BY <2>2, SeqFacts DEF ConsoleTyped, LoadsTyped
  <2>5. \A k \in DOMAIN loads :
          /\ DOMAIN loads[k] =
               {"append", "cursor", "reply", "base", "overtaken"}
          /\ loads[k].reply # NoReply => Len(loads[k].reply.items) <= Limit
    BY <2>2, <2>4 DEF ConsoleTyped, LoadsTyped, Served, Load
  <2>6. QED
    BY <2>2, <2>3, <2>5 DEF ConsoleTyped, ConsoleTypeOK, Cursors, LoadsTyped
<1>2. QED BY <1>1, ConsoleInvariant, PTL

\* While rows are inserted and deleted between the pages of a list
\* (loadNotifications, demo.js), the list stays in order, shows nothing twice
\* and leaves out no row that was there when its first page was read, unless
\* a page was appended to a list that it does not continue.
THEOREM ListsAreWhole == ConsoleSpec => []WholeUnlessCrossed
<1>1. ConsoleInv => WholeUnlessCrossed
  <2>1. SUFFICES ASSUME ConsoleInv, ~crossed PROVE WholeUnlessCrossed
    BY DEF WholeUnlessCrossed
  <2>2. /\ Sorted(list) /\ Covers(list, NoCursor, base \cap Alive(rows))
        /\ list \in Seq(Item)
    BY <2>1 DEF ConsoleInv, ListWhole, ConsoleTyped
  <2>3. ASSUME NEW k \in 1..Len(list)-1
        PROVE  Newer(list[k].id, list[k+1].id)
    <3>1. /\ k \in DOMAIN list /\ k + 1 \in DOMAIN list /\ k < k + 1
      BY <2>2, <2>3, SeqFacts
    <3>2. QED BY <2>2, <3>1 DEF Sorted
  <2>4. ASSUME list # <<>>, NEW i \in base \cap Present
        PROVE  i \in Shown \/ Newer(LastShown, i)
    BY <2>2, <2>4
       DEF Covers, Behind, After, IdsOf, LastOf, Shown, LastShown, Present,
           Alive
  <2>5. QED BY <2>3, <2>4 DEF WholeUnlessCrossed
<1>2. QED BY <1>1, ConsoleInvariant, PTL

\* Once the socket is connected and nothing is on its way, the list shows what
\* the table holds down to its last row, whatever arrived, was marked or was
\* deleted while pages were being loaded (loadNotifications and its callers,
\* demo.js), unless a load failed or was overtaken since, or a change or an
\* announcement was lost.
THEOREM RestIsCurrent == ConsoleSpec => []CurrentAtRest
<1>1. ConsoleInv => CurrentAtRest
  <2>1. SUFFICES ASSUME ConsoleInv, online, events = 0, loads = <<>>,
                        mutation = NoMutation, ~crossed, ~outdated
                 PROVE  /\ \A k \in DOMAIN list :
                             list[k].state = rows[list[k].id]
                        /\ \A i \in Present \ Shown :
                             hasMore /\ Newer(LastShown, i)
    BY DEF CurrentAtRest
  <2>2. ~ReloadDue  BY <2>1 DEF ReloadDue
  <2>3. ~Reloading(loads)  BY <2>1 DEF Reloading
  <2>4. Exact(rows, list, NoCursor, hasMore)
    BY <2>1, <2>2, <2>3 DEF ConsoleInv, ListCurrent
  <2>5. QED
    BY <2>4
       DEF Exact, Behind, After, IdsOf, LastOf, Shown, LastShown, Present, Alive
<1>2. QED BY <1>1, ConsoleInvariant, PTL

=============================================================================
