-------------------------------- MODULE Feed --------------------------------
(***************************************************************************)
(* The notifications table of one recipient (notification.repository.js):  *)
(* what inserts, read marks and deletions do to it, and the keyset pages   *)
(* (created_at, id) < cursor that are read from it.                        *)
(*                                                                         *)
(* created_at is a number of half milliseconds: two neighbours share their *)
(* millisecond and are told apart by the microseconds only.  It is the     *)
(* start of the inserting transaction, and ids are drawn from a sequence,  *)
(* so neither follows the order in which rows become visible: CreatedAt is *)
(* given and the rows are inserted in any order.                           *)
(***************************************************************************)
EXTENDS Naturals, Sequences, FiniteSets

CONSTANTS
  Ids,         \* ids of notifications
  CreatedAt,   \* created_at of each
  Limit,       \* rows of a page
  NoCursor

ASSUME FeedAssumption ==
  /\ Ids \subseteq Nat \ {0} /\ IsFiniteSet(Ids)
  /\ CreatedAt \in [Ids -> Nat] /\ Limit \in Nat \ {0}
  /\ NoCursor \notin Nat \X Ids

VARIABLE rows    \* the state of each row

RowStates == {"absent", "unread", "read", "deleted"}

Present == {i \in Ids : rows[i] \in {"unread", "read"}}

FeedInit == rows = [i \in Ids |-> "absent"]

-----------------------------------------------------------------------------
\* Statements.
Created(i)    == [rows EXCEPT ![i] = "unread"]
MarkedRead(i) == [rows EXCEPT ![i] = "read"]
Deleted(i)    == [rows EXCEPT ![i] = "deleted"]
MarkedAllRead == [i \in Ids |-> IF rows[i] = "unread" THEN "read" ELSE rows[i]]

\* ORDER BY created_at DESC, id DESC
Newer(i, j) == \/ CreatedAt[i] > CreatedAt[j]
               \/ CreatedAt[i] = CreatedAt[j] /\ i > j

\* (created_at, id) < cursor
Below(cursor) ==
  {i \in Present : \/ cursor = NoCursor
                   \/ CreatedAt[i] < cursor[1]
                   \/ CreatedAt[i] = cursor[1] /\ i < cursor[2]}

\* Slip: new Date(created_at).toISOString() has no microseconds.
EncodedMilliseconds(i) == <<2 * (CreatedAt[i] \div 2), i>>

\* The cursor keeps the microseconds of cursor_created_at.
Encoded(i) == <<CreatedAt[i], i>>

\* The row at place k of ORDER BY: k-1 come before it.
InPlace(S, k) ==
  CHOOSE i \in S : Cardinality({j \in S : Newer(j, i)}) = k - 1

\* The first so many rows of a set, as they are answered.
Rows(S, size) ==
  [k \in 1..size |->
     LET i == InPlace(S, k) IN [id |-> i, state |-> rows[i]]]

\* Slip: the row that only tells whether there are more is shown as well.
PageWhole(cursor) ==
  LET below == Below(cursor)
      more  == Cardinality(below) > Limit
  IN  [items   |-> Rows(below, IF more THEN Limit + 1 ELSE Cardinality(below)),
       hasMore |-> more,
       cursor  |-> IF more THEN Encoded(InPlace(below, Limit)) ELSE NoCursor]

\* One row more than the limit is read to learn whether there are more.
Page(cursor) ==
  LET below == Below(cursor)
      more  == Cardinality(below) > Limit
  IN  [items   |-> Rows(below, IF more THEN Limit ELSE Cardinality(below)),
       hasMore |-> more,
       cursor  |-> IF more THEN Encoded(InPlace(below, Limit)) ELSE NoCursor]

=============================================================================
