------------------------------ MODULE Console ------------------------------
(***************************************************************************)
(* The notification list of the demo console (demo/assets/demo.js) over    *)
(* the feed: pages are asked for, answered and shown in separate steps, so *)
(* that loads overtake each other; a live notification, the sync of a      *)
(* socket, a refresh and a change by the user each ask for the first page, *)
(* "load more" for the page behind state.cursor.                           *)
(***************************************************************************)
EXTENDS Feed, SequencesExt

CONSTANTS
  NoReply,        \* a load that is not answered yet
  NoMutation,
  MaxLoads,       \* bound on loads in flight
  MaxEvents,      \* bound on socket events not handled yet
  MaxClicks,      \* bound on what the user does
  MaxIncidents    \* bound on requests that fail

\* The changes a user can ask for.
Mutation == [action : {"read", "delete", "read-all"}, id : {0} \cup Ids,
             stage : {"asked", "done"}]

ASSUME ConsoleAssumption ==
  /\ NoMutation \notin Mutation
  /\ {MaxLoads, MaxEvents} \subseteq Nat \ {0}
  /\ {MaxClicks, MaxIncidents} \subseteq Nat

VARIABLES
  list,       \* the notifications shown
  cursor,     \* state.cursor
  hasMore,    \* state.hasMore: "load more" is visible
  loads,      \* loadNotifications calls in flight, in the order of asking
  mutation,   \* the change (read, delete, read-all) in flight
  online,     \* the socket is connected
  events,     \* 'notification' and 'sync' events on their way to the page
  base,       \* history: rows present when the first page shown was read
  crossed,    \* history: a page was appended to a list it does not continue
  outdated,   \* history: the list shown may not be the latest
  clicks, incidents

consoleVars == <<list, cursor, hasMore, loads, mutation, online, events,
                 base, crossed, outdated, clicks, incidents>>

\* loadNotifications({ append }) up to its await.
LoadOf(append, at) == [append |-> append, cursor |-> at, reply |-> NoReply,
                       base |-> {}, overtaken |-> FALSE]

Asked(append, at) == Append(loads, LoadOf(append, at))

MayAsk == Len(loads) < MaxLoads

Click == clicks < MaxClicks /\ clicks' = clicks + 1

\* The loads left once load k is done.  A first page is overtaken by one
\* that was asked for later, a page to append by any other.
Rest(k) ==
  RemoveAt([j \in DOMAIN loads |->
              [loads[j] EXCEPT !.overtaken = @ \/ j < k \/ loads[j].append]], k)

\* The loads when the page does not learn of a change: a first page that was
\* read before it is as good as overtaken.
Missing ==
  [j \in DOMAIN loads |->
     [loads[j] EXCEPT !.overtaken =
        @ \/ (~loads[j].append /\ loads[j].reply # NoReply)]]

ConsoleInit ==
  /\ FeedInit
  /\ list = <<>> /\ cursor = NoCursor /\ hasMore = FALSE
  /\ loads = <<LoadOf(FALSE, NoCursor)>>    \* authenticate
  /\ mutation = NoMutation
  /\ online = FALSE /\ events = 0
  /\ base = {} /\ crossed = FALSE /\ outdated = FALSE
  /\ clicks = 0 /\ incidents = 0

-----------------------------------------------------------------------------
\* The consumer creates a notification and announces it to the socket.
Arrives(i) ==
  /\ rows[i] = "absent"
  /\ events < MaxEvents
  /\ rows' = Created(i)
  /\ events' = IF online THEN events + 1 ELSE events
  /\ UNCHANGED <<list, cursor, hasMore, loads, mutation, online, base,
                 crossed, outdated, clicks, incidents>>

\* ... and the announcement is refused or lost, which nobody tells the page.
ArrivesUnheard(i) ==
  /\ rows[i] = "absent" /\ online
  /\ incidents < MaxIncidents /\ incidents' = incidents + 1
  /\ rows' = Created(i)
  /\ outdated' = TRUE
  /\ loads' = Missing
  /\ UNCHANGED <<list, cursor, hasMore, mutation, online, events, base,
                 crossed, clicks>>

\* connectSocket, by the user or after authenticate: the server joins the
\* rooms and sends a sync.
ConnectSocket ==
  /\ ~online /\ Click
  /\ online' = TRUE /\ events' = 1
  /\ UNCHANGED <<rows, list, cursor, hasMore, loads, mutation, base, crossed,
                 outdated, incidents>>

\* disconnectSocket, or a connection that is lost; there is no reconnection.
DisconnectSocket ==
  /\ online /\ Click
  /\ online' = FALSE /\ events' = 0
  /\ UNCHANGED <<rows, list, cursor, hasMore, loads, mutation, base, crossed,
                 outdated, incidents>>

\* socket.on('notification') and socket.on('sync')
HandleEvent ==
  /\ events > 0 /\ MayAsk
  /\ events' = events - 1
  /\ loads' = Asked(FALSE, NoCursor)
  /\ UNCHANGED <<rows, list, cursor, hasMore, mutation, online, base, crossed,
                 outdated, clicks, incidents>>

\* The refresh button forgets the cursor at once, not when the page is in.
RefreshFeed ==
  /\ MayAsk /\ Click
  /\ cursor' = NoCursor
  /\ loads' = Asked(FALSE, NoCursor)
  /\ UNCHANGED <<rows, list, hasMore, mutation, online, events, base, crossed,
                 outdated, incidents>>

LoadMore ==
  /\ hasMore /\ MayAsk /\ Click
  /\ loads' = Asked(TRUE, cursor)
  /\ UNCHANGED <<rows, list, cursor, hasMore, mutation, online, events, base,
                 crossed, outdated, incidents>>

\* GET /api/notifications/cursor reads a page ...
LoadServed(k) ==
  /\ loads[k].reply = NoReply
  /\ loads' = [loads EXCEPT ![k].reply = Page(loads[k].cursor),
                            ![k].base = IF loads[k].append THEN {} ELSE Present]
  /\ UNCHANGED <<rows, list, cursor, hasMore, mutation, online, events, base,
                 crossed, outdated, clicks, incidents>>

\* ... and the page replaces or continues the list.
LoadShown(k) ==
  LET load == loads[k] IN
  /\ load.reply # NoReply
  /\ list' = IF load.append THEN list \o load.reply.items ELSE load.reply.items
  /\ cursor' = load.reply.cursor
  /\ hasMore' = load.reply.hasMore
  /\ loads' = Rest(k)
  /\ base' = IF load.append THEN base ELSE load.base
  /\ crossed' = (load.append /\ (crossed \/ load.overtaken
                                 \/ load.cursor = NoCursor))
  /\ outdated' = IF load.append THEN outdated ELSE load.overtaken
  /\ UNCHANGED <<rows, mutation, online, events, clicks, incidents>>

LoadFails(k) ==
  /\ incidents < MaxIncidents /\ incidents' = incidents + 1
  /\ loads' = Rest(k)
  /\ outdated' = TRUE
  /\ UNCHANGED <<rows, list, cursor, hasMore, mutation, online, events, base,
                 crossed, clicks>>

-----------------------------------------------------------------------------
\* A click on a notification shown, or on "mark all read".
Mutate(action, id) ==
  /\ mutation = NoMutation /\ Click
  /\ \E k \in DOMAIN list :
       /\ list[k].id = id
       /\ action = "read" => list[k].state = "unread"
  /\ mutation' = [action |-> action, id |-> id, stage |-> "asked"]
  /\ UNCHANGED <<rows, list, cursor, hasMore, loads, online, events, base,
                 crossed, outdated, incidents>>

MarkAllRead ==
  /\ mutation = NoMutation /\ Click
  /\ mutation' = [action |-> "read-all", id |-> 0, stage |-> "asked"]
  /\ UNCHANGED <<rows, list, cursor, hasMore, loads, online, events, base,
                 crossed, outdated, incidents>>

\* The statement; a row that is gone is answered with 404, which the console
\* only reports.
MutationServed ==
  /\ mutation # NoMutation /\ mutation.stage = "asked"
  /\ IF mutation.action = "read-all" \/ mutation.id \in Present
     THEN /\ rows' = CASE mutation.action = "read"   -> MarkedRead(mutation.id)
                       [] mutation.action = "delete" -> Deleted(mutation.id)
                       [] OTHER                      -> MarkedAllRead
          /\ mutation' = [mutation EXCEPT !.stage = "done"]
     ELSE mutation' = NoMutation /\ UNCHANGED rows
  /\ UNCHANGED <<list, cursor, hasMore, loads, online, events, base, crossed,
                 outdated, clicks, incidents>>

\* Slip: the change is reported and the list left as it is.
MutationAnsweredOnly ==
  /\ mutation # NoMutation /\ mutation.stage = "done"
  /\ mutation' = NoMutation
  /\ UNCHANGED <<rows, list, cursor, hasMore, loads, online, events, base,
                 crossed, outdated, clicks, incidents>>

MutationAnswered ==
  /\ mutation # NoMutation /\ mutation.stage = "done" /\ MayAsk
  /\ mutation' = NoMutation
  /\ loads' = Asked(FALSE, NoCursor)
  /\ UNCHANGED <<rows, list, cursor, hasMore, online, events, base, crossed,
                 outdated, clicks, incidents>>

\* The change or its answer is lost.
MutationFails ==
  /\ mutation # NoMutation
  /\ incidents < MaxIncidents /\ incidents' = incidents + 1
  /\ mutation' = NoMutation
  /\ outdated' = TRUE
  /\ loads' = Missing
  /\ UNCHANGED <<rows, list, cursor, hasMore, online, events, base, crossed,
                 clicks>>

ConsoleNext ==
  \/ \E i \in Ids : Arrives(i) \/ ArrivesUnheard(i)
  \/ ConnectSocket \/ DisconnectSocket \/ HandleEvent
  \/ RefreshFeed \/ LoadMore
  \/ \E k \in DOMAIN loads : LoadServed(k) \/ LoadShown(k) \/ LoadFails(k)
  \/ \E id \in Ids : Mutate("read", id) \/ Mutate("delete", id)
  \/ MarkAllRead \/ MutationServed \/ MutationAnswered \/ MutationFails

ConsoleSpec == ConsoleInit /\ [][ConsoleNext]_<<rows, consoleVars>>

-----------------------------------------------------------------------------
Shown     == {list[k].id : k \in DOMAIN list}
LastShown == list[Len(list)].id

\* Type invariant; a page that is shown has no more rows than were asked for.
ConsoleTypeOK ==
  /\ rows \in [Ids -> RowStates]
  /\ \A k \in DOMAIN list : list[k] \in [id : Ids, state : RowStates]
  /\ cursor \in {NoCursor} \cup {Encoded(i) : i \in Ids} /\ hasMore \in BOOLEAN
  /\ Len(loads) <= MaxLoads
  /\ \A k \in DOMAIN loads :
       /\ DOMAIN loads[k] = {"append", "cursor", "reply", "base", "overtaken"}
       /\ loads[k].reply # NoReply => Len(loads[k].reply.items) <= Limit
  /\ mutation \in {NoMutation} \cup Mutation
  /\ online \in BOOLEAN /\ events \in 0..MaxEvents
  /\ base \subseteq Ids /\ crossed \in BOOLEAN /\ outdated \in BOOLEAN
  /\ incidents \in 0..MaxIncidents

\* README:532 "a stable keyset-paginated page": while rows are inserted and
\* deleted between the pages of a list, the list stays in order, shows
\* nothing twice and leaves out no row, down to its last, that was there when
\* its first page was read.  The exception is a page appended to a list it
\* does not continue: another load was shown since it was asked for
\* (demo.js:440), or it was asked for after a refresh had dropped the cursor.
WholeUnlessCrossed ==
  crossed \/
  /\ \A k \in 1..Len(list)-1 : Newer(list[k].id, list[k+1].id)
  /\ list # <<>> => \A i \in base \cap Present :
                      i \in Shown \/ Newer(LastShown, i)

\* With the socket connected and nothing on its way, the list shows every
\* notification down to its last one, each with the state it has in the
\* table, whatever arrived, was marked or was deleted while pages were being
\* loaded.  A load that failed or was overtaken, or a change or an
\* announcement that was lost, leaves the list in doubt until the next load.
CurrentAtRest ==
  online /\ events = 0 /\ loads = <<>> /\ mutation = NoMutation
    /\ ~crossed /\ ~outdated
  => /\ \A k \in DOMAIN list : list[k].state = rows[list[k].id]
     /\ \A i \in Present \ Shown : hasMore /\ Newer(LastShown, i)

=============================================================================
