----------------------------- MODULE Pagination -----------------------------
(******************************************************************************)
(* Walking a list page by page while it changes: conversations, conversation  *)
(* projects, instructions and the items of a conversation (the list_*         *)
(* handlers of web/responses/, the list_for_user queries, db.rs,              *)
(* get_conversation_context).                                                 *)
(*                                                                            *)
(* A list is ordered by a time and an id.  The cursor of the next page is the *)
(* last row of the page before; its place is looked up again for every page.  *)
(* Which list it is, is chosen at the start.                                  *)
(******************************************************************************)
EXTENDS Naturals, FiniteSets, Sequences, SequencesExt

CONSTANTS
    Limit,     \* the page size asked for, already clamped to 1..100
    MaxRows,   \* bound: rows ever created
    MaxClock   \* bound: ticks of the clock

PaginationAssumption ==
    Limit \in Nat \ {0} /\ MaxRows \in Nat /\ MaxClock \in Nat

VARIABLES
    list,    \* the list that is walked
    table,   \* rows: [id, time, shown], shown being whether the filter lets it through
    made,    \* rows created so far
    clock,
    walk     \* the client's walk: where it is, and history of what it has been given

vars == <<list, table, made, clock, walk>>

Ids == 1..MaxRows
NoCursor == 0
Idle == [pc |-> "idle"]

Lists == {"conversations", "projects", "instructions", "items"}

Init == list \in Lists /\ table = {} /\ made = 0 /\ clock = 0 /\ walk = Idle

Find(id) == {row \in table : row.id = id}
-----------------------------------------------------------------------------
(* The query *)

\* ORDER BY time, id: a comes before b.
Before(order, a, b) ==
    IF order = "desc" THEN a.time > b.time \/ (a.time = b.time /\ a.id > b.id)
                      ELSE a.time < b.time \/ (a.time = b.time /\ a.id < b.id)

\* Mutant: rows of the cursor's time are not told apart by their ids.
ByTimeAlone(order, cursor, row) ==
    IF order = "desc" THEN row.time < cursor.time ELSE row.time > cursor.time

\* The cursor's filter: the rows that come after its row.
After(order, cursor, row) == Before(order, cursor, row)

\* A cursor that is gone, or none, selects from the start.
Following(order, cursor, rows) ==
    {row \in rows : \A c \in Find(cursor) : After(order, c, row)}

\* Conversation::list_for_user filters by project and pin; the cursor is looked up
\* whatever the filter says of it.
Conversations(order, cursor) == Following(order, cursor, {row \in table : row.shown})

\* ConversationProject::list_for_user.
Projects(order, cursor) == Following(order, cursor, table)

\* list_user_instructions.
Instructions(order, cursor) == Following(order, cursor, table)

\* get_conversation_context joins the cursor's row: no row, no items.
ItemsOf(order, cursor) ==
    {row \in table : cursor # NoCursor => \E c \in Find(cursor) : After(order, c, row)}

\* One row more than the page, to know whether there are more.
Fetched(n) == n + 1

Sorted(order, rows) ==
    LET s == SetToSortSeq(rows, LAMBDA a, b : Before(order, a, b))
    IN  IF Len(s) > Fetched(Limit) THEN SubSeq(s, 1, Fetched(Limit)) ELSE s
-----------------------------------------------------------------------------
(* The client *)

\* stable: rows there when the walk began and not changed since.
Begin(order) ==
    /\ walk.pc # "walking"
    /\ walk' = [pc |-> "walking", order |-> order, cursor |-> NoCursor,
                given |-> [id \in Ids |-> 0], stable |-> {row \in table : row.shown},
                moved |-> FALSE, lost |-> FALSE]
    /\ UNCHANGED <<list, table, made, clock>>

Capped(n) == IF n >= 2 THEN 2 ELSE n

\* message_to_item: one item per row, under the row's uuid.
ItemId(row) == row.id

\* get_cursor_ids: the last id of the page is the next cursor.
LastId(page, cursor) == IF page = <<>> THEN cursor ELSE ItemId(Last(page))

\* A page of what was selected: has_more tells whether a row was left over.
Page(which, selected) ==
    /\ walk.pc = "walking" /\ list = which
    /\ LET rows == Sorted(walk.order, selected)
           hasMore == Len(rows) > Limit
           page == IF hasMore THEN SubSeq(rows, 1, Limit) ELSE rows
           ids == {row.id : row \in ToSet(page)}
       IN  walk' = [walk EXCEPT !.pc = IF hasMore THEN "walking" ELSE "done",
                                !.cursor = LastId(page, @),
                                !.given = [id \in Ids |-> Capped(@[id] + IF id \in ids THEN 1 ELSE 0)]]
    /\ UNCHANGED <<list, table, made, clock>>

ListConversations == Page("conversations", Conversations(walk.order, walk.cursor))
ListProjects == Page("projects", Projects(walk.order, walk.cursor))
ListInstructions == Page("instructions", Instructions(walk.order, walk.cursor))
ListItems == Page("items", ItemsOf(walk.order, walk.cursor))
-----------------------------------------------------------------------------
(* Meanwhile *)

\* What a change to row id does to the walk's history.
Disturb(id, how) ==
    walk' = IF walk.pc # "walking" THEN walk
            ELSE [walk EXCEPT !.stable = {row \in @ : row.id # id},
                              !.moved = @ \/ (how = "touch" /\ id = walk.cursor),
                              !.lost = @ \/ (how = "delete" /\ id = walk.cursor)]

\* A new row.  The ids of items are per table, but storage allocates their times
\* apart (allocate_created_at).
Insert ==
    /\ made < MaxRows /\ made' = made + 1
    /\ list = "items" => \A row \in table : row.time < clock
    /\ table' = table \union {[id |-> made + 1, time |-> clock, shown |-> TRUE]}
    /\ UNCHANGED <<list, clock, walk>>

\* An update, or activity in a conversation, moves the row to now; items never move.
Touch(row) ==
    /\ list # "items" /\ table' = (table \ {row}) \union {[row EXCEPT !.time = clock]}
    /\ Disturb(row.id, "touch") /\ UNCHANGED <<list, made, clock>>

\* A conversation is pinned or moved to another project: the filter sees it or not.
Refilter(row) ==
    /\ list = "conversations" /\ table' = (table \ {row}) \union {[row EXCEPT !.shown = ~@]}
    /\ Disturb(row.id, "filter") /\ UNCHANGED <<list, made, clock>>

Delete(row) ==
    /\ table' = table \ {row}
    /\ Disturb(row.id, "delete") /\ UNCHANGED <<list, made, clock>>

Tick == clock < MaxClock /\ clock' = clock + 1 /\ UNCHANGED <<list, table, made, walk>>

Next ==
    \/ \E order \in {"asc", "desc"} : Begin(order)
    \/ ListConversations \/ ListProjects \/ ListInstructions \/ ListItems
    \/ Insert \/ Tick
    \/ \E row \in table : Touch(row) \/ Refilter(row) \/ Delete(row)

Spec == Init /\ [][Next]_vars
-----------------------------------------------------------------------------
(* A walk gives every row that was there all along, whatever else is added,  *)
(* moved, hidden or deleted: in the default, descending order even when the  *)
(* cursor moves; in ascending order, and for a deleted cursor of items, only *)
(* while the cursor stays.                                                   *)
NothingSkipped ==
    walk.pc = "done" /\ (walk.order = "asc" => ~walk.moved) /\ (list = "items" => ~walk.lost) =>
        \A row \in walk.stable : walk.given[row.id] > 0

(* And gives it once, unless the cursor moved or was deleted.                *)
NothingTwice ==
    walk.pc = "done" /\ ~walk.moved /\ ~walk.lost =>
        \A row \in walk.stable : walk.given[row.id] <= 1
=============================================================================
