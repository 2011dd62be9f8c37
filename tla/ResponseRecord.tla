--------------------------- MODULE ResponseRecord ---------------------------
(***************************************************************************)
(* What a stored response promises to whoever reads it back: its status    *)
(* leaves in_progress once, its items open and close once and never change *)
(* place, and a deleted response stays deleted.  ResponseStream implements *)
(* this with a storage task and two endpoints that write concurrently.     *)
(***************************************************************************)
EXTENDS Naturals

CONSTANT MaxItems

Items == 1 .. MaxItems

VARIABLES
    status,   \* the response's status
    item      \* item[i]: an item's status and its place in time

vars == <<status, item>>

NoItem == [st |-> "none", at |-> 0]
Closed == {"completed", "incomplete"}

Init == status = "none" /\ item = [i \in Items |-> NoItem]

Open == status = "none" /\ status' = "in_progress" /\ UNCHANGED item

\* The response reaches its terminal status.
Conclude ==
    /\ status = "in_progress"
    /\ status' \in {"completed", "failed", "cancelled"}
    /\ UNCHANGED item

\* An item is stored at a place of its own, open or already closed.
Store(i) ==
    /\ status \notin {"none", "deleted"} /\ item[i].st = "none"
    /\ item' = [item EXCEPT ![i] = item'[i]]
    /\ item'[i].st \in Closed \union {"in_progress"}
    /\ \A j \in Items : item[j].st # "none" => item[j].at # item'[i].at
    /\ UNCHANGED status

\* Open items close where they are.
Close ==
    /\ \A i \in Items :
         item'[i] # item[i] =>
             item[i].st = "in_progress" /\ item'[i].st \in Closed /\ item'[i].at = item[i].at
    /\ UNCHANGED status

Delete == status \notin {"none", "deleted"} /\ status' = "deleted" /\ item' = [i \in Items |-> NoItem]

Next == Open \/ Conclude \/ (\E i \in Items : Store(i)) \/ Close \/ Delete

Spec == Init /\ [][Next]_vars
=============================================================================
