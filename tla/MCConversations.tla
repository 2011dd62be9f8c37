--------------------------- MODULE MCConversations ---------------------------
(***************************************************************************)
(* What a user keeps in conversations, for TLC: conversations and their    *)
(* projects, instructions, the lists a client walks, and the prompt built  *)
(* from a conversation. A behaviour exercises one part, chosen at the      *)
(* start. In the parts that restrict a set, its other members never take   *)
(* part, so the permutations of the whole set remain symmetries. The part  *)
(* named serial has one request in flight, for what the code guarantees    *)
(* only then.                                                              *)
(***************************************************************************)
EXTENDS Conversations, TLC

CONSTANTS
    r1, u1, v1, v2, home,
    Authors, Homes, KeeperOf, Texts, MaxNotes      \* of Instructions

VARIABLES
    part,
    notes, live, noted, edit,               \* Instructions
    list, table, listed, clock, walk,       \* Pagination
    rows, prompt, budget, query             \* ContextBuilder

instructions == <<notes, live, noted, edit>>
pages == <<list, table, listed, clock, walk>>
context == <<rows, prompt, budget, query>>

Pair == INSTANCE Conversations WITH BatchSize <- 1, MaxConversations <- 1
Batch == INSTANCE Conversations WITH Users <- {u1}, MaxProjects <- 1

\* Two requests of one author, and one request at a time of two.
OneKeeper == home :> v1
Notes == INSTANCE Instructions WITH
    Users <- Authors, Projects <- Homes, OwnerOf <- KeeperOf, MaxRows <- MaxNotes,
    rows <- notes, made <- noted, req <- edit
Racing == INSTANCE Instructions WITH
    Users <- {v1}, Projects <- Homes, OwnerOf <- KeeperOf, Texts <- {"a"}, MaxRows <- MaxNotes,
    rows <- notes, made <- noted, req <- edit
Serial == INSTANCE Instructions WITH
    Users <- Authors, Projects <- Homes, OwnerOf <- KeeperOf, Requests <- {r1}, MaxRows <- 2,
    rows <- notes, made <- noted, req <- edit

Lists == INSTANCE Pagination WITH Limit <- 1, MaxRows <- 3, MaxClock <- 2, made <- listed

Context == INSTANCE ContextBuilder WITH
    Budget <- 9, SystemTokens <- 1, MarkerTokens <- 1, Tokens <- {1, 3, 6},
    WithReasoning <- TRUE, MaxRows <- 6

ASSUME PartsAssumption ==
    /\ Notes!InstructionsAssumption
    /\ Lists!PaginationAssumption /\ Context!ContextAssumption

PartInit ==
    /\ part \in {"pair", "batch", "instructions", "serial instructions", "lists", "context"}
    /\ Init /\ Notes!Init /\ Context!Init
    /\ Lists!Init /\ (part # "lists" => list = "items")

PartNext ==
    \/ part = "pair" /\ Pair!Next /\ UNCHANGED <<part, instructions, pages, context>>
    \/ part = "batch" /\ Batch!Next /\ UNCHANGED <<part, instructions, pages, context>>
    \/ part = "instructions" /\ Racing!Next /\ UNCHANGED <<part, vars, pages, context>>
    \/ part = "serial instructions" /\ Serial!Next /\ UNCHANGED <<part, vars, pages, context>>
    \/ part = "lists" /\ Lists!Next /\ UNCHANGED <<part, vars, instructions, context>>
    \/ part = "context" /\ Context!Next /\ UNCHANGED <<part, vars, instructions, pages>>

PartSpec == PartInit /\ [][PartNext]_<<part, vars, instructions, pages, context>>

Perms == Permutations(Requests) \union Permutations(Users)
-----------------------------------------------------------------------------
(* However requests overlap, a user stays within the limit on projects and    *)
(* has one default instruction at most, a conversation is in a project of its *)
(* owner, a project has one instruction at most and none once it is deleted,  *)
(* and what a batch reported as deleted is gone.                              *)
TablesAgree ==
    /\ TypeOK /\ WithinLimit /\ ProjectsAreOwn /\ ReportedDeletedIsGone
    /\ Notes!TypeOK /\ Notes!OneDefault /\ Notes!OneProjectInstruction

(* A batch moves all of its conversations or none, only named ones move, and  *)
(* a default is given up only to another or by an update of it. While         *)
(* requests come one at a time, update_instruction changes what its body      *)
(* gives and nothing else.                                                    *)
ChangesAreAsked ==
    /\ BatchMovesTogether /\ OnlyNamedMoves
    /\ Notes!DefaultIsHandedOver
    /\ [][part = "serial instructions" => Notes!OnlyAskedChanges]_instructions

(* A walk through a changing list gives every row that was there all along,   *)
(* and gives it once, unless the cursor moved or was deleted.                 *)
PagesAreExact == Lists!NothingSkipped /\ Lists!NothingTwice

(* A prompt has no message twice or out of order, and a tool output only      *)
(* after its own call; it keeps the message being answered if what followed   *)
(* fits, and exceeds its room only when it is one user message.               *)
PromptIsSound ==
    /\ Context!PromptKeepsOrder /\ Context!OutputFollowsItsCall
    /\ Context!QueryKeptIfItFits /\ Context!OverBudgetOnlyByOneMessage
=============================================================================
