---------------------------- MODULE Conversations ----------------------------
(*****************************************************************************)
(* Conversations and the projects that own them (web/responses/              *)
(* conversations.rs, conversation_projects.rs, models/responses.rs, db.rs).  *)
(*                                                                           *)
(* Requests run concurrently.  A step is one statement: the transactions run *)
(* at READ COMMITTED, so other requests act between two statements of one,   *)
(* except on the rows it has locked.  Which rows are locked follows from how *)
(* far each request has come.  A row's uuid and its id are one number.       *)
(*****************************************************************************)
EXTENDS Naturals, FiniteSets, Sequences, SequencesExt

CONSTANTS
    Users,
    Requests,         \* requests in flight at most
    MaxPerUser,       \* MAX_CONVERSATION_PROJECTS_PER_USER
    BatchSize,        \* MAX_CONVERSATION_BATCH_SIZE
    MaxProjects,      \* bound: projects ever created
    MaxConversations  \* bound: conversations ever created

ASSUME ConversationsAssumption ==
    /\ MaxPerUser \in Nat \ {0} /\ BatchSize \in Nat \ {0}
    /\ MaxProjects \in Nat /\ MaxConversations \in Nat

VARIABLES
    projects,       \* rows of conversation_projects
    conversations,  \* rows of conversations
    madeProjects, madeConversations,
    req

vars == <<projects, conversations, madeProjects, madeConversations, req>>
made == <<madeProjects, madeConversations>>

None == 0
ProjectIds == 1..MaxProjects
ConversationIds == 1..MaxConversations
Idle == [pc |-> "idle"]
Batches == SeqOf(ConversationIds, BatchSize) \ {<<>>}

Init ==
    /\ projects = {} /\ conversations = {}
    /\ madeProjects = 0 /\ madeConversations = 0
    /\ req = [r \in Requests |-> Idle]

\* ConversationProject::get_by_uuid_and_user.
FindProject(p, u) == [id |-> p, user |-> u] \in projects

\* Conversation::get_by_uuid_and_user.
FindConversation(c, u) == \E row \in conversations : row.id = c /\ row.user = u

\* The foreign key from a conversation to its project.
ProjectExists(p) == p = None \/ \E row \in projects : row.id = p
-----------------------------------------------------------------------------
(* Row locks: SELECT ... FOR UPDATE holds until the transaction ends *)

\* Mutant: the user's row is read without locking it.
NobodyWaits(u, r) == TRUE

UserFree(u, r) ==
    \A q \in Requests \ {r} :
        req[q].pc \in {"counting", "inserting_project"} => req[q].user # u

ProjectFree(p, r) ==
    \A q \in Requests \ {r} : req[q].pc \in {"locking", "moving"} => req[q].target # p

\* Mutant: the conversations of a batch are read without locking them.
NeverHeld(c, r) == TRUE

ConversationFree(c, r) ==
    \A q \in Requests \ {r} : req[q].pc = "moving" => ~Contains(req[q].ids, c)

\* Every conversation a cascade or a batch is about to touch.
AllFree(cs, r) == \A row \in cs : ConversationFree(row.id, r)

To(r, state) == req' = [req EXCEPT ![r] = state]
-----------------------------------------------------------------------------
(* Projects *)

\* create_conversation_project: the transaction starts by locking the user's row.
LockUser(r, u) ==
    /\ req[r].pc = "idle" /\ UserFree(u, r)
    /\ To(r, [pc |-> "counting", user |-> u])
    /\ UNCHANGED <<projects, conversations, made>>

OwnProjects(u) == {row \in projects : row.user = u}

\* validate_conversation_project_limit.
CountProjects(r) ==
    /\ req[r].pc = "counting"
    /\ To(r, IF Cardinality(OwnProjects(req[r].user)) >= MaxPerUser THEN Idle
             ELSE [req[r] EXCEPT !.pc = "inserting_project"])
    /\ UNCHANGED <<projects, conversations, made>>

InsertProject(r) ==
    /\ req[r].pc = "inserting_project" /\ madeProjects < MaxProjects
    /\ madeProjects' = madeProjects + 1
    /\ projects' = projects \union {[id |-> madeProjects + 1, user |-> req[r].user]}
    /\ To(r, Idle) /\ UNCHANGED <<conversations, madeConversations>>

\* delete_conversation_project: found, then deleted by id; ON DELETE CASCADE takes
\* the project's conversations with it.
AskDeleteProject(r, u, p) ==
    /\ req[r].pc = "idle" /\ FindProject(p, u)
    /\ To(r, [pc |-> "deleting_project", user |-> u, target |-> p])
    /\ UNCHANGED <<projects, conversations, made>>

Owned(p) == {row \in conversations : row.project = p}

DeleteProject(r) ==
    /\ req[r].pc = "deleting_project" /\ ProjectFree(req[r].target, r)
    /\ AllFree(Owned(req[r].target), r)
    /\ projects' = projects \ {[id |-> req[r].target, user |-> req[r].user]}
    /\ conversations' = conversations \ Owned(req[r].target)
    /\ To(r, Idle) /\ UNCHANGED made
-----------------------------------------------------------------------------
(* One conversation *)

\* create_conversation: the project is read first, the row inserted after an await.
AskCreate(r, u, p) ==
    /\ req[r].pc = "idle" /\ (p = None \/ FindProject(p, u))
    /\ To(r, [pc |-> "inserting", user |-> u, target |-> p])
    /\ UNCHANGED <<projects, conversations, made>>

\* The foreign key waits for whoever has locked the project.
InsertConversation(r) ==
    /\ req[r].pc = "inserting" /\ madeConversations < MaxConversations
    /\ ProjectFree(req[r].target, r) \/ req[r].target = None
    /\ IF ProjectExists(req[r].target)
       THEN /\ madeConversations' = madeConversations + 1
            /\ conversations' = conversations \union
                 {[id |-> madeConversations + 1, user |-> req[r].user,
                   project |-> req[r].target, pinned |-> FALSE]}
       ELSE UNCHANGED <<madeConversations, conversations>>
    /\ To(r, Idle) /\ UNCHANGED <<projects, madeProjects>>

\* ConversationContext::load, then an await; moves: the body names a project.
Load(r, u, c, pc, moves, target) ==
    /\ req[r].pc = "idle" /\ FindConversation(c, u)
    /\ \E row \in conversations :
         /\ row.id = c
         /\ To(r, [pc |-> pc, user |-> u, ids |-> <<c>>, moves |-> moves,
                   target |-> target, copy |-> row])
    /\ UNCHANGED <<projects, conversations, made>>

AskUpdate(r, u, c) ==
    \E moves \in BOOLEAN, target \in ProjectIds \union {None} :
        (moves \/ target = None) /\ Load(r, u, c, "loaded", moves, target)

AskDelete(r, u, c) == Load(r, u, c, "deleting", FALSE, None)

\* update_conversation reads the project the body names.
ReadProject(r) ==
    /\ req[r].pc = "loaded"
    /\ To(r, IF req[r].target = None \/ FindProject(req[r].target, req[r].user)
             THEN [req[r] EXCEPT !.pc = "updating"] ELSE Idle)
    /\ UNCHANGED <<projects, conversations, made>>

\* ConversationUpdateChanges: only the fields that are given; an update that does not give
\* is_pinned leaves it as it is, which is one of the two values.
Changed(r, row, pinned) ==
    [row EXCEPT !.project = IF req[r].moves THEN req[r].target ELSE @, !.pinned = pinned]

\* Conversation::update; a target deleted meanwhile fails the foreign key, a
\* conversation deleted meanwhile is not found.
Update(r) ==
    /\ req[r].pc = "updating" /\ ConversationFree(req[r].ids[1], r)
    /\ req[r].target = None \/ ProjectFree(req[r].target, r)
    /\ \E pinned \in BOOLEAN :
         conversations' =
           IF ~ProjectExists(req[r].target) THEN conversations
           ELSE {IF row.id = req[r].ids[1] THEN Changed(r, row, pinned) ELSE row : row \in conversations}
    /\ To(r, Idle) /\ UNCHANGED <<projects, made>>

Without(cs) == {row \in conversations : row.id \notin cs}

DeleteConversation(r) ==
    /\ req[r].pc = "deleting" /\ ConversationFree(req[r].ids[1], r)
    /\ conversations' = Without({req[r].ids[1]})
    /\ To(r, Idle) /\ UNCHANGED <<projects, made>>

\* delete_all_conversations.
DeleteAll(r, u) ==
    /\ req[r].pc = "idle" /\ AllFree({row \in conversations : row.user = u}, r)
    /\ conversations' = {row \in conversations : row.user # u}
    /\ UNCHANGED <<projects, made, req>>
-----------------------------------------------------------------------------
(* Batches *)

\* batch_delete_conversations: any list of ids, known or not, a repeated one too.
AskBatchDelete(r, u, ids) ==
    /\ req[r].pc = "idle"
    /\ To(r, [pc |-> "batch_get", user |-> u, ids |-> ids, results |-> <<>>])
    /\ UNCHANGED <<projects, conversations, made>>

Current(r) == req[r].ids[Len(req[r].results) + 1]

\* Push a result; the answer is given after the last id.
Push(r, result) ==
    To(r, [req[r] EXCEPT !.results = Append(@, result),
                         !.pc = IF Len(req[r].results) + 1 = Len(req[r].ids)
                                THEN "answered" ELSE "batch_get"])

BatchGet(r) ==
    /\ req[r].pc = "batch_get"
    /\ IF FindConversation(Current(r), req[r].user)
       THEN To(r, [req[r] EXCEPT !.pc = "batch_delete"]) ELSE Push(r, "not_found")
    /\ UNCHANGED <<projects, conversations, made>>

Outcome(ok) == IF ok THEN "deleted" ELSE "delete_failed"

\* delete_by_id_and_user: an error when no row was deleted, or when the database fails.
BatchDelete(r) ==
    /\ req[r].pc = "batch_delete" /\ ConversationFree(Current(r), r)
    /\ \E ok \in {FALSE, FindConversation(Current(r), req[r].user)} :
         /\ conversations' = IF ok THEN Without({Current(r)}) ELSE conversations
         /\ Push(r, Outcome(ok))
    /\ UNCHANGED <<projects, made>>

Answered(r) ==
    /\ req[r].pc = "answered" /\ To(r, Idle)
    /\ UNCHANGED <<projects, conversations, made>>

\* batch_update_conversation_project: the target is read, then the transaction starts.
AskMove(r, u, ids, target) ==
    /\ req[r].pc = "idle" /\ IsInjective(ids)
    /\ target = None \/ FindProject(target, u)
    /\ To(r, [pc |-> "targeting", user |-> u, ids |-> ids, moves |-> TRUE, target |-> target])
    /\ UNCHANGED <<projects, conversations, made>>

LockTarget(r) ==
    /\ req[r].pc = "targeting" /\ (req[r].target = None \/ ProjectFree(req[r].target, r))
    /\ To(r, IF req[r].target = None \/ FindProject(req[r].target, req[r].user)
             THEN [req[r] EXCEPT !.pc = "locking"] ELSE Idle)
    /\ UNCHANGED <<projects, conversations, made>>

Selected(r) == {row \in conversations : Contains(req[r].ids, row.id) /\ row.user = req[r].user}

OneSource(rows) == \A a, b \in rows : a.project = b.project

LockConversations(r) ==
    /\ req[r].pc = "locking" /\ AllFree(Selected(r), r)
    /\ To(r, IF Cardinality(Selected(r)) = Len(req[r].ids) /\ OneSource(Selected(r))
             THEN [req[r] EXCEPT !.pc = "moving"] ELSE Idle)
    /\ UNCHANGED <<projects, conversations, made>>

\* The update, its count and the commit; fewer rows than ids roll it back.
Move(r) ==
    /\ req[r].pc = "moving"
    /\ conversations' =
         IF Cardinality(Selected(r)) # Len(req[r].ids) THEN conversations
         ELSE {IF row \in Selected(r) THEN [row EXCEPT !.project = req[r].target] ELSE row :
                 row \in conversations}
    /\ To(r, Idle) /\ UNCHANGED <<projects, made>>

\* A statement fails, or the request is dropped at an await: what is open rolls back.
Fail(r) ==
    /\ req[r].pc # "idle" /\ To(r, Idle)
    /\ UNCHANGED <<projects, conversations, made>>
-----------------------------------------------------------------------------
ProjectNext(r) ==
    \/ \E u \in Users : LockUser(r, u)
    \/ CountProjects(r) \/ InsertProject(r)
    \/ \E u \in Users, p \in ProjectIds : AskDeleteProject(r, u, p)
    \/ DeleteProject(r)

ConversationNext(r) ==
    \/ \E u \in Users, p \in ProjectIds \union {None} : AskCreate(r, u, p)
    \/ InsertConversation(r)
    \/ \E u \in Users, c \in ConversationIds : AskUpdate(r, u, c) \/ AskDelete(r, u, c)
    \/ ReadProject(r) \/ Update(r) \/ DeleteConversation(r)
    \/ \E u \in Users : DeleteAll(r, u)

BatchNext(r) ==
    \/ \E u \in Users, ids \in Batches : AskBatchDelete(r, u, ids)
    \/ BatchGet(r) \/ BatchDelete(r) \/ Answered(r)
    \/ \E u \in Users, ids \in Batches, p \in ProjectIds \union {None} : AskMove(r, u, ids, p)
    \/ LockTarget(r) \/ LockConversations(r) \/ Move(r)

Next == \E r \in Requests : ProjectNext(r) \/ ConversationNext(r) \/ BatchNext(r) \/ Fail(r)

Spec == Init /\ [][Next]_vars
-----------------------------------------------------------------------------
TypeOK ==
    /\ projects \subseteq [id : ProjectIds, user : Users]
    /\ conversations \subseteq [id : ConversationIds, user : Users,
                                project : ProjectIds \union {None}, pinned : BOOLEAN]
    /\ \A r \in Requests : req[r].pc \in {"batch_get", "batch_delete"} =>
                            Len(req[r].results) < Len(req[r].ids)

(* However many creations overlap, a user never has more projects than the   *)
(* limit (create_conversation_project counts under a lock on the user).      *)
WithinLimit == \A u \in Users : Cardinality(OwnProjects(u)) <= MaxPerUser

(* A conversation's project exists and is its own user's, whatever is moved, *)
(* created or deleted at once: a deleted project takes its conversations.    *)
ProjectsAreOwn ==
    \A row \in conversations :
        row.project # None => [id |-> row.project, user |-> row.user] \in projects

\* The conversations whose project a step changes, before the step.
Moved == {row \in conversations : \E new \in conversations' :
            new.id = row.id /\ new.project # row.project}

(* A batch move is all or nothing, of one user's conversations out of one    *)
(* project: no concurrent update slips in between its check and its update.  *)
BatchMovesTogether ==
    [][\A r \in Requests : req[r].pc = "moving" /\ req'[r] = Idle /\ Moved # {} =>
         /\ {row.id : row \in Moved} = ToSet(req[r].ids)
         /\ OneSource(Moved) /\ \A row \in Moved : row.user = req[r].user]_vars

(* A conversation changes project only by a request that names it and its    *)
(* new project: pinning one does not bring an older project back.            *)
OnlyNamedMoves ==
    [][\A row \in Moved : \E r \in Requests :
         /\ req[r].pc \in {"updating", "moving"} /\ req[r].moves /\ Contains(req[r].ids, row.id)
         /\ \E new \in conversations' : new.id = row.id /\ new.project = req[r].target]_vars

(* What batch_delete_conversations reports as deleted is gone, though        *)
(* deletions fail and other requests delete the same conversations.          *)
ReportedDeletedIsGone ==
    \A r \in Requests : req[r].pc = "answered" =>
        \A i \in DOMAIN req[r].results :
            req[r].results[i] = "deleted" =>
                \A row \in conversations : row.id # req[r].ids[i]
=============================================================================
