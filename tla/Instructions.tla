---------------------------- MODULE Instructions ----------------------------
(******************************************************************************)
(* A user's instructions: named prompts, at most one of them the default, and *)
(* the one prompt a conversation project may have (web/responses/             *)
(* instructions.rs, conversation_projects.rs, db.rs).                         *)
(*                                                                            *)
(* Requests run concurrently, one statement a step.  A transaction at READ    *)
(* COMMITTED sees what is committed when each statement starts; an UPDATE     *)
(* that meets a row another transaction has written waits for it and looks    *)
(* at that row again.  What a transaction has written is visible to others    *)
(* when its last statement commits, a step of its own here.                   *)
(******************************************************************************)
EXTENDS Naturals

CONSTANTS
    Users,
    Projects,   \* conversation projects
    OwnerOf,    \* the user of each project
    Requests,   \* requests in flight at most
    Texts,      \* names and prompts that are not empty
    MaxRows     \* bound: instructions ever created

None == "none"      \* no project, no name, a field the body leaves out

InstructionsAssumption == MaxRows \in Nat /\ OwnerOf \in [Projects -> Users] /\ None \notin Projects

VARIABLES
    rows,       \* committed rows of user_instructions
    live,       \* projects not deleted
    made,       \* instructions created so far
    req

vars == <<rows, live, made, req>>

Ids == 1..MaxRows
Idle == [pc |-> "idle"]

Init == rows = {} /\ live = Projects /\ made = 0 /\ req = [r \in Requests |-> Idle]

To(r, state) == req' = [req EXCEPT ![r] = state]

\* The rows the instruction endpoints see: project_id is null.
Own(u) == {i \in rows : i.user = u /\ i.project = None}
Defaults(u) == {i \in Own(u) : i.default}

\* Rows that a transaction has written and not committed.
Free(id, r) == \A q \in Requests \ {r} : req[q].pc = "setting" => id \notin req[q].cleared

Or(given, else) == IF given = None THEN else ELSE given
-----------------------------------------------------------------------------
(* Reading: nothing is locked, and an await follows *)

Begin(r, kind, u, id, body, copy) ==
    To(r, [pc |-> "loaded", kind |-> kind, user |-> u, id |-> id, body |-> body,
           copy |-> copy])

\* create_instruction: nothing is read.
AskCreate(r, u, name, prompt, default) ==
    /\ req[r].pc = "idle"
    /\ Begin(r, "create", u, 0, [name |-> name, prompt |-> prompt, default |-> default], None)
    /\ UNCHANGED <<rows, live, made>>

\* InstructionContext::load.
Load(r, kind, u, body) ==
    /\ req[r].pc = "idle"
    /\ \E i \in Own(u) :
         /\ kind = "set_default" => ~i.default    \* already default: just return it
         /\ Begin(r, kind, u, i.id, body, i)
    /\ UNCHANGED <<rows, live, made>>

\* update_instruction: at least one field.
AskUpdate(r, u, body) == body # [name |-> None, prompt |-> None, default |-> None]
                         /\ Load(r, "update", u, body)
\* set_default_instruction, delete_instruction.
AskSetDefault(r, u) == Load(r, "set_default", u, None)
AskDelete(r, u) == Load(r, "delete", u, None)
-----------------------------------------------------------------------------
(* Writing *)

FinalDefault(given, old) == IF given = None THEN old ELSE given = "yes"

\* The final values: what the body leaves out comes from the copy read earlier.
Merged(r) ==
    [name |-> Or(req[r].body.name, req[r].copy.name),
     prompt |-> Or(req[r].body.prompt, req[r].copy.prompt),
     default |-> FinalDefault(req[r].body.default, req[r].copy.default)]

Final(r) ==
    CASE req[r].kind = "create" -> [req[r].body EXCEPT !.default = @ = "yes"]
      [] req[r].kind = "update" -> Merged(r)
      [] req[r].kind = "set_default" -> [req[r].copy EXCEPT !.default = TRUE]

\* The transaction starts; its first statement, if it makes a default, finds the
\* defaults to clear.
StartClear(r) ==
    /\ req[r].pc = "loaded" /\ req[r].kind \in {"create", "update", "set_default"}
    /\ To(r, [pc |-> "clearing", kind |-> req[r].kind, user |-> req[r].user, id |-> req[r].id,
              final |-> Final(r), body |-> req[r].body,
              seen |-> IF Final(r).default
                       THEN {i.id : i \in Defaults(req[r].user)} \ {req[r].id} ELSE {}])
    /\ UNCHANGED <<rows, live, made>>

\* What others see of the cleared rows before the commit.
Visible(ids) == rows

\* It waits for rows being written, and clears the ones that are still default.
Clear(r) ==
    /\ req[r].pc = "clearing" /\ \A id \in req[r].seen : Free(id, r)
    /\ LET still == {id \in req[r].seen : \E i \in Defaults(req[r].user) : i.id = id}
       IN  /\ To(r, [pc |-> "setting", kind |-> req[r].kind, user |-> req[r].user,
                     id |-> req[r].id, final |-> req[r].final, body |-> req[r].body,
                     cleared |-> still])
           /\ rows' = Visible(still)
    /\ UNCHANGED <<live, made>>

\* idx_user_instructions_one_default.
OneDefaultAmong(u, new) ==
    \A i, j \in new : i.user = u /\ j.user = u /\ i.default /\ j.default => i.id = j.id

\* The table when r commits: r's row written, the others cleared.
AfterSet(r, id) ==
    LET f == req[r].final IN
    {IF i.id \in req[r].cleared THEN [i EXCEPT !.default = FALSE] ELSE i :
        i \in {x \in rows : x.id # id}}
    \union {[id |-> id, user |-> req[r].user, project |-> None,
             name |-> IF req[r].kind = "set_default" THEN i.name ELSE f.name,
             prompt |-> IF req[r].kind = "set_default" THEN i.prompt ELSE f.prompt,
             default |-> f.default] : i \in {x \in Own(req[r].user) : x.id = id}}

\* create_user_instruction, update_user_instruction, set_default_user_instruction: a
\* row that is gone, or a second default, rolls everything back.
Set(r) ==
    /\ req[r].pc = "setting" /\ req[r].kind # "create" /\ Free(req[r].id, r)
    /\ LET new == AfterSet(r, req[r].id) IN
       rows' = IF (\E i \in Own(req[r].user) : i.id = req[r].id)
                  /\ OneDefaultAmong(req[r].user, new) THEN new ELSE rows
    /\ To(r, Idle) /\ UNCHANGED <<live, made>>

Insert(r) ==
    /\ req[r].pc = "setting" /\ req[r].kind = "create" /\ made < MaxRows
    /\ made' = made + 1
    /\ LET new == AfterSet(r, 0) \union
                    {[id |-> made + 1, user |-> req[r].user, project |-> None,
                      name |-> req[r].final.name, prompt |-> req[r].final.prompt,
                      default |-> req[r].final.default]}
       IN  rows' = IF OneDefaultAmong(req[r].user, new) THEN new ELSE rows
    /\ To(r, Idle) /\ UNCHANGED live

\* delete_user_instruction.
Delete(r) ==
    /\ req[r].pc = "loaded" /\ req[r].kind = "delete" /\ Free(req[r].id, r)
    /\ rows' = {i \in rows : i.id # req[r].id}
    /\ To(r, Idle) /\ UNCHANGED <<live, made>>
-----------------------------------------------------------------------------
(* The instruction of a project: update_conversation_project *)

ProjectRows(p) == {i \in rows : i.project = p}

\* The handler loads the project; prompt None stands for a body that clears it.
AskProject(r, p, prompt) ==
    /\ req[r].pc = "idle" /\ p \in live
    /\ To(r, [pc |-> "project", user |-> OwnerOf[p], project |-> p, prompt |-> prompt])
    /\ UNCHANGED <<rows, live, made>>

\* Set reads the instruction the project has; Clear deletes it at once.
ReadProject(r) ==
    /\ req[r].pc = "project"
    /\ IF req[r].project \notin live THEN To(r, Idle) /\ UNCHANGED rows
       ELSE IF req[r].prompt = None
       THEN To(r, Idle) /\ rows' = rows \ ProjectRows(req[r].project)
       ELSE /\ To(r, [pc |-> "upsert", user |-> req[r].user, project |-> req[r].project,
                      prompt |-> req[r].prompt,
                      ids |-> {i.id : i \in ProjectRows(req[r].project)}])
            /\ UNCHANGED rows
    /\ UNCHANGED <<live, made>>

\* idx_user_instructions_project_id_unique and the foreign key.
MayInsertFor(p) == p \in live /\ ProjectRows(p) = {}

\* The row that was found is updated by its id, or a new one inserted.
Upsert(r) ==
    /\ req[r].pc = "upsert"
    /\ IF req[r].ids # {}
       THEN /\ rows' = {IF i.id \in req[r].ids THEN [i EXCEPT !.prompt = req[r].prompt] ELSE i :
                          i \in rows}
            /\ UNCHANGED made
       ELSE /\ made < MaxRows /\ made' = made + 1
            /\ rows' = IF ~MayInsertFor(req[r].project) THEN rows
                       ELSE rows \union {[id |-> made + 1, user |-> req[r].user,
                              project |-> req[r].project, name |-> None,
                              prompt |-> req[r].prompt, default |-> FALSE]}
    /\ To(r, Idle) /\ UNCHANGED live

\* Deleting a project cascades to its instruction.
DeleteProject(p) ==
    /\ p \in live /\ live' = live \ {p}
    /\ rows' = rows \ ProjectRows(p) /\ UNCHANGED <<made, req>>

\* A statement fails, or the request is dropped at an await.
Fail(r) == req[r].pc # "idle" /\ To(r, Idle) /\ UNCHANGED <<rows, live, made>>
-----------------------------------------------------------------------------
Bodies == [name : Texts \union {None}, prompt : Texts \union {None},
           default : {None, "yes", "no"}]

InstructionNext(r) ==
    \/ \E u \in Users, n, t \in Texts, d \in {"yes", "no"} : AskCreate(r, u, n, t, d)
    \/ \E u \in Users, b \in Bodies : AskUpdate(r, u, b)
    \/ \E u \in Users : AskSetDefault(r, u) \/ AskDelete(r, u)
    \/ StartClear(r) \/ Clear(r) \/ Set(r) \/ Insert(r) \/ Delete(r)

ProjectNext(r) ==
    \/ \E p \in Projects, t \in Texts \union {None} : AskProject(r, p, t)
    \/ ReadProject(r) \/ Upsert(r)

Next ==
    \/ \E r \in Requests : InstructionNext(r) \/ ProjectNext(r) \/ Fail(r)
    \/ \E p \in Projects : DeleteProject(p)

Spec == Init /\ [][Next]_vars
-----------------------------------------------------------------------------
TypeOK ==
    /\ rows \subseteq [id : Ids, user : Users, project : Projects \union {None},
                       name : Texts \union {None}, prompt : Texts, default : BOOLEAN]
    /\ live \subseteq Projects /\ made \in 0..MaxRows

(* A user has at most one default instruction, though each transaction clears *)
(* only the defaults it saw (idx_user_instructions_one_default).             *)
OneDefault == \A u \in Users : \A i, j \in Defaults(u) : i = j

(* A project has at most one instruction, though two updates that both find  *)
(* none insert one each, and none when it is deleted.                        *)
OneProjectInstruction ==
    \A p \in Projects :
        /\ \A i, j \in ProjectRows(p) : i = j
        /\ p \notin live => ProjectRows(p) = {}

\* The request whose last statement on instruction id commits in this step.
Commits(r, id) == req[r].pc = "setting" /\ req[r].id = id /\ req'[r] = Idle

(* A default is given up only to another, or by an update of that very       *)
(* instruction: a transaction that clears it and then fails leaves it.       *)
DefaultIsHandedOver ==
    [][\A i \in rows, j \in rows' : i.id = j.id /\ i.default /\ ~j.default =>
         \/ \E k \in rows' : k.user = i.user /\ k.default
         \/ \E r \in Requests : Commits(r, i.id) /\ req[r].kind = "update"]_vars

(* update_instruction changes what its body gives and nothing else: a name or *)
(* a prompt only to the one that was asked for, the default only when asked. *)
OnlyAskedChanges ==
    \A i \in rows, j \in rows', r \in Requests :
        i.id = j.id /\ Commits(r, i.id) /\ req[r].kind = "update" =>
            /\ i.name # j.name => req[r].body.name = j.name
            /\ i.prompt # j.prompt => req[r].body.prompt = j.prompt
            /\ i.default # j.default => req[r].body.default # None
=============================================================================
