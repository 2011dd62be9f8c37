------------------------- MODULE ConversationsProofs -------------------------
(*****************************************************************************)
(* Conversations and their projects, and instructions, for any number of     *)
(* users, requests, projects, conversations and instructions and any limits. *)
(*                                                                           *)
(* A request acts on what an earlier statement of it read. Two things make   *)
(* that sound. What was read about a row stays true of it though it may be   *)
(* deleted, because an id is not used again and its user does not change     *)
(* (Loose). And what was read under a lock stays true until the lock is      *)
(* given up (Strict), because the locks exclude each other (UserLocks,       *)
(* ConversationLocks).                                                       *)
(*                                                                           *)
(* Instructions have no such locks. Their tables stay good (GoodNotes)       *)
(* because the unique indexes refuse what two overlapping transactions would *)
(* add, and because a transaction clears a default only for one of the same  *)
(* user (EditOk). That an update writes back nothing stale needs requests    *)
(* one at a time (CopiesAreFresh).                                           *)
(*****************************************************************************)
EXTENDS MCConversations, FiniteSetTheorems, TLAPS

ProjectRow == [id : ProjectIds, user : Users]
ConversationRow == [id : ConversationIds, user : Users, project : ProjectIds \union {None}, pinned : BOOLEAN]
Targets == ProjectIds \union {None}
Results == {"deleted", "delete_failed", "not_found"}

\* The requests, by how far they have come.
Counting == [pc : {"counting", "inserting_project"}, user : Users]
Aiming == [pc : {"deleting_project", "inserting"}, user : Users, target : Targets]
Loading == [pc : {"loaded", "updating", "deleting"}, user : Users, ids : Seq(ConversationIds), moves : BOOLEAN,
            target : Targets, copy : ConversationRow]
Reporting == [pc : {"batch_get", "batch_delete", "answered"}, user : Users, ids : Seq(ConversationIds),
              results : Seq(Results)]
Moving == [pc : {"targeting", "locking", "moving"}, user : Users, ids : Seq(ConversationIds), moves : {TRUE},
           target : Targets]

\* The rows, with ids that were given out once.
RowInv ==
    /\ projects \subseteq ProjectRow /\ conversations \subseteq ConversationRow
    /\ madeProjects \in 0 .. MaxProjects /\ madeConversations \in 0 .. MaxConversations
    /\ req = [r \in Requests |-> req[r]]
    /\ \A p \in projects : p.id <= madeProjects
    /\ \A p, q \in projects : p.id = q.id => p = q
    /\ \A c \in conversations : c.id <= madeConversations
    /\ \A c, d \in conversations : c.id = d.id => c = d
    /\ IsFiniteSet(projects)

\* What was read of a project and of a conversation, and what was deleted.
TargetKnown(k) ==
    k.target # None => k.target <= madeProjects /\ \A p \in projects : p.id = k.target => p.user = k.user
RowKnown(k) ==
    k.ids[1] <= madeConversations /\ \A c \in conversations : c.id = k.ids[1] => c.user = k.user
Gone(k) ==
    \A i \in 1 .. Len(k.results) : k.results[i] = "deleted" =>
        k.ids[i] <= madeConversations /\ \A c \in conversations : c.id # k.ids[i]

Loose(k) ==
    \/ k = Idle
    \/ k \in Counting
    \/ k \in Aiming /\ TargetKnown(k) /\ (k.pc = "deleting_project" => k.target # None)
    \/ /\ k \in Loading /\ Len(k.ids) = 1 /\ RowKnown(k)
       /\ ~k.moves => k.target = None
       /\ k.pc = "updating" => TargetKnown(k)
    \/ /\ k \in Reporting /\ Gone(k)
       /\ IF k.pc = "answered" THEN Len(k.results) = Len(k.ids) ELSE Len(k.results) < Len(k.ids)
    \/ k \in Moving /\ TargetKnown(k)

\* What was read under a lock.
Sel(k) == {c \in conversations : Contains(k.ids, c.id) /\ c.user = k.user}

CountOk(k) == k.pc = "inserting_project" => Cardinality(OwnProjects(k.user)) < MaxPerUser
TargetOk(k) == k.pc \in {"locking", "moving"} => k.target = None \/ [id |-> k.target, user |-> k.user] \in projects
SelectionOk(k) ==
    k.pc = "moving" =>
        /\ \A i \in 1 .. Len(k.ids) : \E c \in conversations : c.id = k.ids[i] /\ c.user = k.user
        /\ OneSource(Sel(k))

Strict(k) == CountOk(k) /\ TargetOk(k) /\ SelectionOk(k)

\* The locks on users and on conversations.
UserLocks ==
    \A q, r \in Requests :
        q # r /\ req[q].pc \in {"counting", "inserting_project"} /\ req[r].pc \in {"counting", "inserting_project"}
        => req[q].user # req[r].user
ConversationLocks ==
    \A q, r \in Requests :
        q # r /\ req[q].pc = "moving" /\ req[r].pc = "moving" =>
            \A c \in ConversationIds : ~(Contains(req[q].ids, c) /\ Contains(req[r].ids, c))

RequestsOk == \A r \in Requests : \A k \in {req[r]} : Loose(k) /\ Strict(k)

ConvIInv == RowInv /\ WithinLimit /\ ProjectsAreOwn /\ RequestsOk /\ UserLocks /\ ConversationLocks
-----------------------------------------------------------------------------
(* Nothing is there at the start.                                               *)
LEMMA ConvInit == ASSUME Init PROVE ConvIInv
<1> USE ConversationsAssumption DEF ConversationsAssumption, Init
<1>1. RowInv
  BY FS_EmptySet DEF RowInv
<1>2. \A u \in Users : OwnProjects(u) = {}
  BY DEF OwnProjects
<1>3. WithinLimit /\ ProjectsAreOwn
  BY <1>2, FS_EmptySet DEF WithinLimit, ProjectsAreOwn
<1>4. RequestsOk /\ UserLocks /\ ConversationLocks
  BY DEF RequestsOk, Loose, Strict, CountOk, TargetOk, SelectionOk, UserLocks, ConversationLocks, Idle
<1> QED BY <1>1, <1>3, <1>4 DEF ConvIInv

\* The limits are numbers.
LEMMA ConvBounds ==
    /\ MaxPerUser \in Nat \ {0} /\ MaxProjects \in Nat /\ MaxConversations \in Nat
    /\ ProjectIds = 1 .. MaxProjects /\ ConversationIds = 1 .. MaxConversations /\ None = 0
BY ConversationsAssumption DEF ConversationsAssumption, ProjectIds, ConversationIds, None

\* How the tables change in every step: rows keep id and user, new ones get new ids.
Evolves ==
    /\ madeProjects' \in Nat /\ madeProjects <= madeProjects'
    /\ madeConversations' \in Nat /\ madeConversations <= madeConversations'
    /\ \A p \in projects' : p \in projects \/ p.id > madeProjects
    /\ \A c \in conversations' : c.id > madeConversations \/ \E d \in conversations : d.id = c.id /\ d.user = c.user

(* What was read of a row stays true of it.                                     *)
LEMMA LooseStays == ASSUME RowInv, Evolves, NEW k, Loose(k) PROVE Loose(k)'
<1>a. madeProjects \in Nat /\ madeConversations \in Nat
  BY DEF RowInv
<1>1. ASSUME k.target \in Nat, TargetKnown(k) PROVE TargetKnown(k)'
  BY <1>1, <1>a DEF TargetKnown, Evolves
<1>2. ASSUME k.ids[1] \in Nat, RowKnown(k) PROVE RowKnown(k)'
  BY <1>2, <1>a DEF RowKnown, Evolves
<1>3. ASSUME \A i \in 1 .. Len(k.results) : k.ids[i] \in Nat, Gone(k) PROVE Gone(k)'
  BY <1>3, <1>a DEF Gone, Evolves
<1>4. CASE k = Idle \/ k \in Counting
  BY <1>4 DEF Loose
<1>5. CASE k \in Aiming /\ TargetKnown(k) /\ (k.pc = "deleting_project" => k.target # None)
  <2>1. k.target \in Nat
    BY <1>5, ConvBounds DEF Aiming, Targets
  <2> QED BY <1>1, <1>5, <2>1 DEF Loose
<1>6. CASE /\ k \in Loading /\ Len(k.ids) = 1 /\ RowKnown(k)
           /\ ~k.moves => k.target = None
           /\ k.pc = "updating" => TargetKnown(k)
  <2>1. k.target \in Nat /\ k.ids[1] \in Nat
    BY <1>6, ConvBounds DEF Loading, Targets
  <2> QED BY <1>1, <1>2, <1>6, <2>1 DEF Loose
<1>7. CASE /\ k \in Reporting /\ Gone(k)
           /\ IF k.pc = "answered" THEN Len(k.results) = Len(k.ids) ELSE Len(k.results) < Len(k.ids)
  <2>1. \A i \in 1 .. Len(k.results) : k.ids[i] \in Nat
    BY <1>7, ConvBounds DEF Reporting
  <2> QED BY <1>3, <1>7, <2>1 DEF Loose
<1>8. CASE k \in Moving /\ TargetKnown(k)
  <2>1. k.target \in Nat
    BY <1>8, ConvBounds DEF Moving, Targets
  <2> QED BY <1>1, <1>8, <2>1 DEF Loose
<1> QED BY <1>4, <1>5, <1>6, <1>7, <1>8 DEF Loose

\* The step leaves alone what request value k has locked.
Respects(k) ==
    /\ k.pc = "inserting_project" => \A p \in projects' : p.user = k.user => p \in projects
    /\ k.pc \in {"locking", "moving"} =>
         \A p \in projects : p.id = k.target => p \in projects'
    /\ k.pc = "moving" =>
         /\ \A c \in conversations' : Contains(k.ids, c.id) => c \in conversations
         /\ \A c \in conversations : Contains(k.ids, c.id) => c \in conversations'

(* What was read under a lock stays true while the lock is respected.           *)
LEMMA StrictStays == ASSUME RowInv, IsFiniteSet(projects'), NEW k, Strict(k), Respects(k) PROVE Strict(k)'
<1>1. CountOk(k)'
  <2>1. SUFFICES ASSUME k.pc = "inserting_project" PROVE Cardinality(OwnProjects(k.user)') < MaxPerUser
    BY DEF CountOk, OwnProjects
  <2>2. OwnProjects(k.user)' \in SUBSET OwnProjects(k.user) /\ OwnProjects(k.user) \in SUBSET projects
    BY <2>1 DEF Respects, OwnProjects
  <2>3. IsFiniteSet(OwnProjects(k.user))
    BY <2>2, FS_Subset DEF RowInv
  <2>4. /\ Cardinality(OwnProjects(k.user)') <= Cardinality(OwnProjects(k.user))
        /\ IsFiniteSet(OwnProjects(k.user)')
    BY <2>2, <2>3, FS_Subset
  <2> QED BY <2>1, <2>3, <2>4, FS_CardinalityType, ConvBounds DEF Strict, CountOk
<1>2. TargetOk(k)'
  BY DEF Strict, TargetOk, Respects
<1>3. SelectionOk(k)'
  <2>1. SUFFICES ASSUME k.pc = "moving"
                 PROVE  /\ \A i \in 1 .. Len(k.ids) : \E c \in conversations' : c.id = k.ids[i] /\ c.user = k.user
                        /\ OneSource(Sel(k))'
    BY DEF SelectionOk
  <2>2. Sel(k)' = Sel(k)
    BY <2>1 DEF Respects, Sel
  <2>3. OneSource(Sel(k))'
    BY <2>1, <2>2 DEF Strict, SelectionOk, OneSource
  <2>4. ASSUME NEW i \in 1 .. Len(k.ids) PROVE \E c \in conversations' : c.id = k.ids[i] /\ c.user = k.user
    <3>1. PICK c \in conversations : c.id = k.ids[i] /\ c.user = k.user
      BY <2>1 DEF Strict, SelectionOk
    <3>2. Contains(k.ids, c.id)
      BY <3>1 DEF Contains
    <3> QED BY <2>1, <3>1, <3>2 DEF Respects
  <2> QED BY <2>3, <2>4
<1> QED BY <1>1, <1>2, <1>3 DEF Strict

\* Request r in state k does not hold what another request has locked.
Excluded(r, k) ==
    /\ k.pc \in {"counting", "inserting_project"} =>
         \A q \in Requests \ {r} : req[q].pc \in {"counting", "inserting_project"} => req[q].user # k.user
    /\ k.pc = "moving" =>
         \A q \in Requests \ {r} : req[q].pc = "moving" =>
             \A c \in ConversationIds : ~(Contains(req[q].ids, c) /\ Contains(k.ids, c))

(* One request moves on; the others keep what they know.                        *)
LEMMA RequestMoves ==
    ASSUME ConvIInv, NEW r \in Requests, NEW k, req' = [req EXCEPT ![r] = k],
           Evolves, IsFiniteSet(projects'), \A q \in Requests \ {r} : Respects(req[q]),
           (Loose(k) /\ Strict(k))', Excluded(r, k)
    PROVE  RequestsOk' /\ UserLocks' /\ ConversationLocks' /\ req' = [q \in Requests |-> req'[q]]
<1>0. req = [q \in Requests |-> req[q]]
  BY DEF ConvIInv, RowInv
<1>1. \A q \in Requests : req'[q] = IF q = r THEN k ELSE req[q]
  BY <1>0
<1>2. req' = [q \in Requests |-> req'[q]]
  BY <1>0
<1>3. ASSUME NEW q \in Requests, NEW j, j = req'[q] PROVE Loose(j)' /\ Strict(j)'
  <2>1. CASE q = r
    BY <1>1, <1>3, <2>1
  <2>2. CASE q # r
    <3>1. Loose(j) /\ Strict(j) /\ Respects(j)
      BY <1>1, <1>3, <2>2 DEF ConvIInv, RequestsOk
    <3> QED BY <3>1, LooseStays, StrictStays DEF ConvIInv
  <2> QED BY <2>1, <2>2
<1>4. UserLocks'
  BY <1>1 DEF ConvIInv, UserLocks, Excluded
<1>5. ConversationLocks'
  BY <1>1 DEF ConvIInv, ConversationLocks, Excluded
<1> QED BY <1>2, <1>3, <1>4, <1>5 DEF RequestsOk

(* A request that ends holds nothing.                                           *)
LEMMA IdleIsOk == ASSUME NEW r \in Requests PROVE (Loose(Idle) /\ Strict(Idle))' /\ Excluded(r, Idle)
BY DEF Loose, Strict, CountOk, TargetOk, SelectionOk, Excluded, Idle

(* A step that changes no row.                                                  *)
LEMMA ReadingPreserves ==
    ASSUME ConvIInv, NEW r \in Requests, NEW k, req' = [req EXCEPT ![r] = k],
           UNCHANGED <<projects, conversations, made>>, Loose(k), Strict(k), Excluded(r, k)
    PROVE  ConvIInv'
<1>a. UNCHANGED <<madeProjects, madeConversations>>
  BY DEF made
<1>1. Evolves /\ IsFiniteSet(projects')
  BY <1>a DEF Evolves, ConvIInv, RowInv
<1>2. \A q \in Requests \ {r} : Respects(req[q])
  BY DEF Respects
<1>3. (Loose(k) /\ Strict(k))'
  BY <1>a
  DEF Loose, TargetKnown, RowKnown, Gone, Strict, CountOk, TargetOk, SelectionOk, OwnProjects, Sel, OneSource
<1>4. RequestsOk' /\ UserLocks' /\ ConversationLocks' /\ req' = [q \in Requests |-> req'[q]]
  BY <1>1, <1>2, <1>3, RequestMoves
<1>5. RowInv' /\ WithinLimit' /\ ProjectsAreOwn'
  BY <1>a, <1>4 DEF ConvIInv, RowInv, WithinLimit, OwnProjects, ProjectsAreOwn
<1> QED BY <1>4, <1>5 DEF ConvIInv

(* A request ends without an effect.                                            *)
LEMMA EndingPreserves ==
    ASSUME ConvIInv, NEW r \in Requests, req' = [req EXCEPT ![r] = Idle],
           UNCHANGED <<projects, conversations, made>>
    PROVE  ConvIInv'
<1>1. Loose(Idle) /\ Strict(Idle) /\ Excluded(r, Idle)
  BY DEF Loose, Strict, CountOk, TargetOk, SelectionOk, Excluded, Idle
<1> QED BY <1>1, ReadingPreserves

(* A step in which a request ends and the tables change.                        *)
LEMMA WritingPreserves ==
    ASSUME ConvIInv, NEW r \in Requests, NEW k, req' = [req EXCEPT ![r] = k],
           Evolves, \A q \in Requests \ {r} : Respects(req[q]), (Loose(k) /\ Strict(k))', Excluded(r, k),
           projects' \subseteq ProjectRow, conversations' \subseteq ConversationRow, IsFiniteSet(projects'),
           madeProjects' \in 0 .. MaxProjects, madeConversations' \in 0 .. MaxConversations,
           \A p \in projects' : p.id <= madeProjects', \A p, q \in projects' : p.id = q.id => p = q,
           \A c \in conversations' : c.id <= madeConversations',
           \A c, d \in conversations' : c.id = d.id => c = d,
           WithinLimit', ProjectsAreOwn'
    PROVE  ConvIInv'
<1>1. RequestsOk' /\ UserLocks' /\ ConversationLocks' /\ req' = [q \in Requests |-> req'[q]]
  BY RequestMoves
<1>2. RowInv'
  BY <1>1 DEF RowInv
<1> QED BY <1>1, <1>2 DEF ConvIInv
-----------------------------------------------------------------------------
(* Projects *)

(* The shape of a request follows from its place.                               *)
LEMMA ShapeByPlace ==
    ASSUME NEW k, Loose(k)
    PROVE  /\ k.pc \in {"counting", "inserting_project"} => k \in Counting
           /\ k.pc \in {"deleting_project", "inserting"} =>
                k \in Aiming /\ TargetKnown(k) /\ (k.pc = "deleting_project" => k.target # None)
           /\ k.pc \in {"loaded", "updating", "deleting"} =>
                /\ k \in Loading /\ Len(k.ids) = 1 /\ RowKnown(k)
                /\ ~k.moves => k.target = None
                /\ k.pc = "updating" => TargetKnown(k)
           /\ k.pc \in {"batch_get", "batch_delete", "answered"} =>
                /\ k \in Reporting /\ Gone(k)
                /\ IF k.pc = "answered" THEN Len(k.results) = Len(k.ids) ELSE Len(k.results) < Len(k.ids)
           /\ k.pc \in {"targeting", "locking", "moving"} => k \in Moving /\ TargetKnown(k)
<1>1. /\ Idle.pc = "idle"
      /\ k \in Counting => k.pc \in {"counting", "inserting_project"}
      /\ k \in Aiming => k.pc \in {"deleting_project", "inserting"}
      /\ k \in Loading => k.pc \in {"loaded", "updating", "deleting"}
      /\ k \in Reporting => k.pc \in {"batch_get", "batch_delete", "answered"}
      /\ k \in Moving => k.pc \in {"targeting", "locking", "moving"}
  BY DEF Idle, Counting, Aiming, Loading, Reporting, Moving
<1>2. CASE k = Idle
  BY <1>1, <1>2
<1>3. CASE k # Idle
  <2>1. k.pc \in {"counting", "inserting_project"} => k \in Counting
    BY <1>1, <1>3 DEF Loose
  <2>2. k.pc \in {"deleting_project", "inserting"} =>
          k \in Aiming /\ TargetKnown(k) /\ (k.pc = "deleting_project" => k.target # None)
    BY <1>1, <1>3 DEF Loose
  <2>3. k.pc \in {"loaded", "updating", "deleting"} =>
          /\ k \in Loading /\ Len(k.ids) = 1 /\ RowKnown(k)
          /\ ~k.moves => k.target = None
          /\ k.pc = "updating" => TargetKnown(k)
    BY <1>1, <1>3 DEF Loose
  <2>4. k.pc \in {"batch_get", "batch_delete", "answered"} =>
          /\ k \in Reporting /\ Gone(k)
          /\ IF k.pc = "answered" THEN Len(k.results) = Len(k.ids) ELSE Len(k.results) < Len(k.ids)
    BY <1>1, <1>3 DEF Loose
  <2>5. k.pc \in {"targeting", "locking", "moving"} => k \in Moving /\ TargetKnown(k)
    BY <1>1, <1>3 DEF Loose
  <2> QED BY <2>1, <2>2, <2>3, <2>4, <2>5
<1> QED BY <1>2, <1>3

(* A user's row is locked, the projects counted.                                *)
LEMMA CountingPreserves ==
    ASSUME ConvIInv, NEW r \in Requests, (\E u \in Users : LockUser(r, u)) \/ CountProjects(r)
    PROVE  ConvIInv'
<1>1. ASSUME NEW u \in Users, LockUser(r, u) PROVE ConvIInv'
  <2> DEFINE k == [pc |-> "counting", user |-> u]
  <2>1. k \in Counting /\ k.pc = "counting" /\ k.user = u
    BY DEF Counting
  <2>2. req' = [req EXCEPT ![r] = k] /\ UNCHANGED <<projects, conversations, made>> /\ UserFree(u, r)
    BY <1>1 DEF LockUser, To
  <2> HIDE DEF k
  <2>3. Loose(k) /\ Strict(k) /\ Excluded(r, k)
    BY <2>1, <2>2 DEF Loose, Strict, CountOk, TargetOk, SelectionOk, Excluded, UserFree
  <2> QED BY <2>2, <2>3, ReadingPreserves
<1>2. CASE CountProjects(r)
  <2>1. req[r].pc = "counting" /\ Loose(req[r]) /\ UNCHANGED <<projects, conversations, made>>
    BY <1>2 DEF CountProjects, ConvIInv, RequestsOk
  <2>2. CASE Cardinality(OwnProjects(req[r].user)) >= MaxPerUser
    BY <1>2, <2>1, <2>2, EndingPreserves DEF CountProjects, To
  <2>3. CASE ~(Cardinality(OwnProjects(req[r].user)) >= MaxPerUser)
    <3> DEFINE k == [req[r] EXCEPT !.pc = "inserting_project"]
    <3>1. req' = [req EXCEPT ![r] = k]
      BY <1>2, <2>3 DEF CountProjects, To
    <3>2. req[r] \in Counting
      BY <2>1, ShapeByPlace
    <3>3. k \in Counting /\ k.pc = "inserting_project" /\ k.user = req[r].user /\ k.user \in Users
      BY <3>2 DEF Counting
    <3> HIDE DEF k
    <3>4. Cardinality(OwnProjects(k.user)) < MaxPerUser
      <4>1. OwnProjects(k.user) \in SUBSET projects
        BY DEF OwnProjects
      <4>2. Cardinality(OwnProjects(k.user)) \in Nat
        BY <4>1, FS_Subset, FS_CardinalityType DEF ConvIInv, RowInv
      <4> QED BY <2>3, <3>3, <4>2, ConvBounds
    <3>5. Loose(k) /\ Strict(k)
      BY <3>3, <3>4 DEF Loose, Strict, CountOk, TargetOk, SelectionOk
    <3>6. Excluded(r, k)
      BY <2>1, <3>3 DEF Excluded, ConvIInv, UserLocks
    <3> QED BY <2>1, <3>1, <3>5, <3>6, ReadingPreserves
  <2> QED BY <2>2, <2>3
<1> QED BY <1>1, <1>2

(* The project is inserted while the user's row is locked.                      *)
LEMMA InsertProjectPreserves == ASSUME ConvIInv, NEW r \in Requests, InsertProject(r) PROVE ConvIInv'
<1> DEFINE u == req[r].user
<1> DEFINE p == [id |-> madeProjects + 1, user |-> u]
<1>0. req[r].pc = "inserting_project" /\ Loose(req[r]) /\ Strict(req[r])
  BY DEF InsertProject, ConvIInv, RequestsOk
<1>1. u \in Users
  BY <1>0, ShapeByPlace DEF Counting
<1>2. /\ madeProjects \in 0 .. MaxProjects /\ madeProjects < MaxProjects /\ madeProjects' = madeProjects + 1
      /\ projects' = projects \union {p} /\ UNCHANGED <<conversations, madeConversations>>
      /\ req' = [req EXCEPT ![r] = Idle] /\ madeConversations \in 0 .. MaxConversations
  BY DEF InsertProject, To, ConvIInv, RowInv
<1>3. p \in ProjectRow /\ p.id = madeProjects + 1 /\ p.user = u
  BY <1>1, <1>2, ConvBounds DEF ProjectRow
<1> HIDE DEF p
<1>4. IsFiniteSet(projects')
  BY <1>2, FS_AddElement DEF ConvIInv, RowInv
<1>5. Evolves
  BY <1>2, <1>3, ConvBounds DEF Evolves
<1>6. \A q \in Requests \ {r} : Respects(req[q])
  BY <1>0, <1>2, <1>3 DEF Respects, ConvIInv, UserLocks
<1>7. /\ projects' \subseteq ProjectRow /\ madeProjects' \in 0 .. MaxProjects
      /\ \A a \in projects' : a.id <= madeProjects'
      /\ \A a, b \in projects' : a.id = b.id => a = b
  <2>1. \A a \in projects : a.id \in Nat /\ a.id <= madeProjects
    BY ConvBounds DEF ConvIInv, RowInv, ProjectRow
  <2>2. projects' \subseteq ProjectRow /\ madeProjects' \in 0 .. MaxProjects
    BY <1>2, <1>3, ConvBounds DEF ConvIInv, RowInv
  <2>3. \A a \in projects' : a.id <= madeProjects'
    BY <1>2, <1>3, <2>1
  <2>4. \A a, b \in projects' : a.id = b.id => a = b
    BY <1>2, <1>3, <2>1 DEF ConvIInv, RowInv
  <2> QED BY <2>2, <2>3, <2>4
<1>8. WithinLimit'
  <2>1. SUFFICES ASSUME NEW w \in Users PROVE Cardinality(OwnProjects(w)') <= MaxPerUser
    BY DEF WithinLimit, OwnProjects
  <2>2. OwnProjects(w) \in SUBSET projects
    BY DEF OwnProjects
  <2>3. IsFiniteSet(OwnProjects(w)) /\ Cardinality(OwnProjects(w)) \in Nat
    BY <2>2, FS_Subset, FS_CardinalityType DEF ConvIInv, RowInv
  <2>4. CASE w # u
    <3>1. OwnProjects(w)' = OwnProjects(w)
      BY <1>2, <1>3, <2>4 DEF OwnProjects
    <3> QED BY <3>1 DEF ConvIInv, WithinLimit
  <2>5. CASE w = u
    <3>1. OwnProjects(w)' = OwnProjects(w) \union {p}
      BY <1>2, <1>3, <2>5 DEF OwnProjects
    <3>2. Cardinality(OwnProjects(w)) < MaxPerUser
      BY <1>0, <2>5 DEF Strict, CountOk
    <3>3. \/ Cardinality(OwnProjects(w) \union {p}) = Cardinality(OwnProjects(w))
          \/ Cardinality(OwnProjects(w) \union {p}) = Cardinality(OwnProjects(w)) + 1
      BY <2>3, FS_AddElement
    <3> QED BY <2>3, <3>1, <3>2, <3>3, ConvBounds
  <2> QED BY <2>4, <2>5
<1>9. ProjectsAreOwn'
  BY <1>2 DEF ConvIInv, ProjectsAreOwn
<1> QED
  BY <1>2, <1>4, <1>5, <1>6, <1>7, <1>8, <1>9, IdleIsOk, WritingPreserves
  DEF ConvIInv, RowInv

(* A request is at rest only as Idle, which locks nothing.                      *)
LEMMA AtRest == ASSUME ConvIInv, NEW r \in Requests, req[r].pc = "idle" PROVE req[r] = Idle
<1>1. Loose(req[r])
  BY DEF ConvIInv, RequestsOk
<1> QED BY <1>1 DEF Loose, Counting, Aiming, Loading, Reporting, Moving

(* A project and all of its conversations are deleted.                          *)
LEMMA DeleteProjectPreserves == ASSUME ConvIInv, NEW r \in Requests, DeleteProject(r) PROVE ConvIInv'
<1>0. PICK k : k = req[r]
  OBVIOUS
<1>1. k.pc = "deleting_project" /\ Loose(k)
  BY <1>0 DEF DeleteProject, ConvIInv, RequestsOk
<1>2. /\ ProjectFree(k.target, r) /\ AllFree(Owned(k.target), r)
      /\ projects' = projects \ {[id |-> k.target, user |-> k.user]}
      /\ conversations' = conversations \ Owned(k.target)
      /\ UNCHANGED <<madeProjects, madeConversations>> /\ req' = [req EXCEPT ![r] = Idle]
  BY <1>0 DEF DeleteProject, To, made
<1>3. projects' \in SUBSET projects /\ conversations' \subseteq conversations
  BY <1>2
<1>4. IsFiniteSet(projects')
  BY <1>3, FS_Subset DEF ConvIInv, RowInv
<1>5. Evolves
  BY <1>2, <1>3 DEF Evolves, ConvIInv, RowInv
<1>6. ASSUME NEW q \in Requests \ {r} PROVE Respects(req[q])
  <2>1. \A p \in projects' : p \in projects
    BY <1>3
  <2>2. req[q].pc \in {"locking", "moving"} => \A p \in projects : p.id = req[q].target => p \in projects'
    BY <1>2 DEF ProjectFree
  <2>3. req[q].pc = "moving" => \A c \in conversations : Contains(req[q].ids, c.id) => c \in conversations'
    BY <1>2 DEF AllFree, ConversationFree
  <2> QED BY <1>3, <2>1, <2>2, <2>3 DEF Respects
<1>7. WithinLimit'
  <2>1. SUFFICES ASSUME NEW w \in Users PROVE Cardinality(OwnProjects(w)') <= MaxPerUser
    BY DEF WithinLimit, OwnProjects
  <2>2. OwnProjects(w) \in SUBSET projects /\ OwnProjects(w)' \in SUBSET OwnProjects(w)
    BY <1>3 DEF OwnProjects
  <2>3. IsFiniteSet(OwnProjects(w)) /\ IsFiniteSet(OwnProjects(w)')
        /\ Cardinality(OwnProjects(w)') <= Cardinality(OwnProjects(w))
    BY <2>2, FS_Subset DEF ConvIInv, RowInv
  <2>4. Cardinality(OwnProjects(w)') \in Nat /\ Cardinality(OwnProjects(w)) \in Nat
        /\ Cardinality(OwnProjects(w)) <= MaxPerUser
    BY <2>3, FS_CardinalityType DEF ConvIInv, WithinLimit
  <2> QED BY <2>3, <2>4, ConvBounds
<1>8. ProjectsAreOwn'
  BY <1>2 DEF ConvIInv, ProjectsAreOwn, Owned
<1>9. /\ projects' \subseteq ProjectRow /\ conversations' \subseteq ConversationRow
      /\ madeProjects' \in 0 .. MaxProjects /\ madeConversations' \in 0 .. MaxConversations
      /\ \A p \in projects' : p.id <= madeProjects' /\ \A a, b \in projects' : a.id = b.id => a = b
      /\ \A c \in conversations' : c.id <= madeConversations'
      /\ \A c, d \in conversations' : c.id = d.id => c = d
  BY <1>2, <1>3 DEF ConvIInv, RowInv
<1> QED BY <1>2, <1>4, <1>5, <1>6, <1>7, <1>8, <1>9, IdleIsOk, WritingPreserves

(* A project that was found is its user's for good.                             *)
LEMMA FoundProject ==
    ASSUME ConvIInv, NEW k, k.target = None \/ FindProject(k.target, k.user) PROVE TargetKnown(k)
<1>1. SUFFICES ASSUME [id |-> k.target, user |-> k.user] \in projects PROVE TargetKnown(k)
  BY DEF TargetKnown, FindProject
<1>2. k.target <= madeProjects
  BY <1>1 DEF ConvIInv, RowInv
<1>3. \A p \in projects : p.id = k.target => p = [id |-> k.target, user |-> k.user]
  BY <1>1 DEF ConvIInv, RowInv
<1> QED BY <1>2, <1>3 DEF TargetKnown

(* The requests that begin with a project that was found.                       *)
LEMMA AimingPreserves ==
    ASSUME ConvIInv, NEW r \in Requests,
           \/ \E u \in Users, p \in ProjectIds : AskDeleteProject(r, u, p)
           \/ \E u \in Users, p \in ProjectIds \union {None} : AskCreate(r, u, p)
    PROVE  ConvIInv'
<1>1. PICK u \in Users, p \in Targets, pc \in {"deleting_project", "inserting"} :
        /\ p = None \/ FindProject(p, u)
        /\ pc = "deleting_project" => p # None
        /\ req' = [req EXCEPT ![r] = [pc |-> pc, user |-> u, target |-> p]]
        /\ UNCHANGED <<projects, conversations, made>>
  BY ConvBounds DEF AskDeleteProject, AskCreate, To, Targets
<1> DEFINE k == [pc |-> pc, user |-> u, target |-> p]
<1>2. k \in Aiming /\ k.pc = pc /\ k.user = u /\ k.target = p
  BY DEF Aiming
<1> HIDE DEF k
<1>3. TargetKnown(k)
  BY <1>1, <1>2, FoundProject
<1>4. Loose(k) /\ Strict(k) /\ Excluded(r, k)
  BY <1>1, <1>2, <1>3 DEF Loose, Strict, CountOk, TargetOk, SelectionOk, Excluded
<1>5. req' = [req EXCEPT ![r] = k]
  BY <1>1 DEF k
<1> QED BY <1>1, <1>4, <1>5, ReadingPreserves
-----------------------------------------------------------------------------
(* One conversation *)

(* A conversation is inserted; nobody holds a lock on an id not yet given out.  *)
LEMMA InsertConversationPreserves == ASSUME ConvIInv, NEW r \in Requests, InsertConversation(r) PROVE ConvIInv'
<1>0. PICK k : k = req[r]
  OBVIOUS
<1>1. k.pc = "inserting" /\ k \in Aiming /\ TargetKnown(k)
  BY <1>0, ShapeByPlace DEF InsertConversation, ConvIInv, RequestsOk
<1>2. CASE ~ProjectExists(k.target)
  BY <1>0, <1>2, EndingPreserves DEF InsertConversation, To, made
<1>3. CASE ProjectExists(k.target)
  <2> DEFINE c == [id |-> madeConversations + 1, user |-> k.user, project |-> k.target, pinned |-> FALSE]
  <2>1. /\ madeConversations < MaxConversations /\ madeConversations' = madeConversations + 1
        /\ conversations' = conversations \union {c} /\ UNCHANGED <<projects, madeProjects>>
        /\ req' = [req EXCEPT ![r] = Idle]
    BY <1>0, <1>3 DEF InsertConversation, To
  <2>2. /\ madeConversations \in 0 .. MaxConversations /\ madeProjects \in 0 .. MaxProjects
        /\ IsFiniteSet(projects')
    BY <2>1 DEF ConvIInv, RowInv
  <2>3. k.user \in Users /\ k.target \in Targets
    BY <1>1 DEF Aiming
  <2>4. c \in ConversationRow /\ c.id = madeConversations + 1 /\ c.user = k.user /\ c.project = k.target
    BY <2>1, <2>2, <2>3, ConvBounds DEF ConversationRow, Targets
  <2> HIDE DEF c
  <2>5. \A d \in conversations : d.id \in Nat /\ d.id <= madeConversations
    BY ConvBounds DEF ConvIInv, RowInv, ConversationRow
  <2>6. Evolves
    BY <2>1, <2>2, <2>4, ConvBounds DEF Evolves
  <2>7. ASSUME NEW q \in Requests \ {r} PROVE Respects(req[q])
    <3>1. SUFFICES ASSUME req[q].pc = "moving", Contains(req[q].ids, c.id) PROVE FALSE
      BY <2>1 DEF Respects
    <3>2. PICK i \in 1 .. Len(req[q].ids) : req[q].ids[i] = c.id
      BY <3>1 DEF Contains
    <3>3. PICK d \in conversations : d.id = req[q].ids[i]
      BY <3>1, <3>2 DEF ConvIInv, RequestsOk, Strict, SelectionOk
    <3> QED BY <2>2, <2>4, <2>5, <3>2, <3>3
  <2>8. conversations' \subseteq ConversationRow /\ madeConversations' \in 0 .. MaxConversations
    BY <2>1, <2>2, <2>4, ConvBounds DEF ConvIInv, RowInv
  <2>9. \A d \in conversations' : d.id <= madeConversations'
    BY <2>1, <2>2, <2>4, <2>5
  <2>10. \A a, b \in conversations' : a.id = b.id => a = b
    BY <2>1, <2>2, <2>4, <2>5 DEF ConvIInv, RowInv
  <2>11. WithinLimit'
    BY <2>1 DEF ConvIInv, WithinLimit, OwnProjects
  <2>12. c.project # None => [id |-> c.project, user |-> c.user] \in projects
    <3>1. SUFFICES ASSUME k.target # None PROVE [id |-> k.target, user |-> k.user] \in projects
      BY <2>4
    <3>2. PICK p \in projects : p.id = k.target
      BY <1>3, <3>1 DEF ProjectExists
    <3>3. p \in ProjectRow /\ p.user = k.user
      BY <1>1, <3>1, <3>2 DEF TargetKnown, ConvIInv, RowInv
    <3>4. p = [id |-> k.target, user |-> k.user]
      BY <3>2, <3>3 DEF ProjectRow
    <3> QED BY <3>2, <3>4
  <2>13. ProjectsAreOwn'
    BY <2>1, <2>12 DEF ConvIInv, ProjectsAreOwn
  <2>14. /\ projects' \subseteq ProjectRow /\ madeProjects' \in 0 .. MaxProjects
         /\ \A p \in projects' : p.id <= madeProjects' /\ \A a, b \in projects' : a.id = b.id => a = b
    BY <2>1 DEF ConvIInv, RowInv
  <2> QED
    BY <2>1, <2>2, <2>6, <2>7, <2>8, <2>9, <2>10, <2>11, <2>13, <2>14, IdleIsOk, WritingPreserves
<1> QED BY <1>2, <1>3

(* A step that changes or deletes conversations nobody else has locked.         *)
LEMMA ChangingPreserves ==
    ASSUME ConvIInv, NEW r \in Requests, NEW k, req' = [req EXCEPT ![r] = k],
           UNCHANGED <<projects, made>>, conversations' \subseteq ConversationRow,
           \A c \in conversations' : \E d \in conversations : d.id = c.id /\ d.user = c.user,
           \A c, d \in conversations' : c.id = d.id => c = d,
           \A q \in Requests \ {r} : req[q].pc = "moving" =>
             /\ \A c \in conversations' : Contains(req[q].ids, c.id) => c \in conversations
             /\ \A c \in conversations : Contains(req[q].ids, c.id) => c \in conversations',
           (Loose(k) /\ Strict(k))', Excluded(r, k), ProjectsAreOwn'
    PROVE  ConvIInv'
<1>1. UNCHANGED <<madeProjects, madeConversations>>
  BY DEF made
<1>2. Evolves /\ IsFiniteSet(projects')
  BY <1>1 DEF Evolves, ConvIInv, RowInv
<1>3. \A q \in Requests \ {r} : Respects(req[q])
  BY DEF Respects
<1>4. \A c \in conversations' : c.id <= madeConversations'
  BY <1>1 DEF ConvIInv, RowInv
<1>5. WithinLimit'
  BY DEF ConvIInv, WithinLimit, OwnProjects
<1>6. /\ projects' \subseteq ProjectRow
      /\ madeProjects' \in 0 .. MaxProjects /\ madeConversations' \in 0 .. MaxConversations
      /\ \A p \in projects' : p.id <= madeProjects' /\ \A a, b \in projects' : a.id = b.id => a = b
  BY <1>1 DEF ConvIInv, RowInv
<1> QED BY <1>2, <1>3, <1>4, <1>5, <1>6, WritingPreserves

(* A step that deletes conversations nobody else has locked.                    *)
LEMMA RemovingPreserves ==
    ASSUME ConvIInv, NEW r \in Requests, NEW k, req' = [req EXCEPT ![r] = k],
           UNCHANGED <<projects, made>>, conversations' \subseteq conversations,
           \A c \in conversations \ conversations' : ConversationFree(c.id, r),
           (Loose(k) /\ Strict(k))', Excluded(r, k)
    PROVE  ConvIInv'
<1>1. /\ conversations' \subseteq ConversationRow
      /\ \A c \in conversations' : \E d \in conversations : d.id = c.id /\ d.user = c.user
      /\ \A c, d \in conversations' : c.id = d.id => c = d
  BY DEF ConvIInv, RowInv
<1>2. \A q \in Requests \ {r} : req[q].pc = "moving" =>
        /\ \A c \in conversations' : Contains(req[q].ids, c.id) => c \in conversations
        /\ \A c \in conversations : Contains(req[q].ids, c.id) => c \in conversations'
  BY DEF ConversationFree
<1>3. ProjectsAreOwn'
  BY DEF ConvIInv, ProjectsAreOwn
<1> QED BY <1>1, <1>2, <1>3, ChangingPreserves

(* One conversation, or all of a user, is deleted.                              *)
LEMMA DeletingPreserves ==
    ASSUME ConvIInv, NEW r \in Requests, DeleteConversation(r) \/ (\E u \in Users : DeleteAll(r, u))
    PROVE  ConvIInv'
<1>1. CASE DeleteConversation(r)
  <2>1. /\ req' = [req EXCEPT ![r] = Idle] /\ UNCHANGED <<projects, made>> /\ conversations' \subseteq conversations
        /\ \A c \in conversations \ conversations' : ConversationFree(c.id, r)
    BY <1>1 DEF DeleteConversation, Without, To
  <2> QED BY <2>1, IdleIsOk, RemovingPreserves
<1>2. CASE \E u \in Users : DeleteAll(r, u)
  <2>1. req[r] = Idle
    BY <1>2, AtRest DEF DeleteAll
  <2>2. /\ req' = [req EXCEPT ![r] = Idle]
    BY <1>2, <2>1 DEF DeleteAll, ConvIInv, RowInv
  <2>3. /\ UNCHANGED <<projects, made>> /\ conversations' \subseteq conversations
        /\ \A c \in conversations \ conversations' : ConversationFree(c.id, r)
    BY <1>2 DEF DeleteAll, AllFree
  <2> QED BY <2>2, <2>3, IdleIsOk, RemovingPreserves
<1> QED BY <1>1, <1>2

(* A conversation is loaded for an update or a deletion, and its target read.   *)
LEMMA LoadingPreserves ==
    ASSUME ConvIInv, NEW r \in Requests,
           \/ \E u \in Users, c \in ConversationIds : AskUpdate(r, u, c) \/ AskDelete(r, u, c)
           \/ ReadProject(r)
    PROVE  ConvIInv'
<1>1. ASSUME NEW u \in Users, NEW c \in ConversationIds, AskUpdate(r, u, c) \/ AskDelete(r, u, c) PROVE ConvIInv'
  <2>1. PICK pc \in {"loaded", "deleting"}, moves \in BOOLEAN, target \in Targets :
          Load(r, u, c, pc, moves, target) /\ (moves \/ target = None)
    BY <1>1 DEF AskUpdate, AskDelete, Targets
  <2>2. PICK row \in conversations :
          /\ row.id = c
          /\ req' = [req EXCEPT ![r] = [pc |-> pc, user |-> u, ids |-> <<c>>, moves |-> moves,
                                        target |-> target, copy |-> row]]
    BY <2>1 DEF Load, To
  <2>3. FindConversation(c, u) /\ UNCHANGED <<projects, conversations, made>>
    BY <2>1 DEF Load
  <2> DEFINE k == [pc |-> pc, user |-> u, ids |-> <<c>>, moves |-> moves, target |-> target, copy |-> row]
  <2>4. row \in ConversationRow /\ <<c>> \in Seq(ConversationIds) /\ Len(<<c>>) = 1 /\ <<c>>[1] = c
    BY <2>2 DEF ConvIInv, RowInv
  <2>5. /\ k \in Loading /\ k.pc = pc /\ k.user = u /\ k.ids = <<c>> /\ k.moves = moves /\ k.target = target
    BY <2>4 DEF Loading
  <2> HIDE DEF k
  <2>6. RowKnown(k)
    BY <2>2, <2>3, <2>4, <2>5 DEF RowKnown, FindConversation, ConvIInv, RowInv
  <2>7. Loose(k)
    BY <2>1, <2>4, <2>5, <2>6 DEF Loose
  <2>8. Strict(k) /\ Excluded(r, k)
    BY <2>1, <2>5 DEF Strict, CountOk, TargetOk, SelectionOk, Excluded
  <2>9. req' = [req EXCEPT ![r] = k]
    BY <2>2 DEF k
  <2> QED BY <2>3, <2>7, <2>8, <2>9, ReadingPreserves
<1>2. CASE ReadProject(r)
  <2>1. req[r].pc = "loaded" /\ UNCHANGED <<projects, conversations, made>> /\ Loose(req[r])
    BY <1>2 DEF ReadProject, ConvIInv, RequestsOk
  <2>2. CASE ~(req[r].target = None \/ FindProject(req[r].target, req[r].user))
    BY <1>2, <2>1, <2>2, EndingPreserves DEF ReadProject, To
  <2>3. CASE req[r].target = None \/ FindProject(req[r].target, req[r].user)
    <3> DEFINE k == [req[r] EXCEPT !.pc = "updating"]
    <3>1. req' = [req EXCEPT ![r] = k]
      BY <1>2, <2>3 DEF ReadProject, To
    <3>2. /\ req[r] \in Loading /\ Len(req[r].ids) = 1 /\ RowKnown(req[r])
          /\ ~req[r].moves => req[r].target = None
      BY <2>1, ShapeByPlace
    <3>3. /\ k \in Loading /\ k.pc = "updating" /\ k.user = req[r].user /\ k.ids = req[r].ids
          /\ k.moves = req[r].moves /\ k.target = req[r].target
      BY <3>2 DEF Loading
    <3> HIDE DEF k
    <3>4. TargetKnown(k)
      BY <2>3, <3>3, FoundProject
    <3>5. RowKnown(k)
      BY <3>2, <3>3 DEF RowKnown
    <3>6. Loose(k)
      BY <3>2, <3>3, <3>4, <3>5 DEF Loose
    <3>7. Strict(k) /\ Excluded(r, k)
      BY <3>3 DEF Strict, CountOk, TargetOk, SelectionOk, Excluded
    <3> QED BY <2>1, <3>1, <3>6, <3>7, ReadingPreserves
  <2> QED BY <2>2, <2>3
<1> QED BY <1>1, <1>2

(* A project that still exists is the one that was found.                       *)
LEMMA KnownProject ==
    ASSUME ConvIInv, NEW k, TargetKnown(k), ProjectExists(k.target), k.target # None
    PROVE  [id |-> k.target, user |-> k.user] \in projects
<1>1. PICK p \in projects : p.id = k.target
  BY DEF ProjectExists
<1>2. p \in ProjectRow /\ p.user = k.user
  BY <1>1 DEF TargetKnown, ConvIInv, RowInv
<1>3. p = [id |-> k.target, user |-> k.user]
  BY <1>1, <1>2 DEF ProjectRow
<1> QED BY <1>1, <1>3

(* A conversation is moved or pinned, or both, by itself.                       *)
LEMMA UpdatePreserves == ASSUME ConvIInv, NEW r \in Requests, Update(r) PROVE ConvIInv'
<1>0. PICK k : k = req[r]
  OBVIOUS
<1>1. /\ k.pc = "updating" /\ k \in Loading /\ Len(k.ids) = 1 /\ RowKnown(k) /\ TargetKnown(k)
      /\ ~k.moves => k.target = None
  BY <1>0, ShapeByPlace DEF Update, ConvIInv, RequestsOk
<1>2. /\ ConversationFree(k.ids[1], r) /\ req' = [req EXCEPT ![r] = Idle] /\ UNCHANGED <<projects, made>>
  BY <1>0 DEF Update, To
<1>3. CASE ~ProjectExists(k.target)
  BY <1>0, <1>2, <1>3, EndingPreserves DEF Update
<1>4. CASE ProjectExists(k.target)
  <2>0. PICK pinned \in BOOLEAN :
          conversations' = {IF row.id = k.ids[1] THEN Changed(r, row, pinned) ELSE row : row \in conversations}
    BY <1>0, <1>4 DEF Update
  <2> DEFINE F(row) == IF row.id = k.ids[1] THEN Changed(r, row, pinned) ELSE row
  <2>1. conversations' = {F(row) : row \in conversations}
    BY <2>0
  <2>2. ASSUME NEW row \in conversations
        PROVE  /\ row \in ConversationRow /\ F(row) \in ConversationRow
               /\ F(row).id = row.id /\ F(row).user = row.user
               /\ row.id # k.ids[1] => F(row) = row
               /\ F(row).project = row.project \/ (row.id = k.ids[1] /\ F(row).project = k.target)
    <3>1. row \in ConversationRow /\ k.moves \in BOOLEAN /\ k.target \in Targets
      BY <1>1 DEF ConvIInv, RowInv, Loading
    <3> QED BY <1>0, <3>1 DEF Changed, ConversationRow, Targets
  <2> HIDE DEF F
  <2>3. /\ conversations' \subseteq ConversationRow
        /\ \A c \in conversations' : \E d \in conversations : d.id = c.id /\ d.user = c.user
    BY <2>1, <2>2
  <2>4. \A c, d \in conversations' : c.id = d.id => c = d
    BY <2>1, <2>2 DEF ConvIInv, RowInv
  <2>5. \A q \in Requests \ {r} : req[q].pc = "moving" =>
          /\ \A c \in conversations' : Contains(req[q].ids, c.id) => c \in conversations
          /\ \A c \in conversations : Contains(req[q].ids, c.id) => c \in conversations'
    <3>1. \A q \in Requests \ {r} : req[q].pc = "moving" => ~Contains(req[q].ids, k.ids[1])
      BY <1>2 DEF ConversationFree
    <3>2. \A c \in conversations : c.id # k.ids[1] => c \in conversations'
      BY <2>1, <2>2
    <3>3. \A c \in conversations' : c.id # k.ids[1] => c \in conversations
      BY <2>1, <2>2
    <3> QED BY <3>1, <3>2, <3>3
  <2>6. ProjectsAreOwn'
    <3>1. SUFFICES ASSUME NEW c \in conversations', c.project # None
                   PROVE  [id |-> c.project, user |-> c.user] \in projects
      BY <1>2 DEF ProjectsAreOwn
    <3>2. PICK row \in conversations : c = F(row)
      BY <2>1
    <3>3. CASE c.project = row.project
      <4>1. row.project # None /\ c.user = row.user
        BY <2>2, <3>1, <3>2, <3>3
      <4> QED BY <3>3, <4>1 DEF ConvIInv, ProjectsAreOwn
    <3>4. CASE row.id = k.ids[1] /\ c.project = k.target
      <4>1. c.user = k.user
        BY <1>1, <2>2, <3>2, <3>4 DEF RowKnown
      <4>2. [id |-> k.target, user |-> k.user] \in projects
        BY <1>1, <1>4, <3>1, <3>4, KnownProject
      <4> QED BY <3>4, <4>1, <4>2
    <3> QED BY <2>2, <3>2, <3>3, <3>4
  <2> QED BY <1>2, <2>3, <2>4, <2>5, <2>6, IdleIsOk, ChangingPreserves
<1> QED BY <1>3, <1>4
-----------------------------------------------------------------------------
(* Batches *)

(* A batch is a list of ids that is not empty.                                  *)
LEMMA BatchType == ASSUME NEW ids \in Batches PROVE ids \in Seq(ConversationIds) /\ Len(ids) > 0
<1>1. PICK m \in 0 .. BatchSize : ids \in [1 .. m -> ConversationIds]
  BY DEF Batches, SeqOf
<1>2. BatchSize \in Nat
  BY ConversationsAssumption DEF ConversationsAssumption
<1>3. ids \in Seq(ConversationIds) /\ Len(ids) = m
  BY <1>1, <1>2
<1>4. ids # <<>>
  BY DEF Batches
<1> QED BY <1>2, <1>3, <1>4

\* Push, as a value.
Pushed(k, result) ==
    [k EXCEPT !.results = Append(@, result),
              !.pc = IF Len(k.results) + 1 = Len(k.ids) THEN "answered" ELSE "batch_get"]

(* What a batch has reported stays true when it reports the next result, if it  *)
(* reports as deleted only what is gone.                                        *)
LEMMA PushedIsOk ==
    ASSUME NEW r \in Requests, NEW k \in Reporting, Gone(k)', Len(k.results) < Len(k.ids), NEW result \in Results,
           result = "deleted" => /\ k.ids[Len(k.results) + 1] <= madeConversations'
                                 /\ \A c \in conversations' : c.id # k.ids[Len(k.results) + 1]
    PROVE  (Loose(Pushed(k, result)) /\ Strict(Pushed(k, result)))' /\ Excluded(r, Pushed(k, result))
<1> DEFINE n == Pushed(k, result)
<1>1. k.results \in Seq(Results) /\ k.ids \in Seq(ConversationIds) /\ Len(k.results) \in Nat /\ Len(k.ids) \in Nat
  BY DEF Reporting
<1>2. Append(k.results, result) \in Seq(Results) /\ Len(Append(k.results, result)) = Len(k.results) + 1
      /\ Append(k.results, result)[Len(k.results) + 1] = result
      /\ \A i \in 1 .. Len(k.results) : Append(k.results, result)[i] = k.results[i]
  BY <1>1
<1>3. /\ n \in Reporting /\ n.user = k.user /\ n.ids = k.ids /\ n.results = Append(k.results, result)
      /\ n.pc = IF Len(k.results) + 1 = Len(k.ids) THEN "answered" ELSE "batch_get"
  BY <1>2 DEF Reporting, Pushed
<1>4. PICK m : m = n
  OBVIOUS
<1>5. Gone(m)'
  <2>1. SUFFICES ASSUME NEW i \in 1 .. Len(k.results) + 1, n.results[i] = "deleted"
                 PROVE  k.ids[i] <= madeConversations' /\ \A c \in conversations' : c.id # k.ids[i]
    BY <1>2, <1>3, <1>4 DEF Gone
  <2>2. CASE i = Len(k.results) + 1
    BY <1>2, <1>3, <2>1, <2>2
  <2>3. CASE i # Len(k.results) + 1
    <3>1. i \in 1 .. Len(k.results)
      BY <1>1, <2>3
    <3> QED BY <1>2, <1>3, <2>1, <3>1 DEF Gone
  <2> QED BY <2>2, <2>3
<1>6. IF m.pc = "answered" THEN Len(m.results) = Len(m.ids) ELSE Len(m.results) < Len(m.ids)
  BY <1>1, <1>2, <1>3, <1>4
<1>7. Loose(m)'
  BY <1>3, <1>4, <1>5, <1>6 DEF Loose
<1>8. m.pc \in {"answered", "batch_get"}
  BY <1>3, <1>4
<1>9. Strict(m)' /\ Excluded(r, m)
  BY <1>8 DEF Strict, CountOk, TargetOk, SelectionOk, Excluded
<1> QED BY <1>4, <1>7, <1>9

(* A batch deletion starts, looks a conversation up, deletes it, and answers.   *)
LEMMA BatchDeletePreserves ==
    ASSUME ConvIInv, NEW r \in Requests,
           (\E u \in Users, ids \in Batches : AskBatchDelete(r, u, ids)) \/ BatchGet(r) \/ BatchDelete(r) \/ Answered(r)
    PROVE  ConvIInv'
<1>1. ASSUME NEW u \in Users, NEW ids \in Batches, AskBatchDelete(r, u, ids) PROVE ConvIInv'
  <2> DEFINE k == [pc |-> "batch_get", user |-> u, ids |-> ids, results |-> <<>>]
  <2>1. ids \in Seq(ConversationIds) /\ Len(ids) > 0 /\ <<>> \in Seq(Results) /\ Len(<<>>) = 0
    BY BatchType
  <2>2. k \in Reporting /\ k.pc = "batch_get" /\ k.ids = ids /\ k.results = <<>>
    BY <2>1 DEF Reporting
  <2>3. req' = [req EXCEPT ![r] = k] /\ UNCHANGED <<projects, conversations, made>>
    BY <1>1 DEF AskBatchDelete, To
  <2> HIDE DEF k
  <2>4. Gone(k)
    BY <2>1, <2>2 DEF Gone
  <2>5. Loose(k)
    BY <2>1, <2>2, <2>4 DEF Loose
  <2>6. Strict(k) /\ Excluded(r, k)
    BY <2>2 DEF Strict, CountOk, TargetOk, SelectionOk, Excluded
  <2> QED BY <2>3, <2>5, <2>6, ReadingPreserves
<1>2. ASSUME BatchGet(r) \/ BatchDelete(r) PROVE ConvIInv'
  <2>0. PICK k : k = req[r]
    OBVIOUS
  <2>1. k.pc \in {"batch_get", "batch_delete"} /\ Loose(k)
    BY <1>2, <2>0 DEF BatchGet, BatchDelete, ConvIInv, RequestsOk
  <2>2. k \in Reporting /\ Gone(k) /\ Len(k.results) < Len(k.ids)
    BY <2>1, ShapeByPlace
  <2>3. UNCHANGED <<projects, made>>
    BY <1>2 DEF BatchGet, BatchDelete
  <2>4. CASE BatchGet(r)
    <3>1. UNCHANGED conversations
      BY <2>4 DEF BatchGet
    <3>2. CASE FindConversation(Current(r), req[r].user)
      <4> DEFINE n == [k EXCEPT !.pc = "batch_delete"]
      <4>1. req' = [req EXCEPT ![r] = n]
        BY <2>0, <2>4, <3>2 DEF BatchGet, To
      <4>2. n \in Reporting /\ n.pc = "batch_delete" /\ n.ids = k.ids /\ n.results = k.results
        BY <2>2 DEF Reporting
      <4> HIDE DEF n
      <4>3. Loose(n)
        BY <2>2, <4>2 DEF Loose, Gone
      <4>4. Strict(n) /\ Excluded(r, n)
        BY <4>2 DEF Strict, CountOk, TargetOk, SelectionOk, Excluded
      <4> QED BY <2>3, <3>1, <4>1, <4>3, <4>4, ReadingPreserves
    <3>3. CASE ~FindConversation(Current(r), req[r].user)
      <4>1. req' = [req EXCEPT ![r] = Pushed(k, "not_found")]
        BY <2>0, <2>4, <3>3 DEF BatchGet, Push, To, Pushed
      <4>2. Gone(k)'
        BY <2>2, <2>3, <3>1 DEF Gone, made
      <4>3. /\ (Loose(Pushed(k, "not_found")) /\ Strict(Pushed(k, "not_found")))'
            /\ Excluded(r, Pushed(k, "not_found"))
        BY <2>2, <4>2, PushedIsOk DEF Results
      <4> QED BY <2>3, <3>1, <4>1, <4>3, RemovingPreserves
    <3> QED BY <3>2, <3>3
  <2>5. CASE BatchDelete(r)
    <3> DEFINE c == k.ids[Len(k.results) + 1]
    <3>1. PICK ok \in BOOLEAN :
            /\ ok => FindConversation(c, k.user)
            /\ conversations' = IF ok THEN Without({c}) ELSE conversations
            /\ req' = [req EXCEPT ![r] = Pushed(k, Outcome(ok))]
      BY <2>0, <2>5 DEF BatchDelete, Current, Push, To, Pushed, FindConversation
    <3>2. ConversationFree(c, r)
      BY <2>0, <2>5 DEF BatchDelete, Current
    <3>3. conversations' \subseteq conversations /\ \A d \in conversations \ conversations' : ConversationFree(d.id, r)
      BY <3>1, <3>2 DEF Without
    <3>4. Outcome(ok) \in Results /\ (Outcome(ok) = "deleted" => ok)
      BY DEF Outcome, Results
    <3>5. ok => c <= madeConversations' /\ \A d \in conversations' : d.id # c
      BY <2>3, <3>1 DEF FindConversation, Without, ConvIInv, RowInv, made
    <3>6. Gone(k)'
      BY <2>2, <2>3, <3>3 DEF Gone, made
    <3>7. PICK result \in Results : result = Outcome(ok)
      BY <3>4
    <3>8. (Loose(Pushed(k, result)) /\ Strict(Pushed(k, result)))' /\ Excluded(r, Pushed(k, result))
      BY <2>2, <3>4, <3>5, <3>6, <3>7, PushedIsOk
    <3> QED BY <2>3, <3>1, <3>3, <3>7, <3>8, RemovingPreserves
  <2> QED BY <1>2, <2>4, <2>5
<1>3. CASE Answered(r)
  BY <1>3, EndingPreserves DEF Answered, To
<1> QED BY <1>1, <1>2, <1>3

(* As many rows as ids: every id of the batch has its row.                      *)
LEMMA AllSelected ==
    ASSUME ConvIInv, NEW k \in Moving, Cardinality(Sel(k)) = Len(k.ids)
    PROVE  \A i \in 1 .. Len(k.ids) : \E c \in conversations : c.id = k.ids[i] /\ c.user = k.user
<1> DEFINE n == Len(k.ids)
<1> DEFINE f == [c \in Sel(k) |-> CHOOSE i \in 1 .. n : k.ids[i] = c.id]
<1>1. k.ids \in Seq(ConversationIds) /\ n \in Nat
  BY DEF Moving
<1>2. ASSUME NEW c \in Sel(k) PROVE f[c] \in 1 .. n /\ k.ids[f[c]] = c.id
  <2>1. \E i \in 1 .. n : k.ids[i] = c.id
    BY <1>1 DEF Sel, Contains
  <2> QED BY <2>1
<1> HIDE DEF n, f
<1>3. f \in [Sel(k) -> 1 .. n]
  BY <1>2 DEF f
<1>4. ASSUME NEW c \in Sel(k), NEW d \in Sel(k), f[c] = f[d] PROVE c = d
  <2>1. c.id = d.id
    BY <1>2, <1>4
  <2> QED BY <2>1 DEF Sel, ConvIInv, RowInv
<1>5. f \in Injection(Sel(k), 1 .. n)
  BY <1>3, <1>4 DEF Injection, IsInjective
<1>6. IsFiniteSet(1 .. n) /\ Cardinality(1 .. n) = n
  <2>1. 1 \in Int /\ n \in Int
    BY <1>1
  <2>2. IsFiniteSet(1 .. n) /\ Cardinality(1 .. n) = IF 1 > n THEN 0 ELSE n - 1 + 1
    BY ONLY <2>1, FS_Interval
  <2> QED BY <1>1, <2>2
<1>7. f \in Surjection(Sel(k), 1 .. n)
  BY <1>5, <1>6, FS_Injection DEF n
<1>8. ASSUME NEW i \in 1 .. n PROVE \E c \in conversations : c.id = k.ids[i] /\ c.user = k.user
  <2>1. PICK c \in Sel(k) : f[c] = i
    BY <1>7 DEF Surjection
  <2> QED BY <1>2, <2>1 DEF Sel
<1> QED BY <1>8 DEF n

(* A batch move starts, locks its target, then its conversations.               *)
LEMMA LockingPreserves ==
    ASSUME ConvIInv, NEW r \in Requests,
           \/ \E u \in Users, ids \in Batches, p \in ProjectIds \union {None} : AskMove(r, u, ids, p)
           \/ LockTarget(r) \/ LockConversations(r)
    PROVE  ConvIInv'
<1>1. ASSUME NEW u \in Users, NEW ids \in Batches, NEW p \in ProjectIds \union {None}, AskMove(r, u, ids, p)
      PROVE  ConvIInv'
  <2> DEFINE k == [pc |-> "targeting", user |-> u, ids |-> ids, moves |-> TRUE, target |-> p]
  <2>1. k \in Moving /\ k.pc = "targeting" /\ k.user = u /\ k.target = p
    BY BatchType DEF Moving, Targets
  <2>2. /\ req' = [req EXCEPT ![r] = k] /\ UNCHANGED <<projects, conversations, made>>
        /\ p = None \/ FindProject(p, u)
    BY <1>1 DEF AskMove, To
  <2> HIDE DEF k
  <2>3. TargetKnown(k)
    BY <2>1, <2>2, FoundProject
  <2>4. Loose(k) /\ Strict(k) /\ Excluded(r, k)
    BY <2>1, <2>3 DEF Loose, Strict, CountOk, TargetOk, SelectionOk, Excluded
  <2> QED BY <2>2, <2>4, ReadingPreserves
<1>2. CASE LockTarget(r)
  <2>1. req[r].pc = "targeting" /\ UNCHANGED <<projects, conversations, made>> /\ Loose(req[r])
    BY <1>2 DEF LockTarget, ConvIInv, RequestsOk
  <2>2. CASE ~(req[r].target = None \/ FindProject(req[r].target, req[r].user))
    BY <1>2, <2>1, <2>2, EndingPreserves DEF LockTarget, To
  <2>3. CASE req[r].target = None \/ FindProject(req[r].target, req[r].user)
    <3> DEFINE k == [req[r] EXCEPT !.pc = "locking"]
    <3>1. req' = [req EXCEPT ![r] = k]
      BY <1>2, <2>3 DEF LockTarget, To
    <3>2. req[r] \in Moving
      BY <2>1, ShapeByPlace
    <3>3. k \in Moving /\ k.pc = "locking" /\ k.user = req[r].user /\ k.target = req[r].target
      BY <3>2 DEF Moving
    <3> HIDE DEF k
    <3>4. TargetKnown(k)
      BY <2>3, <3>3, FoundProject
    <3>5. Loose(k) /\ Excluded(r, k)
      BY <3>3, <3>4 DEF Loose, Excluded
    <3>6. Strict(k)
      BY <2>3, <3>3 DEF Strict, CountOk, TargetOk, SelectionOk, FindProject
    <3> QED BY <2>1, <3>1, <3>5, <3>6, ReadingPreserves
  <2> QED BY <2>2, <2>3
<1>3. CASE LockConversations(r)
  <2>1. /\ req[r].pc = "locking" /\ UNCHANGED <<projects, conversations, made>> /\ Loose(req[r]) /\ Strict(req[r])
        /\ AllFree(Selected(r), r)
    BY <1>3 DEF LockConversations, ConvIInv, RequestsOk
  <2>2. CASE ~(Cardinality(Selected(r)) = Len(req[r].ids) /\ OneSource(Selected(r)))
    BY <1>3, <2>1, <2>2, EndingPreserves DEF LockConversations, To
  <2>3. CASE Cardinality(Selected(r)) = Len(req[r].ids) /\ OneSource(Selected(r))
    <3> DEFINE k == [req[r] EXCEPT !.pc = "moving"]
    <3>1. req' = [req EXCEPT ![r] = k]
      BY <1>3, <2>3 DEF LockConversations, To
    <3>2. req[r] \in Moving /\ TargetKnown(req[r])
      BY <2>1, ShapeByPlace
    <3>3. /\ k \in Moving /\ k.pc = "moving" /\ k.user = req[r].user /\ k.target = req[r].target
          /\ k.ids = req[r].ids
      BY <3>2 DEF Moving
    <3> HIDE DEF k
    <3>4. Loose(k)
      BY <3>2, <3>3 DEF Loose, TargetKnown
    <3>5. Sel(k) = Selected(r)
      BY <3>3 DEF Sel, Selected
    <3>6. \A i \in 1 .. Len(k.ids) : \E c \in conversations : c.id = k.ids[i] /\ c.user = k.user
      BY <2>3, <3>3, <3>5, AllSelected
    <3>7. SelectionOk(k)
      BY <2>3, <3>5, <3>6 DEF SelectionOk
    <3>8. Strict(k)
      BY <2>1, <3>3, <3>7 DEF Strict, CountOk, TargetOk
    <3>9. Excluded(r, k)
      <4>1. SUFFICES ASSUME NEW q \in Requests \ {r}, req[q].pc = "moving", NEW c \in ConversationIds,
                            Contains(req[q].ids, c), Contains(k.ids, c)
                     PROVE  FALSE
        BY <3>3 DEF Excluded
      <4>2. PICK i \in 1 .. Len(k.ids) : k.ids[i] = c
        BY <4>1 DEF Contains
      <4>3. PICK d \in conversations : d.id = c /\ d.user = k.user
        BY <3>6, <4>2
      <4>4. d \in Selected(r)
        BY <4>1, <4>3, <3>5 DEF Sel
      <4>5. ConversationFree(c, r)
        BY <2>1, <4>3, <4>4 DEF AllFree
      <4> QED BY <4>1, <4>5 DEF ConversationFree
    <3> QED BY <2>1, <3>1, <3>4, <3>8, <3>9, ReadingPreserves
  <2> QED BY <2>2, <2>3
<1> QED BY <1>1, <1>2, <1>3

(* A batch of conversations is moved under its locks.                           *)
LEMMA MovePreserves == ASSUME ConvIInv, NEW r \in Requests, Move(r) PROVE ConvIInv'
<1>0. PICK k : k = req[r]
  OBVIOUS
<1>1. k.pc = "moving" /\ k \in Moving /\ TargetKnown(k) /\ Strict(k)
  BY <1>0, ShapeByPlace DEF Move, ConvIInv, RequestsOk
<1>2. req' = [req EXCEPT ![r] = Idle] /\ UNCHANGED <<projects, made>>
  BY DEF Move, To
<1>3. CASE Cardinality(Selected(r)) # Len(req[r].ids)
  BY <1>2, <1>3, EndingPreserves DEF Move
<1>4. CASE Cardinality(Selected(r)) = Len(req[r].ids)
  <2> DEFINE F(row) == IF row \in Selected(r) THEN [row EXCEPT !.project = k.target] ELSE row
  <2>1. conversations' = {F(row) : row \in conversations}
    BY <1>0, <1>4 DEF Move
  <2>2. ASSUME NEW row \in conversations
        PROVE  /\ row \in ConversationRow /\ F(row) \in ConversationRow
               /\ F(row).id = row.id /\ F(row).user = row.user
               /\ row \notin Selected(r) => F(row) = row
               /\ row \in Selected(r) => F(row).project = k.target
    <3>1. row \in ConversationRow /\ k.target \in Targets
      BY <1>1 DEF ConvIInv, RowInv, Moving
    <3> QED BY <3>1 DEF ConversationRow, Targets
  <2> HIDE DEF F
  <2>3. \A row \in Selected(r) : Contains(k.ids, row.id) /\ row.user = k.user /\ row.id \in ConversationIds
    BY <1>0 DEF Selected, ConvIInv, RowInv, ConversationRow
  <2>4. /\ conversations' \subseteq ConversationRow
        /\ \A c \in conversations' : \E d \in conversations : d.id = c.id /\ d.user = c.user
    BY <2>1, <2>2
  <2>5. \A c, d \in conversations' : c.id = d.id => c = d
    BY <2>1, <2>2 DEF ConvIInv, RowInv
  <2>6. ASSUME NEW q \in Requests \ {r}, req[q].pc = "moving"
        PROVE  /\ \A c \in conversations' : Contains(req[q].ids, c.id) => c \in conversations
               /\ \A c \in conversations : Contains(req[q].ids, c.id) => c \in conversations'
    <3>1. \A row \in Selected(r) : ~Contains(req[q].ids, row.id)
      BY <1>0, <1>1, <2>3, <2>6 DEF ConvIInv, ConversationLocks
    <3>2. \A c \in conversations : c \notin Selected(r) => c \in conversations'
      BY <2>1, <2>2
    <3>3. \A c \in conversations' : c \in conversations \/ \E row \in Selected(r) : row.id = c.id
      BY <2>1, <2>2 DEF Selected
    <3> QED BY <3>1, <3>2, <3>3
  <2>7. ProjectsAreOwn'
    <3>1. SUFFICES ASSUME NEW c \in conversations', c.project # None
                   PROVE  [id |-> c.project, user |-> c.user] \in projects
      BY <1>2 DEF ProjectsAreOwn
    <3>2. PICK row \in conversations : c = F(row)
      BY <2>1
    <3>3. CASE row \notin Selected(r)
      BY <2>2, <3>1, <3>2, <3>3 DEF ConvIInv, ProjectsAreOwn
    <3>4. CASE row \in Selected(r)
      <4>1. c.project = k.target /\ c.user = k.user
        BY <2>2, <2>3, <3>2, <3>4
      <4> QED BY <1>1, <3>1, <4>1 DEF Strict, TargetOk
    <3> QED BY <3>3, <3>4
  <2> QED BY <1>2, <2>4, <2>5, <2>6, <2>7, IdleIsOk, ChangingPreserves
<1> QED BY <1>3, <1>4

(* Every step keeps the invariant.                                              *)
LEMMA ConvStep == ASSUME ConvIInv, [Next]_vars PROVE ConvIInv'
<1>1. CASE Next
  <2>1. PICK r \in Requests : ProjectNext(r) \/ ConversationNext(r) \/ BatchNext(r) \/ Fail(r)
    BY <1>1 DEF Next
  <2>2. CASE ProjectNext(r)
    BY <2>2, CountingPreserves, InsertProjectPreserves, AimingPreserves, DeleteProjectPreserves DEF ProjectNext
  <2>3. CASE ConversationNext(r)
    BY <2>3, AimingPreserves, InsertConversationPreserves, LoadingPreserves, UpdatePreserves, DeletingPreserves
    DEF ConversationNext
  <2>4. CASE BatchNext(r)
    BY <2>4, BatchDeletePreserves, LockingPreserves, MovePreserves DEF BatchNext
  <2>5. CASE Fail(r)
    BY <2>5, EndingPreserves DEF Fail, To
  <2> QED BY <2>1, <2>2, <2>3, <2>4, <2>5
<1>2. CASE UNCHANGED vars
  BY <1>2
  DEF vars, ConvIInv, RowInv, WithinLimit, OwnProjects, ProjectsAreOwn, RequestsOk, Loose, TargetKnown, RowKnown,
      Gone, Strict, CountOk, TargetOk, SelectionOk, Sel, OneSource, UserLocks, ConversationLocks
<1> QED BY <1>1, <1>2
-----------------------------------------------------------------------------
(* Moves *)

Step(r) == ProjectNext(r) \/ ConversationNext(r) \/ BatchNext(r) \/ Fail(r)

(* A step changes one request at most.                                          *)
LEMMA OneRequestMoves ==
    ASSUME NEW s \in Requests, Step(s), NEW q \in Requests, q # s, req = [p \in Requests |-> req[p]]
    PROVE  req'[q] = req[q]
<1>1. \A k : To(s, k) => req'[q] = req[q]
  BY DEF To
<1>2. CASE ProjectNext(s) \/ Fail(s)
  BY <1>1, <1>2
  DEF ProjectNext, Fail, LockUser, CountProjects, InsertProject, AskDeleteProject, DeleteProject
<1>3. CASE ConversationNext(s)
  BY <1>1, <1>3
  DEF ConversationNext, AskCreate, InsertConversation, AskUpdate, AskDelete, Load, ReadProject, Update,
      DeleteConversation, DeleteAll
<1>4. CASE BatchNext(s)
  BY <1>1, <1>4
  DEF BatchNext, AskBatchDelete, BatchGet, BatchDelete, Answered, AskMove, LockTarget, LockConversations, Move, Push
<1> QED BY <1>2, <1>3, <1>4 DEF Step

(* Only an update and a batch move change a row of conversations.               *)
LEMMA WhoChangesRows ==
    ASSUME ConvIInv, NEW s \in Requests, Step(s), ~Update(s), ~Move(s)
    PROVE  \A c \in conversations' : c \in conversations \/ c.id > madeConversations
<1>0. madeConversations \in Nat
  BY DEF ConvIInv, RowInv
<1>1. CASE ProjectNext(s) \/ Fail(s)
  BY <1>1 DEF ProjectNext, Fail, LockUser, CountProjects, InsertProject, AskDeleteProject, DeleteProject
<1>2. CASE ConversationNext(s)
  <2>1. CASE InsertConversation(s)
    <3> DEFINE new == [id |-> madeConversations + 1, user |-> req[s].user, project |-> req[s].target,
                       pinned |-> FALSE]
    <3>1. conversations' = conversations \/ conversations' = conversations \union {new}
      BY <2>1 DEF InsertConversation
    <3>2. new.id > madeConversations
      BY <1>0
    <3> HIDE DEF new
    <3> QED BY <3>1, <3>2
  <2>2. CASE DeleteConversation(s) \/ \E u \in Users : DeleteAll(s, u)
    BY <2>2 DEF DeleteConversation, Without, DeleteAll
  <2>3. CASE ~InsertConversation(s) /\ ~DeleteConversation(s) /\ ~\E u \in Users : DeleteAll(s, u)
    BY <1>2, <2>3 DEF ConversationNext, AskCreate, AskUpdate, AskDelete, Load, ReadProject
  <2> QED BY <2>1, <2>2, <2>3
<1>3. CASE BatchNext(s)
  BY <1>3
  DEF BatchNext, AskBatchDelete, BatchGet, BatchDelete, Without, Answered, AskMove, LockTarget, LockConversations
<1> QED BY <1>1, <1>2, <1>3 DEF Step

(* Then no conversation changes project.                                        *)
LEMMA NothingMoves ==
    ASSUME ConvIInv, \A c \in conversations' : c \in conversations \/ c.id > madeConversations
    PROVE  Moved = {}
<1>1. \A d \in conversations : d.id \in Nat /\ d.id <= madeConversations
  BY ConvBounds DEF ConvIInv, RowInv, ConversationRow
<1>2. madeConversations \in Nat
  BY DEF ConvIInv, RowInv
<1>3. \A d \in conversations, c \in conversations' : c.id = d.id => c = d
  BY <1>1, <1>2 DEF ConvIInv, RowInv
<1> QED BY <1>3 DEF Moved

(* What a batch move moves: selected rows, and to its target.                   *)
LEMMA WhatMoveMoves ==
    ASSUME ConvIInv, NEW r \in Requests, Move(r), NEW row \in Moved
    PROVE  /\ row \in Selected(r) /\ Cardinality(Selected(r)) = Len(req[r].ids)
           /\ \E new \in conversations' : new.id = row.id /\ new.project = req[r].target
           /\ row.project # req[r].target
<1>1. row \in conversations
  BY DEF Moved
<1>2. PICK new \in conversations' : new.id = row.id /\ new.project # row.project
  BY DEF Moved
<1>3. CASE Cardinality(Selected(r)) # Len(req[r].ids)
  BY <1>1, <1>2, <1>3 DEF Move, ConvIInv, RowInv
<1>4. CASE Cardinality(Selected(r)) = Len(req[r].ids)
  <2> DEFINE F(c) == IF c \in Selected(r) THEN [c EXCEPT !.project = req[r].target] ELSE c
  <2>1. conversations' = {F(c) : c \in conversations}
    BY <1>4 DEF Move
  <2>2. PICK old \in conversations : new = F(old)
    BY <2>1
  <2>3. old \in ConversationRow
    BY DEF ConvIInv, RowInv
  <2>4. F(old).id = old.id /\ (old \in Selected(r) => F(old).project = req[r].target)
        /\ (old \notin Selected(r) => F(old) = old)
    BY <2>3 DEF ConversationRow
  <2> HIDE DEF F
  <2>5. old = row
    BY <1>1, <1>2, <2>2, <2>4 DEF ConvIInv, RowInv
  <2> QED BY <1>2, <1>4, <2>2, <2>4, <2>5
<1> QED BY <1>3, <1>4

(* All of the selected rows move, if one does.                                  *)
LEMMA AllMoveTogether ==
    ASSUME ConvIInv, NEW r \in Requests, Move(r), Moved # {}
    PROVE  /\ {row.id : row \in Moved} = ToSet(req[r].ids)
           /\ OneSource(Moved) /\ \A row \in Moved : row.user = req[r].user
<1>0. PICK k : k = req[r]
  OBVIOUS
<1>1. k.pc = "moving" /\ k \in Moving /\ SelectionOk(k)
  BY <1>0, ShapeByPlace DEF Move, ConvIInv, RequestsOk, Strict
<1>2. Sel(k) = Selected(r)
  BY <1>0 DEF Sel, Selected
<1>3. PICK one \in Moved : one \in Selected(r) /\ Cardinality(Selected(r)) = Len(k.ids) /\ one.project # k.target
  BY <1>0, WhatMoveMoves
<1>4. Moved \subseteq Selected(r)
  BY WhatMoveMoves
<1>5. \A a, b \in Selected(r) : a.project = b.project
  BY <1>1, <1>2 DEF SelectionOk, OneSource
<1>6. Selected(r) \subseteq Moved
  <2>1. SUFFICES ASSUME NEW c \in Selected(r) PROVE c \in Moved
    OBVIOUS
  <2>2. c \in conversations /\ c.project # k.target
    BY <1>3, <1>5 DEF Selected
  <2>3. c \in ConversationRow
    BY <2>2 DEF ConvIInv, RowInv
  <2> DEFINE new == [c EXCEPT !.project = k.target]
  <2>4. new \in conversations'
    BY <1>0, <1>3, <2>1, <2>2 DEF Move
  <2>5. new.id = c.id /\ new.project = k.target
    BY <2>3 DEF ConversationRow
  <2> HIDE DEF new
  <2> QED BY <2>2, <2>4, <2>5 DEF Moved
<1>7. Moved = Selected(r)
  BY <1>4, <1>6
<1>8. k.ids \in Seq(ConversationIds) /\ DOMAIN k.ids = 1 .. Len(k.ids)
  BY <1>1 DEF Moving
<1>9. {row.id : row \in Moved} = ToSet(k.ids)
  <2>1. \A row \in Moved : row.id \in ToSet(k.ids)
    BY <1>0, <1>7, <1>8 DEF Selected, Contains, ToSet
  <2>2. ASSUME NEW c \in ToSet(k.ids) PROVE \E row \in Moved : row.id = c
    <3>1. PICK i \in 1 .. Len(k.ids) : k.ids[i] = c
      BY <1>8 DEF ToSet
    <3>2. PICK row \in conversations : row.id = c /\ row.user = k.user
      BY <1>1, <3>1 DEF SelectionOk
    <3>3. Contains(k.ids, c)
      BY <3>1 DEF Contains
    <3> QED BY <1>0, <1>7, <3>2, <3>3 DEF Selected
  <2> QED BY <2>1, <2>2
<1> QED BY <1>0, <1>5, <1>7, <1>9 DEF OneSource, Selected

(* A step that ends a batch move and moves something moves all of the batch.    *)
LEMMA BatchStep ==
    ASSUME ConvIInv, [Next]_vars
    PROVE  \A r \in Requests : req[r].pc = "moving" /\ req'[r] = Idle /\ Moved # {} =>
             /\ {row.id : row \in Moved} = ToSet(req[r].ids)
             /\ OneSource(Moved) /\ \A row \in Moved : row.user = req[r].user
<1> SUFFICES ASSUME NEW r \in Requests, req[r].pc = "moving", req'[r] = Idle, Moved # {}
             PROVE  Move(r)
  BY AllMoveTogether
<1>1. CASE UNCHANGED vars
  BY <1>1 DEF vars, Idle
<1>2. CASE Next
  <2>1. PICK s \in Requests : Step(s)
    BY <1>2 DEF Next, Step
  <2>2. s = r
    BY <2>1, OneRequestMoves DEF Idle, ConvIInv, RowInv
  <2>3. CASE Update(r)
    BY <2>3 DEF Update
  <2>4. CASE ~Update(r) /\ ~Move(r)
    BY <2>1, <2>2, <2>4, WhoChangesRows, NothingMoves
  <2> QED BY <2>3, <2>4
<1> QED BY <1>1, <1>2

(* A step moves a conversation only for a request that names it and the target. *)
LEMMA NamedStep ==
    ASSUME ConvIInv, [Next]_vars
    PROVE  \A row \in Moved : \E r \in Requests :
             /\ req[r].pc \in {"updating", "moving"} /\ req[r].moves /\ Contains(req[r].ids, row.id)
             /\ \E new \in conversations' : new.id = row.id /\ new.project = req[r].target
<1> SUFFICES ASSUME NEW row \in Moved
             PROVE  \E r \in Requests :
                      /\ req[r].pc \in {"updating", "moving"} /\ req[r].moves /\ Contains(req[r].ids, row.id)
                      /\ \E new \in conversations' : new.id = row.id /\ new.project = req[r].target
  OBVIOUS
<1>1. CASE UNCHANGED vars
  <2>1. Moved = {}
    BY <1>1, NothingMoves DEF vars
  <2> QED BY <2>1
<1>2. CASE Next
  <2>1. PICK s \in Requests : Step(s)
    BY <1>2 DEF Next, Step
  <2>2. CASE ~Update(s) /\ ~Move(s)
    BY <2>1, <2>2, WhoChangesRows, NothingMoves
  <2>3. CASE Move(s)
    <3>1. req[s].pc = "moving" /\ req[s] \in Moving
      BY <2>3, ShapeByPlace DEF Move, ConvIInv, RequestsOk
    <3>2. req[s].moves = TRUE
      BY <3>1 DEF Moving
    <3>3. row \in Selected(s) /\ \E new \in conversations' : new.id = row.id /\ new.project = req[s].target
      BY <2>3, WhatMoveMoves
    <3> QED BY <3>1, <3>2, <3>3 DEF Selected
  <2>4. CASE Update(s)
    <3>1. req[s].pc = "updating" /\ req[s] \in Loading /\ Len(req[s].ids) = 1
      BY <2>4, ShapeByPlace DEF Update, ConvIInv, RequestsOk
    <3>2. PICK new \in conversations' : new.id = row.id /\ new.project # row.project
      BY DEF Moved
    <3>3. row \in conversations /\ row \in ConversationRow
      BY DEF Moved, ConvIInv, RowInv
    <3>4. CASE conversations' = conversations
      BY <3>2, <3>3, <3>4 DEF ConvIInv, RowInv
    <3>5. CASE conversations' # conversations
      <4>0. PICK pinned \in BOOLEAN :
              conversations' = {IF c.id = req[s].ids[1] THEN Changed(s, c, pinned) ELSE c : c \in conversations}
        BY <2>4, <3>5 DEF Update
      <4> DEFINE F(c) == IF c.id = req[s].ids[1] THEN Changed(s, c, pinned) ELSE c
      <4>1. conversations' = {F(c) : c \in conversations}
        BY <4>0
      <4>2. PICK old \in conversations : new = F(old)
        BY <4>1
      <4>3. old \in ConversationRow
        BY DEF ConvIInv, RowInv
      <4>4. /\ F(old).id = old.id
            /\ F(old).project # old.project =>
                 old.id = req[s].ids[1] /\ req[s].moves /\ F(old).project = req[s].target
        BY <4>3 DEF Changed, ConversationRow
      <4> HIDE DEF F
      <4>5. old = row
        BY <3>2, <3>3, <4>2, <4>4 DEF ConvIInv, RowInv
      <4>6. row.id = req[s].ids[1] /\ req[s].moves /\ new.project = req[s].target
        BY <3>2, <4>2, <4>4, <4>5
      <4>7. Contains(req[s].ids, row.id)
        BY <3>1, <4>6 DEF Contains
      <4> QED BY <3>1, <3>2, <4>6, <4>7
    <3> QED BY <3>4, <3>5
  <2> QED BY <2>2, <2>3, <2>4
<1> QED BY <1>1, <1>2
-----------------------------------------------------------------------------
(* Instructions *)

NoteRow == [id : Notes!Ids, user : Authors, project : Homes \union {Notes!None},
            name : Texts \union {Notes!None}, prompt : Texts, default : BOOLEAN]

\* A table of instructions: ids given out once, at most one default of a user and one
\* instruction of a project, and none of a project that is gone.
GoodNotes(N, L, n) ==
    /\ N \subseteq NoteRow /\ \A i \in N : i.id <= n
    /\ \A i, j \in N : i.id = j.id => i = j
    /\ \A i \in N : i.default => i.project = Notes!None
    /\ \A i, j \in N : i.user = j.user /\ i.default /\ j.default => i = j
    /\ \A i, j \in N : i.project = j.project /\ i.project # Notes!None => i = j
    /\ \A i \in N : i.project # Notes!None => i.project \in L

NotesInv ==
    /\ GoodNotes(notes, live, noted)
    /\ live \subseteq Homes /\ noted \in 0 .. MaxNotes
    /\ edit = [r \in Requests |-> edit[r]]

\* The requests, by how far they have come.
Given == [name : Texts, prompt : Texts, default : {"yes", "no"}]
Read(k) ==
    /\ k.user \in Authors /\ k.kind \in {"create", "update", "set_default", "delete"}
    /\ k.kind = "create" => k.body \in Given
    /\ k.kind = "update" => k.body \in Notes!Bodies /\ k.copy \in NoteRow
    /\ k.kind = "set_default" => k.copy \in NoteRow
Decided(k) ==
    /\ k.user \in Authors /\ k.kind \in {"create", "update", "set_default"}
    /\ k.final.name \in Texts \union {Notes!None} /\ k.final.prompt \in Texts /\ k.final.default \in BOOLEAN
    /\ k.kind = "set_default" => k.final.default
\* A default is cleared only for another of the same user.
Cleared(k) ==
    /\ k.cleared # {} => k.final.default
    /\ \A id \in k.cleared : id \in Nat /\ id <= noted /\ \A i \in notes : i.id = id => i.user = k.user
OfProject(k) == k.user \in Authors /\ k.project \in Homes

EditOk(k) ==
    /\ k.pc = "loaded" => Read(k)
    /\ k.pc \in {"clearing", "setting"} => Decided(k)
    /\ k.pc = "clearing" => (k.seen # {} => k.final.default)
    /\ k.pc = "setting" => Cleared(k)
    /\ k.pc = "project" => OfProject(k) /\ k.prompt \in Texts \union {Notes!None}
    /\ k.pc = "upsert" => OfProject(k) /\ k.prompt \in Texts

EditsOk == \A r \in Requests : \A k \in {edit[r]} : EditOk(k)

NotesIInv == NotesInv /\ EditsOk
-----------------------------------------------------------------------------
\* What the theorems take of the constants.
LEMMA NotesBounds ==
    /\ MaxNotes \in Nat /\ KeeperOf \in [Homes -> Authors]
    /\ Notes!Ids = 1 .. MaxNotes /\ Notes!None \notin Homes /\ Notes!Idle.pc = "idle"
BY PartsAssumption DEF PartsAssumption, Notes!InstructionsAssumption, Notes!Ids, Notes!Idle

(* Without instructions nothing is in the way of the invariant.                 *)
LEMMA NotesInit == ASSUME Notes!Init PROVE NotesIInv
<1>1. NotesInv
  BY NotesBounds DEF Notes!Init, NotesInv, GoodNotes
<1>2. EditsOk
  BY DEF Notes!Init, Notes!Idle, EditsOk, EditOk
<1> QED BY <1>1, <1>2 DEF NotesIInv

\* How the table changes in every step: rows keep id and user, new ones get new ids.
NotesEvolve ==
    /\ noted' \in Nat /\ noted <= noted'
    /\ \A j \in notes' : j.id > noted \/ \E i \in notes : i.id = j.id /\ i.user = j.user

(* What a request decided stays right.                                          *)
LEMMA EditStays == ASSUME NotesInv, NotesEvolve, NEW k, EditOk(k) PROVE EditOk(k)'
<1>1. noted \in Nat
  BY DEF NotesInv
<1>2. Cleared(k) => Cleared(k)'
  BY <1>1 DEF Cleared, NotesEvolve
<1> QED BY <1>2 DEF EditOk

(* One request moves on.                                                        *)
LEMMA EditMoves ==
    ASSUME NotesIInv, NEW r \in Requests, NEW k, edit' = [edit EXCEPT ![r] = k],
           NotesEvolve, EditOk(k)', GoodNotes(notes, live, noted)', live' \subseteq Homes, noted' \in 0 .. MaxNotes
    PROVE  NotesIInv'
<1>1. edit = [q \in Requests |-> edit[q]]
  BY DEF NotesIInv, NotesInv
<1>2. edit' = [q \in Requests |-> edit'[q]] /\ \A q \in Requests : edit'[q] = IF q = r THEN k ELSE edit[q]
  BY <1>1
<1>3. ASSUME NEW q \in Requests, NEW j, j = edit'[q] PROVE EditOk(j)'
  <2>1. CASE q = r
    BY <1>2, <1>3, <2>1
  <2>2. CASE q # r
    <3>1. EditOk(j)
      BY <1>2, <1>3, <2>2 DEF NotesIInv, EditsOk
    <3> QED BY <3>1, EditStays DEF NotesIInv
  <2> QED BY <2>1, <2>2
<1>4. NotesInv' /\ EditsOk'
  BY <1>2, <1>3 DEF NotesInv, EditsOk
<1> QED BY <1>4 DEF NotesIInv

(* A step that changes no row.                                                  *)
LEMMA EditReads ==
    ASSUME NotesIInv, NEW r \in Requests, NEW k, edit' = [edit EXCEPT ![r] = k],
           UNCHANGED <<notes, live, noted>>, EditOk(k)
    PROVE  NotesIInv'
<1>1. NotesEvolve
  BY DEF NotesEvolve, NotesIInv, NotesInv
<1>2. EditOk(k)'
  BY <1>1, EditStays DEF NotesIInv
<1>3. GoodNotes(notes, live, noted)' /\ live' \subseteq Homes /\ noted' \in 0 .. MaxNotes
  BY DEF NotesIInv, NotesInv, GoodNotes
<1> QED BY <1>1, <1>2, <1>3, EditMoves

(* A request that ends.                                                         *)
LEMMA EditEnds == EditOk(Notes!Idle) /\ EditOk(Notes!Idle)'
BY NotesBounds DEF EditOk

(* A request begins.                                                            *)
LEMMA AskPreserves ==
    ASSUME NotesIInv, NEW r \in Requests,
           \/ \E u \in Authors, n, t \in Texts, d \in {"yes", "no"} : Notes!AskCreate(r, u, n, t, d)
           \/ \E u \in Authors, b \in Notes!Bodies : Notes!AskUpdate(r, u, b)
           \/ \E u \in Authors : Notes!AskSetDefault(r, u) \/ Notes!AskDelete(r, u)
           \/ \E p \in Homes, t \in Texts \union {Notes!None} : Notes!AskProject(r, p, t)
    PROVE  NotesIInv'
<1>1. ASSUME NEW u \in Authors, NEW n \in Texts, NEW t \in Texts, NEW d \in {"yes", "no"},
             Notes!AskCreate(r, u, n, t, d)
      PROVE  NotesIInv'
  <2> DEFINE b == [name |-> n, prompt |-> t, default |-> d]
  <2> DEFINE k == [pc |-> "loaded", kind |-> "create", user |-> u, id |-> 0, body |-> b, copy |-> Notes!None]
  <2>1. edit' = [edit EXCEPT ![r] = k] /\ UNCHANGED <<notes, live, noted>>
    BY <1>1 DEF Notes!AskCreate, Notes!Begin, Notes!To
  <2>2. b \in Given
    BY DEF Given
  <2>3. k.pc = "loaded" /\ k.kind = "create" /\ k.user = u /\ k.body \in Given
    BY <2>2
  <2> HIDE DEF k
  <2>4. EditOk(k)
    BY <2>3 DEF EditOk, Read
  <2> QED BY <2>1, <2>4, EditReads
<1>2. ASSUME NEW u \in Authors, NEW kind \in {"update", "set_default", "delete"}, NEW b,
             kind = "update" => b \in Notes!Bodies, Notes!Load(r, kind, u, b)
      PROVE  NotesIInv'
  <2>1. PICK i \in Notes!Own(u) :
          edit' = [edit EXCEPT ![r] = [pc |-> "loaded", kind |-> kind, user |-> u, id |-> i.id, body |-> b, copy |-> i]]
    BY <1>2 DEF Notes!Load, Notes!Begin, Notes!To
  <2>2. i \in NoteRow /\ UNCHANGED <<notes, live, noted>>
    BY <1>2 DEF Notes!Load, Notes!Own, NotesIInv, NotesInv, GoodNotes
  <2> DEFINE k == [pc |-> "loaded", kind |-> kind, user |-> u, id |-> i.id, body |-> b, copy |-> i]
  <2>3. k.pc = "loaded" /\ k.kind = kind /\ k.user = u /\ k.body = b /\ k.copy = i /\ edit' = [edit EXCEPT ![r] = k]
    BY <2>1
  <2> HIDE DEF k
  <2>4. EditOk(k)
    BY <1>2, <2>2, <2>3 DEF EditOk, Read
  <2> QED BY <2>2, <2>3, <2>4, EditReads
<1>3. ASSUME NEW p \in Homes, NEW t \in Texts \union {Notes!None}, Notes!AskProject(r, p, t) PROVE NotesIInv'
  <2> DEFINE k == [pc |-> "project", user |-> KeeperOf[p], project |-> p, prompt |-> t]
  <2>1. edit' = [edit EXCEPT ![r] = k] /\ UNCHANGED <<notes, live, noted>>
    BY <1>3 DEF Notes!AskProject, Notes!To
  <2>2. k.pc = "project" /\ k.user \in Authors /\ k.project = p /\ k.prompt = t
    BY NotesBounds
  <2> HIDE DEF k
  <2>3. EditOk(k)
    BY <2>2 DEF EditOk, OfProject
  <2> QED BY <2>1, <2>3, EditReads
<1>4. CASE \E u \in Authors, b \in Notes!Bodies : Notes!AskUpdate(r, u, b)
  BY <1>2, <1>4 DEF Notes!AskUpdate
<1>5. CASE \E u \in Authors : Notes!AskSetDefault(r, u) \/ Notes!AskDelete(r, u)
  BY <1>2, <1>5 DEF Notes!AskSetDefault, Notes!AskDelete
<1> QED BY <1>1, <1>3, <1>4, <1>5

(* What a request has decided has the type of a row, and set_default decides    *)
(* on a default.                                                                *)
LEMMA FinalType ==
    ASSUME NEW r \in Requests, Read(edit[r]), edit[r].kind \in {"create", "update", "set_default"}
    PROVE  LET f == Notes!Final(r) IN
           /\ f.name \in Texts \union {Notes!None} /\ f.prompt \in Texts /\ f.default \in BOOLEAN
           /\ edit[r].kind = "set_default" => f.default
<1>1. CASE edit[r].kind = "create"
  <2>1. edit[r].body \in Given
    BY <1>1 DEF Read
  <2>2. Notes!Final(r) = [edit[r].body EXCEPT !.default = @ = "yes"]
    BY <1>1 DEF Notes!Final
  <2>3. (edit[r].body.default = "yes") \in BOOLEAN
    OBVIOUS
  <2> QED BY <1>1, <2>1, <2>2, <2>3 DEF Given
<1>2. CASE edit[r].kind = "update"
  <2>1. edit[r].body \in Notes!Bodies /\ edit[r].copy \in NoteRow
    BY <1>2 DEF Read
  <2>2. Notes!Final(r) = Notes!Merged(r)
    BY <1>2 DEF Notes!Final
  <2>3. Notes!Or(edit[r].body.name, edit[r].copy.name) \in Texts \union {Notes!None}
    BY <2>1 DEF Notes!Or, Notes!Bodies, NoteRow
  <2>4. Notes!Or(edit[r].body.prompt, edit[r].copy.prompt) \in Texts
    BY <2>1 DEF Notes!Or, Notes!Bodies, NoteRow
  <2>5. (edit[r].body.default = "yes") \in BOOLEAN
    OBVIOUS
  <2>6. Notes!FinalDefault(edit[r].body.default, edit[r].copy.default) \in BOOLEAN
    BY <2>1, <2>5 DEF Notes!FinalDefault, NoteRow
  <2> QED BY <1>2, <2>2, <2>3, <2>4, <2>6 DEF Notes!Merged
<1>3. CASE edit[r].kind = "set_default"
  <2>1. edit[r].copy \in NoteRow
    BY <1>3 DEF Read
  <2>2. Notes!Final(r) = [edit[r].copy EXCEPT !.default = TRUE]
    BY <1>3 DEF Notes!Final
  <2> QED BY <1>3, <2>1, <2>2 DEF NoteRow
<1> QED BY <1>1, <1>2, <1>3

(* The transaction finds the defaults to clear, and clears them.                *)
LEMMA ClearPreserves ==
    ASSUME NotesIInv, NEW r \in Requests, Notes!StartClear(r) \/ Notes!Clear(r) PROVE NotesIInv'
<1>1. CASE Notes!StartClear(r)
  <2> DEFINE f == Notes!Final(r)
  <2> DEFINE s == IF f.default THEN {i.id : i \in Notes!Defaults(edit[r].user)} \ {edit[r].id} ELSE {}
  <2> DEFINE k == [pc |-> "clearing", kind |-> edit[r].kind, user |-> edit[r].user, id |-> edit[r].id,
                   final |-> f, body |-> edit[r].body, seen |-> s]
  <2>1. edit' = [edit EXCEPT ![r] = k] /\ UNCHANGED <<notes, live, noted>>
    BY <1>1 DEF Notes!StartClear, Notes!To
  <2>2. Read(edit[r]) /\ edit[r].kind \in {"create", "update", "set_default"}
    BY <1>1 DEF Notes!StartClear, NotesIInv, EditsOk, EditOk
  <2>3. /\ f.name \in Texts \union {Notes!None} /\ f.prompt \in Texts /\ f.default \in BOOLEAN
        /\ edit[r].kind = "set_default" => f.default
    BY <2>2, FinalType
  <2>4. s # {} => f.default
    OBVIOUS
  <2> HIDE DEF f, s
  <2>5. k.pc = "clearing" /\ k.kind = edit[r].kind /\ k.user = edit[r].user /\ k.final = f /\ k.seen = s
    OBVIOUS
  <2> HIDE DEF k
  <2>6. EditOk(k)
    BY <2>2, <2>3, <2>4, <2>5 DEF EditOk, Decided, Read
  <2> QED BY <2>1, <2>6, EditReads
<1>2. CASE Notes!Clear(r)
  <2> DEFINE still == {id \in edit[r].seen : \E i \in Notes!Defaults(edit[r].user) : i.id = id}
  <2> DEFINE k == [pc |-> "setting", kind |-> edit[r].kind, user |-> edit[r].user, id |-> edit[r].id,
                   final |-> edit[r].final, body |-> edit[r].body, cleared |-> still]
  <2>1. edit' = [edit EXCEPT ![r] = k] /\ UNCHANGED <<notes, live, noted>>
    BY <1>2 DEF Notes!Clear, Notes!To, Notes!Visible
  <2>2. Decided(edit[r]) /\ (edit[r].seen # {} => edit[r].final.default)
    BY <1>2 DEF Notes!Clear, NotesIInv, EditsOk, EditOk
  <2>3. \A id \in still : id \in Nat /\ id <= noted /\ \A i \in notes : i.id = id => i.user = edit[r].user
    <3>1. SUFFICES ASSUME NEW i \in notes, i.user = edit[r].user
                   PROVE  i.id \in Nat /\ i.id <= noted /\ \A j \in notes : j.id = i.id => j.user = edit[r].user
      BY DEF Notes!Defaults, Notes!Own
    <3> QED BY <3>1, NotesBounds DEF NotesIInv, NotesInv, GoodNotes, NoteRow
  <2>4. still # {} => edit[r].final.default
    BY <2>2
  <2> HIDE DEF still
  <2>5. /\ k.pc = "setting" /\ k.kind = edit[r].kind /\ k.user = edit[r].user /\ k.final = edit[r].final
        /\ k.cleared = still
    OBVIOUS
  <2> HIDE DEF k
  <2>6. EditOk(k)
    BY <2>2, <2>3, <2>4, <2>5 DEF EditOk, Decided, Cleared
  <2> QED BY <2>1, <2>6, EditReads
<1> QED BY <1>1, <1>2

(* A table whose rows keep id, user and project, and have no default that they  *)
(* did not have, but for a user with one default.                               *)
LEMMA ChangedNotes ==
    ASSUME NEW N, NEW L, NEW n, GoodNotes(N, L, n), NEW M, M \subseteq NoteRow, NEW u,
           \A j \in M : \E i \in N : /\ i.id = j.id /\ i.user = j.user /\ i.project = j.project
                                     /\ j.default => i.default \/ (j.user = u /\ j.project = Notes!None),
           \A i, j \in M : i.id = j.id => i = j,
           \A i, j \in M : i.user = u /\ j.user = u /\ i.default /\ j.default => i.id = j.id
    PROVE  GoodNotes(M, L, n)
<1>1. \A j \in M : j.id <= n /\ (j.project # Notes!None => j.project \in L)
  BY DEF GoodNotes
<1>2. \A j \in M : j.default => j.project = Notes!None
  BY DEF GoodNotes
<1>3. \A i, j \in M : i.user = j.user /\ i.default /\ j.default => i = j
  BY DEF GoodNotes
<1>4. \A i, j \in M : i.project = j.project /\ i.project # Notes!None => i = j
  BY DEF GoodNotes
<1> QED BY <1>1, <1>2, <1>3, <1>4 DEF GoodNotes

\* What the commit of r makes of a row.
Unset(r, i) == IF i.id \in edit[r].cleared THEN [i EXCEPT !.default = FALSE] ELSE i
Written(r, i) ==
    [id |-> edit[r].id, user |-> edit[r].user, project |-> Notes!None,
     name |-> IF edit[r].kind = "set_default" THEN i.name ELSE edit[r].final.name,
     prompt |-> IF edit[r].kind = "set_default" THEN i.prompt ELSE edit[r].final.prompt,
     default |-> edit[r].final.default]
After(r, i) == IF i.id = edit[r].id THEN Written(r, i) ELSE Unset(r, i)

(* Clearing a row leaves the rest of it.                                        *)
LEMMA UnsetRow ==
    ASSUME NEW r, NEW i \in NoteRow
    PROVE  /\ Unset(r, i) \in NoteRow /\ Unset(r, i).id = i.id /\ Unset(r, i).user = i.user
           /\ Unset(r, i).project = i.project /\ Unset(r, i).name = i.name /\ Unset(r, i).prompt = i.prompt
           /\ Unset(r, i).default => i.default
           /\ i.id \notin edit[r].cleared => Unset(r, i) = i
BY DEF Unset, NoteRow

(* The table after a commit, row by row.                                        *)
LEMMA SetTable ==
    ASSUME NotesIInv, NEW r \in Requests, edit[r].pc = "setting",
           \E i \in Notes!Own(edit[r].user) : i.id = edit[r].id
    PROVE  /\ Notes!AfterSet(r, edit[r].id) = {After(r, i) : i \in notes}
           /\ \A i \in notes : /\ After(r, i) \in NoteRow /\ After(r, i).id = i.id /\ After(r, i).user = i.user
                               /\ After(r, i).project = i.project
                               /\ i.id = edit[r].id => i.user = edit[r].user /\ i.project = Notes!None
                               /\ After(r, i).default => i.default \/ i.id = edit[r].id
<1>0. Decided(edit[r])
  BY DEF NotesIInv, EditsOk, EditOk
<1>1. PICK own \in notes : own.id = edit[r].id /\ own.user = edit[r].user /\ own.project = Notes!None
  BY DEF Notes!Own
<1>2. \A i \in notes : i \in NoteRow /\ (i.id = edit[r].id => i = own)
  BY <1>1 DEF NotesIInv, NotesInv, GoodNotes
<1>3. ASSUME NEW i \in notes
      PROVE  /\ After(r, i) \in NoteRow /\ After(r, i).id = i.id /\ After(r, i).user = i.user
             /\ After(r, i).project = i.project
             /\ After(r, i).default => i.default \/ i.id = edit[r].id
  <2>1. CASE i.id = edit[r].id
    <3>1. i = own /\ After(r, i) = Written(r, i)
      BY <1>2, <2>1 DEF After
    <3>2. /\ Written(r, i).id = edit[r].id /\ Written(r, i).user = edit[r].user
          /\ Written(r, i).project = Notes!None
      BY DEF Written
    <3>3. Written(r, i) \in NoteRow
      <4>1. i \in NoteRow
        BY <1>2
      <4>2. edit[r].id \in Notes!Ids /\ edit[r].user \in Authors
        BY <1>0, <2>1, <4>1 DEF NoteRow, Decided
      <4>3. /\ (IF edit[r].kind = "set_default" THEN i.name ELSE edit[r].final.name) \in Texts \union {Notes!None}
            /\ (IF edit[r].kind = "set_default" THEN i.prompt ELSE edit[r].final.prompt) \in Texts
            /\ edit[r].final.default \in BOOLEAN
        BY <1>0, <4>1 DEF Decided, NoteRow
      <4> QED BY <4>2, <4>3 DEF Written, NoteRow
    <3> QED BY <1>1, <2>1, <3>1, <3>2, <3>3
  <2>2. CASE i.id # edit[r].id
    BY <1>2, <2>2, UnsetRow DEF After
  <2> QED BY <2>1, <2>2
<1>4. Notes!AfterSet(r, edit[r].id) = {After(r, i) : i \in notes}
  <2> DEFINE A == {Unset(r, i) : i \in {x \in notes : x.id # edit[r].id}}
  <2> DEFINE B == {Written(r, i) : i \in {x \in Notes!Own(edit[r].user) : x.id = edit[r].id}}
  <2>1. Notes!AfterSet(r, edit[r].id) = A \union B
    BY DEF Notes!AfterSet, Unset, Written
  <2>2. {x \in Notes!Own(edit[r].user) : x.id = edit[r].id} = {own}
    BY <1>1, <1>2 DEF Notes!Own
  <2>3. B = {Written(r, own)}
    BY <2>2
  <2>4. \A i \in notes : After(r, i) = IF i = own THEN Written(r, own) ELSE Unset(r, i)
    BY <1>1, <1>2 DEF After
  <2>5. A = {Unset(r, i) : i \in {x \in notes : x # own}}
    BY <1>1, <1>2
  <2> HIDE DEF A, B
  <2>6. A \union B = {After(r, i) : i \in notes}
    BY <1>1, <2>3, <2>4, <2>5
  <2> QED BY <2>1, <2>6
<1> QED BY <1>1, <1>2, <1>3, <1>4

(* An instruction is written, or everything is rolled back.                     *)
LEMMA SetPreserves == ASSUME NotesIInv, NEW r \in Requests, Notes!Set(r) PROVE NotesIInv'
<1> DEFINE new == Notes!AfterSet(r, edit[r].id)
<1>1. edit[r].pc = "setting" /\ edit' = [edit EXCEPT ![r] = Notes!Idle] /\ UNCHANGED <<live, noted>>
  BY DEF Notes!Set, Notes!To
<1>2. CASE ~((\E i \in Notes!Own(edit[r].user) : i.id = edit[r].id) /\ Notes!OneDefaultAmong(edit[r].user, new))
  BY <1>1, <1>2, EditEnds, EditReads DEF Notes!Set
<1>3. CASE (\E i \in Notes!Own(edit[r].user) : i.id = edit[r].id) /\ Notes!OneDefaultAmong(edit[r].user, new)
  <2>1. notes' = new
    BY <1>3 DEF Notes!Set
  <2> HIDE DEF new
  <2>2. notes' = {After(r, i) : i \in notes}
    BY <1>1, <1>3, <2>1, SetTable DEF new
  <2>3. \A i \in notes : /\ After(r, i) \in NoteRow /\ After(r, i).id = i.id /\ After(r, i).user = i.user
                         /\ After(r, i).project = i.project
                         /\ i.id = edit[r].id => i.user = edit[r].user /\ i.project = Notes!None
                         /\ After(r, i).default => i.default \/ i.id = edit[r].id
    BY <1>1, <1>3, SetTable
  <2>4. notes' \subseteq NoteRow /\ NotesEvolve
    BY <1>1, <2>2, <2>3 DEF NotesEvolve, NotesIInv, NotesInv
  <2>5. \A j \in notes' : \E i \in notes :
          /\ i.id = j.id /\ i.user = j.user /\ i.project = j.project
          /\ j.default => i.default \/ (j.user = edit[r].user /\ j.project = Notes!None)
    BY <2>2, <2>3
  <2>6. \A i, j \in notes' : i.id = j.id => i = j
    BY <2>2, <2>3 DEF NotesIInv, NotesInv, GoodNotes
  <2>7. \A i, j \in notes' : i.user = edit[r].user /\ j.user = edit[r].user /\ i.default /\ j.default => i.id = j.id
    BY <1>3, <2>1 DEF Notes!OneDefaultAmong
  <2>8. GoodNotes(notes', live, noted)
    BY <2>4, <2>5, <2>6, <2>7, ChangedNotes DEF NotesIInv, NotesInv
  <2>9. GoodNotes(notes, live, noted)' /\ live' \subseteq Homes /\ noted' \in 0 .. MaxNotes
    BY <1>1, <2>8 DEF GoodNotes, NotesIInv, NotesInv
  <2> QED BY <1>1, <2>4, <2>9, EditEnds, EditMoves
<1> QED BY <1>2, <1>3

\* The row that an insertion adds.
Inserted(r) ==
    [id |-> noted + 1, user |-> edit[r].user, project |-> Notes!None, name |-> edit[r].final.name,
     prompt |-> edit[r].final.prompt, default |-> edit[r].final.default]

(* The table after an insertion, row by row.                                    *)
LEMMA InsertTable ==
    ASSUME NotesIInv, NEW r \in Requests, Notes!Insert(r)
    PROVE  /\ Notes!AfterSet(r, 0) = {Unset(r, i) : i \in notes}
           /\ Inserted(r) \in NoteRow /\ Inserted(r).id = noted + 1 /\ Inserted(r).user = edit[r].user
           /\ Inserted(r).project = Notes!None /\ Inserted(r).default = edit[r].final.default
<1>1. Decided(edit[r]) /\ noted \in 0 .. MaxNotes /\ noted < MaxNotes
  BY DEF Notes!Insert, NotesIInv, NotesInv, EditsOk, EditOk
<1>2. \A i \in notes : i.id # 0
  BY NotesBounds DEF NotesIInv, NotesInv, GoodNotes, NoteRow
<1>3. {x \in notes : x.id # 0} = notes /\ {x \in Notes!Own(edit[r].user) : x.id = 0} = {}
  BY <1>2 DEF Notes!Own
<1>4. Notes!AfterSet(r, 0) = {Unset(r, i) : i \in notes}
  <2>1. Notes!AfterSet(r, 0) = {Unset(r, i) : i \in {x \in notes : x.id # 0}}
    BY <1>3 DEF Notes!AfterSet, Unset
  <2> QED BY <1>3, <2>1
<1>5. noted + 1 \in Notes!Ids
  BY <1>1, NotesBounds
<1>6. Inserted(r) \in NoteRow
  BY <1>1, <1>5 DEF Inserted, NoteRow, Decided
<1> QED BY <1>4, <1>6 DEF Inserted

(* An instruction is inserted, or everything is rolled back.                    *)
LEMMA InsertPreserves == ASSUME NotesIInv, NEW r \in Requests, Notes!Insert(r) PROVE NotesIInv'
<1> DEFINE row == Inserted(r)
<1> DEFINE new == Notes!AfterSet(r, 0) \union {row}
<1>1. /\ edit[r].pc = "setting" /\ edit' = [edit EXCEPT ![r] = Notes!Idle] /\ UNCHANGED live
      /\ noted \in Nat /\ noted < MaxNotes /\ noted' = noted + 1 /\ noted' \in 0 .. MaxNotes
      /\ notes' = IF Notes!OneDefaultAmong(edit[r].user, new) THEN new ELSE notes
  BY NotesBounds DEF Notes!Insert, Notes!To, NotesIInv, NotesInv, Inserted
<1>2. /\ Notes!AfterSet(r, 0) = {Unset(r, i) : i \in notes}
      /\ row \in NoteRow /\ row.id = noted + 1 /\ row.user = edit[r].user /\ row.project = Notes!None
  BY InsertTable
<1> DEFINE old == {Unset(r, i) : i \in notes}
<1>3. new = old \union {row}
  BY <1>2
<1> HIDE DEF row, new
<1>4. \A i \in notes : i \in NoteRow /\ i.id \in Nat /\ i.id <= noted
  BY NotesBounds DEF NotesIInv, NotesInv, GoodNotes, NoteRow
<1>5. CASE ~Notes!OneDefaultAmong(edit[r].user, new)
  <2>1. notes' = notes
    BY <1>1, <1>5
  <2>2. NotesEvolve
    BY <1>1, <2>1 DEF NotesEvolve
  <2>3. \A i \in notes' : i.id <= noted'
    BY <1>1, <1>4, <2>1
  <2>4. GoodNotes(notes, live, noted)'
    BY <1>1, <2>1, <2>3 DEF NotesIInv, NotesInv, GoodNotes
  <2> QED BY <1>1, <2>2, <2>4, EditEnds, EditMoves DEF NotesIInv, NotesInv
<1>6. CASE Notes!OneDefaultAmong(edit[r].user, new)
  <2>1. notes' = old \union {row}
    BY <1>1, <1>3, <1>6
  <2>2. \A j \in old : \E i \in notes : /\ i.id = j.id /\ i.user = j.user /\ i.project = j.project
                                        /\ j.default => i.default
    BY <1>4, UnsetRow
  <2>3. old \subseteq NoteRow /\ \A i, j \in old : i.id = j.id => i = j
    <3>1. old \subseteq NoteRow
      BY <1>4, UnsetRow
    <3>2. \A i, j \in notes : Unset(r, i).id = Unset(r, j).id => i = j
      <4>1. \A i \in notes : Unset(r, i).id = i.id
        BY <1>4, UnsetRow
      <4>2. \A i, j \in notes : i.id = j.id => i = j
        BY DEF NotesIInv, NotesInv, GoodNotes
      <4> QED BY <4>1, <4>2
    <3> QED BY <3>1, <3>2
  <2> HIDE DEF old
  <2>4. \A j \in old : j.id \in Nat /\ j.id <= noted
    BY <1>4, <2>2
  <2>5. NotesEvolve
    BY <1>1, <1>2, <2>1, <2>2 DEF NotesEvolve
  <2>6. \A i, j \in notes' : i.user = edit[r].user /\ j.user = edit[r].user /\ i.default /\ j.default => i.id = j.id
    BY <1>3, <1>6, <2>1 DEF Notes!OneDefaultAmong
  <2>7. GoodNotes(old, live, noted)
    <3>1. \A i, j \in old : i.user = edit[r].user /\ j.user = edit[r].user /\ i.default /\ j.default => i.id = j.id
      BY <2>1, <2>6
    <3>2. \A j \in old : \E i \in notes :
            /\ i.id = j.id /\ i.user = j.user /\ i.project = j.project
            /\ j.default => i.default \/ (j.user = edit[r].user /\ j.project = Notes!None)
      BY <2>2
    <3>3. GoodNotes(notes, live, noted)
      BY DEF NotesIInv, NotesInv
    <3>4. PICK M, u : M = old /\ u = edit[r].user
      OBVIOUS
    <3>5. /\ M \subseteq NoteRow /\ \A i, j \in M : i.id = j.id => i = j
          /\ \A j \in M : \E i \in notes :
               /\ i.id = j.id /\ i.user = j.user /\ i.project = j.project
               /\ j.default => i.default \/ (j.user = u /\ j.project = Notes!None)
          /\ \A i, j \in M : i.user = u /\ j.user = u /\ i.default /\ j.default => i.id = j.id
      BY <2>3, <3>1, <3>2, <3>4
    <3>6. GoodNotes(M, live, noted)
      BY <3>3, <3>5, ChangedNotes, ZenonT(40)
    <3> QED BY <3>4, <3>6
  <2>8. \A i, j \in notes' : i.id = j.id => i = j
    BY <1>1, <1>2, <2>1, <2>3, <2>4
  <2>9. notes' \subseteq NoteRow /\ \A i \in notes' : i.id <= noted'
    BY <1>1, <1>2, <2>1, <2>3, <2>4
  <2>10. \A i \in notes' : i.default => i.project = Notes!None
    BY <1>2, <2>1, <2>7 DEF GoodNotes
  <2>11. \A i, j \in notes' : i.user = j.user /\ i.default /\ j.default => i = j
    <3>1. SUFFICES ASSUME NEW i \in notes', NEW j \in notes', i.user = j.user, i.default, j.default PROVE i = j
      OBVIOUS
    <3>2. CASE i.user = edit[r].user
      BY <2>6, <2>8, <3>1, <3>2
    <3>3. CASE i.user # edit[r].user
      BY <1>2, <2>1, <2>7, <3>1, <3>3 DEF GoodNotes
    <3> QED BY <3>2, <3>3
  <2>12. \A i, j \in notes' : i.project = j.project /\ i.project # Notes!None => i = j
    BY <1>2, <2>1, <2>7 DEF GoodNotes
  <2>13. \A i \in notes' : i.project # Notes!None => i.project \in live
    BY <1>2, <2>1, <2>7 DEF GoodNotes
  <2>14. GoodNotes(notes, live, noted)'
    BY <1>1, <2>8, <2>9, <2>10, <2>11, <2>12, <2>13 DEF GoodNotes
  <2> QED BY <1>1, <2>5, <2>14, EditEnds, EditMoves DEF NotesIInv, NotesInv
<1> QED BY <1>5, <1>6

(* Instructions are deleted.                                                    *)
LEMMA FewerNotes ==
    ASSUME NEW N, NEW L, NEW n, GoodNotes(N, L, n), NEW M \in SUBSET N, NEW K,
           \A i \in M : i.project # Notes!None => i.project \in K
    PROVE  GoodNotes(M, K, n)
BY DEF GoodNotes

(* A step that deletes instructions.                                            *)
LEMMA DeletesNotes ==
    ASSUME NotesIInv, NEW r \in Requests, edit' = [edit EXCEPT ![r] = Notes!Idle],
           UNCHANGED <<live, noted>>, notes' \subseteq notes
    PROVE  NotesIInv'
<1>1. NotesEvolve
  BY DEF NotesEvolve, NotesIInv, NotesInv
<1>2. GoodNotes(notes, live, noted)
  BY DEF NotesIInv, NotesInv
<1>3. \A i \in notes' : i.project # Notes!None => i.project \in live
  BY <1>2 DEF GoodNotes
<1>4. GoodNotes(notes', live, noted)
  BY <1>2, <1>3, FewerNotes
<1>5. GoodNotes(notes, live, noted)' /\ live' \subseteq Homes /\ noted' \in 0 .. MaxNotes
  BY <1>4 DEF GoodNotes, NotesIInv, NotesInv
<1> QED BY <1>1, <1>5, EditEnds, EditMoves

(* The instruction of a project is read or deleted.                             *)
LEMMA ReadProjectNotes == ASSUME NotesIInv, NEW r \in Requests, Notes!ReadProject(r) PROVE NotesIInv'
<1>1. /\ edit[r].pc = "project" /\ UNCHANGED <<live, noted>>
      /\ edit[r].user \in Authors /\ edit[r].project \in Homes /\ edit[r].prompt \in Texts \union {Notes!None}
  BY DEF Notes!ReadProject, NotesIInv, EditsOk, EditOk, OfProject
<1>2. CASE edit[r].project \notin live \/ edit[r].prompt = Notes!None
  <2>1. notes' \subseteq notes /\ edit' = [edit EXCEPT ![r] = Notes!Idle]
    BY <1>2 DEF Notes!ReadProject, Notes!To
  <2> QED BY <1>1, <2>1, DeletesNotes
<1>3. CASE ~(edit[r].project \notin live \/ edit[r].prompt = Notes!None)
  <2> DEFINE s == {i.id : i \in Notes!ProjectRows(edit[r].project)}
  <2> DEFINE k == [pc |-> "upsert", user |-> edit[r].user, project |-> edit[r].project, prompt |-> edit[r].prompt,
                   ids |-> s]
  <2>1. edit' = [edit EXCEPT ![r] = k] /\ UNCHANGED <<notes, live, noted>>
    BY <1>1, <1>3 DEF Notes!ReadProject, Notes!To
  <2> HIDE DEF s
  <2>2. k.pc = "upsert" /\ k.user \in Authors /\ k.project \in Homes /\ k.prompt \in Texts
    BY <1>1, <1>3
  <2> HIDE DEF k
  <2>3. EditOk(k)
    BY <2>2 DEF EditOk, OfProject
  <2> QED BY <2>1, <2>3, EditReads
<1> QED BY <1>2, <1>3

(* The prompt of a project's instruction is replaced, or one is inserted.       *)
LEMMA UpsertPreserves == ASSUME NotesIInv, NEW r \in Requests, Notes!Upsert(r) PROVE NotesIInv'
<1>1. /\ edit[r].pc = "upsert" /\ UNCHANGED live /\ edit' = [edit EXCEPT ![r] = Notes!Idle]
      /\ edit[r].user \in Authors /\ edit[r].project \in Homes /\ edit[r].prompt \in Texts
  BY DEF Notes!Upsert, Notes!To, NotesIInv, EditsOk, EditOk, OfProject
<1>2. GoodNotes(notes, live, noted) /\ noted \in 0 .. MaxNotes /\ live \subseteq Homes
  BY DEF NotesIInv, NotesInv
<1>3. \A i \in notes : i \in NoteRow /\ i.id \in Nat /\ i.id <= noted
  BY <1>2, NotesBounds DEF GoodNotes, NoteRow
<1>4. CASE edit[r].ids # {}
  <2> DEFINE F(i) == IF i.id \in edit[r].ids THEN [i EXCEPT !.prompt = edit[r].prompt] ELSE i
  <2>1. notes' = {F(i) : i \in notes} /\ noted' = noted
    BY <1>4 DEF Notes!Upsert
  <2>2. ASSUME NEW i \in notes
        PROVE  /\ F(i) \in NoteRow /\ F(i).id = i.id /\ F(i).user = i.user /\ F(i).project = i.project
               /\ F(i).default = i.default
    BY <1>1, <1>3 DEF NoteRow
  <2> HIDE DEF F
  <2>3. notes' \subseteq NoteRow /\ NotesEvolve
    BY <1>2, <2>1, <2>2 DEF NotesEvolve
  <2>4. \A i, j \in notes : F(i).id = F(j).id => i = j
    BY <1>2, <2>2 DEF GoodNotes
  <2>5. \A i, j \in notes' : i.id = j.id => i = j
    BY <2>1, <2>4
  <2>6. \A j \in notes' : \E i \in notes :
          /\ i.id = j.id /\ i.user = j.user /\ i.project = j.project
          /\ j.default => i.default
    BY <2>1, <2>2
  <2>7. \A i, j \in notes' : i.user = edit[r].user /\ j.user = edit[r].user /\ i.default /\ j.default => i.id = j.id
    <3>1. \A i, j \in notes : i.user = j.user /\ i.default /\ j.default => i = j
      BY <1>2 DEF GoodNotes
    <3> QED BY <2>1, <2>2, <3>1
  <2>8. GoodNotes(notes', live, noted)
    <3>1. \A j \in notes' : \E i \in notes :
            /\ i.id = j.id /\ i.user = j.user /\ i.project = j.project
            /\ j.default => i.default \/ (j.user = edit[r].user /\ j.project = Notes!None)
      BY <2>6
    <3> QED BY <1>2, <2>3, <2>5, <2>7, <3>1, ChangedNotes
  <2>9. GoodNotes(notes, live, noted)' /\ live' \subseteq Homes /\ noted' \in 0 .. MaxNotes
    BY <1>1, <1>2, <2>1, <2>8 DEF GoodNotes
  <2> QED BY <1>1, <2>3, <2>9, EditEnds, EditMoves
<1>5. CASE edit[r].ids = {}
  <2> DEFINE row == [id |-> noted + 1, user |-> edit[r].user, project |-> edit[r].project, name |-> Notes!None,
                     prompt |-> edit[r].prompt, default |-> FALSE]
  <2>1. /\ noted < MaxNotes /\ noted' = noted + 1
        /\ notes' = IF ~Notes!MayInsertFor(edit[r].project) THEN notes ELSE notes \union {row}
    BY <1>5 DEF Notes!Upsert
  <2>2. noted + 1 \in Notes!Ids /\ noted' \in 0 .. MaxNotes /\ noted \in Nat
    BY <1>2, <2>1, NotesBounds
  <2>3. /\ row \in NoteRow /\ row.id = noted + 1 /\ row.default = FALSE /\ row.project = edit[r].project
    BY <1>1, <2>2 DEF NoteRow
  <2> HIDE DEF row
  <2>4. NotesEvolve
    BY <2>1, <2>2, <2>3 DEF NotesEvolve
  <2>5. notes' \subseteq NoteRow /\ \A i \in notes' : i.id <= noted'
    BY <1>3, <2>1, <2>2, <2>3
  <2>6. \A i, j \in notes' : i.id = j.id => i = j
    BY <1>2, <1>3, <2>1, <2>2, <2>3 DEF GoodNotes
  <2>7. /\ \A i \in notes' : i.default => i.project = Notes!None
        /\ \A i, j \in notes' : i.user = j.user /\ i.default /\ j.default => i = j
    BY <1>2, <2>1, <2>3 DEF GoodNotes
  <2>8. \A i, j \in notes' : i.project = j.project /\ i.project # Notes!None => i = j
    BY <1>2, <2>1, <2>3 DEF GoodNotes, Notes!MayInsertFor, Notes!ProjectRows
  <2>9. \A i \in notes' : i.project # Notes!None => i.project \in live
    BY <1>2, <2>1, <2>3 DEF GoodNotes, Notes!MayInsertFor
  <2>10. GoodNotes(notes, live, noted)'
    BY <1>1, <2>5, <2>6, <2>7, <2>8, <2>9 DEF GoodNotes
  <2> QED BY <1>1, <1>2, <2>2, <2>4, <2>10, EditEnds, EditMoves
<1> QED BY <1>4, <1>5

(* Deleting a project deletes its instruction.                                  *)
LEMMA DeleteProjectNotes == ASSUME NotesIInv, NEW p \in Homes, Notes!DeleteProject(p) PROVE NotesIInv'
<1>1. /\ live' = live \ {p} /\ UNCHANGED <<noted, edit>> /\ notes' \subseteq notes
      /\ \A i \in notes' : i.project # p
  BY DEF Notes!DeleteProject, Notes!ProjectRows
<1>2. GoodNotes(notes, live, noted) /\ noted \in 0 .. MaxNotes /\ live \subseteq Homes
  BY DEF NotesIInv, NotesInv
<1>3. \A i \in notes' : i.project # Notes!None => i.project \in live'
  BY <1>1, <1>2 DEF GoodNotes
<1>4. GoodNotes(notes', live', noted)
  BY <1>1, <1>2, <1>3, FewerNotes
<1>5. NotesInv'
  BY <1>1, <1>2, <1>4 DEF GoodNotes, NotesIInv, NotesInv
<1>6. NotesEvolve
  BY <1>1, <1>2 DEF NotesEvolve
<1>7. EditsOk'
  BY <1>1, <1>6, EditStays DEF NotesIInv, EditsOk
<1> QED BY <1>5, <1>7 DEF NotesIInv

(* Every step of an instruction handler keeps it.                               *)
LEMMA NotesStep == ASSUME NotesIInv, [Notes!Next]_Notes!vars PROVE NotesIInv'
<1>1. ASSUME NEW r \in Requests, Notes!InstructionNext(r) PROVE NotesIInv'
  <2>1. CASE Notes!Delete(r)
    BY <2>1, DeletesNotes DEF Notes!Delete, Notes!To
  <2> QED BY <1>1, <2>1, AskPreserves, ClearPreserves, SetPreserves, InsertPreserves DEF Notes!InstructionNext
<1>2. ASSUME NEW r \in Requests, Notes!ProjectNext(r) PROVE NotesIInv'
  BY <1>2, AskPreserves, ReadProjectNotes, UpsertPreserves DEF Notes!ProjectNext
<1>3. ASSUME NEW r \in Requests, Notes!Fail(r) PROVE NotesIInv'
  BY <1>3, EditEnds, EditReads DEF Notes!Fail, Notes!To
<1>4. ASSUME NEW p \in Homes, Notes!DeleteProject(p) PROVE NotesIInv'
  BY <1>4, DeleteProjectNotes
<1>5. CASE UNCHANGED Notes!vars
  BY <1>5
  DEF Notes!vars, NotesIInv, NotesInv, GoodNotes, EditsOk, EditOk, Read, Decided, Cleared, OfProject
<1> QED BY <1>1, <1>2, <1>3, <1>4, <1>5 DEF Notes!Next
-----------------------------------------------------------------------------
(* Defaults *)

NotesStepOf(r) == Notes!InstructionNext(r) \/ Notes!ProjectNext(r) \/ Notes!Fail(r)

(* Only a commit of an instruction takes a default away.                        *)
LEMMA WhoClears ==
    ASSUME NotesIInv, NEW r \in Requests, NotesStepOf(r), ~Notes!Set(r), ~Notes!Insert(r)
    PROVE  \A j \in notes' : j.id > noted \/ \E i \in notes : i.id = j.id /\ i.default = j.default
<1>0. noted \in Nat /\ \A i \in notes : i \in NoteRow
  BY DEF NotesIInv, NotesInv, GoodNotes
<1>1. CASE Notes!Upsert(r)
  <2>1. CASE edit[r].ids # {}
    <3> DEFINE F(i) == IF i.id \in edit[r].ids THEN [i EXCEPT !.prompt = edit[r].prompt] ELSE i
    <3>1. notes' = {F(i) : i \in notes}
      BY <1>1, <2>1 DEF Notes!Upsert
    <3>2. \A i \in notes : F(i).id = i.id /\ F(i).default = i.default
      BY <1>0 DEF NoteRow
    <3> HIDE DEF F
    <3> QED BY <3>1, <3>2
  <2>2. CASE edit[r].ids = {}
    <3> DEFINE row == [id |-> noted + 1, user |-> edit[r].user, project |-> edit[r].project, name |-> Notes!None,
                       prompt |-> edit[r].prompt, default |-> FALSE]
    <3>1. notes' = notes \/ notes' = notes \union {row}
      BY <1>1, <2>2 DEF Notes!Upsert
    <3>2. row.id > noted
      BY <1>0
    <3> HIDE DEF row
    <3> QED BY <3>1, <3>2
  <2> QED BY <2>1, <2>2
<1>2. CASE ~Notes!Upsert(r)
  <2>1. notes' \subseteq notes
    <3>1. CASE Notes!Fail(r) \/ Notes!ReadProject(r) \/ Notes!Delete(r) \/ Notes!StartClear(r) \/ Notes!Clear(r)
      BY <3>1 DEF Notes!Fail, Notes!ReadProject, Notes!Delete, Notes!StartClear, Notes!Clear, Notes!Visible
    <3>2. ASSUME NEW p, NEW t, Notes!AskProject(r, p, t) PROVE notes' \subseteq notes
      BY <3>2 DEF Notes!AskProject
    <3>3. ASSUME NEW u, NEW n, NEW t, NEW d, Notes!AskCreate(r, u, n, t, d) PROVE notes' \subseteq notes
      BY <3>3 DEF Notes!AskCreate
    <3>4. ASSUME NEW u, NEW kind, NEW b, Notes!Load(r, kind, u, b) PROVE notes' \subseteq notes
      BY <3>4 DEF Notes!Load
    <3> QED BY <1>2, <3>1, <3>2, <3>3, <3>4
            DEF NotesStepOf, Notes!InstructionNext, Notes!ProjectNext, Notes!AskUpdate, Notes!AskSetDefault,
                Notes!AskDelete
  <2> QED BY <2>1
<1> QED BY <1>1, <1>2

\* What DefaultIsHandedOver says of a step.
HandedOver ==
    \A i \in notes, j \in notes' : i.id = j.id /\ i.default /\ ~j.default =>
        \/ \E k \in notes' : k.user = i.user /\ k.default
        \/ \E r \in Requests : Notes!Commits(r, i.id) /\ edit[r].kind = "update"

(* A default is given up only to another, or by an update of it.                *)
LEMMA HandedOverStep == ASSUME NotesIInv, [Notes!Next]_Notes!vars PROVE HandedOver
<1> SUFFICES ASSUME NEW i \in notes, NEW j \in notes', i.id = j.id, i.default, ~j.default
             PROVE  \/ \E k \in notes' : k.user = i.user /\ k.default
                    \/ \E r \in Requests : Notes!Commits(r, i.id) /\ edit[r].kind = "update"
  BY DEF HandedOver
<1>1. /\ \A a, b \in notes : a.id = b.id => a = b
      /\ \A a \in notes : a \in NoteRow /\ a.id \in Nat /\ a.id <= noted
      /\ noted \in Nat
  BY NotesBounds DEF NotesIInv, NotesInv, GoodNotes, NoteRow
<1>2. CASE \A b \in notes' : b.id > noted \/ \E a \in notes : a.id = b.id /\ a.default = b.default
  BY <1>1, <1>2
<1>3. ASSUME NEW r \in Requests, Notes!Set(r) \/ Notes!Insert(r)
      PROVE  \/ \E k \in notes' : k.user = i.user /\ k.default
             \/ \E s \in Requests : Notes!Commits(s, i.id) /\ edit[s].kind = "update"
  <2>1. /\ edit[r].pc = "setting" /\ Decided(edit[r]) /\ Cleared(edit[r])
        /\ edit' = [edit EXCEPT ![r] = Notes!Idle] /\ edit = [q \in Requests |-> edit[q]]
    BY <1>3 DEF Notes!Set, Notes!Insert, Notes!To, NotesIInv, NotesInv, EditsOk, EditOk
  <2>2. edit'[r] = Notes!Idle
    BY <2>1
  <2>3. i.id \in edit[r].cleared => edit[r].final.default /\ i.user = edit[r].user
    BY <2>1 DEF Cleared
  <2>4. notes' # notes
    BY <1>1
  <2>5. CASE Notes!Set(r)
    <3>1. (\E own \in Notes!Own(edit[r].user) : own.id = edit[r].id) /\ notes' = Notes!AfterSet(r, edit[r].id)
      BY <2>4, <2>5 DEF Notes!Set
    <3>2. /\ notes' = {After(r, a) : a \in notes}
          /\ \A a \in notes : After(r, a).id = a.id /\ After(r, a).user = a.user
      BY <2>1, <3>1, SetTable
    <3>3. j = After(r, i)
      BY <1>1, <3>2
    <3>4. CASE i.id = edit[r].id
      <4>1. edit[r].kind # "set_default"
        BY <2>1, <3>3, <3>4 DEF After, Written, Decided
      <4>2. edit[r].kind = "update"
        BY <2>1, <2>5, <4>1 DEF Decided, Notes!Set
      <4> QED BY <2>1, <2>2, <3>4, <4>2 DEF Notes!Commits
    <3>5. CASE i.id # edit[r].id
      <4>1. i.id \in edit[r].cleared
        BY <1>1, <3>3, <3>5, UnsetRow DEF After
      <4>2. PICK own \in notes : own.id = edit[r].id
        BY <3>1 DEF Notes!Own
      <4>3. After(r, own) \in notes' /\ After(r, own) = Written(r, own)
        BY <3>2, <4>2 DEF After
      <4>4. Written(r, own).user = edit[r].user /\ Written(r, own).default = edit[r].final.default
        BY DEF Written
      <4> QED BY <2>3, <4>1, <4>3, <4>4
    <3> QED BY <3>4, <3>5
  <2>6. CASE Notes!Insert(r)
    <3>1. notes' = Notes!AfterSet(r, 0) \union {Inserted(r)}
      BY <2>4, <2>6 DEF Notes!Insert, Inserted
    <3>2. /\ Notes!AfterSet(r, 0) = {Unset(r, a) : a \in notes} /\ Inserted(r).id = noted + 1
          /\ Inserted(r).user = edit[r].user /\ Inserted(r).default = edit[r].final.default
      BY <2>6, InsertTable
    <3>3. \A a \in notes : Unset(r, a).id = a.id /\ (a.id \notin edit[r].cleared => Unset(r, a) = a)
      BY <1>1, UnsetRow
    <3>4. j # Inserted(r)
      BY <1>1, <3>2
    <3>5. PICK a \in notes : j = Unset(r, a)
      BY <3>1, <3>2, <3>4
    <3>6. a = i
      BY <1>1, <3>3, <3>5
    <3>7. i.id \in edit[r].cleared
      BY <3>3, <3>5, <3>6
    <3> QED BY <2>3, <3>1, <3>2, <3>7
  <2> QED BY <1>3, <2>5, <2>6
<1>4. CASE UNCHANGED Notes!vars
  BY <1>1, <1>4 DEF Notes!vars
<1>5. ASSUME NEW p \in Homes, Notes!DeleteProject(p) PROVE FALSE
  BY <1>1, <1>5 DEF Notes!DeleteProject
<1>6. CASE \E r \in Requests : NotesStepOf(r)
  BY <1>2, <1>3, <1>6, WhoClears
<1> QED BY <1>4, <1>5, <1>6 DEF Notes!Next, NotesStepOf
-----------------------------------------------------------------------------
(* One request at a time *)

OneAtATime == \A q, r \in Requests : edit[q].pc # "idle" /\ edit[r].pc # "idle" => q = r

\* The copy an update works from is the row as it still is.
Merges(k, i) ==
    /\ k.final.name = Notes!Or(k.body.name, i.name) /\ k.final.prompt = Notes!Or(k.body.prompt, i.prompt)
    /\ k.final.default = Notes!FinalDefault(k.body.default, i.default)
FreshCopy(k) ==
    k.kind = "update" =>
        /\ k.pc = "loaded" => k.copy \in notes /\ k.copy.id = k.id /\ k.copy.project = Notes!None
        /\ k.pc \in {"clearing", "setting"} =>
             \E i \in notes : i.id = k.id /\ i.project = Notes!None /\ Merges(k, i)

CopiesAreFresh == \A r \in Requests : \A k \in {edit[r]} : k.pc # "idle" => FreshCopy(k)
SerialInv == part = "serial instructions" => CopiesAreFresh

(* A step changes one request at most, and one that begins changes no row.      *)
LEMMA OneEditMoves ==
    ASSUME NotesIInv, NEW s \in Requests, NotesStepOf(s)
    PROVE  /\ \A q \in Requests \ {s} : edit'[q] = edit[q]
           /\ edit[s].pc = "idle" => UNCHANGED notes
<1>0. edit = [q \in Requests |-> edit[q]]
  BY DEF NotesIInv, NotesInv
<1>1. \A k : Notes!To(s, k) => \A q \in Requests \ {s} : edit'[q] = edit[q]
  BY <1>0 DEF Notes!To
<1>2. ASSUME NEW p, NEW t, Notes!AskProject(s, p, t)
      PROVE  (\A q \in Requests \ {s} : edit'[q] = edit[q]) /\ UNCHANGED notes
  BY <1>1, <1>2 DEF Notes!AskProject
<1>3. ASSUME NEW u, NEW n, NEW t, NEW d, Notes!AskCreate(s, u, n, t, d)
      PROVE  (\A q \in Requests \ {s} : edit'[q] = edit[q]) /\ UNCHANGED notes
  BY <1>1, <1>3 DEF Notes!AskCreate, Notes!Begin
<1>4. ASSUME NEW u, NEW kind, NEW b, Notes!Load(s, kind, u, b)
      PROVE  (\A q \in Requests \ {s} : edit'[q] = edit[q]) /\ UNCHANGED notes
  BY <1>1, <1>4 DEF Notes!Load, Notes!Begin
<1>5. CASE Notes!Fail(s) \/ Notes!ReadProject(s) \/ Notes!Upsert(s) \/ Notes!Delete(s)
  BY <1>1, <1>5 DEF Notes!Fail, Notes!ReadProject, Notes!Upsert, Notes!Delete
<1>6. CASE Notes!StartClear(s) \/ Notes!Clear(s) \/ Notes!Set(s) \/ Notes!Insert(s)
  BY <1>1, <1>6 DEF Notes!StartClear, Notes!Clear, Notes!Set, Notes!Insert
<1> QED BY <1>2, <1>3, <1>4, <1>5, <1>6
        DEF NotesStepOf, Notes!InstructionNext, Notes!ProjectNext, Notes!AskUpdate, Notes!AskSetDefault,
            Notes!AskDelete

(* The request that steps has a fresh copy after the step.                      *)
LEMMA StaysFresh ==
    ASSUME NotesIInv, NEW s \in Requests, NotesStepOf(s), edit[s].pc # "idle" => FreshCopy(edit[s]),
           NEW k, k = edit'[s], k.pc # "idle"
    PROVE  FreshCopy(k)'
<1>0. edit = [q \in Requests |-> edit[q]]
  BY DEF NotesIInv, NotesInv
<1>1. \A v : Notes!To(s, v) => k = v
  BY <1>0 DEF Notes!To
<1>2. ASSUME Notes!To(s, Notes!Idle) PROVE FALSE
  BY <1>1, <1>2, NotesBounds
<1>3. ASSUME NEW p, NEW t, Notes!AskProject(s, p, t) PROVE FreshCopy(k)'
  <2>1. k.pc = "project"
    BY <1>1, <1>3 DEF Notes!AskProject
  <2> QED BY <2>1 DEF FreshCopy
<1>4. ASSUME NEW u, NEW n, NEW t, NEW d, Notes!AskCreate(s, u, n, t, d) PROVE FreshCopy(k)'
  <2>1. k.kind = "create"
    BY <1>1, <1>4 DEF Notes!AskCreate, Notes!Begin
  <2> QED BY <2>1 DEF FreshCopy
<1>5. ASSUME NEW u, NEW kind, NEW b, Notes!Load(s, kind, u, b) PROVE FreshCopy(k)'
  <2>1. PICK i \in Notes!Own(u) : Notes!Begin(s, kind, u, i.id, b, i)
    BY <1>5 DEF Notes!Load
  <2>2. k.pc = "loaded" /\ k.copy = i /\ k.id = i.id
    BY <1>1, <2>1 DEF Notes!Begin
  <2>3. i \in notes' /\ i.project = Notes!None
    BY <1>5, <2>1 DEF Notes!Load, Notes!Own
  <2> QED BY <2>2, <2>3 DEF FreshCopy
<1>6. CASE Notes!ReadProject(s)
  <2>1. k.pc = "upsert"
    BY <1>1, <1>2, <1>6 DEF Notes!ReadProject
  <2> QED BY <2>1 DEF FreshCopy
<1>7. CASE Notes!StartClear(s)
  <2>1. /\ edit[s].pc = "loaded" /\ k.pc = "clearing" /\ k.kind = edit[s].kind /\ k.id = edit[s].id
        /\ k.final = Notes!Final(s) /\ k.body = edit[s].body /\ notes' = notes
    BY <1>1, <1>7 DEF Notes!StartClear
  <2>2. SUFFICES ASSUME k.kind = "update" PROVE \E i \in notes : i.id = k.id /\ i.project = Notes!None /\ Merges(k, i)
    BY <2>1 DEF FreshCopy, Merges
  <2>3. edit[s].copy \in notes /\ edit[s].copy.id = k.id /\ edit[s].copy.project = Notes!None
    BY <2>1, <2>2 DEF FreshCopy
  <2>4. k.final = Notes!Merged(s)
    BY <2>1, <2>2 DEF Notes!Final
  <2>5. Merges(k, edit[s].copy)
    BY <2>1, <2>4 DEF Merges, Notes!Merged
  <2> QED BY <2>3, <2>5
<1>8. CASE Notes!Clear(s)
  <2>1. /\ edit[s].pc = "clearing" /\ k.pc = "setting" /\ k.kind = edit[s].kind /\ k.id = edit[s].id
        /\ k.final = edit[s].final /\ k.body = edit[s].body /\ notes' = notes
    BY <1>1, <1>8 DEF Notes!Clear, Notes!Visible
  <2> QED BY <2>1 DEF FreshCopy, Merges
<1>9. CASE Notes!Fail(s) \/ Notes!Upsert(s) \/ Notes!Delete(s) \/ Notes!Set(s) \/ Notes!Insert(s)
  BY <1>2, <1>9 DEF Notes!Fail, Notes!Upsert, Notes!Delete, Notes!Set, Notes!Insert
<1> QED BY <1>3, <1>4, <1>5, <1>6, <1>7, <1>8, <1>9
        DEF NotesStepOf, Notes!InstructionNext, Notes!ProjectNext, Notes!AskUpdate, Notes!AskSetDefault,
            Notes!AskDelete

(* With one request at a time nothing changes the row in between.               *)
LEMMA SerialStep ==
    ASSUME NotesIInv, SerialInv, part = "serial instructions" => OneAtATime,
           [Notes!Next]_Notes!vars, [part' = part]_part
    PROVE  SerialInv'
<1> SUFFICES ASSUME part = "serial instructions", NEW q \in Requests, NEW k, k = edit'[q], k.pc # "idle"
             PROVE  FreshCopy(k)'
  BY DEF SerialInv, CopiesAreFresh
<1>0. CopiesAreFresh /\ OneAtATime
  BY DEF SerialInv
<1>1. CASE UNCHANGED Notes!vars
  BY <1>0, <1>1 DEF Notes!vars, CopiesAreFresh, FreshCopy, Merges
<1>2. ASSUME NEW p \in Homes, Notes!DeleteProject(p) PROVE FreshCopy(k)'
  <2>1. edit' = edit /\ \A i \in notes : i.project = Notes!None => i \in notes'
    BY <1>2, NotesBounds DEF Notes!DeleteProject, Notes!ProjectRows
  <2>2. FreshCopy(k)
    BY <1>0, <2>1 DEF CopiesAreFresh
  <2> QED BY <2>1, <2>2 DEF FreshCopy, Merges
<1>3. ASSUME NEW s \in Requests, NotesStepOf(s) PROVE FreshCopy(k)'
  <2>1. CASE q = s
    <3>1. edit[s].pc # "idle" => FreshCopy(edit[s])
      BY <1>0 DEF CopiesAreFresh
    <3> QED BY <1>3, <2>1, <3>1, StaysFresh
  <2>2. CASE q # s
    <3>1. edit[q] = k
      BY <1>3, <2>2, OneEditMoves
    <3>2. FreshCopy(k) /\ edit[s].pc = "idle"
      BY <1>0, <2>2, <3>1 DEF CopiesAreFresh, OneAtATime
    <3>3. notes' = notes
      BY <1>3, <3>2, OneEditMoves
    <3> QED BY <3>2, <3>3 DEF FreshCopy, Merges
  <2> QED BY <2>1, <2>2
<1> QED BY <1>1, <1>2, <1>3 DEF Notes!Next, NotesStepOf

(* Then an update writes what its body gives, and what the row has.             *)
LEMMA AskedStep ==
    ASSUME NotesIInv, CopiesAreFresh, [Notes!Next]_Notes!vars
    PROVE  [Notes!OnlyAskedChanges]_instructions
<1>0. /\ \A a, b \in notes : a.id = b.id => a = b
      /\ edit = [q \in Requests |-> edit[q]]
  BY DEF NotesIInv, NotesInv, GoodNotes
<1> SUFFICES ASSUME NEW i \in notes, NEW j \in notes', NEW r \in Requests,
                    i.id = j.id, Notes!Commits(r, i.id), edit[r].kind = "update"
             PROVE  /\ i.name # j.name => edit[r].body.name = j.name
                    /\ i.prompt # j.prompt => edit[r].body.prompt = j.prompt
                    /\ i.default # j.default => edit[r].body.default # Notes!None
  BY DEF Notes!OnlyAskedChanges
<1>1. edit[r].pc = "setting" /\ edit[r].id = i.id /\ edit'[r] = Notes!Idle
  BY DEF Notes!Commits
<1>2. CASE notes' = notes
  BY <1>0, <1>2
<1>3. ASSUME notes' # notes PROVE Notes!Set(r)
  <2>1. ~(UNCHANGED Notes!vars) /\ ~\E p \in Homes : Notes!DeleteProject(p)
    BY <1>1, NotesBounds DEF Notes!vars, Notes!DeleteProject
  <2>2. PICK s \in Requests : NotesStepOf(s)
    BY <2>1 DEF Notes!Next, NotesStepOf
  <2>3. s = r
    BY <1>1, <2>2, OneEditMoves, NotesBounds
  <2>4. Notes!InstructionNext(r) \/ Notes!ProjectNext(r)
    BY <1>3, <2>2, <2>3 DEF NotesStepOf, Notes!Fail
  <2> QED BY <1>1, <2>4
          DEF Notes!InstructionNext, Notes!ProjectNext, Notes!AskUpdate, Notes!AskSetDefault, Notes!AskDelete,
              Notes!AskProject, Notes!AskCreate, Notes!Load, Notes!ReadProject, Notes!Upsert, Notes!StartClear,
              Notes!Clear, Notes!Insert, Notes!Delete
<1>4. CASE notes' # notes
  <2>1. /\ \E own \in Notes!Own(edit[r].user) : own.id = edit[r].id
        /\ notes' = Notes!AfterSet(r, edit[r].id)
    BY <1>3, <1>4 DEF Notes!Set
  <2>2. notes' = {After(r, a) : a \in notes} /\ \A a \in notes : After(r, a).id = a.id
    BY <1>1, <2>1, SetTable
  <2>3. j = After(r, i)
    BY <1>0, <2>2
  <2>4. /\ j.name = edit[r].final.name /\ j.prompt = edit[r].final.prompt /\ j.default = edit[r].final.default
    BY <1>1, <2>3 DEF After, Written
  <2>5. Merges(edit[r], i)
    BY <1>0, <1>1 DEF CopiesAreFresh, FreshCopy
  <2> QED BY <2>4, <2>5 DEF Merges, Notes!Or, Notes!FinalDefault
<1> QED BY <1>2, <1>4
-----------------------------------------------------------------------------
(* The invariants give what the runs check *)

(* What the invariant says of conversations and their projects.                 *)
LEMMA ConversationTables ==
    ASSUME ConvIInv PROVE TypeOK /\ WithinLimit /\ ProjectsAreOwn /\ ReportedDeletedIsGone
<1>1. \A r \in Requests : Loose(req[r])
  BY DEF ConvIInv, RequestsOk
<1>2. \A r \in Requests : req[r].pc \in {"batch_get", "batch_delete"} => Len(req[r].results) < Len(req[r].ids)
  BY <1>1, ShapeByPlace
<1>3. TypeOK
  BY <1>2 DEF TypeOK, ConvIInv, RowInv, ProjectRow, ConversationRow
<1>4. ASSUME NEW r \in Requests, req[r].pc = "answered", NEW i \in DOMAIN req[r].results,
             req[r].results[i] = "deleted", NEW row \in conversations
      PROVE  row.id # req[r].ids[i]
  <2>1. req[r] \in Reporting /\ Gone(req[r])
    BY <1>1, <1>4, ShapeByPlace
  <2>2. i \in 1 .. Len(req[r].results)
    BY <1>4, <2>1 DEF Reporting
  <2> QED BY <1>4, <2>1, <2>2 DEF Gone
<1>5. ReportedDeletedIsGone
  BY <1>4 DEF ReportedDeletedIsGone
<1> QED BY <1>3, <1>5 DEF ConvIInv

(* What it says of instructions.                                                *)
LEMMA NotesTables ==
    ASSUME NotesIInv PROVE Notes!TypeOK /\ Notes!OneDefault /\ Notes!OneProjectInstruction
<1>1. GoodNotes(notes, live, noted)
  BY DEF NotesIInv, NotesInv
<1>2. Notes!TypeOK
  BY DEF NotesIInv, NotesInv, GoodNotes, NoteRow, Notes!TypeOK
<1>3. Notes!OneDefault
  BY <1>1 DEF GoodNotes, Notes!Defaults, Notes!Own, Notes!OneDefault
<1>4. Notes!OneProjectInstruction
  BY <1>1, NotesBounds DEF GoodNotes, Notes!ProjectRows, Notes!OneProjectInstruction
<1> QED BY <1>2, <1>3, <1>4

(* However requests overlap, on any number of rows: a user stays within the     *)
(* limit on projects, a conversation is in a project of its own user, what a    *)
(* batch reported as deleted is gone, and there is at most one default          *)
(* instruction of a user and one instruction of a project (conversations.rs,    *)
(* conversation_projects.rs, instructions.rs).                                  *)
THEOREM TablesSafety == Spec /\ Notes!Spec => []TablesAgree
<1>1. ConvIInv /\ NotesIInv => TablesAgree
  BY ConversationTables, NotesTables DEF TablesAgree
<1>2. Init => ConvIInv
  BY ConvInit
<1>3. ConvIInv /\ [Next]_vars => ConvIInv'
  BY ConvStep
<1>4. Notes!Init => NotesIInv
  BY NotesInit
<1>5. NotesIInv /\ [Notes!Next]_Notes!vars => NotesIInv'
  BY NotesStep
<1> QED BY <1>1, <1>2, <1>3, <1>4, <1>5, PTL DEF Spec, Notes!Spec

(* A batch moves all of its conversations or none, only named ones move, and a  *)
(* default is given up only to another or by an update of it, however requests  *)
(* overlap. While requests come one at a time, update_instruction changes what  *)
(* its body gives and nothing else.                                             *)
THEOREM ChangesSafety ==
    /\ Spec /\ Notes!Spec
    /\ [][part' = part]_part /\ [](part = "serial instructions" => OneAtATime)
    => ChangesAreAsked
<1>1. Init => ConvIInv
  BY ConvInit
<1>2. ConvIInv /\ [Next]_vars => ConvIInv'
  BY ConvStep
<1>3. Notes!Init => NotesIInv
  BY NotesInit
<1>4. NotesIInv /\ [Notes!Next]_Notes!vars => NotesIInv'
  BY NotesStep
<1>5. Notes!Init => SerialInv
  BY NotesBounds DEF Notes!Init, SerialInv, CopiesAreFresh
<1>6. /\ NotesIInv /\ SerialInv /\ (part = "serial instructions" => OneAtATime)
      /\ [Notes!Next]_Notes!vars /\ [part' = part]_part
      => SerialInv'
  BY SerialStep
<1>7. ConvIInv /\ [Next]_vars =>
        [\A r \in Requests : req[r].pc = "moving" /\ req'[r] = Idle /\ Moved # {} =>
            /\ {row.id : row \in Moved} = ToSet(req[r].ids)
            /\ OneSource(Moved) /\ \A row \in Moved : row.user = req[r].user]_vars
  BY BatchStep
<1>8. ConvIInv /\ [Next]_vars =>
        [\A row \in Moved : \E r \in Requests :
            /\ req[r].pc \in {"updating", "moving"} /\ req[r].moves /\ Contains(req[r].ids, row.id)
            /\ \E new \in conversations' : new.id = row.id /\ new.project = req[r].target]_vars
  BY NamedStep
<1>9. NotesIInv /\ [Notes!Next]_Notes!vars =>
        [\A i \in notes, j \in notes' : i.id = j.id /\ i.default /\ ~j.default =>
            \/ \E k \in notes' : k.user = i.user /\ k.default
            \/ \E r \in Requests : Notes!Commits(r, i.id) /\ edit[r].kind = "update"]_Notes!vars
  BY HandedOverStep DEF HandedOver
<1>10. NotesIInv /\ SerialInv /\ [Notes!Next]_Notes!vars =>
         [part = "serial instructions" => Notes!OnlyAskedChanges]_instructions
  BY AskedStep DEF SerialInv
<1> QED
  BY <1>1, <1>2, <1>3, <1>4, <1>5, <1>6, <1>7, <1>8, <1>9, <1>10, PTL
  DEF Spec, Notes!Spec, ChangesAreAsked, BatchMovesTogether, OnlyNamedMoves, Notes!DefaultIsHandedOver
=============================================================================
