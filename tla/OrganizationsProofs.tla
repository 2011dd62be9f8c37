-------------------------- MODULE OrganizationsProofs --------------------------
(*****************************************************************************)
(* What Organizations promises, for any number of overlapping requests,      *)
(* users, organizations, invitation codes and roles asked for; the same for  *)
(* the accounts of developers, and for projects with their secrets and       *)
(* settings.                                                                 *)
(*                                                                           *)
(* Each promise is about a transaction that acts on what its handler read    *)
(* one or two awaits earlier, so the invariant says what a request may still *)
(* rely on: the arguments its operation needs are there, and the invitation  *)
(* it is about to accept, if it is stored at all, is addressed to its caller *)
(* (CallsAreWhole). That an organization is created without members left     *)
(* from before needs NothingOutlivesOrg.                                     *)
(*                                                                           *)
(* A platform account's handler relies on rows that are never taken away     *)
(* (FormOk, TablesGrow); that a reset code writes once counts the            *)
(* confirmations that hold it (CodesInv). A project's handler relies on its  *)
(* caller's role and on ids that are not used again (EditOk, RowsMove). What *)
(* stale reads would break holds for one request at a time (SerialInv,       *)
(* VerifiedInv, ReadProjectIsCurrent).                                       *)
(*****************************************************************************)
EXTENDS MCPlatform, Sequences, FiniteSetTheorems, TLAPS

Places == {"idle", "authorized", "commit"}

\* A request past its first check has the arguments of its operation.
CallIsWhole(label, q) ==
    /\ label = "authorized" =>
         /\ q.org \in Orgs
         /\ q.op \in {"update", "remove", "invite", "uninvite", "delete_org"}
    /\ label = "commit" => q.op \in {"update", "remove", "uninvite", "accept"}
    /\ label # "idle" /\ q.op \in {"update", "remove"} => q.org \in Orgs /\ q.who \in Users
    /\ label # "idle" /\ q.op = "invite" => q.who \in Users
    /\ label # "idle" /\ q.op \in {"update", "invite"} => q.role \in AskedRoles
    /\ label # "idle" /\ q.op \in {"uninvite", "accept"} => q.code \in Codes
    /\ label # "idle" /\ q.op = "accept" =>
         /\ q.by \in Users
         /\ invites[q.code].st # "future"
         /\ Stored(q.code) => invites[q.code].email = q.by

CallsAreWhole == \A r \in Requests : CallIsWhole(pc[r], req[r])

\* The inductive invariant.
OrgInv == TypeOK /\ CallsAreWhole /\ NothingOutlivesOrg

\* No step brings back a code that was issued, or redirects an invitation.
InvitesKeep ==
    \A c \in Codes : invites[c].st # "future" =>
        /\ invites'[c].st # "future"
        /\ Stored(c)' => Stored(c) /\ invites'[c].email = invites[c].email
-----------------------------------------------------------------------------
(* An invitation that is stored has all its columns.                            *)
LEMMA StoredHasColumns ==
    ASSUME OrgInv, NEW c \in Codes
    PROVE  /\ Stored(c) => invites[c] \in Invites
           /\ invites[c].st \in {"future", "stored", "deleted"}
           /\ invites[c].st = "future" => invites[c] = NoInvite
           /\ invites[c].st = "deleted" => invites[c] = Deleted
BY DEF OrgInv, TypeOK, Invites, NoInvite, Deleted, Stored

(* Roles that are asked for are roles.                                          *)
LEMMA RoleFacts ==
    AskedRoles \subseteq Roles \union {NoRole} /\ NoRole \notin AskedRoles
    /\ NoRow \in Rows /\ Fresh \in Calls
BY OrganizationsAssumption DEF Roles, NoRole, NoRow, Rows, Fresh, Calls

(* A request that has answered asks nothing of the tables.                      *)
LEMMA IdleIsWhole == \A q : CallIsWhole("idle", q) /\ CallIsWhole("idle", q)'
BY DEF CallIsWhole

(* Requests that take no step keep what they rely on, whatever happens to the   *)
(* tables as long as codes stay issued.                                         *)
LEMMA OthersStayWhole ==
    ASSUME OrgInv, InvitesKeep, NEW s \in Requests, pc'[s] = pc[s], req'[s] = req[s]
    PROVE  CallIsWhole(pc[s], req[s])'
<1>1. CallIsWhole(pc[s], req[s])
  BY DEF OrgInv, CallsAreWhole
<1>2. pc[s] # "idle" /\ req[s].op = "accept" =>
         /\ invites'[req[s].code].st # "future"
         /\ Stored(req[s].code)' => invites'[req[s].code].email = req[s].by
  BY <1>1 DEF CallIsWhole, InvitesKeep, Stored
<1> QED BY <1>1, <1>2 DEF CallIsWhole, Stored

(* Where a step leaves its request, and where it leaves the others.             *)
LEMMA RequestsAfter ==
    ASSUME OrgInv, InvitesKeep, NEW r \in Requests, NEW label \in Places, NEW q \in Calls,
           pc' = [pc EXCEPT ![r] = label], req' = [req EXCEPT ![r] = q],
           CallIsWhole(label, q)'
    PROVE  pc' \in [Requests -> Places] /\ req' \in [Requests -> Calls] /\ CallsAreWhole'
<1>1. pc' \in [Requests -> Places] /\ req' \in [Requests -> Calls]
  BY DEF OrgInv, TypeOK, Places
<1>2. ASSUME NEW s \in Requests PROVE CallIsWhole(pc[s], req[s])'
  <2>1. CASE s = r
    <3>1. pc'[s] = label /\ req'[s] = q
      BY <2>1 DEF OrgInv, TypeOK
    <3> QED BY <3>1 DEF CallIsWhole, Stored
  <2>2. CASE s # r
    BY <2>2, OthersStayWhole DEF OrgInv, TypeOK
  <2> QED BY <2>1, <2>2
<1> QED BY <1>1, <1>2 DEF CallsAreWhole

(* A handler that only reads keeps the invariant.                               *)
LEMMA ReadPreserves ==
    ASSUME OrgInv, UNCHANGED <<orgs, member, invites>>,
           NEW r \in Requests, NEW label \in Places, NEW q \in Calls,
           Proceed(r, label, q), CallIsWhole(label, q)
    PROVE  OrgInv'
<1>1. InvitesKeep
  BY DEF InvitesKeep, Stored
<1>2. CallIsWhole(label, q)'
  BY DEF CallIsWhole, Stored
<1>3. pc' \in [Requests -> Places] /\ req' \in [Requests -> Calls] /\ CallsAreWhole'
  BY <1>1, <1>2, RequestsAfter DEF Proceed
<1>4. NothingOutlivesOrg'
  BY DEF OrgInv, NothingOutlivesOrg, IsMember, Stored
<1> QED BY <1>3, <1>4 DEF OrgInv, TypeOK, Places, IsMember

(* A handler that answers without effect keeps the invariant.                   *)
LEMMA AnswerPreserves ==
    ASSUME OrgInv, UNCHANGED <<orgs, member, invites>>, NEW r \in Requests, Answer(r)
    PROVE  OrgInv'
<1>1. Proceed(r, "idle", Fresh)
  BY DEF Answer, Proceed
<1> QED BY <1>1, ReadPreserves, IdleIsWhole, RoleFacts DEF Places

(* A transaction, after which its handler answers.                              *)
LEMMA CommitPreserves ==
    ASSUME OrgInv, InvitesKeep, NEW r \in Requests, Answer(r),
           orgs' \in [Orgs -> {"future", "live", "deleted"}],
           member' \in [Orgs -> [Users -> Rows]],
           invites' \in [Codes -> Invites \union {NoInvite, Deleted}],
           \A o \in Orgs, u \in Users : IsMember(o, u)' => member'[o][u].id > 0,
           NothingOutlivesOrg'
    PROVE  OrgInv'
<1>1. pc' \in [Requests -> Places] /\ req' \in [Requests -> Calls] /\ CallsAreWhole'
  BY RequestsAfter, IdleIsWhole, RoleFacts DEF Answer, Places
<1> QED BY <1>1 DEF OrgInv, TypeOK, Places
-----------------------------------------------------------------------------
(* The head of a handler.                                                       *)
LEMMA AskPreserves ==
    ASSUME OrgInv, NEW r \in Requests,
           \/ \E u \in Users, o \in Orgs :
                 \/ \E who \in Users, role \in AskedRoles :
                       AskUpdate(r, u, o, who, role) \/ AskInvite(r, u, o, who, role)
                 \/ \E who \in Users : AskRemove(r, u, o, who)
                 \/ \E c \in Codes : AskUninvite(r, u, o, c)
                 \/ AskDeleteOrg(r, u, o)
           \/ \E u \in Users, c \in Codes : AcceptRead(r, u, c)
    PROVE  OrgInv'
<1> USE RoleFacts
<1>1. ASSUME NEW u \in Users, NEW o \in Orgs, NEW who \in Users, NEW role \in AskedRoles,
             AskUpdate(r, u, o, who, role)
      PROVE  OrgInv'
  <2> DEFINE q == [[Fresh EXCEPT !.op = "update", !.who = who, !.role = role] EXCEPT !.by = u, !.org = o]
  <2>1. q \in Calls /\ CallIsWhole("authorized", q)
    BY DEF Fresh, Calls, CallIsWhole, Rows
  <2>2. UNCHANGED <<orgs, member, invites>> /\ Proceed(r, "authorized", q)
    BY <1>1 DEF AskUpdate, Authorize
  <2> HIDE DEF q
  <2> QED BY <2>1, <2>2, ReadPreserves DEF Places
<1>2. ASSUME NEW u \in Users, NEW o \in Orgs, NEW who \in Users, NEW role \in AskedRoles,
             AskInvite(r, u, o, who, role)
      PROVE  OrgInv'
  <2> DEFINE q == [[Fresh EXCEPT !.op = "invite", !.who = who, !.role = role] EXCEPT !.by = u, !.org = o]
  <2>1. q \in Calls /\ CallIsWhole("authorized", q)
    BY DEF Fresh, Calls, CallIsWhole, Rows
  <2>2. UNCHANGED <<orgs, member, invites>> /\ Proceed(r, "authorized", q)
    BY <1>2 DEF AskInvite, Authorize
  <2> HIDE DEF q
  <2> QED BY <2>1, <2>2, ReadPreserves DEF Places
<1>3. ASSUME NEW u \in Users, NEW o \in Orgs, NEW who \in Users,
             AskRemove(r, u, o, who)
      PROVE  OrgInv'
  <2> DEFINE q == [[Fresh EXCEPT !.op = "remove", !.who = who] EXCEPT !.by = u, !.org = o]
  <2>1. q \in Calls /\ CallIsWhole("authorized", q)
    BY DEF Fresh, Calls, CallIsWhole, Rows
  <2>2. UNCHANGED <<orgs, member, invites>> /\ Proceed(r, "authorized", q)
    BY <1>3 DEF AskRemove, Authorize
  <2> HIDE DEF q
  <2> QED BY <2>1, <2>2, ReadPreserves DEF Places
<1>4. ASSUME NEW u \in Users, NEW o \in Orgs, NEW c \in Codes,
             AskUninvite(r, u, o, c)
      PROVE  OrgInv'
  <2> DEFINE q == [[Fresh EXCEPT !.op = "uninvite", !.code = c] EXCEPT !.by = u, !.org = o]
  <2>1. q \in Calls /\ CallIsWhole("authorized", q)
    BY DEF Fresh, Calls, CallIsWhole, Rows
  <2>2. UNCHANGED <<orgs, member, invites>> /\ Proceed(r, "authorized", q)
    BY <1>4 DEF AskUninvite, Authorize
  <2> HIDE DEF q
  <2> QED BY <2>1, <2>2, ReadPreserves DEF Places
<1>5. ASSUME NEW u \in Users, NEW o \in Orgs,
             AskDeleteOrg(r, u, o)
      PROVE  OrgInv'
  <2> DEFINE q == [[Fresh EXCEPT !.op = "delete_org"] EXCEPT !.by = u, !.org = o]
  <2>1. q \in Calls /\ CallIsWhole("authorized", q)
    BY DEF Fresh, Calls, CallIsWhole, Rows
  <2>2. UNCHANGED <<orgs, member, invites>> /\ Proceed(r, "authorized", q)
    BY <1>5 DEF AskDeleteOrg, Authorize
  <2> HIDE DEF q
  <2> QED BY <2>1, <2>2, ReadPreserves DEF Places
<1>6. ASSUME NEW u \in Users, NEW c \in Codes,
             AcceptRead(r, u, c)
      PROVE  OrgInv'
  <2> DEFINE q == [Fresh EXCEPT !.op = "accept", !.by = u, !.code = c]
  <2>1. q \in Calls /\ CallIsWhole("commit", q)
    BY <1>6 DEF Fresh, Calls, CallIsWhole, Rows, AcceptRead, Stored
  <2>2. UNCHANGED <<orgs, member, invites>> /\ Proceed(r, "commit", q)
    BY <1>6 DEF AcceptRead
  <2> HIDE DEF q
  <2> QED BY <2>1, <2>2, ReadPreserves DEF Places
<1> QED BY <1>1, <1>2, <1>3, <1>4, <1>5, <1>6

(* The reads between a handler's head and its transaction.                      *)
LEMMA ReadTargetPreserves ==
    ASSUME OrgInv, NEW r \in Requests, ReadTarget(r) \/ ReadInvite(r) \/ Fail(r)
    PROVE  OrgInv'
<1>1. req[r] \in Calls /\ CallIsWhole(pc[r], req[r])
  BY DEF OrgInv, TypeOK, CallsAreWhole
<1>2. UNCHANGED <<orgs, member, invites>>
  BY DEF ReadTarget, ReadInvite, Fail
<1>3. CASE ReadTarget(r) /\ member[req[r].org][req[r].who].role # NoRole
  <2> DEFINE q == [req[r] EXCEPT !.seen = member[req[r].org][req[r].who]]
  <2>1. req[r].org \in Orgs /\ req[r].who \in Users /\ pc[r] = "authorized"
        /\ req[r].op \in {"update", "remove"}
    BY <1>1, <1>3 DEF ReadTarget, CallIsWhole
  <2>2. member[req[r].org][req[r].who] \in Rows
    BY <2>1 DEF OrgInv, TypeOK
  <2>3. q \in Calls /\ CallIsWhole("commit", q)
    BY <1>1, <2>1, <2>2 DEF Calls, CallIsWhole
  <2>4. Proceed(r, "commit", q)
    BY <1>3 DEF ReadTarget
  <2> HIDE DEF q
  <2> QED BY <1>2, <2>3, <2>4, ReadPreserves DEF Places
<1>4. CASE ReadInvite(r) /\ Proceed(r, "commit", req[r])
  <2>1. CallIsWhole("commit", req[r])
    BY <1>1, <1>4 DEF ReadInvite, CallIsWhole
  <2> QED BY <1>1, <1>2, <1>4, <2>1, ReadPreserves DEF Places
<1>5. CASE Answer(r)
  BY <1>2, <1>5, AnswerPreserves
<1> QED BY <1>3, <1>4, <1>5 DEF ReadTarget, ReadInvite, Fail
-----------------------------------------------------------------------------
(* update_membership and delete_membership change the role in one row, which    *)
(* exists, and nothing else.                                                    *)
LEMMA RowCommit ==
    ASSUME OrgInv, NEW r \in Requests, UpdateCommit(r) \/ RemoveCommit(r)
    PROVE  \/ UNCHANGED member
           \/ \E role \in AskedRoles \union {NoRole} :
                /\ req[r].org \in Orgs /\ req[r].who \in Users /\ SameRow(req[r])
                /\ ~RefusedAsLastOwner(req[r], role)
                /\ member' = [member EXCEPT ![req[r].org][req[r].who].role = role]
<1>1. CallIsWhole(pc[r], req[r])
  BY DEF OrgInv, CallsAreWhole
<1>2. CASE UpdateCommit(r)
  BY <1>1, <1>2 DEF UpdateCommit, CallIsWhole
<1>3. CASE RemoveCommit(r)
  BY <1>1, <1>3 DEF RemoveCommit, CallIsWhole
<1> QED BY <1>2, <1>3

(* Such a change keeps the invariant.                                           *)
LEMMA RowCommitPreserves ==
    ASSUME OrgInv, NEW r \in Requests, UpdateCommit(r) \/ RemoveCommit(r)
    PROVE  OrgInv'
<1>1. Answer(r) /\ UNCHANGED <<orgs, invites>>
  BY DEF UpdateCommit, RemoveCommit
<1>2. CASE UNCHANGED member
  BY <1>1, <1>2, AnswerPreserves
<1>3. CASE \E role \in AskedRoles \union {NoRole} :
             /\ req[r].org \in Orgs /\ req[r].who \in Users /\ SameRow(req[r])
             /\ ~RefusedAsLastOwner(req[r], role)
             /\ member' = [member EXCEPT ![req[r].org][req[r].who].role = role]
  <2>1. PICK role \in AskedRoles \union {NoRole} :
             /\ req[r].org \in Orgs /\ req[r].who \in Users /\ SameRow(req[r])
             /\ member' = [member EXCEPT ![req[r].org][req[r].who].role = role]
    BY <1>3
  <2>2. role \in Roles \union {NoRole}
    BY RoleFacts
  <2>3. member' \in [Orgs -> [Users -> Rows]]
    <3>1. member \in [Orgs -> [Users -> Rows]]
      BY DEF OrgInv, TypeOK
    <3>2. [member[req[r].org][req[r].who] EXCEPT !.role = role] \in Rows
      BY <2>1, <2>2, <3>1 DEF Rows
    <3> QED BY <2>1, <3>1, <3>2
  <2>4. \A o \in Orgs, u \in Users : member'[o][u].id = member[o][u].id
                                    /\ (IsMember(o, u)' => IsMember(o, u))
    BY <2>1 DEF OrgInv, TypeOK, Rows, IsMember, SameRow
  <2>5. NothingOutlivesOrg'
    BY <1>1, <2>4 DEF OrgInv, NothingOutlivesOrg, Stored
  <2>6. InvitesKeep
    BY <1>1 DEF InvitesKeep, Stored
  <2>7. \A o \in Orgs, u \in Users : IsMember(o, u)' => member'[o][u].id > 0
    BY <2>4 DEF OrgInv, TypeOK
  <2> QED BY <1>1, <2>3, <2>5, <2>6, <2>7, CommitPreserves DEF OrgInv, TypeOK
<1> QED BY <1>2, <1>3, RowCommit

(* delete_org takes its members and invitations along.                          *)
LEMMA DeleteOrgPreserves ==
    ASSUME OrgInv, NEW r \in Requests, DeleteOrgCommit(r)
    PROVE  OrgInv'
<1> DEFINE gone == req[r].org
<1>1. gone \in Orgs
  BY DEF DeleteOrgCommit, OrgInv, CallsAreWhole, CallIsWhole
<1>2. /\ Answer(r)
      /\ orgs' = [orgs EXCEPT ![gone] = "deleted"]
      /\ member' = [member EXCEPT ![gone] = [u \in Users |-> [member[gone][u] EXCEPT !.role = NoRole]]]
      /\ invites' = [c \in Codes |-> IF Stored(c) /\ invites[c].org = gone THEN Deleted ELSE invites[c]]
  BY DEF DeleteOrgCommit
<1> HIDE DEF gone
<1>3. member' \in [Orgs -> [Users -> Rows]]
  <2>1. member \in [Orgs -> [Users -> Rows]]
    BY DEF OrgInv, TypeOK
  <2>2. \A u \in Users : [member[gone][u] EXCEPT !.role = NoRole] \in Rows
    BY <1>1, <2>1 DEF Rows
  <2>3. [u \in Users |-> [member[gone][u] EXCEPT !.role = NoRole]] \in [Users -> Rows]
    BY <2>2
  <2> QED BY <1>2, <2>1, <2>3
<1>4. \A p \in Orgs, u \in Users : /\ member'[p][u].id = member[p][u].id
                                   /\ IsMember(p, u)' => p # gone /\ IsMember(p, u)
  BY <1>1, <1>2 DEF OrgInv, TypeOK, Rows, IsMember
<1>5. \A c \in Codes : \/ invites'[c] = invites[c] /\ (Stored(c) => invites[c].org # gone)
                       \/ invites'[c] = Deleted /\ invites[c].st # "future"
  BY <1>2 DEF Stored
<1>6. InvitesKeep
  BY <1>5 DEF InvitesKeep, Stored, Deleted
<1>7. \A c \in Codes : Stored(c)' => Stored(c) /\ invites'[c] = invites[c] /\ invites[c].org # gone
  BY <1>5 DEF Stored, Deleted
<1>8. \A p \in Orgs : orgs'[p] # "live" => p = gone \/ orgs[p] # "live"
  BY <1>1, <1>2 DEF OrgInv, TypeOK
<1>9. NothingOutlivesOrg'
  BY <1>4, <1>7, <1>8 DEF OrgInv, NothingOutlivesOrg, IsMember, Stored
<1>10. \A p \in Orgs, u \in Users : IsMember(p, u)' => member'[p][u].id > 0
  BY <1>4 DEF OrgInv, TypeOK, IsMember
<1>11. /\ orgs' \in [Orgs -> {"future", "live", "deleted"}]
       /\ invites' \in [Codes -> Invites \union {NoInvite, Deleted}]
  BY <1>1, <1>2 DEF OrgInv, TypeOK
<1> QED BY <1>2, <1>3, <1>6, <1>9, <1>10, <1>11, CommitPreserves

(* create_invite stores a code for an organization that exists.                 *)
LEMMA InvitePreserves ==
    ASSUME OrgInv, NEW r \in Requests, NEW c \in Codes, InviteCommit(r, c)
    PROVE  OrgInv'
<1>1. Answer(r) /\ UNCHANGED <<orgs, member>>
  BY DEF InviteCommit
<1>2. CASE ~ReferencedOrgExists(req[r].org)
  BY <1>1, <1>2, AnswerPreserves DEF InviteCommit
<1>3. CASE ReferencedOrgExists(req[r].org)
  <2> DEFINE row == [st |-> "stored", org |-> req[r].org, email |-> req[r].who, role |-> req[r].role,
                     used |-> FALSE, expired |-> FALSE]
  <2>1. row \in Invites
    BY DEF InviteCommit, OrgInv, CallsAreWhole, CallIsWhole, Invites
  <2>2. row.org = req[r].org
    OBVIOUS
  <2>3. invites' = [invites EXCEPT ![c] = row] /\ invites[c].st = "future"
    BY <1>3 DEF InviteCommit
  <2> HIDE DEF row
  <2>4. invites' \in [Codes -> Invites \union {NoInvite, Deleted}]
    BY <2>1, <2>3 DEF OrgInv, TypeOK
  <2>5. \A d \in Codes : invites'[d] = IF d = c THEN row ELSE invites[d]
    BY <2>3 DEF OrgInv, TypeOK
  <2>6. InvitesKeep
    BY <2>3, <2>5 DEF InvitesKeep, Stored
  <2>7. NothingOutlivesOrg'
    BY <1>1, <1>3, <2>2, <2>5 DEF OrgInv, NothingOutlivesOrg, IsMember, Stored, ReferencedOrgExists
  <2>8. \A o \in Orgs, u \in Users : IsMember(o, u)' => member'[o][u].id > 0
    BY <1>1 DEF OrgInv, TypeOK, IsMember
  <2> QED BY <1>1, <2>4, <2>6, <2>7, <2>8, CommitPreserves DEF OrgInv, TypeOK
<1> QED BY <1>2, <1>3

(* delete_invite removes the code it read.                                      *)
LEMMA UninvitePreserves ==
    ASSUME OrgInv, NEW r \in Requests, UninviteCommit(r)
    PROVE  OrgInv'
<1>1. req[r].code \in Codes
  BY DEF UninviteCommit, OrgInv, CallsAreWhole, CallIsWhole
<1>2. Answer(r) /\ UNCHANGED <<orgs, member>> /\ invites' = [invites EXCEPT ![req[r].code] = Deleted]
  BY DEF UninviteCommit
<1>3. invites' \in [Codes -> Invites \union {NoInvite, Deleted}]
  BY <1>2 DEF OrgInv, TypeOK
<1>4. \A d \in Codes : invites'[d] = IF d = req[r].code THEN Deleted ELSE invites[d]
  BY <1>2 DEF OrgInv, TypeOK
<1>5. InvitesKeep
  BY <1>4 DEF InvitesKeep, Stored, Deleted
<1>6. NothingOutlivesOrg'
  BY <1>2, <1>4 DEF OrgInv, NothingOutlivesOrg, IsMember, Stored, Deleted
<1>7. \A o \in Orgs, u \in Users : IsMember(o, u)' => member'[o][u].id > 0
  BY <1>2 DEF OrgInv, TypeOK, IsMember
<1> QED BY <1>2, <1>3, <1>5, <1>6, <1>7, CommitPreserves DEF OrgInv, TypeOK

(* accept_invite_transaction: what both its tables are afterwards.              *)
LEMMA AcceptTables ==
    ASSUME OrgInv, NEW r \in Requests, AcceptCommit(r)
    PROVE  \/ UNCHANGED <<member, invites>>
           \/ LET u == req[r].by
                  c == req[r].code
                  o == invites[c].org
              IN  /\ u \in Users /\ c \in Codes /\ o \in Orgs
                  /\ MarksAsUsed(c) /\ Inserts(u, o)
                  /\ invites[c] \in Invites /\ invites[c].email = u
                  /\ member' = [member EXCEPT ![o][u] = [id |-> member[o][u].id + 1,
                                                         role |-> invites[c].role]]
                  /\ invites' = [invites EXCEPT ![c].used = TRUE]
<1>1. /\ req[r].by \in Users /\ req[r].code \in Codes
      /\ Stored(req[r].code) => invites[req[r].code].email = req[r].by
  BY DEF AcceptCommit, OrgInv, CallsAreWhole, CallIsWhole
<1>2. MarksAsUsed(req[r].code) => invites[req[r].code] \in Invites
  BY <1>1, StoredHasColumns DEF MarksAsUsed
<1>3. MarksAsUsed(req[r].code) => invites[req[r].code].org \in Orgs /\ Stored(req[r].code)
  BY <1>2 DEF Invites, MarksAsUsed
<1>4. \/ UNCHANGED <<member, invites>>
      \/ /\ MarksAsUsed(req[r].code) /\ Inserts(req[r].by, invites[req[r].code].org)
         /\ member' = [member EXCEPT ![invites[req[r].code].org][req[r].by] =
                         [id |-> member[invites[req[r].code].org][req[r].by].id + 1,
                          role |-> invites[req[r].code].role]]
         /\ invites' = [invites EXCEPT ![req[r].code].used = TRUE]
  BY <1>1, <1>3 DEF AcceptCommit, OrgInv, TypeOK
<1> QED BY <1>1, <1>2, <1>3, <1>4

(* Accepting an invitation keeps the invariant.                                 *)
LEMMA AcceptPreserves ==
    ASSUME OrgInv, NEW r \in Requests, AcceptCommit(r)
    PROVE  OrgInv'
<1> DEFINE u == req[r].by
           c == req[r].code
           o == invites[c].org
<1>1. Answer(r) /\ UNCHANGED orgs
  BY DEF AcceptCommit
<1>2. CASE UNCHANGED <<member, invites>>
  BY <1>1, <1>2, AnswerPreserves
<1>3. CASE /\ u \in Users /\ c \in Codes /\ o \in Orgs
           /\ MarksAsUsed(c) /\ Inserts(u, o)
           /\ invites[c] \in Invites /\ invites[c].email = u
           /\ member' = [member EXCEPT ![o][u] = [id |-> member[o][u].id + 1,
                                                  role |-> invites[c].role]]
           /\ invites' = [invites EXCEPT ![c].used = TRUE]
  <2>1. o \in Orgs /\ orgs[o] = "live"
    BY <1>3 DEF Inserts, ReferencedOrgExists
  <2>2. [id |-> member[o][u].id + 1, role |-> invites[c].role] \in Rows
    <3>1. member[o][u] \in Rows
      BY <1>3 DEF OrgInv, TypeOK
    <3>2. invites[c].role \in AskedRoles
      BY <1>3 DEF Invites
    <3> QED BY <3>1, <3>2, RoleFacts, SMTT(30) DEF Rows
  <2>3. member' \in [Orgs -> [Users -> Rows]]
    BY <1>3, <2>2 DEF OrgInv, TypeOK
  <2>4. [invites[c] EXCEPT !.used = TRUE] \in Invites
    BY <1>3 DEF Invites
  <2>5. invites' \in [Codes -> Invites \union {NoInvite, Deleted}]
    BY <1>3, <2>4 DEF OrgInv, TypeOK
  <2>6. \A d \in Codes : invites'[d] = IF d = c THEN [invites[c] EXCEPT !.used = TRUE] ELSE invites[d]
    BY <1>3 DEF OrgInv, TypeOK
  <2>7. \A d \in Codes : invites'[d].st = invites[d].st
                        /\ (Stored(d) => invites'[d].org = invites[d].org
                                         /\ invites'[d].email = invites[d].email)
    <3>1. /\ [invites[c] EXCEPT !.used = TRUE].st = invites[c].st
          /\ [invites[c] EXCEPT !.used = TRUE].org = invites[c].org
          /\ [invites[c] EXCEPT !.used = TRUE].email = invites[c].email
      BY <1>3 DEF Invites
    <3> QED BY <2>6, <3>1
  <2>8. InvitesKeep
    BY <2>7 DEF InvitesKeep, Stored
  <2>9. \A p \in Orgs, v \in Users : IF p = o /\ v = u THEN member'[p][v].id = member[o][u].id + 1
                                                      ELSE member'[p][v] = member[p][v]
    BY <1>3 DEF OrgInv, TypeOK
  <2>10. NothingOutlivesOrg'
    BY <1>1, <2>1, <2>7, <2>9 DEF OrgInv, NothingOutlivesOrg, IsMember, Stored
  <2>11. member[o][u].id \in Nat
    BY <1>3 DEF OrgInv, TypeOK, Rows
  <2>12. \A p \in Orgs, v \in Users : IsMember(p, v)' => member'[p][v].id > 0
    BY <2>9, <2>11 DEF OrgInv, TypeOK, IsMember
  <2> QED BY <1>1, <2>3, <2>5, <2>8, <2>10, <2>12, CommitPreserves DEF OrgInv, TypeOK
<1> QED BY <1>2, <1>3, AcceptTables

(* create_org makes one owner of an organization that had nobody, and an        *)
(* invitation that expires keeps its other columns.                             *)
LEMMA OtherStepsPreserve ==
    ASSUME OrgInv, \/ \E u \in Users, o \in Orgs : CreateOrg(u, o)
                   \/ \E c \in Codes : InviteExpires(c)
                   \/ UNCHANGED vars
    PROVE  OrgInv'
<1>1. ASSUME NEW u \in Users, NEW o \in Orgs, CreateOrg(u, o)
      PROVE  OrgInv'
  <2>1. /\ orgs[o] = "future" /\ orgs' = [orgs EXCEPT ![o] = "live"]
        /\ member' = [member EXCEPT ![o][u] = [id |-> 1, role |-> "owner"]]
        /\ UNCHANGED <<invites, pc, req>>
    BY <1>1 DEF CreateOrg
  <2>2. [id |-> 1, role |-> "owner"] \in Rows
    BY DEF Rows, Roles
  <2>3. member' \in [Orgs -> [Users -> Rows]] /\ orgs' \in [Orgs -> {"future", "live", "deleted"}]
    BY <2>1, <2>2 DEF OrgInv, TypeOK
  <2>4. \A p \in Orgs, v \in Users :
          member'[p][v] = IF p = o /\ v = u THEN [id |-> 1, role |-> "owner"] ELSE member[p][v]
    BY <2>1 DEF OrgInv, TypeOK
  <2>5. \A p \in Orgs, v \in Users : IsMember(p, v)' => member'[p][v].id > 0
    BY <2>4 DEF OrgInv, TypeOK, IsMember
  <2>6. \A p \in Orgs : orgs'[p] # "live" => p # o /\ orgs[p] # "live"
    BY <2>1 DEF OrgInv, TypeOK
  <2>7. NothingOutlivesOrg'
    BY <2>1, <2>4, <2>6 DEF OrgInv, NothingOutlivesOrg, IsMember, Stored
  <2>8. InvitesKeep
    BY <2>1 DEF InvitesKeep, Stored
  <2>9. CallsAreWhole'
    BY <2>1, <2>8, OthersStayWhole DEF CallsAreWhole
  <2> QED BY <2>1, <2>3, <2>5, <2>7, <2>9 DEF OrgInv, TypeOK
<1>2. ASSUME NEW c \in Codes, InviteExpires(c)
      PROVE  OrgInv'
  <2>1. /\ Stored(c) /\ invites' = [invites EXCEPT ![c].expired = TRUE]
        /\ UNCHANGED <<orgs, member, pc, req>>
    BY <1>2 DEF InviteExpires
  <2>2. invites[c] \in Invites
    BY <2>1, StoredHasColumns
  <2>3. [invites[c] EXCEPT !.expired = TRUE] \in Invites
    BY <2>2 DEF Invites
  <2>4. invites' \in [Codes -> Invites \union {NoInvite, Deleted}]
    BY <2>1, <2>3 DEF OrgInv, TypeOK
  <2>5. \A d \in Codes : invites'[d] = IF d = c THEN [invites[c] EXCEPT !.expired = TRUE] ELSE invites[d]
    BY <2>1 DEF OrgInv, TypeOK
  <2>6. \A d \in Codes : /\ invites'[d].st = invites[d].st
                         /\ Stored(d) => /\ invites'[d].org = invites[d].org
                                         /\ invites'[d].email = invites[d].email
    BY <2>2, <2>5 DEF Invites
  <2>7. InvitesKeep
    BY <2>6 DEF InvitesKeep, Stored
  <2>8. CallsAreWhole'
    BY <2>1, <2>7, OthersStayWhole DEF CallsAreWhole
  <2>9. NothingOutlivesOrg'
    BY <2>1, <2>6 DEF OrgInv, NothingOutlivesOrg, IsMember, Stored
  <2> QED BY <2>1, <2>4, <2>8, <2>9 DEF OrgInv, TypeOK, IsMember
<1>3. CASE UNCHANGED vars
  <2>1. UNCHANGED <<orgs, member, invites, pc, req>>
    BY <1>3 DEF vars
  <2>2. InvitesKeep
    BY <2>1 DEF InvitesKeep, Stored
  <2>3. CallsAreWhole'
    BY <2>1, <2>2, OthersStayWhole DEF CallsAreWhole
  <2> QED BY <2>1, <2>3 DEF OrgInv, TypeOK, NothingOutlivesOrg, IsMember, Stored
<1> QED BY <1>1, <1>2, <1>3

(* The invariant holds of the empty tables.                                     *)
LEMMA OrgInit == Init => OrgInv
<1> SUFFICES ASSUME Init PROVE OrgInv
  OBVIOUS
<1>1. \A o \in Orgs, u \in Users : member[o][u] = NoRow
  BY DEF Init
<1>2. TypeOK
  <2>1. NoRow \in Rows /\ Fresh \in Calls
    BY RoleFacts
  <2>2. \A o \in Orgs, u \in Users : ~IsMember(o, u)
    BY <1>1 DEF IsMember, NoRow
  <2> QED BY <2>1, <2>2 DEF Init, TypeOK
<1>3. CallsAreWhole
  BY IdleIsWhole DEF Init, CallsAreWhole
<1>4. NothingOutlivesOrg
  BY <1>1 DEF Init, NothingOutlivesOrg, IsMember, NoRow, Stored, NoInvite
<1> QED BY <1>2, <1>3, <1>4 DEF OrgInv

(* Every step keeps the invariant.                                              *)
LEMMA OrgStep == OrgInv /\ [Next]_vars => OrgInv'
<1>1. ASSUME OrgInv, NEW r \in Requests, RequestStep(r) PROVE OrgInv'
  BY <1>1, AskPreserves, ReadTargetPreserves, RowCommitPreserves, DeleteOrgPreserves,
     InvitePreserves, UninvitePreserves, AcceptPreserves
     DEF RequestStep
<1> QED BY <1>1, OtherStepsPreserve DEF Next

(* Hence every behaviour keeps it.                                              *)
LEMMA OrgInvariant == Spec => []OrgInv
BY OrgInit, OrgStep, PTL DEF Spec
-----------------------------------------------------------------------------
(* A step that changes a membership row is one of four: create_org, one of the  *)
(* two changes to a row, delete_org, or the acceptance of an invitation.        *)
LEMMA WhoChangesMembers ==
    ASSUME OrgInv, Next
    PROVE  \/ UNCHANGED member
           \/ \E u \in Users, o \in Orgs : CreateOrg(u, o)
           \/ \E r \in Requests : \/ UpdateCommit(r) \/ RemoveCommit(r)
                                  \/ DeleteOrgCommit(r) \/ AcceptCommit(r)
<1>1. ASSUME NEW r \in Requests, RequestStep(r)
      PROVE  \/ UNCHANGED member
             \/ UpdateCommit(r) \/ RemoveCommit(r) \/ DeleteOrgCommit(r) \/ AcceptCommit(r)
  <2>1. ASSUME NEW u \in Users, NEW o \in Orgs, NEW q, Authorize(r, u, o, q)
        PROVE  UNCHANGED member
    BY <2>1 DEF Authorize
  <2>2. CASE \E u \in Users, o \in Orgs :
                \/ \E who \in Users, role \in AskedRoles :
                      AskUpdate(r, u, o, who, role) \/ AskInvite(r, u, o, who, role)
                \/ \E who \in Users : AskRemove(r, u, o, who)
                \/ \E c \in Codes : AskUninvite(r, u, o, c)
                \/ AskDeleteOrg(r, u, o)
    BY <2>1, <2>2 DEF AskUpdate, AskInvite, AskRemove, AskUninvite, AskDeleteOrg
  <2>3. CASE \/ \E u \in Users, c \in Codes : AcceptRead(r, u, c)
             \/ \E c \in Codes : InviteCommit(r, c)
             \/ ReadTarget(r) \/ ReadInvite(r) \/ UninviteCommit(r) \/ Fail(r)
    BY <2>3 DEF AcceptRead, InviteCommit, ReadTarget, ReadInvite, UninviteCommit, Fail
  <2> QED BY <1>1, <2>2, <2>3 DEF RequestStep
<1> QED BY <1>1 DEF Next, InviteExpires

(* Only one request moves in a step.                                            *)
LEMMA OneRequestMoves ==
    ASSUME OrgInv, NEW r \in Requests, NEW s \in Requests, pc'[s] # pc[s],
           UpdateCommit(r) \/ RemoveCommit(r) \/ DeleteOrgCommit(r) \/ AcceptCommit(r)
    PROVE  s = r
<1>1. pc' = [pc EXCEPT ![r] = "idle"]
  BY DEF UpdateCommit, RemoveCommit, DeleteOrgCommit, AcceptCommit, Answer
<1> QED BY <1>1 DEF OrgInv, TypeOK
-----------------------------------------------------------------------------
(* Where there are two owners, another remains when one of them changes.        *)
LEMMA AnotherOwner ==
    ASSUME OrgInv, NEW o \in Orgs, NEW u \in Users, u \in Owners(o), ~(Cardinality(Owners(o)) <= 1)
    PROVE  \E v \in Users : v # u /\ v \in Owners(o)
<1>1. IsFiniteSet(Owners(o))
  BY OrganizationsAssumption, FS_Subset DEF Owners
<1>2. CASE Owners(o) = {u}
  BY <1>2, FS_Singleton
<1> QED BY <1>2 DEF Owners

(* The heart of the owner check: a request that read its target as an owner     *)
(* leaves an owner behind.                                                      *)
LEMMA OwnerCheckStep ==
    ASSUME OrgInv, Next, NEW o \in Orgs, NEW r \in Requests,
           orgs[o] = "live", orgs'[o] = "live", Owners(o) # {},
           Commits(r, {"update", "remove"}), req[r].org = o, req[r].seen.role = "owner"
    PROVE  Owners(o)' # {}
<1>1. CASE UNCHANGED member
  BY <1>1 DEF Owners
<1>2. ASSUME NEW v \in Users, NEW p \in Orgs, CreateOrg(v, p)
      PROVE  FALSE
  BY <1>2 DEF CreateOrg, Commits
<1>3. ASSUME NEW s \in Requests,
             UpdateCommit(s) \/ RemoveCommit(s) \/ DeleteOrgCommit(s) \/ AcceptCommit(s)
      PROVE  Owners(o)' # {}
  <2>1. s = r
    BY <1>3, OneRequestMoves DEF Commits
  <2>2. UpdateCommit(r) \/ RemoveCommit(r)
    BY <1>3, <2>1 DEF Commits, DeleteOrgCommit, AcceptCommit
  <2>3. CASE \E role \in AskedRoles \union {NoRole} :
                /\ req[r].org \in Orgs /\ req[r].who \in Users /\ SameRow(req[r])
                /\ ~RefusedAsLastOwner(req[r], role)
                /\ member' = [member EXCEPT ![req[r].org][req[r].who].role = role]
    <3>1. PICK role \in AskedRoles \union {NoRole} :
                /\ req[r].who \in Users
                /\ ~RefusedAsLastOwner(req[r], role)
                /\ member' = [member EXCEPT ![o][req[r].who].role = role]
      BY <2>3
    <3> DEFINE u == req[r].who
    <3>2. \A v \in Users : IF v = u THEN member'[o][v].role = role ELSE member'[o][v] = member[o][v]
      BY <3>1 DEF OrgInv, TypeOK, Rows
    <3>3. CASE role = "owner"
      BY <3>1, <3>2, <3>3 DEF Owners
    <3>4. CASE role # "owner"
      <4>1. ~(Cardinality(Owners(o)) <= 1)
        BY <3>1, <3>4 DEF RefusedAsLastOwner
      <4>2. PICK v \in Users : v # u /\ v \in Owners(o)
        <5>1. CASE u \in Owners(o)
          BY <3>1, <4>1, <5>1, AnotherOwner
        <5>2. CASE u \notin Owners(o)
          BY <5>2 DEF Owners
        <5> QED BY <5>1, <5>2
      <4>3. v \in Owners(o)'
        BY <3>2, <4>2 DEF Owners
      <4> QED BY <4>3
    <3> QED BY <3>3, <3>4
  <2> QED BY <1>1, <2>2, <2>3, RowCommit
<1> QED BY <1>1, <1>2, <1>3, WhoChangesMembers

(* CheckedChangeKeepsAnOwner, for any number of requests, users and             *)
(* organizations: among overlapping update_membership and delete_membership     *)
(* calls, one that read its target as an owner never removes the last owner.    *)
THEOREM OwnerCheckSafety == Spec => CheckedChangeKeepsAnOwner
<1> DEFINE Keeps ==
      \A o \in Orgs, r \in Requests :
          /\ orgs[o] = "live" /\ orgs'[o] = "live" /\ Owners(o) # {}
          /\ Commits(r, {"update", "remove"})
          /\ req[r].org = o /\ req[r].seen.role = "owner"
          => Owners(o)' # {}
<1>1. ASSUME OrgInv, [Next]_vars PROVE [Keeps]_vars
  BY <1>1, OwnerCheckStep
<1> HIDE DEF Keeps
<1>2. Spec => [][Keeps]_vars
  BY <1>1, OrgInvariant, PTL DEF Spec
<1> QED BY <1>2 DEF CheckedChangeKeepsAnOwner, Keeps

(* The tables keep their shape, and nothing outlives its organization: neither  *)
(* a create_invite nor an accept_invite that had passed its checks before       *)
(* delete_org adds a row afterwards.                                            *)
THEOREM OrganizationSafety == Spec => [](TypeOK /\ NothingOutlivesOrg)
<1>1. OrgInv => TypeOK /\ NothingOutlivesOrg
  BY DEF OrgInv
<1> QED BY <1>1, OrgInvariant, PTL
-----------------------------------------------------------------------------
(* Whoever was not a member and is one now has created the organization or      *)
(* accepted an invitation to it.                                                *)
LEMMA JoinStep ==
    ASSUME OrgInv, Next, NEW o \in Orgs, NEW u \in Users,
           orgs[o] = "live", ~IsMember(o, u), IsMember(o, u)'
    PROVE  \E c \in Codes : /\ Stored(c) /\ ~invites[c].used /\ ~invites[c].expired
                            /\ invites[c].org = o /\ invites[c].email = u
                            /\ invites'[c].used
                            /\ member'[o][u].role = invites[c].role
<1>0. member[o][u].role = NoRole /\ member'[o][u].role # NoRole
  BY DEF IsMember
<1>1. CASE UNCHANGED member
  BY <1>0, <1>1
<1>2. ASSUME NEW v \in Users, NEW p \in Orgs, CreateOrg(v, p)
      PROVE  FALSE
  BY <1>0, <1>2 DEF CreateOrg, OrgInv, TypeOK
<1>3. ASSUME NEW s \in Requests, UpdateCommit(s) \/ RemoveCommit(s)
      PROVE  FALSE
  <2>1. PICK role \in AskedRoles \union {NoRole} :
                /\ req[s].org \in Orgs /\ req[s].who \in Users /\ SameRow(req[s])
                /\ member' = [member EXCEPT ![req[s].org][req[s].who].role = role]
    BY <1>0, <1>3, RowCommit
  <2>2. CASE o = req[s].org /\ u = req[s].who
    BY <1>0, <2>1, <2>2 DEF SameRow, IsMember
  <2>3. CASE ~(o = req[s].org /\ u = req[s].who)
    BY <1>0, <2>1, <2>3 DEF OrgInv, TypeOK
  <2> QED BY <2>2, <2>3
<1>4. ASSUME NEW s \in Requests, DeleteOrgCommit(s)
      PROVE  FALSE
  <2>1. req[s].org \in Orgs
    BY <1>4 DEF DeleteOrgCommit, OrgInv, CallsAreWhole, CallIsWhole
  <2>2. CASE o = req[s].org
    <3>1. member'[o][u] = [member[o][u] EXCEPT !.role = NoRole]
      BY <1>4, <2>1, <2>2 DEF DeleteOrgCommit, OrgInv, TypeOK
    <3> QED BY <1>0, <3>1 DEF OrgInv, TypeOK, Rows
  <2>3. CASE o # req[s].org
    BY <1>0, <1>4, <2>1, <2>3 DEF DeleteOrgCommit, OrgInv, TypeOK
  <2> QED BY <2>2, <2>3
<1>5. ASSUME NEW s \in Requests, AcceptCommit(s)
      PROVE  \E c \in Codes : /\ Stored(c) /\ ~invites[c].used /\ ~invites[c].expired
                              /\ invites[c].org = o /\ invites[c].email = u
                              /\ invites'[c].used
                              /\ member'[o][u].role = invites[c].role
  <2> DEFINE c == req[s].code
  <2>1. /\ req[s].by \in Users /\ c \in Codes /\ invites[c].org \in Orgs
        /\ MarksAsUsed(c)
        /\ invites[c] \in Invites /\ invites[c].email = req[s].by
        /\ member' = [member EXCEPT ![invites[c].org][req[s].by] =
                        [id |-> member[invites[c].org][req[s].by].id + 1, role |-> invites[c].role]]
        /\ invites' = [invites EXCEPT ![c].used = TRUE]
    BY <1>0, <1>5, AcceptTables
  <2>2. invites[c].org = o /\ req[s].by = u
    BY <1>0, <2>1 DEF OrgInv, TypeOK
  <2>3. member'[o][u].role = invites[c].role
    BY <2>1, <2>2 DEF OrgInv, TypeOK
  <2>4. invites'[c].used
    BY <2>1 DEF OrgInv, TypeOK, Invites
  <2> QED BY <2>1, <2>2, <2>3, <2>4 DEF MarksAsUsed
<1> QED BY <1>1, <1>2, <1>3, <1>4, <1>5, WhoChangesMembers

(* Only the acceptance of an invitation spends it, and its addressee joins.     *)
LEMMA SpendStep ==
    ASSUME OrgInv, Next, NEW c \in Codes,
           Stored(c), ~invites[c].used, invites'[c].st = "stored", invites'[c].used
    PROVE  /\ ~IsMember(invites[c].org, invites[c].email)
           /\ IsMember(invites[c].org, invites[c].email)'
<1> DEFINE Goal == /\ ~IsMember(invites[c].org, invites[c].email)
                   /\ IsMember(invites[c].org, invites[c].email)'
<1> SUFFICES Goal
  OBVIOUS
<1>0. invites[c] \in Invites
  BY StoredHasColumns
<1>1. CASE UNCHANGED invites
  BY <1>1
<1>2. ASSUME NEW d \in Codes, InviteExpires(d)
      PROVE  FALSE
  <2>1. invites'[c].used = invites[c].used
    BY <1>0, <1>2 DEF InviteExpires, OrgInv, TypeOK, Invites
  <2> QED BY <2>1
<1>3. ASSUME NEW s \in Requests, DeleteOrgCommit(s)
      PROVE  FALSE
  <2>1. invites'[c] = invites[c] \/ invites'[c] = Deleted
    BY <1>3 DEF DeleteOrgCommit
  <2> QED BY <2>1 DEF Deleted
<1>4. ASSUME NEW s \in Requests, NEW d \in Codes, InviteCommit(s, d)
      PROVE  FALSE
  <2>1. invites'[c] = invites[c]
    BY <1>4 DEF InviteCommit, Stored, OrgInv, TypeOK
  <2> QED BY <2>1
<1>5. ASSUME NEW s \in Requests, UninviteCommit(s)
      PROVE  FALSE
  <2>1. invites'[c] = invites[c] \/ invites'[c] = Deleted
    BY <1>5 DEF UninviteCommit, OrgInv, TypeOK
  <2> QED BY <2>1 DEF Deleted
<1>6. ASSUME NEW s \in Requests, AcceptCommit(s)
      PROVE  Goal
  <2> DEFINE d == req[s].code
  <2>1. CASE UNCHANGED <<member, invites>>
    BY <2>1
  <2>2. CASE /\ req[s].by \in Users /\ d \in Codes /\ invites[d].org \in Orgs
             /\ MarksAsUsed(d) /\ Inserts(req[s].by, invites[d].org)
             /\ invites[d] \in Invites /\ invites[d].email = req[s].by
             /\ member' = [member EXCEPT ![invites[d].org][req[s].by] =
                             [id |-> member[invites[d].org][req[s].by].id + 1,
                              role |-> invites[d].role]]
             /\ invites' = [invites EXCEPT ![d].used = TRUE]
    <3>1. d = c
      BY <2>2 DEF OrgInv, TypeOK
    <3>2. ~IsMember(invites[c].org, invites[c].email)
      BY <2>2, <3>1 DEF Inserts
    <3>3. member'[invites[c].org][invites[c].email].role = invites[c].role
      BY <2>2, <3>1 DEF OrgInv, TypeOK
    <3>4. /\ invites'[c].org = invites[c].org /\ invites'[c].email = invites[c].email
          /\ invites[c].role # NoRole
      BY <1>0, <2>2, <3>1, RoleFacts DEF OrgInv, TypeOK, Invites
    <3> QED BY <3>2, <3>3, <3>4 DEF IsMember
  <2> QED BY <1>6, <2>1, <2>2, AcceptTables
<1>7. CASE \E s \in Requests : UpdateCommit(s) \/ RemoveCommit(s) \/ ReadTarget(s) \/ ReadInvite(s) \/ Fail(s)
  BY <1>1, <1>7 DEF UpdateCommit, RemoveCommit, ReadTarget, ReadInvite, Fail
<1>8. ASSUME NEW s \in Requests, NEW u \in Users, NEW o \in Orgs, NEW q, Authorize(s, u, o, q)
      PROVE  UNCHANGED invites
  BY <1>8 DEF Authorize
<1>9. ASSUME NEW s \in Requests, NEW u \in Users, NEW o \in Orgs,
             \/ \E who \in Users, role \in AskedRoles :
                   AskUpdate(s, u, o, who, role) \/ AskInvite(s, u, o, who, role)
             \/ \E who \in Users : AskRemove(s, u, o, who)
             \/ \E d \in Codes : AskUninvite(s, u, o, d)
             \/ AskDeleteOrg(s, u, o)
      PROVE  Goal
  BY <1>1, <1>8, <1>9 DEF AskUpdate, AskInvite, AskRemove, AskUninvite, AskDeleteOrg
<1>10. CASE \/ \E u \in Users, o \in Orgs : CreateOrg(u, o)
            \/ \E s \in Requests, u \in Users, d \in Codes : AcceptRead(s, u, d)
  BY <1>1, <1>10 DEF CreateOrg, AcceptRead
<1> HIDE DEF Goal
<1>11. ASSUME NEW s \in Requests, RequestStep(s) PROVE Goal
  BY <1>11, <1>3, <1>4, <1>5, <1>6, <1>7, <1>9, <1>10 DEF RequestStep
<1> QED BY <1>2, <1>10, <1>11 DEF Next

(* JoinsByLiveInvite and SpentMeansJoined: one becomes a member of an existing  *)
(* organization exactly in the step that spends an invitation that is live at   *)
(* that moment and addressed to that user, though accept_invite judged it       *)
(* before the transaction.                                                      *)
THEOREM InviteSafety == Spec => JoinsByLiveInvite /\ SpentMeansJoined
<1> DEFINE Joins ==
      \A o \in Orgs, u \in Users :
          orgs[o] = "live" /\ ~IsMember(o, u) /\ IsMember(o, u)' =>
            \E c \in Codes : /\ Stored(c) /\ ~invites[c].used /\ ~invites[c].expired
                             /\ invites[c].org = o /\ invites[c].email = u
                             /\ invites'[c].used
                             /\ member'[o][u].role = invites[c].role
           Spends ==
      \A c \in Codes :
          Stored(c) /\ ~invites[c].used /\ invites'[c].st = "stored" /\ invites'[c].used =>
            /\ ~IsMember(invites[c].org, invites[c].email)
            /\ IsMember(invites[c].org, invites[c].email)'
<1>1. ASSUME OrgInv, [Next]_vars PROVE [Joins]_vars
  BY <1>1, JoinStep
<1>2. ASSUME OrgInv, [Next]_vars PROVE [Spends]_vars
  BY <1>2, SpendStep
<1> HIDE DEF Joins, Spends
<1>3. Spec => [][Joins]_vars
  BY <1>1, OrgInvariant, PTL DEF Spec
<1>4. Spec => [][Spends]_vars
  BY <1>2, OrgInvariant, PTL DEF Spec
<1>5. Spec => JoinsByLiveInvite
  BY <1>3 DEF JoinsByLiveInvite, Joins
<1>6. Spec => SpentMeansJoined
  BY <1>4 DEF SpentMeansJoined, Spends
<1> QED BY <1>5, <1>6, PTL
-----------------------------------------------------------------------------
(* A membership that exists, in an organization that stays, changes only at the *)
(* hands of a request that read that very row.                                  *)
LEMMA ChangeStep ==
    ASSUME OrgInv, Next, NEW o \in Orgs, NEW u \in Users,
           IsMember(o, u), member'[o][u] # member[o][u], orgs'[o] = "live"
    PROVE  \E r \in Requests : /\ Commits(r, {"update", "remove"})
                               /\ req[r].org = o /\ req[r].who = u
                               /\ req[r].seen.id = member[o][u].id
<1>1. orgs[o] = "live"
  BY DEF OrgInv, NothingOutlivesOrg
<1>2. ASSUME NEW v \in Users, NEW p \in Orgs, CreateOrg(v, p)
      PROVE  FALSE
  BY <1>1, <1>2 DEF CreateOrg, OrgInv, TypeOK
<1>3. ASSUME NEW s \in Requests, DeleteOrgCommit(s)
      PROVE  FALSE
  <2>1. req[s].org \in Orgs
    BY <1>3 DEF DeleteOrgCommit, OrgInv, CallsAreWhole, CallIsWhole
  <2> QED BY <1>3, <2>1 DEF DeleteOrgCommit, OrgInv, TypeOK
<1>4. ASSUME NEW s \in Requests, AcceptCommit(s)
      PROVE  FALSE
  <2> DEFINE c == req[s].code
  <2>1. /\ req[s].by \in Users /\ invites[c].org \in Orgs
        /\ Inserts(req[s].by, invites[c].org)
        /\ member' = [member EXCEPT ![invites[c].org][req[s].by] =
                        [id |-> member[invites[c].org][req[s].by].id + 1, role |-> invites[c].role]]
    BY <1>4, AcceptTables
  <2>2. invites[c].org = o /\ req[s].by = u
    BY <2>1 DEF OrgInv, TypeOK
  <2> QED BY <2>1, <2>2 DEF Inserts
<1>5. ASSUME NEW s \in Requests, UpdateCommit(s) \/ RemoveCommit(s)
      PROVE  /\ Commits(s, {"update", "remove"})
             /\ req[s].org = o /\ req[s].who = u
             /\ req[s].seen.id = member[o][u].id
  <2>1. PICK role \in AskedRoles \union {NoRole} :
                /\ req[s].org \in Orgs /\ req[s].who \in Users /\ SameRow(req[s])
                /\ member' = [member EXCEPT ![req[s].org][req[s].who].role = role]
    BY <1>5, RowCommit
  <2>2. req[s].org = o /\ req[s].who = u
    BY <2>1 DEF OrgInv, TypeOK
  <2>3. Commits(s, {"update", "remove"})
    BY <1>5 DEF Commits, UpdateCommit, RemoveCommit, Answer, OrgInv, TypeOK
  <2> QED BY <2>1, <2>2, <2>3 DEF SameRow
<1> QED BY <1>2, <1>3, <1>4, <1>5, WhoChangesMembers

(* ChangesOnlyTheRowRead: a request that names a member who was removed and has *)
(* joined again since it read the row leaves the new membership alone.          *)
THEOREM RowSafety == Spec => ChangesOnlyTheRowRead
<1> DEFINE Changes ==
      \A o \in Orgs, u \in Users :
          IsMember(o, u) /\ member'[o][u] # member[o][u] /\ orgs'[o] = "live" =>
            \E r \in Requests : /\ Commits(r, {"update", "remove"})
                                /\ req[r].org = o /\ req[r].who = u
                                /\ req[r].seen.id = member[o][u].id
<1>1. ASSUME OrgInv, [Next]_vars PROVE [Changes]_vars
  BY <1>1, ChangeStep
<1> HIDE DEF Changes
<1>2. Spec => [][Changes]_vars
  BY <1>1, OrgInvariant, PTL DEF Spec
<1> QED BY <1>2 DEF ChangesOnlyTheRowRead, Changes
-----------------------------------------------------------------------------
\* At most one request is being served.
OneAtATime == \A r, s \in Requests : pc[r] # "idle" /\ pc[s] # "idle" => r = s

\* Then the row a request is about to change is the row it read.
ReadIsCurrent ==
    \A r \in Requests : pc[r] = "commit" /\ req[r].op \in {"update", "remove"} =>
        member[req[r].org][req[r].who] = req[r].seen /\ req[r].seen.role # NoRole

SerialInv == ReadIsCurrent /\ OwnerRemains

(* One request at a time: a step that changes members is of that request, which *)
(* has answered then, or creates an organization, which the request cannot have *)
(* read.                                                                        *)
LEMMA SerialReads ==
    ASSUME OneAtATime, OneAtATime', OrgInv, SerialInv, Next
    PROVE  ReadIsCurrent'
<1> SUFFICES ASSUME NEW r \in Requests, pc'[r] = "commit", req'[r].op \in {"update", "remove"}
             PROVE  /\ member'[req'[r].org][req'[r].who] = req'[r].seen
                    /\ req'[r].seen.role # NoRole
  BY DEF ReadIsCurrent
<1>1. CASE UNCHANGED <<pc, req>> /\ UNCHANGED member
  BY <1>1 DEF SerialInv, ReadIsCurrent
<1>2. ASSUME NEW v \in Users, NEW p \in Orgs, CreateOrg(v, p)
      PROVE  /\ member'[req'[r].org][req'[r].who] = req'[r].seen
             /\ req'[r].seen.role # NoRole
  <2>1. UNCHANGED <<pc, req>> /\ req[r].org \in Orgs /\ req[r].who \in Users
    BY <1>2 DEF CreateOrg, OrgInv, CallsAreWhole, CallIsWhole
  <2>2. IsMember(req[r].org, req[r].who) /\ member[req[r].org][req[r].who] = req[r].seen
    BY <2>1 DEF SerialInv, ReadIsCurrent, IsMember
  <2>3. req[r].org # p
    BY <1>2, <2>1, <2>2 DEF CreateOrg, OrgInv, NothingOutlivesOrg
  <2>4. member'[req[r].org] = member[req[r].org]
    BY <1>2, <2>1, <2>3 DEF CreateOrg, OrgInv, TypeOK
  <2> QED BY <2>1, <2>2, <2>4 DEF IsMember
<1>3. ASSUME NEW s \in Requests, RequestStep(s)
      PROVE  /\ member'[req'[r].org][req'[r].who] = req'[r].seen
             /\ req'[r].seen.role # NoRole
  <2>1. s = r
    <3>1. pc[s] # "idle" \/ pc'[s] # "idle"
      <4>1. ASSUME NEW u \in Users, NEW o \in Orgs, NEW q, Authorize(s, u, o, q)
            PROVE  pc'[s] # "idle"
        BY <4>1 DEF Authorize, Proceed, OrgInv, TypeOK
      <4>2. ASSUME NEW u \in Users, NEW c \in Codes, AcceptRead(s, u, c)
            PROVE  pc'[s] # "idle"
        BY <4>2 DEF AcceptRead, Proceed, OrgInv, TypeOK
      <4> QED
        BY <1>3, <4>1, <4>2
        DEF RequestStep, AskUpdate, AskInvite, AskRemove, AskUninvite, AskDeleteOrg, InviteCommit,
            ReadTarget, UpdateCommit, RemoveCommit, DeleteOrgCommit, ReadInvite, UninviteCommit,
            AcceptCommit, Fail
    <3>2. s # r => pc'[r] = pc[r]
      <4>1. PICK label : pc' = [pc EXCEPT ![s] = label]
        BY <1>3, ZenonT(40)
        DEF RequestStep, AskUpdate, AskInvite, AskRemove, AskUninvite, AskDeleteOrg, InviteCommit,
            ReadTarget, UpdateCommit, RemoveCommit, DeleteOrgCommit, ReadInvite, UninviteCommit,
            AcceptCommit, AcceptRead, Authorize, Fail, Answer, Proceed
      <4> QED BY <4>1 DEF OrgInv, TypeOK
    <3> QED BY <3>1, <3>2 DEF OneAtATime
  <2>2. ~Answer(r)
    BY DEF Answer, OrgInv, TypeOK
  <2>3. ReadTarget(r)
    <3>1. ASSUME NEW u \in Users, NEW o \in Orgs, NEW q, Authorize(r, u, o, q)
          PROVE  FALSE
      BY <3>1 DEF Authorize, Proceed, OrgInv, TypeOK
    <3>2. ASSUME NEW u \in Users, NEW c \in Codes, AcceptRead(r, u, c)
          PROVE  FALSE
      BY <3>2 DEF AcceptRead, Proceed, Fresh, OrgInv, TypeOK
    <3>3. ~ReadInvite(r)
      BY <2>2 DEF ReadInvite, Proceed, OrgInv, TypeOK
    <3>4. ASSUME NEW u \in Users, NEW o \in Orgs,
                 \/ \E who \in Users, role \in AskedRoles :
                       AskUpdate(r, u, o, who, role) \/ AskInvite(r, u, o, who, role)
                 \/ \E who \in Users : AskRemove(r, u, o, who)
                 \/ \E c \in Codes : AskUninvite(r, u, o, c)
                 \/ AskDeleteOrg(r, u, o)
          PROVE  FALSE
      BY <3>1, <3>4 DEF AskUpdate, AskInvite, AskRemove, AskUninvite, AskDeleteOrg
    <3>5. ~(\E c \in Codes : InviteCommit(r, c)) /\ ~UpdateCommit(r) /\ ~RemoveCommit(r)
          /\ ~DeleteOrgCommit(r) /\ ~UninviteCommit(r) /\ ~AcceptCommit(r) /\ ~Fail(r)
      BY <2>2 DEF InviteCommit, UpdateCommit, RemoveCommit, DeleteOrgCommit, UninviteCommit,
                  AcceptCommit, Fail
    <3> QED BY <1>3, <2>1, <3>2, <3>3, <3>4, <3>5 DEF RequestStep
  <2>4. /\ member[req[r].org][req[r].who].role # NoRole
        /\ req'[r] = [req[r] EXCEPT !.seen = member[req[r].org][req[r].who]]
        /\ UNCHANGED member
    BY <2>2, <2>3 DEF ReadTarget, Proceed, OrgInv, TypeOK
  <2> QED BY <2>4 DEF OrgInv, TypeOK, Calls
<1> QED BY <1>1, <1>2, <1>3 DEF Next, InviteExpires

(* The check then judges the role the row still has, so that it never spares    *)
(* the last owner's row from being counted.                                     *)
LEMMA SerialOwners ==
    ASSUME OrgInv, SerialInv, Next
    PROVE  OwnerRemains'
<1> SUFFICES ASSUME NEW o \in Orgs, orgs'[o] = "live"
             PROVE  Owners(o)' # {}
  BY DEF OwnerRemains
<1>1. ASSUME NEW v \in Users, NEW p \in Orgs, CreateOrg(v, p)
      PROVE  Owners(o)' # {}
  <2>1. CASE o = p
    <3>1. member'[o][v].role = "owner"
      BY <1>1, <2>1 DEF CreateOrg, OrgInv, TypeOK
    <3> QED BY <3>1 DEF Owners
  <2>2. CASE o # p
    <3>1. orgs[o] = "live" /\ member'[o] = member[o]
      BY <1>1, <2>2 DEF CreateOrg, OrgInv, TypeOK
    <3> QED BY <3>1 DEF SerialInv, OwnerRemains, Owners
  <2> QED BY <2>1, <2>2
<1>2. CASE ~\E v \in Users, p \in Orgs : CreateOrg(v, p)
  <2>1. orgs[o] = "live"
    <3>1. orgs' = orgs \/ \E s \in Requests : DeleteOrgCommit(s)
      <4>1. ASSUME NEW s \in Requests, RequestStep(s) PROVE orgs' = orgs \/ DeleteOrgCommit(s)
        <5>1. ASSUME NEW u \in Users, NEW p \in Orgs, NEW q, Authorize(s, u, p, q)
              PROVE  orgs' = orgs
          BY <5>1 DEF Authorize
        <5>2. ASSUME NEW u \in Users, NEW p \in Orgs,
                     \/ \E who \in Users, role \in AskedRoles :
                           AskUpdate(s, u, p, who, role) \/ AskInvite(s, u, p, who, role)
                     \/ \E who \in Users : AskRemove(s, u, p, who)
                     \/ \E c \in Codes : AskUninvite(s, u, p, c)
                     \/ AskDeleteOrg(s, u, p)
              PROVE  orgs' = orgs
          BY <5>1, <5>2 DEF AskUpdate, AskInvite, AskRemove, AskUninvite, AskDeleteOrg
        <5>3. CASE \/ \E u \in Users, c \in Codes : AcceptRead(s, u, c)
                   \/ \E c \in Codes : InviteCommit(s, c)
                   \/ ReadTarget(s) \/ UpdateCommit(s) \/ RemoveCommit(s)
                   \/ ReadInvite(s) \/ UninviteCommit(s) \/ AcceptCommit(s) \/ Fail(s)
          BY <5>3 DEF AcceptRead, InviteCommit, ReadTarget, UpdateCommit, RemoveCommit, ReadInvite,
                      UninviteCommit, AcceptCommit, Fail
        <5> QED BY <4>1, <5>2, <5>3 DEF RequestStep
      <4> QED BY <1>2, <4>1 DEF Next, InviteExpires
    <3>2. ASSUME NEW s \in Requests, DeleteOrgCommit(s) PROVE orgs[o] = "live"
      <4>1. req[s].org \in Orgs
        BY <3>2 DEF DeleteOrgCommit, OrgInv, CallsAreWhole, CallIsWhole
      <4> QED BY <3>2, <4>1 DEF DeleteOrgCommit, OrgInv, TypeOK
    <3> QED BY <3>1, <3>2
  <2>2. Owners(o) # {}
    BY <2>1 DEF SerialInv, OwnerRemains
  <2>3. PICK u \in Users : member[o][u].role = "owner"
    BY <2>2 DEF Owners
  <2>4. CASE member'[o][u] = member[o][u]
    BY <2>3, <2>4 DEF Owners
  <2>5. CASE member'[o][u] # member[o][u]
    <3>1. IsMember(o, u)
      BY <2>3 DEF IsMember, NoRole
    <3>2. PICK r \in Requests : /\ Commits(r, {"update", "remove"})
                                /\ req[r].org = o /\ req[r].who = u
      BY <2>5, <3>1, ChangeStep
    <3>3. req[r].seen.role = "owner"
      BY <2>3, <3>2 DEF Commits, SerialInv, ReadIsCurrent
    <3> QED BY <2>1, <2>2, <3>2, <3>3, OwnerCheckStep
  <2> QED BY <2>4, <2>5
<1> QED BY <1>1, <1>2

(* OwnerRemains while requests are served one at a time: "Cannot demote the     *)
(* last owner of the organization" then holds for any number of users,          *)
(* organizations and codes.  (Overlapping requests break it: the run            *)
(* organizations_owner shows how.)                                              *)
THEOREM SerialOwnerSafety == Spec /\ []OneAtATime => []OwnerRemains
<1>1. Init => SerialInv
  BY DEF Init, SerialInv, ReadIsCurrent, OwnerRemains
<1>2. OrgInv /\ SerialInv /\ OneAtATime /\ OneAtATime' /\ [Next]_vars => SerialInv'
  <2>1. ASSUME UNCHANGED vars, SerialInv PROVE SerialInv'
    BY <2>1 DEF vars, SerialInv, ReadIsCurrent, OwnerRemains, Owners
  <2> QED BY <2>1, SerialReads, SerialOwners DEF SerialInv
<1>3. SerialInv => OwnerRemains
  BY DEF SerialInv
<1> QED BY <1>1, <1>2, <1>3, OrgInvariant, PTL DEF Spec
-----------------------------------------------------------------------------
(* Platform accounts *)

\* The rows of platform_email_verifications and platform_password_reset_requests,
\* and what a request holds.
VerifRows == [user : Emails, live : BOOLEAN, verified : BOOLEAN, expired : BOOLEAN]
ResetRows == [user : Emails, secret : ClientSecrets, used : BOOLEAN, expired : BOOLEAN,
              writes : Nat, shared : BOOLEAN, cut : BOOLEAN]
Forms == [op : {"none", "register", "change", "confirm", "verify", "ask"},
          pc : {"idle", "insert", "verification", "update", "compare", "mark", "delete"},
          email : Emails \union {None}, pw : Passwords \union {None}, new : Passwords \union {None},
          row : Nat, secret : ClientSecrets \union {None}, held : SUBSET Passwords]

\* What each operation may rely on: its account exists, the current password it
\* presented is among those that were current while it ran, and the reset it has
\* found is of its account and, once compared, has its secret.
FormOk(f) ==
    /\ f.row <= MaxRows
    /\ f.op = "register" => /\ f.email \in Emails /\ f.new \in Passwords
                            /\ f.pc = "verification" => Accounts!Exists(f.email)
    /\ f.op = "change" => /\ f.email \in Emails /\ f.new \in Passwords /\ Accounts!Exists(f.email)
                          /\ f.pw \in f.held
    /\ f.op = "confirm" => /\ f.email \in Emails /\ f.new \in Passwords /\ Accounts!Exists(f.email)
                           /\ f.pc \in {"compare", "update", "mark"}
                           /\ f.row \in 1 .. Len(resets) /\ resets[f.row].user = f.email
                           /\ f.pc \in {"update", "mark"} => resets[f.row].secret = f.secret
    /\ f.op = "verify" => f.row \in 1 .. Len(verifs)
    /\ f.op = "ask" => /\ f.email \in Emails /\ Accounts!Exists(f.email)
                       /\ f.pc = "delete" => f.row \in 1 .. Len(verifs)

\* The inductive invariant of platform accounts, however requests overlap.
AccountsInv ==
    /\ users \in [Emails -> Passwords \union {NoUser}]
    /\ verifs \in Seq(VerifRows) /\ Len(verifs) <= MaxRows
    /\ \A i \in 1 .. Len(verifs) : Accounts!Exists(verifs[i].user)
    /\ resets \in Seq(ResetRows) /\ Len(resets) <= MaxRows
    /\ \A i \in 1 .. Len(resets) : Accounts!Exists(resets[i].user)
    /\ tokens \subseteq { e \in Emails : Accounts!Exists(e) }
    /\ form \in [Requests -> Forms]
    /\ \A p \in Requests : \A f \in {form[p]} : FormOk(f)

\* A request that was at most told of another password.
Heard(f, g) ==
    /\ g.op = f.op /\ g.pc = f.pc /\ g.email = f.email /\ g.pw = f.pw /\ g.new = f.new
    /\ g.row = f.row /\ g.secret = f.secret /\ f.held \subseteq g.held

OthersHeard(p) == \A q \in Requests : q # p => Heard(form[q], form'[q])

\* Accounts, verifications and reset requests are never taken away, and a reset
\* request keeps its account and its secret.
TablesGrow ==
    /\ \A e \in Emails : Accounts!Exists(e) => Accounts!Exists(e)'
    /\ Len(verifs) <= Len(verifs') /\ Len(resets) <= Len(resets')
    /\ \A i \in 1 .. Len(resets) : resets'[i].user = resets[i].user /\ resets'[i].secret = resets[i].secret

(* What the proofs use of the constants of platform accounts.                   *)
LEMMA AccountBounds == NoUser \notin Passwords /\ MaxRows \in Nat
BY PlatformAssumption DEF Accounts!PlatformAssumption

(* What a request relies on outlasts the steps of the others.                   *)
LEMMA FormOutlasts ==
    ASSUME AccountsInv, TablesGrow, Len(verifs') \in Nat, Len(resets') \in Nat,
           NEW f \in Forms, NEW g \in Forms, FormOk(f), Heard(f, g)
    PROVE  FormOk(g)'
<1>1. Len(verifs) \in Nat /\ Len(resets) \in Nat
  BY DEF AccountsInv
<1>2. CASE f.op = "confirm"
  BY <1>1, <1>2 DEF FormOk, Heard, TablesGrow
<1>3. CASE f.op = "verify" \/ f.op = "none"
  BY <1>1, <1>3 DEF FormOk, Heard, TablesGrow
<1>4. CASE f.op = "ask"
  BY <1>1, <1>4 DEF FormOk, Heard, TablesGrow
<1>5. CASE f.op = "register" \/ f.op = "change"
  BY <1>1, <1>5 DEF FormOk, Heard, TablesGrow
<1> QED BY <1>2, <1>3, <1>4, <1>5 DEF Forms

(* One request goes on, with what it needs; the others at most hear of it.      *)
LEMMA FormsMove ==
    ASSUME AccountsInv, TablesGrow, Len(verifs') \in Nat, Len(resets') \in Nat,
           NEW p \in Requests, NEW f \in Forms, FormOk(f)', form' = [form EXCEPT ![p] = f]
    PROVE  /\ form' \in [Requests -> Forms] /\ \A q \in Requests : \A g \in {form'[q]} : FormOk(g)'
           /\ OthersHeard(p)
<1>1. form' \in [Requests -> Forms] /\ \A q \in Requests : form'[q] = (IF q = p THEN f ELSE form[q])
  BY DEF AccountsInv
<1>2. OthersHeard(p)
  BY <1>1 DEF OthersHeard, Heard
<1>3. ASSUME NEW q \in Requests, NEW g, g = form'[q] PROVE FormOk(g)'
  <2>1. CASE q = p
    BY <1>1, <1>3, <2>1
  <2>2. CASE q # p
    <3>1. g = form[q] /\ g \in Forms /\ FormOk(g)
      BY <1>1, <1>3, <2>2 DEF AccountsInv
    <3>2. Heard(g, g)
      BY DEF Heard
    <3> QED BY <3>1, <3>2, FormOutlasts
  <2> QED BY <2>1, <2>2
<1> QED BY <1>1, <1>2, <1>3

(* The same when nobody moves.                                                  *)
LEMMA FormsStay ==
    ASSUME AccountsInv, TablesGrow, Len(verifs') \in Nat, Len(resets') \in Nat, form' = form
    PROVE  /\ form' \in [Requests -> Forms] /\ \A q \in Requests : \A g \in {form'[q]} : FormOk(g)'
           /\ \A p \in Requests : OthersHeard(p)
<1>1. ASSUME NEW q \in Requests, NEW g, g = form'[q] PROVE FormOk(g)'
  <2>1. g = form[q] /\ g \in Forms /\ FormOk(g)
    BY <1>1 DEF AccountsInv
  <2>2. Heard(g, g)
    BY DEF Heard
  <2> QED BY <2>1, <2>2, FormOutlasts
<1> QED BY <1>1 DEF AccountsInv, OthersHeard, Heard

(* A password is written.                                                       *)
LEMMA PasswordWritten ==
    ASSUME AccountsInv, TablesGrow, Len(verifs') \in Nat, Len(resets') \in Nat,
           NEW p \in Requests, NEW e \in Emails, NEW w \in Passwords, NEW f \in Forms,
           FormOk(f)', Accounts!SetPassword(e, w, p, f)
    PROVE  /\ form' \in [Requests -> Forms] /\ \A q \in Requests : \A g \in {form'[q]} : FormOk(g)'
           /\ OthersHeard(p) /\ form'[p] = f
<1>1. DOMAIN form = Requests
  BY DEF AccountsInv
<1>2. form' = [q \in Requests |->
                 IF q = p THEN f
                 ELSE IF form[q].email = e THEN [form[q] EXCEPT !.held = @ \union {w}] ELSE form[q]]
  BY <1>1 DEF Accounts!SetPassword
<1>3. ASSUME NEW q \in Requests, NEW g, g = form'[q]
      PROVE  g \in Forms /\ FormOk(g)' /\ (q # p => Heard(form[q], g))
  <2>1. CASE q = p
    BY <1>2, <1>3, <2>1
  <2>2. CASE q # p
    <3>1. PICK h : h = form[q] /\ h \in Forms /\ FormOk(h)
      BY DEF AccountsInv
    <3>2. CASE g = h
      <4>1. Heard(h, g)
        BY <3>2 DEF Heard
      <4> QED BY <3>1, <3>2, <4>1, FormOutlasts
    <3>3. CASE g = [h EXCEPT !.held = @ \union {w}]
      <4>1. g \in Forms /\ Heard(h, g)
        BY <3>1, <3>3 DEF Forms, Heard
      <4> QED BY <3>1, <4>1, FormOutlasts
    <3> QED BY <1>2, <1>3, <2>2, <3>1, <3>2, <3>3
  <2> QED BY <2>1, <2>2
<1>4. form' \in [Requests -> Forms]
  BY <1>2, <1>3
<1> QED BY <1>2, <1>3, <1>4 DEF OthersHeard

(* What an UPDATE and an INSERT make of a table.                                *)
LEMMA RowEdited ==
    ASSUME NEW T, NEW s \in Seq(T), NEW i \in 1 .. Len(s), NEW v \in T, NEW t, t = [s EXCEPT ![i] = v]
    PROVE  /\ t \in Seq(T) /\ Len(t) = Len(s) /\ Len(s) \in Nat
           /\ \A j \in 1 .. Len(s) : t[j] = IF j = i THEN v ELSE s[j]
OBVIOUS

(* An inserted row is the last one, and the others keep their places.           *)
LEMMA RowAppended ==
    ASSUME NEW T, NEW s \in Seq(T), NEW v \in T, NEW t, t = Append(s, v)
    PROVE  /\ t \in Seq(T) /\ Len(t) = Len(s) + 1 /\ Len(s) \in Nat
           /\ (\A j \in 1 .. Len(s) : t[j] = s[j]) /\ t[Len(s) + 1] = v
OBVIOUS

(* A step that leaves the tables alone.                                         *)
LEMMA TablesStay ==
    ASSUME AccountsInv, UNCHANGED <<users, verifs, resets>>
    PROVE  TablesGrow /\ Len(verifs') \in Nat /\ Len(resets') \in Nat
BY DEF AccountsInv, TablesGrow, Accounts!Exists

(* A request begins, goes on or ends without touching the tables.               *)
LEMMA QuietForm ==
    ASSUME AccountsInv, UNCHANGED <<users, verifs, resets, tokens>>,
           NEW p \in Requests, NEW f \in Forms, FormOk(f), form' = [form EXCEPT ![p] = f]
    PROVE  AccountsInv' /\ OthersHeard(p)
<1>1. FormOk(f)'
  BY DEF FormOk, Accounts!Exists
<1>2. /\ form' \in [Requests -> Forms] /\ \A q \in Requests : \A g \in {form'[q]} : FormOk(g)'
      /\ OthersHeard(p)
  BY <1>1, TablesStay, FormsMove
<1> QED BY <1>2 DEF AccountsInv, Accounts!Exists

(* A request that has not begun relies on nothing.                              *)
LEMMA IdleForm ==
    /\ Accounts!Idle \in Forms /\ FormOk(Accounts!Idle) /\ FormOk(Accounts!Idle)'
    /\ Accounts!Idle.op = "none" /\ Accounts!Idle.pc = "idle" /\ Accounts!Idle.row = 0
<1>1. /\ Accounts!Idle \in Forms
      /\ Accounts!Idle.op = "none" /\ Accounts!Idle.pc = "idle" /\ Accounts!Idle.row = 0
  BY DEF Accounts!Idle, Forms
<1> QED BY <1>1, AccountBounds DEF FormOk

(* Verifications change: rows are added for accounts that exist, or marked.     *)
LEMMA VerifsChange ==
    ASSUME AccountsInv, UNCHANGED <<users, resets>>, tokens' \subseteq { e \in Emails : Accounts!Exists(e) },
           verifs' \in Seq(VerifRows), Len(verifs') <= MaxRows, Len(verifs) <= Len(verifs'),
           \A i \in 1 .. Len(verifs') : Accounts!Exists(verifs'[i].user),
           \/ form' = form
           \/ \E p \in Requests, f \in Forms : FormOk(f)' /\ form' = [form EXCEPT ![p] = f]
    PROVE  AccountsInv'
<1>1. TablesGrow /\ Len(verifs') \in Nat /\ Len(resets') \in Nat
  BY DEF AccountsInv, TablesGrow, Accounts!Exists
<1>2. form' \in [Requests -> Forms] /\ \A q \in Requests : \A g \in {form'[q]} : FormOk(g)'
  BY <1>1, FormsMove, FormsStay
<1> QED BY <1>2 DEF AccountsInv, Accounts!Exists

(* Reset requests change.                                                       *)
LEMMA ResetsChange ==
    ASSUME AccountsInv, UNCHANGED <<users, verifs, tokens>>,
           resets' \in Seq(ResetRows), Len(resets') <= MaxRows, Len(resets) <= Len(resets'),
           \A i \in 1 .. Len(resets) : resets'[i].user = resets[i].user /\ resets'[i].secret = resets[i].secret,
           \A i \in 1 .. Len(resets') : Accounts!Exists(resets'[i].user),
           \/ form' = form
           \/ \E p \in Requests, f \in Forms : FormOk(f)' /\ form' = [form EXCEPT ![p] = f]
    PROVE  AccountsInv'
<1>1. TablesGrow /\ Len(verifs') \in Nat /\ Len(resets') \in Nat
  BY DEF AccountsInv, TablesGrow, Accounts!Exists
<1>2. form' \in [Requests -> Forms] /\ \A q \in Requests : \A g \in {form'[q]} : FormOk(g)'
  BY <1>1, FormsMove, FormsStay
<1> QED BY <1>2 DEF AccountsInv, Accounts!Exists

(* A row of reset requests is written back with another mark.                   *)
LEMMA ResetMarked ==
    ASSUME AccountsInv, NEW i \in 1 .. Len(resets), NEW v \in ResetRows,
           v.user = resets[i].user, v.secret = resets[i].secret, resets' = [resets EXCEPT ![i] = v]
    PROVE  /\ resets' \in Seq(ResetRows) /\ Len(resets') = Len(resets) /\ Len(resets) \in Nat
           /\ \A j \in 1 .. Len(resets) : /\ resets'[j] = IF j = i THEN v ELSE resets[j]
                                          /\ resets'[j].user = resets[j].user
                                          /\ resets'[j].secret = resets[j].secret
           /\ \A j \in 1 .. Len(resets') : Accounts!Exists(resets'[j].user)
<1>1. /\ resets' \in Seq(ResetRows) /\ Len(resets') = Len(resets) /\ Len(resets) \in Nat
      /\ \A j \in 1 .. Len(resets) : resets'[j] = IF j = i THEN v ELSE resets[j]
  BY RowEdited DEF AccountsInv
<1>2. \A j \in 1 .. Len(resets) : resets'[j].user = resets[j].user /\ resets'[j].secret = resets[j].secret
  BY <1>1
<1> QED BY <1>1, <1>2 DEF AccountsInv

(* A row of verifications is.                                                   *)
LEMMA VerifMarked ==
    ASSUME AccountsInv, NEW i \in 1 .. Len(verifs), NEW v \in VerifRows,
           v.user = verifs[i].user, verifs' = [verifs EXCEPT ![i] = v]
    PROVE  /\ verifs' \in Seq(VerifRows) /\ Len(verifs') = Len(verifs) /\ Len(verifs) \in Nat
           /\ \A j \in 1 .. Len(verifs) : verifs'[j] = IF j = i THEN v ELSE verifs[j]
           /\ \A j \in 1 .. Len(verifs') : Accounts!Exists(verifs'[j].user)
<1>1. /\ verifs' \in Seq(VerifRows) /\ Len(verifs') = Len(verifs) /\ Len(verifs) \in Nat
      /\ \A j \in 1 .. Len(verifs) : verifs'[j] = IF j = i THEN v ELSE verifs[j]
  BY RowEdited DEF AccountsInv
<1> QED BY <1>1 DEF AccountsInv

(* A verification is inserted for an account that exists.                       *)
LEMMA VerifInserted ==
    ASSUME AccountsInv, NEW e \in Emails, Accounts!Exists(e), Accounts!InsertVerification(e)
    PROVE  /\ verifs' \in Seq(VerifRows) /\ Len(verifs') = Len(verifs) + 1 /\ Len(verifs) \in Nat
           /\ \A j \in 1 .. Len(verifs) : verifs'[j] = verifs[j]
           /\ verifs'[Len(verifs) + 1].user = e
           /\ verifs'[Len(verifs) + 1].live /\ ~verifs'[Len(verifs) + 1].verified
           /\ \A j \in 1 .. Len(verifs') : Accounts!Exists(verifs'[j].user)
<1> DEFINE v == [user |-> e, live |-> TRUE, verified |-> FALSE, expired |-> FALSE]
<1>1. v \in VerifRows /\ v.user = e /\ v.live /\ ~v.verified
  BY DEF VerifRows
<1>2. verifs' = Append(verifs, v) /\ verifs \in Seq(VerifRows)
  BY DEF Accounts!InsertVerification, AccountsInv
<1> HIDE DEF v
<1>3. /\ verifs' \in Seq(VerifRows) /\ Len(verifs') = Len(verifs) + 1 /\ Len(verifs) \in Nat
      /\ \A j \in 1 .. Len(verifs) : verifs'[j] = verifs[j]
      /\ verifs'[Len(verifs) + 1] = v
  BY <1>1, <1>2, RowAppended
<1>4. \A j \in 1 .. Len(verifs') : Accounts!Exists(verifs'[j].user)
  BY <1>1, <1>3 DEF AccountsInv
<1> QED BY <1>1, <1>3, <1>4

(* What the invariant says of one request.                                      *)
LEMMA FormFacts ==
    ASSUME AccountsInv, NEW p \in Requests, NEW f, f = form[p]
    PROVE  f \in Forms /\ FormOk(f)
BY DEF AccountsInv

(* The requests that begin: registration, change, confirmation.                 *)
LEMMA RegisterStartKeeps ==
    ASSUME AccountsInv, NEW p \in Requests, NEW e \in Emails, NEW w \in Passwords,
           Accounts!RegisterStart(p, e, w)
    PROVE  AccountsInv' /\ OthersHeard(p)
<1> DEFINE f == [Accounts!Idle EXCEPT !.op = "register", !.pc = "insert", !.email = e, !.new = w]
<1>1. f \in Forms /\ f.op = "register" /\ f.pc = "insert" /\ f.email = e /\ f.new = w /\ f.row = 0
  BY IdleForm DEF Forms
<1>2. form' = [form EXCEPT ![p] = f] /\ UNCHANGED <<users, verifs, resets, tokens>>
  BY DEF Accounts!RegisterStart, Accounts!Begin
<1> HIDE DEF f
<1>3. FormOk(f)
  BY <1>1, AccountBounds DEF FormOk
<1> QED BY <1>1, <1>2, <1>3, QuietForm

(* change_password, up to the check of the current password.                    *)
LEMMA ChangeStartKeeps ==
    ASSUME AccountsInv, NEW p \in Requests, NEW e \in Emails, NEW w \in Passwords, NEW n \in Passwords,
           Accounts!ChangeStart(p, e, w, n)
    PROVE  AccountsInv' /\ OthersHeard(p)
<1> DEFINE f == [Accounts!Idle EXCEPT !.op = "change", !.pc = "update", !.email = e, !.pw = w, !.new = n,
                                      !.held = {users[e]}]
<1>1. Accounts!Exists(e) /\ users[e] = w
  BY DEF Accounts!ChangeStart, Accounts!Authorized, Accounts!Matches
<1>2. /\ f \in Forms /\ f.op = "change" /\ f.pc = "update" /\ f.email = e /\ f.pw = w /\ f.new = n
      /\ f.held = {w} /\ f.row = 0
  BY <1>1, IdleForm DEF Forms
<1>3. form' = [form EXCEPT ![p] = f] /\ UNCHANGED <<users, verifs, resets, tokens>>
  BY DEF Accounts!ChangeStart, Accounts!Begin
<1> HIDE DEF f
<1>4. FormOk(f)
  BY <1>1, <1>2, AccountBounds DEF FormOk
<1> QED BY <1>2, <1>3, <1>4, QuietForm

(* confirm_password_reset finds a request that is not used.                     *)
LEMMA ConfirmStartKeeps ==
    ASSUME AccountsInv, NEW p \in Requests, NEW e \in Emails, NEW i \in 1 .. Len(resets),
           NEW s \in ClientSecrets, NEW n \in Passwords, Accounts!ConfirmStart(p, e, i, s, n)
    PROVE  /\ AccountsInv' /\ OthersHeard(p)
           /\ form'[p].op = "confirm" /\ form'[p].pc = "compare" /\ form'[p].row = i
           /\ ~resets[i].used /\ form[p] = Accounts!Idle
           /\ resets' \in Seq(ResetRows) /\ Len(resets') = Len(resets)
           /\ \A j \in 1 .. Len(resets) :
                /\ j # i => resets'[j] = resets[j]
                /\ resets'[j].used = resets[j].used /\ resets'[j].cut = resets[j].cut
                /\ resets'[j].writes = resets[j].writes
           /\ resets'[i].shared <=> \/ resets[i].shared
                                    \/ \E q \in Requests : form[q].op = "confirm" /\ form[q].row = i
<1>0. PICK w, f : w = users[e] /\ f = [Accounts!Idle EXCEPT !.op = "confirm", !.pc = "compare", !.email = e,
                                                   !.row = i, !.secret = s, !.new = n, !.held = {w}]
  OBVIOUS
<1> DEFINE both == resets[i].shared \/ \E q \in Requests : form[q].op = "confirm" /\ form[q].row = i
           v == [resets[i] EXCEPT !.shared = both]
<1>1. /\ Accounts!Exists(e) /\ resets[i].user = e /\ ~resets[i].used /\ form[p] = Accounts!Idle
      /\ form' = [form EXCEPT ![p] = f] /\ resets' = [resets EXCEPT ![i] = v]
      /\ UNCHANGED <<users, verifs, tokens>>
  BY <1>0 DEF Accounts!ConfirmStart, Accounts!Begin, Accounts!FindsReset
<1>2. w \in Passwords /\ Len(resets) \in Nat /\ i <= MaxRows /\ i \in Nat
  BY <1>0, <1>1, AccountBounds DEF AccountsInv, Accounts!Exists
<1>3. f \in Forms /\ f.op = "confirm" /\ f.pc = "compare" /\ f.row = i /\ f.email = e /\ f.new = n
  <2>1. {w} \in SUBSET Passwords
    BY <1>2
  <2> QED BY <1>0, <1>2, <2>1, IdleForm DEF Forms
<1>4. both \in BOOLEAN /\ resets[i] \in ResetRows
  <2>1. resets[i] \in ResetRows
    BY DEF AccountsInv
  <2>2. resets[i].shared \in BOOLEAN
    BY <2>1 DEF ResetRows
  <2>3. (\E q \in Requests : form[q].op = "confirm" /\ form[q].row = i) \in BOOLEAN
    OBVIOUS
  <2> QED BY <2>1, <2>2, <2>3
<1> HIDE DEF both
<1>5. /\ v \in ResetRows /\ v.user = resets[i].user /\ v.secret = resets[i].secret
      /\ v.used = resets[i].used /\ v.cut = resets[i].cut /\ v.writes = resets[i].writes /\ v.shared = both
  BY <1>4 DEF ResetRows
<1> HIDE DEF v
<1>6. /\ resets' \in Seq(ResetRows) /\ Len(resets') = Len(resets) /\ Len(resets) \in Nat
      /\ \A j \in 1 .. Len(resets) : /\ resets'[j] = IF j = i THEN v ELSE resets[j]
                                     /\ resets'[j].user = resets[j].user
                                     /\ resets'[j].secret = resets[j].secret
      /\ \A j \in 1 .. Len(resets') : Accounts!Exists(resets'[j].user)
  BY <1>1, <1>5, ResetMarked
<1>7. FormOk(f)'
  <2>1. /\ Accounts!Exists(e)' /\ i \in 1 .. Len(resets') /\ resets'[i].user = e
    BY <1>1, <1>6 DEF Accounts!Exists
  <2> QED BY <1>2, <1>3, <2>1 DEF FormOk
<1>8. AccountsInv'
  <2>1. Len(resets') <= MaxRows /\ Len(resets) <= Len(resets')
    BY <1>6 DEF AccountsInv
  <2>2. \E q \in Requests, g \in Forms : FormOk(g)' /\ form' = [form EXCEPT ![q] = g]
    BY <1>1, <1>3, <1>7
  <2> QED BY <1>1, <1>6, <2>1, <2>2, ResetsChange
<1>9. OthersHeard(p) /\ form'[p] = f
  BY <1>1 DEF OthersHeard, Heard, AccountsInv
<1>10. \A j \in 1 .. Len(resets) :
         /\ j # i => resets'[j] = resets[j]
         /\ resets'[j].used = resets[j].used /\ resets'[j].cut = resets[j].cut
         /\ resets'[j].writes = resets[j].writes
  BY <1>5, <1>6
<1>11. resets'[i].shared = both
  BY <1>5, <1>6
<1> QED BY <1>1, <1>3, <1>6, <1>8, <1>9, <1>10, <1>11 DEF both

(* The steps of a registration.                                                 *)
LEMMA RegisterKeeps ==
    ASSUME AccountsInv, NEW p \in Requests,
           Accounts!RegisterInsert(p) \/ Accounts!RegisterVerification(p)
    PROVE  AccountsInv' /\ OthersHeard(p)
<1>0. PICK f : f = form[p] /\ f \in Forms /\ FormOk(f)
  BY FormFacts
<1>1. f.op = "register"
  BY <1>0 DEF Accounts!RegisterInsert, Accounts!RegisterVerification, Accounts!At
<1>2. f.email \in Emails /\ f.new \in Passwords
  BY <1>0, <1>1 DEF FormOk
<1>3. CASE Accounts!RegisterInsert(p)
  <2>1. UNCHANGED <<verifs, resets, tokens>>
    BY <1>3 DEF Accounts!RegisterInsert
  <2>2. CASE Accounts!Exists(f.email)
    <3>1. form' = [form EXCEPT ![p] = Accounts!Idle] /\ UNCHANGED users
      BY <1>0, <1>3, <2>2 DEF Accounts!RegisterInsert, Accounts!Reply
    <3> QED BY <2>1, <3>1, IdleForm, QuietForm
  <2>3. CASE ~Accounts!Exists(f.email)
    <3> DEFINE g == [f EXCEPT !.pc = "verification"]
    <3>1. Accounts!SetPassword(f.email, f.new, p, g)
      BY <1>0, <1>3, <2>3 DEF Accounts!RegisterInsert
    <3>2. users' = [users EXCEPT ![f.email] = f.new]
      BY <3>1 DEF Accounts!SetPassword
    <3>3. g \in Forms /\ g.op = "register" /\ g.email = f.email /\ g.new = f.new /\ g.row = f.row
      BY <1>0, <1>1 DEF Forms
    <3> HIDE DEF g
    <3>4. /\ \A e \in Emails : Accounts!Exists(e) => Accounts!Exists(e)'
          /\ Accounts!Exists(f.email)' /\ users' \in [Emails -> Passwords \union {NoUser}]
      BY <1>2, <3>2, AccountBounds DEF Accounts!Exists, AccountsInv
    <3>5. TablesGrow /\ Len(verifs') \in Nat /\ Len(resets') \in Nat
      BY <2>1, <3>4 DEF TablesGrow, AccountsInv
    <3>6. FormOk(g)'
      BY <1>0, <1>2, <3>3, <3>4 DEF FormOk
    <3>7. /\ form' \in [Requests -> Forms] /\ \A q \in Requests : \A h \in {form'[q]} : FormOk(h)'
          /\ OthersHeard(p)
      BY <1>2, <3>1, <3>3, <3>5, <3>6, PasswordWritten
    <3>8. /\ \A i \in 1 .. Len(verifs) : verifs[i].user \in Emails
          /\ \A i \in 1 .. Len(resets) : resets[i].user \in Emails
      <4>1. /\ \A i \in 1 .. Len(verifs) : verifs[i] \in VerifRows
            /\ \A i \in 1 .. Len(resets) : resets[i] \in ResetRows
        BY DEF AccountsInv
      <4> QED BY <4>1 DEF VerifRows, ResetRows
    <3> QED BY <2>1, <3>4, <3>7, <3>8 DEF AccountsInv
  <2> QED BY <2>2, <2>3
<1>4. CASE Accounts!RegisterVerification(p)
  <2>1. /\ f.pc = "verification" /\ Len(verifs) < MaxRows /\ UNCHANGED <<users, resets>>
        /\ Accounts!InsertVerification(f.email)
        /\ tokens' = tokens \union {f.email} /\ form' = [form EXCEPT ![p] = Accounts!Idle]
    BY <1>0, <1>4 DEF Accounts!RegisterVerification, Accounts!At, Accounts!Issue, Accounts!Reply
  <2>2. Accounts!Exists(f.email)
    BY <1>0, <1>1, <2>1 DEF FormOk
  <2>3. /\ verifs' \in Seq(VerifRows) /\ Len(verifs') = Len(verifs) + 1 /\ Len(verifs) \in Nat
        /\ \A j \in 1 .. Len(verifs') : Accounts!Exists(verifs'[j].user)
    BY <1>2, <2>1, <2>2, VerifInserted
  <2>4. tokens' \subseteq { e \in Emails : Accounts!Exists(e) }
    BY <1>2, <2>1, <2>2 DEF AccountsInv
  <2>5. Len(verifs') <= MaxRows /\ Len(verifs) <= Len(verifs')
    BY <2>1, <2>3, AccountBounds
  <2>6. AccountsInv'
    BY <2>1, <2>3, <2>4, <2>5, IdleForm, VerifsChange
  <2> QED BY <2>1, <2>6 DEF OthersHeard, Heard, AccountsInv
<1> QED BY <1>3, <1>4

(* Logins issue tokens to accounts that exist; a reset request is stored for    *)
(* one; time passes.                                                            *)
LEMMA EasyAccountSteps ==
    ASSUME AccountsInv,
           \/ Accounts!Expire \/ UNCHANGED Accounts!vars
           \/ \E p \in Requests, e \in Emails :
                \/ \E w \in Passwords : Accounts!Login(p, e, w)
                \/ \E s \in ClientSecrets : Accounts!RequestReset(p, e, s)
                \/ Accounts!RefreshOrLogout(p, e)
    PROVE  AccountsInv' /\ form' = form
<1>1. CASE UNCHANGED Accounts!vars
  <2>1. UNCHANGED <<users, verifs, resets, tokens, form>>
    BY <1>1 DEF Accounts!vars
  <2> QED BY <2>1, TablesStay, FormsStay DEF AccountsInv, Accounts!Exists
<1>2. ASSUME NEW p \in Requests, NEW e \in Emails,
             (\E w \in Passwords : Accounts!Login(p, e, w)) \/ Accounts!RefreshOrLogout(p, e)
      PROVE  AccountsInv' /\ form' = form
  <2>1. UNCHANGED <<users, verifs, resets, form>>
    BY <1>2 DEF Accounts!Login, Accounts!RefreshOrLogout
  <2>2. tokens' \subseteq { x \in Emails : Accounts!Exists(x) }
    BY <1>2, AccountBounds
    DEF Accounts!Login, Accounts!RefreshOrLogout, Accounts!Issue, Accounts!Matches, Accounts!Exists, AccountsInv
  <2> QED BY <2>1, <2>2, TablesStay, FormsStay DEF AccountsInv, Accounts!Exists
<1>3. ASSUME NEW p \in Requests, NEW e \in Emails, NEW s \in ClientSecrets, Accounts!RequestReset(p, e, s)
      PROVE  AccountsInv' /\ form' = form
  <2>1. UNCHANGED <<users, verifs, form, tokens>> /\ Len(resets) < MaxRows
    BY <1>3 DEF Accounts!RequestReset
  <2>2. CASE ~Accounts!HasPassword(e)
    <3>1. UNCHANGED resets
      BY <1>3, <2>2 DEF Accounts!RequestReset
    <3> QED BY <2>1, <3>1, TablesStay, FormsStay DEF AccountsInv, Accounts!Exists
  <2>3. CASE Accounts!HasPassword(e)
    <3> DEFINE v == [user |-> e, secret |-> s, used |-> FALSE, expired |-> FALSE,
                     writes |-> 0, shared |-> FALSE, cut |-> FALSE]
    <3>1. v \in ResetRows /\ v.user = e
      BY DEF ResetRows
    <3>2. resets' = Append(resets, v) /\ resets \in Seq(ResetRows) /\ Accounts!Exists(e)
      BY <1>3, <2>3 DEF Accounts!RequestReset, Accounts!InsertReset, AccountsInv, Accounts!HasPassword
    <3> HIDE DEF v
    <3>3. /\ resets' \in Seq(ResetRows) /\ Len(resets') = Len(resets) + 1 /\ Len(resets) \in Nat
          /\ \A j \in 1 .. Len(resets) : resets'[j] = resets[j]
          /\ resets'[Len(resets) + 1] = v
      BY <3>1, <3>2, RowAppended
    <3>4. \A j \in 1 .. Len(resets') : Accounts!Exists(resets'[j].user)
      BY <3>1, <3>2, <3>3 DEF AccountsInv
    <3>5. /\ Len(resets') <= MaxRows /\ Len(resets) <= Len(resets')
          /\ \A i \in 1 .. Len(resets) : resets'[i].user = resets[i].user /\ resets'[i].secret = resets[i].secret
      BY <2>1, <3>3, AccountBounds
    <3> QED BY <2>1, <3>3, <3>4, <3>5, ResetsChange
  <2> QED BY <2>2, <2>3
<1>4. CASE Accounts!Expire
  <2>1. UNCHANGED <<users, form, tokens>>
    BY <1>4 DEF Accounts!Expire
  <2>2. ASSUME NEW i \in DOMAIN verifs, verifs' = [verifs EXCEPT ![i].expired = TRUE], UNCHANGED resets
        PROVE  AccountsInv'
    <3>1. i \in 1 .. Len(verifs) /\ verifs[i] \in VerifRows
      BY DEF AccountsInv
    <3>2. PICK v : v = [verifs[i] EXCEPT !.expired = TRUE]
      OBVIOUS
    <3>3. v \in VerifRows /\ v.user = verifs[i].user /\ verifs' = [verifs EXCEPT ![i] = v]
      BY <2>2, <3>1, <3>2 DEF VerifRows
    <3>4. /\ verifs' \in Seq(VerifRows) /\ Len(verifs') = Len(verifs) /\ Len(verifs) \in Nat
          /\ \A j \in 1 .. Len(verifs') : Accounts!Exists(verifs'[j].user)
      BY <3>1, <3>3, VerifMarked
    <3>5. Len(verifs') <= MaxRows /\ Len(verifs) <= Len(verifs') /\ tokens' \subseteq { e \in Emails : Accounts!Exists(e) }
      BY <2>1, <3>4 DEF AccountsInv
    <3> QED BY <2>1, <2>2, <3>4, <3>5, VerifsChange
  <2>3. ASSUME NEW i \in DOMAIN resets, resets' = [resets EXCEPT ![i].expired = TRUE], UNCHANGED verifs
        PROVE  AccountsInv'
    <3>1. i \in 1 .. Len(resets) /\ resets[i] \in ResetRows
      BY DEF AccountsInv
    <3>2. PICK v : v = [resets[i] EXCEPT !.expired = TRUE]
      OBVIOUS
    <3>3. v \in ResetRows /\ v.user = resets[i].user /\ v.secret = resets[i].secret /\ resets' = [resets EXCEPT ![i] = v]
      BY <2>3, <3>1, <3>2 DEF ResetRows
    <3>4. /\ resets' \in Seq(ResetRows) /\ Len(resets') = Len(resets) /\ Len(resets) \in Nat
          /\ \A j \in 1 .. Len(resets) : resets'[j].user = resets[j].user /\ resets'[j].secret = resets[j].secret
          /\ \A j \in 1 .. Len(resets') : Accounts!Exists(resets'[j].user)
      BY <3>1, <3>3, ResetMarked
    <3>5. Len(resets') <= MaxRows /\ Len(resets) <= Len(resets')
      BY <3>4 DEF AccountsInv
    <3> QED BY <2>1, <2>3, <3>4, <3>5, ResetsChange
  <2> QED BY <1>4, <2>1, <2>2, <2>3 DEF Accounts!Expire
<1> QED BY <1>1, <1>2, <1>3, <1>4

(* A change or a confirmation writes the password of its account.               *)
LEMMA PasswordStep ==
    ASSUME AccountsInv, NEW p \in Requests, NEW f, f = form[p], f.op \in {"change", "confirm"},
           NEW g \in Forms, FormOk(g)', Accounts!SetPassword(f.email, f.new, p, g),
           UNCHANGED <<verifs, tokens>>,
           resets' \in Seq(ResetRows), Len(resets') = Len(resets),
           \A j \in 1 .. Len(resets) : resets'[j].user = resets[j].user /\ resets'[j].secret = resets[j].secret
    PROVE  AccountsInv' /\ OthersHeard(p) /\ form'[p] = g
<1>1. f.email \in Emails /\ f.new \in Passwords /\ Accounts!Exists(f.email)
  BY FormFacts DEF FormOk
<1>2. users' = [users EXCEPT ![f.email] = f.new]
  BY DEF Accounts!SetPassword
<1>3. /\ \A e \in Emails : Accounts!Exists(e) => Accounts!Exists(e)'
      /\ users' \in [Emails -> Passwords \union {NoUser}]
  BY <1>1, <1>2, AccountBounds DEF Accounts!Exists, AccountsInv
<1>4. TablesGrow /\ Len(verifs') \in Nat /\ Len(resets') \in Nat
  BY <1>3 DEF TablesGrow, AccountsInv
<1>5. /\ form' \in [Requests -> Forms] /\ \A q \in Requests : \A h \in {form'[q]} : FormOk(h)'
      /\ OthersHeard(p) /\ form'[p] = g
  BY <1>1, <1>4, PasswordWritten
<1>6. /\ \A i \in 1 .. Len(verifs) : verifs[i].user \in Emails
      /\ \A i \in 1 .. Len(resets) : resets[i].user \in Emails
  <2>1. /\ \A i \in 1 .. Len(verifs) : verifs[i] \in VerifRows
        /\ \A i \in 1 .. Len(resets) : resets[i] \in ResetRows
    BY DEF AccountsInv
  <2> QED BY <2>1 DEF VerifRows, ResetRows
<1>7. (\A i \in 1 .. Len(resets) : Accounts!Exists(resets[i].user))'
  BY <1>3, <1>6 DEF AccountsInv
<1>8. (\A i \in 1 .. Len(verifs) : Accounts!Exists(verifs[i].user))'
  BY <1>3, <1>6 DEF AccountsInv
<1>9. tokens' \subseteq { e \in Emails : Accounts!Exists(e)' } /\ Len(verifs') <= MaxRows /\ Len(resets') <= MaxRows
  BY <1>3 DEF AccountsInv
<1> QED BY <1>3, <1>5, <1>7, <1>8, <1>9 DEF AccountsInv

(* change_password writes the new password and ends.                            *)
LEMMA ChangeUpdateKeeps ==
    ASSUME AccountsInv, NEW p \in Requests, Accounts!ChangeUpdate(p)
    PROVE  AccountsInv' /\ OthersHeard(p) /\ form'[p] = Accounts!Idle
<1>1. PICK f : f = form[p]
  OBVIOUS
<1>2. /\ f.op = "change" /\ Accounts!SetPassword(f.email, f.new, p, Accounts!Idle)
      /\ UNCHANGED <<verifs, resets, tokens>>
  BY <1>1 DEF Accounts!ChangeUpdate, Accounts!At
<1>3. resets' \in Seq(ResetRows) /\ Len(resets') = Len(resets)
  BY <1>2 DEF AccountsInv
<1> QED BY <1>1, <1>2, <1>3, IdleForm, PasswordStep

\* A reset request is written back with one more mark of one kind.
Marks(i, v) ==
    /\ v \in ResetRows /\ v.user = resets[i].user /\ v.secret = resets[i].secret /\ v.shared = resets[i].shared
    /\ resets' = [resets EXCEPT ![i] = v]

(* confirm_password_reset writes the password and has yet to mark its request.  *)
LEMMA ConfirmUpdateKeeps ==
    ASSUME AccountsInv, NEW p \in Requests, Accounts!ConfirmUpdate(p), NEW f, f = form[p]
    PROVE  /\ AccountsInv' /\ OthersHeard(p)
           /\ form'[p].op = "confirm" /\ form'[p].pc = "mark" /\ form'[p].row = f.row
           /\ \E v : /\ Marks(f.row, v) /\ v.writes = resets[f.row].writes + 1
                     /\ v.cut = resets[f.row].cut /\ v.used = resets[f.row].used
<1>1. f \in Forms /\ FormOk(f)
  BY FormFacts
<1>2. /\ f.op = "confirm" /\ f.pc = "update" /\ UNCHANGED <<verifs, tokens>>
      /\ Accounts!SetPassword(f.email, f.new, p, [f EXCEPT !.pc = "mark"])
      /\ resets' = [resets EXCEPT ![f.row].writes = @ + 1]
  BY DEF Accounts!ConfirmUpdate, Accounts!At
<1>3. f.row \in 1 .. Len(resets) /\ f.email \in Emails /\ f.new \in Passwords /\ Accounts!Exists(f.email)
      /\ resets[f.row].user = f.email /\ resets[f.row].secret = f.secret
  BY <1>1, <1>2 DEF FormOk
<1>4. resets[f.row] \in ResetRows
  BY <1>3 DEF AccountsInv
<1>5. PICK v : v = [resets[f.row] EXCEPT !.writes = @ + 1]
  OBVIOUS
<1>6. /\ v \in ResetRows /\ v.user = resets[f.row].user /\ v.secret = resets[f.row].secret
      /\ v.shared = resets[f.row].shared /\ v.writes = resets[f.row].writes + 1
      /\ v.cut = resets[f.row].cut /\ v.used = resets[f.row].used
  BY <1>4, <1>5 DEF ResetRows
<1>7. resets' = [resets EXCEPT ![f.row] = v]
  BY <1>2, <1>5
<1>8. /\ resets' \in Seq(ResetRows) /\ Len(resets') = Len(resets) /\ Len(resets) \in Nat
      /\ \A j \in 1 .. Len(resets) : resets'[j].user = resets[j].user /\ resets'[j].secret = resets[j].secret
  BY <1>3, <1>6, <1>7, ResetMarked, ZenonT(40)
<1>9. PICK g : g = [f EXCEPT !.pc = "mark"]
  OBVIOUS
<1>10. /\ g \in Forms /\ g.op = "confirm" /\ g.pc = "mark" /\ g.row = f.row /\ g.email = f.email
       /\ g.new = f.new /\ g.secret = f.secret
  BY <1>1, <1>2, <1>9 DEF Forms
<1>11. Accounts!Exists(f.email)'
  <2>1. users' = [users EXCEPT ![f.email] = f.new]
    BY <1>2 DEF Accounts!SetPassword
  <2> QED BY <1>3, <2>1, AccountBounds DEF Accounts!Exists, AccountsInv
<1>12. FormOk(g)'
  <2>1. f.row <= MaxRows
    BY <1>1 DEF FormOk
  <2> QED BY <1>3, <1>8, <1>10, <1>11, <2>1 DEF FormOk
<1>13. AccountsInv' /\ OthersHeard(p) /\ form'[p] = g
  BY <1>2, <1>8, <1>9, <1>10, <1>12, PasswordStep
<1>14. Marks(f.row, v)
  BY <1>6, <1>7 DEF Marks
<1> QED BY <1>6, <1>10, <1>13, <1>14

(* The secret is compared, and the request is marked as used.                   *)
LEMMA ConfirmCompareKeeps ==
    ASSUME AccountsInv, NEW p \in Requests, Accounts!ConfirmCompare(p), NEW f, f = form[p]
    PROVE  /\ AccountsInv' /\ OthersHeard(p) /\ f.op = "confirm" /\ f.pc = "compare"
           /\ \/ form'[p].op = "confirm" /\ form'[p].pc = "update" /\ form'[p].row = f.row
              \/ form'[p] = Accounts!Idle
<1>1. f \in Forms /\ FormOk(f)
  BY FormFacts
<1>2. f.op = "confirm" /\ f.pc = "compare" /\ UNCHANGED <<users, verifs, resets, tokens>>
  BY DEF Accounts!ConfirmCompare, Accounts!At
<1>3. CASE f.secret = resets[f.row].secret
  <2>1. PICK g : g = [f EXCEPT !.pc = "update"]
    OBVIOUS
  <2>2. form' = [form EXCEPT ![p] = g]
    BY <1>3, <2>1 DEF Accounts!ConfirmCompare, Accounts!Step
  <2>3. /\ g \in Forms /\ g.op = "confirm" /\ g.pc = "update" /\ g.row = f.row /\ g.email = f.email
        /\ g.new = f.new /\ g.secret = f.secret
    BY <1>1, <1>2, <2>1 DEF Forms
  <2>4. FormOk(g)
    BY <1>1, <1>2, <1>3, <2>3 DEF FormOk
  <2>5. form'[p] = g
    BY <2>2 DEF AccountsInv
  <2> QED BY <1>2, <2>2, <2>3, <2>4, <2>5, QuietForm
<1>4. CASE f.secret # resets[f.row].secret
  <2>1. form' = [form EXCEPT ![p] = Accounts!Idle]
    BY <1>4 DEF Accounts!ConfirmCompare, Accounts!Reply
  <2>2. form'[p] = Accounts!Idle
    BY <2>1 DEF AccountsInv
  <2> QED BY <1>2, <2>1, <2>2, IdleForm, QuietForm
<1> QED BY <1>3, <1>4

(* A request ends with a mark on the reset it was about.                        *)
LEMMA MarkStep ==
    ASSUME AccountsInv, NEW p \in Requests, form' = [form EXCEPT ![p] = Accounts!Idle],
           NEW i \in 1 .. Len(resets), NEW v, Marks(i, v), UNCHANGED <<users, verifs, tokens>>
    PROVE  AccountsInv' /\ OthersHeard(p) /\ form'[p] = Accounts!Idle
<1>1. /\ resets' \in Seq(ResetRows) /\ Len(resets') = Len(resets) /\ Len(resets) \in Nat
      /\ \A j \in 1 .. Len(resets) : resets'[j].user = resets[j].user /\ resets'[j].secret = resets[j].secret
      /\ \A j \in 1 .. Len(resets') : Accounts!Exists(resets'[j].user)
  BY ResetMarked DEF Marks
<1>2. Len(resets') <= MaxRows /\ Len(resets) <= Len(resets')
  BY <1>1 DEF AccountsInv
<1>3. AccountsInv'
  BY <1>1, <1>2, IdleForm, ResetsChange
<1> QED BY <1>3 DEF OthersHeard, Heard, AccountsInv

(* It marks its request as used and ends.                                       *)
LEMMA ConfirmMarkKeeps ==
    ASSUME AccountsInv, NEW p \in Requests, Accounts!ConfirmMark(p), NEW f, f = form[p]
    PROVE  /\ AccountsInv' /\ OthersHeard(p) /\ form'[p] = Accounts!Idle
           /\ f.op = "confirm" /\ f.pc = "mark" /\ f.row \in 1 .. Len(resets)
           /\ \E v : /\ Marks(f.row, v) /\ v.writes = resets[f.row].writes
                     /\ v.cut = resets[f.row].cut /\ v.used = TRUE
<1>1. f \in Forms /\ FormOk(f)
  BY FormFacts
<1>2. /\ f.op = "confirm" /\ f.pc = "mark" /\ UNCHANGED <<users, verifs, tokens>>
      /\ resets' = [resets EXCEPT ![f.row].used = TRUE] /\ form' = [form EXCEPT ![p] = Accounts!Idle]
  BY DEF Accounts!ConfirmMark, Accounts!At, Accounts!Reply
<1>3. f.row \in 1 .. Len(resets)
  BY <1>1, <1>2 DEF FormOk
<1>4. resets[f.row] \in ResetRows
  BY <1>3 DEF AccountsInv
<1>5. PICK v : v = [resets[f.row] EXCEPT !.used = TRUE]
  OBVIOUS
<1>6. /\ v \in ResetRows /\ v.user = resets[f.row].user /\ v.secret = resets[f.row].secret
      /\ v.shared = resets[f.row].shared /\ v.writes = resets[f.row].writes
      /\ v.cut = resets[f.row].cut /\ v.used = TRUE
  BY <1>4, <1>5 DEF ResetRows
<1>7. Marks(f.row, v)
  BY <1>2, <1>5, <1>6 DEF Marks
<1>8. AccountsInv' /\ OthersHeard(p) /\ form'[p] = Accounts!Idle
  BY <1>2, <1>3, <1>7, MarkStep
<1> QED BY <1>2, <1>3, <1>6, <1>7, <1>8

(* A request fails: one that was about to mark its reset leaves that undone.    *)
LEMMA FailKeeps ==
    ASSUME AccountsInv, NEW p \in Requests, Accounts!Fail(p), NEW f, f = form[p]
    PROVE  /\ AccountsInv' /\ OthersHeard(p) /\ form'[p] = Accounts!Idle /\ UNCHANGED <<users, verifs>>
           /\ f.op = "confirm" /\ f.pc = "mark" =>
                /\ f.row \in 1 .. Len(resets)
                /\ \E v : Marks(f.row, v) /\ v.cut = TRUE
           /\ ~(f.op = "confirm" /\ f.pc = "mark") => UNCHANGED resets
<1>1. f \in Forms /\ FormOk(f)
  BY FormFacts
<1>2. UNCHANGED <<users, verifs, tokens>> /\ form' = [form EXCEPT ![p] = Accounts!Idle]
  BY DEF Accounts!Fail, Accounts!Reply
<1>3. CASE f.op = "confirm" /\ f.pc = "mark"
  <2>1. resets' = [resets EXCEPT ![f.row].cut = TRUE]
    BY <1>3 DEF Accounts!Fail, Accounts!At
  <2>2. f.row \in 1 .. Len(resets)
    BY <1>1, <1>3 DEF FormOk
  <2>3. resets[f.row] \in ResetRows
    BY <2>2 DEF AccountsInv
  <2>4. PICK v : v = [resets[f.row] EXCEPT !.cut = TRUE]
    OBVIOUS
  <2>5. /\ v \in ResetRows /\ v.user = resets[f.row].user /\ v.secret = resets[f.row].secret
        /\ v.shared = resets[f.row].shared /\ v.cut = TRUE
    BY <2>3, <2>4 DEF ResetRows
  <2>6. Marks(f.row, v)
    BY <2>1, <2>4, <2>5 DEF Marks
  <2>7. AccountsInv' /\ OthersHeard(p) /\ form'[p] = Accounts!Idle
    BY <1>2, <2>2, <2>6, MarkStep
  <2> QED BY <1>2, <1>3, <2>2, <2>5, <2>6, <2>7
<1>4. CASE ~(f.op = "confirm" /\ f.pc = "mark")
  <2>1. UNCHANGED resets
    BY <1>4 DEF Accounts!Fail, Accounts!At
  <2>2. form'[p] = Accounts!Idle
    BY <1>2 DEF AccountsInv
  <2> QED BY <1>2, <1>4, <2>1, <2>2, IdleForm, QuietForm
<1> QED BY <1>3, <1>4

(* Verification: a row is read, marked, deleted, or inserted.                   *)
LEMMA VerificationStarts ==
    ASSUME AccountsInv, NEW p \in Requests,
           \/ \E i \in DOMAIN verifs : Accounts!VerifyRead(p, i)
           \/ \E e \in Emails : Accounts!AskRead(p, e)
    PROVE  /\ AccountsInv' /\ OthersHeard(p) /\ form[p] = Accounts!Idle
           /\ \E f : form' = [form EXCEPT ![p] = f] /\ f.op \in {"verify", "ask"}
           /\ UNCHANGED <<users, verifs, resets, tokens>>
<1>1. ASSUME NEW i \in DOMAIN verifs, Accounts!VerifyRead(p, i)
      PROVE  /\ AccountsInv' /\ OthersHeard(p) /\ form[p] = Accounts!Idle
             /\ \E f : form' = [form EXCEPT ![p] = f] /\ f.op \in {"verify", "ask"}
             /\ UNCHANGED <<users, verifs, resets, tokens>>
  <2>1. i \in 1 .. Len(verifs) /\ verifs[i] \in VerifRows /\ Len(verifs) <= MaxRows /\ Len(verifs) \in Nat
    BY DEF AccountsInv
  <2>2. PICK e \in Emails : e = verifs[i].user
    BY <2>1 DEF VerifRows
  <2>3. PICK f : f = [Accounts!Idle EXCEPT !.op = "verify", !.pc = "update", !.email = e, !.row = i]
    OBVIOUS
  <2>0. i \in Nat
    BY <2>1
  <2>4. f \in Forms /\ f.op = "verify" /\ f.row = i
    BY <2>0, <2>2, <2>3, IdleForm DEF Forms
  <2>5. /\ form' = [form EXCEPT ![p] = f] /\ UNCHANGED <<users, verifs, resets, tokens>>
        /\ form[p] = Accounts!Idle
    BY <1>1, <2>2, <2>3 DEF Accounts!VerifyRead, Accounts!Begin
  <2>6. FormOk(f)
    BY <2>1, <2>4, AccountBounds DEF FormOk
  <2>7. AccountsInv' /\ OthersHeard(p)
    BY <2>4, <2>5, <2>6, QuietForm
  <2> QED BY <2>4, <2>5, <2>7
<1>2. ASSUME NEW e \in Emails, Accounts!AskRead(p, e)
      PROVE  /\ AccountsInv' /\ OthersHeard(p) /\ form[p] = Accounts!Idle
             /\ \E f : form' = [form EXCEPT ![p] = f] /\ f.op \in {"verify", "ask"}
             /\ UNCHANGED <<users, verifs, resets, tokens>>
  <2>1. Accounts!Exists(e) /\ UNCHANGED <<users, verifs, resets, tokens>> /\ form[p] = Accounts!Idle
    BY <1>2 DEF Accounts!AskRead, Accounts!Authorized, Accounts!Begin
  <2>2. PICK f : form' = [form EXCEPT ![p] = f] /\ f \in Forms /\ FormOk(f) /\ f.op = "ask"
    <3>1. CASE Accounts!Begin(p, [Accounts!Idle EXCEPT !.op = "ask", !.pc = "insert", !.email = e])
      <4>1. PICK f : f = [Accounts!Idle EXCEPT !.op = "ask", !.pc = "insert", !.email = e]
        OBVIOUS
      <4>2. f \in Forms /\ f.op = "ask" /\ f.pc = "insert" /\ f.email = e /\ f.row = 0
        BY <4>1, IdleForm DEF Forms
      <4>3. FormOk(f)
        BY <2>1, <4>2, AccountBounds DEF FormOk
      <4> QED BY <3>1, <4>1, <4>2, <4>3 DEF Accounts!Begin
    <3>2. ASSUME NEW i \in Accounts!VerificationRows(e),
                 Accounts!Begin(p, [Accounts!Idle EXCEPT !.op = "ask", !.pc = "delete", !.email = e, !.row = i])
          PROVE  \E f : form' = [form EXCEPT ![p] = f] /\ f \in Forms /\ FormOk(f) /\ f.op = "ask"
      <4>0. i \in 1 .. Len(verifs) /\ i \in Nat /\ i <= MaxRows
        BY AccountBounds DEF Accounts!VerificationRows, AccountsInv
      <4>1. PICK f : f = [Accounts!Idle EXCEPT !.op = "ask", !.pc = "delete", !.email = e, !.row = i]
        OBVIOUS
      <4>2. f \in Forms /\ f.op = "ask" /\ f.pc = "delete" /\ f.email = e /\ f.row = i
        BY <4>0, <4>1, IdleForm DEF Forms
      <4>3. FormOk(f)
        BY <2>1, <4>0, <4>2, AccountBounds DEF FormOk
      <4> QED BY <3>2, <4>1, <4>2, <4>3 DEF Accounts!Begin
    <3> QED BY <1>2, <3>1, <3>2 DEF Accounts!AskRead
  <2>3. AccountsInv' /\ OthersHeard(p)
    BY <2>1, <2>2, QuietForm
  <2> QED BY <2>1, <2>2, <2>3
<1> QED BY <1>1, <1>2

(* Writes of verification rows touch neither passwords nor resets.              *)
LEMMA VerificationWrites ==
    ASSUME AccountsInv, NEW p \in Requests,
           Accounts!VerifyUpdate(p) \/ Accounts!AskDelete(p) \/ Accounts!AskInsert(p)
    PROVE  /\ AccountsInv' /\ OthersHeard(p) /\ UNCHANGED <<users, resets>>
           /\ form[p].op \in {"verify", "ask"} /\ form'[p].op \in {"none", "ask"}
<1>0. PICK f : f = form[p] /\ f \in Forms /\ FormOk(f)
  BY FormFacts
<1>9. tokens \subseteq { e \in Emails : Accounts!Exists(e) } /\ Len(verifs) <= MaxRows
  BY DEF AccountsInv
<1>1. CASE Accounts!VerifyUpdate(p)
  <2>1. /\ f.op = "verify" /\ UNCHANGED <<users, resets, tokens>> /\ form' = [form EXCEPT ![p] = Accounts!Idle]
        /\ verifs' = [verifs EXCEPT ![f.row].verified = @ \/ verifs[f.row].live]
    BY <1>0, <1>1 DEF Accounts!VerifyUpdate, Accounts!At, Accounts!Reply
  <2>2. f.row \in 1 .. Len(verifs)
    BY <1>0, <2>1 DEF FormOk
  <2>3. verifs[f.row] \in VerifRows
    BY <2>2 DEF AccountsInv
  <2>4. PICK b \in BOOLEAN : b = (verifs[f.row].verified \/ verifs[f.row].live)
    BY <2>3 DEF VerifRows
  <2>5. PICK v : v = [verifs[f.row] EXCEPT !.verified = b]
    OBVIOUS
  <2>6. v \in VerifRows /\ v.user = verifs[f.row].user
    BY <2>3, <2>4, <2>5 DEF VerifRows
  <2>7. verifs' = [verifs EXCEPT ![f.row] = v]
    BY <2>1, <2>4, <2>5
  <2>8. /\ verifs' \in Seq(VerifRows) /\ Len(verifs') = Len(verifs) /\ Len(verifs) \in Nat
        /\ \A j \in 1 .. Len(verifs') : Accounts!Exists(verifs'[j].user)
    BY <2>2, <2>6, <2>7, VerifMarked
  <2>9. /\ Len(verifs') <= MaxRows /\ Len(verifs) <= Len(verifs')
        /\ tokens' \subseteq { e \in Emails : Accounts!Exists(e) }
    BY <1>9, <2>1, <2>8
  <2>10. AccountsInv'
    BY <2>1, <2>8, <2>9, IdleForm, VerifsChange
  <2> QED BY <1>0, <2>1, <2>10, IdleForm DEF OthersHeard, Heard, AccountsInv
<1>2. CASE Accounts!AskDelete(p)
  <2>1. /\ f.op = "ask" /\ f.pc = "delete" /\ UNCHANGED <<users, resets, tokens>>
        /\ form' = [form EXCEPT ![p].pc = "insert"]
        /\ verifs' = [verifs EXCEPT ![f.row].live = FALSE]
    BY <1>0, <1>2 DEF Accounts!AskDelete, Accounts!At, Accounts!Step
  <2>2. f.row \in 1 .. Len(verifs)
    BY <1>0, <2>1 DEF FormOk
  <2>3. verifs[f.row] \in VerifRows
    BY <2>2 DEF AccountsInv
  <2>5. PICK v : v = [verifs[f.row] EXCEPT !.live = FALSE]
    OBVIOUS
  <2>6. v \in VerifRows /\ v.user = verifs[f.row].user
    BY <2>3, <2>5 DEF VerifRows
  <2>7. verifs' = [verifs EXCEPT ![f.row] = v]
    BY <2>1, <2>5
  <2>8. /\ verifs' \in Seq(VerifRows) /\ Len(verifs') = Len(verifs) /\ Len(verifs) \in Nat
        /\ \A j \in 1 .. Len(verifs') : Accounts!Exists(verifs'[j].user)
    BY <2>2, <2>6, <2>7, VerifMarked
  <2>9. PICK g : g = [f EXCEPT !.pc = "insert"]
    OBVIOUS
  <2>10. g \in Forms /\ g.op = "ask" /\ g.pc = "insert" /\ g.email = f.email /\ g.row = f.row
    BY <1>0, <2>1, <2>9 DEF Forms
  <2>11. form' = [form EXCEPT ![p] = g]
    BY <1>0, <2>1, <2>9
  <2>12. FormOk(g)'
    BY <1>0, <2>1, <2>10 DEF FormOk, Accounts!Exists
  <2>15. /\ Len(verifs') <= MaxRows /\ Len(verifs) <= Len(verifs')
         /\ tokens' \subseteq { e \in Emails : Accounts!Exists(e) }
    BY <1>9, <2>1, <2>8
  <2>13. AccountsInv'
    BY <2>1, <2>8, <2>10, <2>11, <2>12, <2>15, VerifsChange
  <2>14. form'[p] = g /\ OthersHeard(p)
    BY <2>11 DEF OthersHeard, Heard, AccountsInv
  <2> QED BY <1>0, <2>1, <2>10, <2>13, <2>14
<1>3. CASE Accounts!AskInsert(p)
  <2>1. /\ f.op = "ask" /\ Len(verifs) < MaxRows /\ UNCHANGED <<users, resets, tokens>>
        /\ Accounts!InsertVerification(f.email) /\ form' = [form EXCEPT ![p] = Accounts!Idle]
    BY <1>0, <1>3 DEF Accounts!AskInsert, Accounts!At, Accounts!Reply
  <2>2. f.email \in Emails /\ Accounts!Exists(f.email)
    BY <1>0, <2>1 DEF FormOk
  <2>3. /\ verifs' \in Seq(VerifRows) /\ Len(verifs') = Len(verifs) + 1 /\ Len(verifs) \in Nat
        /\ \A j \in 1 .. Len(verifs') : Accounts!Exists(verifs'[j].user)
    BY <2>1, <2>2, VerifInserted
  <2>4. Len(verifs') <= MaxRows /\ Len(verifs) <= Len(verifs')
    BY <2>1, <2>3, AccountBounds
  <2>5. AccountsInv'
    BY <1>9, <2>1, <2>3, <2>4, IdleForm, VerifsChange
  <2> QED BY <1>0, <2>1, <2>5, IdleForm DEF OthersHeard, Heard, AccountsInv
<1> QED BY <1>1, <1>2, <1>3

\* A step keeps the marks of every reset request; one it adds has written nothing.
MarksKept ==
    /\ Len(resets) <= Len(resets')
    /\ \A i \in 1 .. Len(resets) :
         /\ resets'[i].shared = resets[i].shared /\ resets'[i].cut = resets[i].cut
         /\ resets'[i].writes = resets[i].writes /\ resets'[i].used = resets[i].used
    /\ \A i \in 1 .. Len(resets') : i \in 1 .. Len(resets) \/ resets'[i].writes = 0

\* What becomes of the request that takes the step.
Unmarked(p) ==
    \/ Heard(form[p], form'[p])
    \/ form'[p].op # "confirm" /\ ~(form[p].op = "confirm" /\ form[p].pc = "mark")
    \/ /\ form[p].op = "confirm" /\ form[p].pc = "compare"
       /\ form'[p].op = "confirm" /\ form'[p].pc = "update" /\ form'[p].row = form[p].row

\* Two confirmations of one request have overlapped; one that has not written
\* yet finds nothing written; and what was written once is marked as used, or is
\* about to be.
CodesInv ==
    /\ \A p, q \in Requests : p # q /\ form[p].op = "confirm" /\ form[q].op = "confirm"
                              /\ form[p].row = form[q].row => resets[form[p].row].shared
    /\ \A p \in Requests : form[p].op = "confirm" /\ form[p].pc \in {"compare", "update"} =>
         \/ resets[form[p].row].shared \/ resets[form[p].row].cut
         \/ resets[form[p].row].writes = 0
    /\ \A i \in 1 .. Len(resets) :
         \/ resets[i].shared \/ resets[i].cut \/ resets[i].writes = 0
         \/ /\ resets[i].writes = 1
            /\ \/ resets[i].used
               \/ \E p \in Requests : form[p].op = "confirm" /\ form[p].pc = "mark" /\ form[p].row = i

(* A confirmation has a reset request in the table, before and after a step.    *)
LEMMA ConfirmRow ==
    AccountsInv => \A p \in Requests : form[p].op = "confirm" =>
        form[p].row \in 1 .. Len(resets) /\ form[p].pc \in {"compare", "update", "mark"}
BY DEF AccountsInv, FormOk

(* A step that leaves the reset requests alone keeps their marks.               *)
LEMMA MarksUnchanged ==
    ASSUME AccountsInv, UNCHANGED resets
    PROVE  MarksKept
BY DEF MarksKept, AccountsInv

(* A step that marks nothing and starts no confirmation keeps CodesInv.         *)
LEMMA QuietCodes ==
    ASSUME AccountsInv, CodesInv, NEW p \in Requests, OthersHeard(p), Unmarked(p), MarksKept
    PROVE  CodesInv'
<1>0. \A q \in Requests : form[q].op = "confirm" =>
         form[q].row \in 1 .. Len(resets) /\ form[q].pc \in {"compare", "update", "mark"}
  BY ConfirmRow
<1>1. \A q \in Requests : form'[q].op = "confirm" =>
        /\ form[q].op = "confirm" /\ form'[q].row = form[q].row
        /\ form'[q].pc \in {"compare", "update"} => form[q].pc \in {"compare", "update"}
  BY DEF OthersHeard, Unmarked, Heard
<1>2. \A q \in Requests : form[q].op = "confirm" /\ form[q].pc = "mark" =>
        form'[q].op = "confirm" /\ form'[q].pc = "mark" /\ form'[q].row = form[q].row
  BY DEF OthersHeard, Unmarked, Heard
<1>3. ASSUME NEW r \in Requests, NEW q \in Requests, r # q, form'[r].op = "confirm", form'[q].op = "confirm",
             form'[r].row = form'[q].row
      PROVE  resets'[form'[r].row].shared
  BY <1>0, <1>1, <1>3 DEF CodesInv, MarksKept
<1>4. ASSUME NEW q \in Requests, form'[q].op = "confirm", form'[q].pc \in {"compare", "update"}
      PROVE  \/ resets'[form'[q].row].shared \/ resets'[form'[q].row].cut \/ resets'[form'[q].row].writes = 0
  <2>1. form[q].op = "confirm" /\ form'[q].row = form[q].row /\ form[q].pc \in {"compare", "update"}
    BY <1>1, <1>4
  <2> QED BY <1>0, <2>1 DEF CodesInv, MarksKept
<1>5. ASSUME NEW i \in 1 .. Len(resets')
      PROVE  \/ resets'[i].shared \/ resets'[i].cut \/ resets'[i].writes = 0
             \/ /\ resets'[i].writes = 1
                /\ \/ resets'[i].used
                   \/ \E q \in Requests : form'[q].op = "confirm" /\ form'[q].pc = "mark" /\ form'[q].row = i
  <2>1. CASE i \in 1 .. Len(resets)
    BY <1>2, <2>1 DEF CodesInv, MarksKept
  <2>2. CASE ~(i \in 1 .. Len(resets))
    BY <2>2 DEF MarksKept
  <2> QED BY <2>1, <2>2
<1> QED BY <1>3, <1>4, <1>5 DEF CodesInv

(* A second confirmation of a request that is not used is noted as overlapping. *)
LEMMA ConfirmStartCodes ==
    ASSUME AccountsInv, CodesInv, NEW p \in Requests, NEW e \in Emails, NEW i \in 1 .. Len(resets),
           NEW s \in ClientSecrets, NEW n \in Passwords, Accounts!ConfirmStart(p, e, i, s, n)
    PROVE  CodesInv'
<1>0. \A q \in Requests : form[q].op = "confirm" =>
         form[q].row \in 1 .. Len(resets) /\ form[q].pc \in {"compare", "update", "mark"}
  BY ConfirmRow
<1>1. /\ OthersHeard(p)
      /\ form'[p].op = "confirm" /\ form'[p].pc = "compare" /\ form'[p].row = i
      /\ ~resets[i].used /\ form[p] = Accounts!Idle
      /\ Len(resets') = Len(resets)
      /\ \A j \in 1 .. Len(resets) :
           /\ j # i => resets'[j] = resets[j]
           /\ resets'[j].used = resets[j].used /\ resets'[j].cut = resets[j].cut
           /\ resets'[j].writes = resets[j].writes
      /\ resets'[i].shared <=> \/ resets[i].shared
                               \/ \E q \in Requests : form[q].op = "confirm" /\ form[q].row = i
  BY ConfirmStartKeeps
<1>2. \A q \in Requests : q # p => form'[q].op = form[q].op /\ form'[q].pc = form[q].pc /\ form'[q].row = form[q].row
  BY <1>1 DEF OthersHeard, Heard
<1>3. form[p].op = "none"
  BY <1>1, IdleForm
<1>4. ASSUME NEW r \in Requests, NEW q \in Requests, r # q, form'[r].op = "confirm", form'[q].op = "confirm",
             form'[r].row = form'[q].row
      PROVE  resets'[form'[r].row].shared
  <2>1. CASE r # p /\ q # p
    <3>1. resets[form[r].row].shared /\ form[r].row \in 1 .. Len(resets) /\ form'[r].row = form[r].row
      BY <1>0, <1>2, <1>4, <2>1 DEF CodesInv
    <3> QED BY <1>1, <3>1
  <2>2. CASE r = p
    BY <1>1, <1>2, <1>4, <2>2
  <2>3. CASE q = p
    BY <1>1, <1>2, <1>4, <2>3
  <2> QED BY <2>1, <2>2, <2>3
<1>5. ASSUME NEW q \in Requests, form'[q].op = "confirm", form'[q].pc \in {"compare", "update"}
      PROVE  \/ resets'[form'[q].row].shared \/ resets'[form'[q].row].cut \/ resets'[form'[q].row].writes = 0
  <2>1. CASE q # p
    <3>1. /\ form[q].row \in 1 .. Len(resets) /\ form'[q].row = form[q].row
          /\ \/ resets[form[q].row].shared \/ resets[form[q].row].cut \/ resets[form[q].row].writes = 0
      BY <1>0, <1>2, <1>5, <2>1 DEF CodesInv
    <3> QED BY <1>1, <3>1
  <2>2. CASE q = p
    <3>1. \/ resets[i].shared \/ resets[i].cut \/ resets[i].writes = 0
          \/ \E r \in Requests : form[r].op = "confirm" /\ form[r].row = i
      BY <1>1 DEF CodesInv
    <3> QED BY <1>1, <2>2, <3>1
  <2> QED BY <2>1, <2>2
<1>6. ASSUME NEW j \in 1 .. Len(resets')
      PROVE  \/ resets'[j].shared \/ resets'[j].cut \/ resets'[j].writes = 0
             \/ /\ resets'[j].writes = 1
                /\ \/ resets'[j].used
                   \/ \E q \in Requests : form'[q].op = "confirm" /\ form'[q].pc = "mark" /\ form'[q].row = j
  <2>1. j \in 1 .. Len(resets)
    BY <1>1, <1>6
  <2>2. resets[j].shared => resets'[j].shared
    BY <1>1, <2>1
  <2>3. CASE /\ resets[j].writes = 1
             /\ \E q \in Requests : form[q].op = "confirm" /\ form[q].pc = "mark" /\ form[q].row = j
    BY <1>1, <1>2, <1>3, <2>1, <2>3
  <2>4. CASE resets[j].shared \/ resets[j].cut \/ resets[j].writes = 0 \/ (resets[j].writes = 1 /\ resets[j].used)
    BY <1>1, <2>1, <2>2, <2>4
  <2>5. \/ resets[j].shared \/ resets[j].cut \/ resets[j].writes = 0
        \/ /\ resets[j].writes = 1
           /\ \/ resets[j].used
              \/ \E q \in Requests : form[q].op = "confirm" /\ form[q].pc = "mark" /\ form[q].row = j
    BY <2>1 DEF CodesInv
  <2> QED BY <2>3, <2>4, <2>5
<1> QED BY <1>4, <1>5, <1>6 DEF CodesInv

(* A mark touches one reset request and keeps whether it is shared.             *)
LEMMA MarkedRow ==
    ASSUME AccountsInv, NEW i \in 1 .. Len(resets), NEW v, Marks(i, v)
    PROVE  /\ Len(resets') = Len(resets) /\ resets'[i] = v
           /\ \A j \in 1 .. Len(resets) : /\ j # i => resets'[j] = resets[j]
                                          /\ resets'[j].shared = resets[j].shared
<1>1. /\ Len(resets') = Len(resets)
      /\ \A j \in 1 .. Len(resets) : resets'[j] = IF j = i THEN v ELSE resets[j]
  BY ResetMarked DEF Marks
<1>2. resets'[i] = v /\ v.shared = resets[i].shared
  BY <1>1 DEF Marks
<1> QED BY <1>1, <1>2

(* A confirmation writes, marks, or fails before it marks: of the others, those *)
(* of the same code share it.                                                   *)
LEMMA MarkingCodes ==
    ASSUME AccountsInv, CodesInv, NEW p \in Requests, OthersHeard(p), NEW i \in 1 .. Len(resets), NEW v,
           Marks(i, v), form[p].op = "confirm", form[p].row = i,
           \/ /\ form'[p].op = "confirm" /\ form'[p].pc = "mark" /\ form'[p].row = i
              /\ form[p].pc = "update" /\ v.writes = resets[i].writes + 1 /\ v.cut = resets[i].cut
           \/ /\ form'[p] = Accounts!Idle /\ form[p].pc = "mark"
              /\ v.cut = TRUE \/ (v.used = TRUE /\ v.writes = resets[i].writes /\ v.cut = resets[i].cut)
    PROVE  CodesInv'
<1>0. \A q \in Requests : form[q].op = "confirm" =>
         form[q].row \in 1 .. Len(resets) /\ form[q].pc \in {"compare", "update", "mark"}
  BY ConfirmRow
<1>1. /\ Len(resets') = Len(resets) /\ resets'[i] = v
      /\ \A j \in 1 .. Len(resets) : /\ j # i => resets'[j] = resets[j]
                                     /\ resets'[j].shared = resets[j].shared
  BY MarkedRow
<1>2. \A q \in Requests : q # p => form'[q].op = form[q].op /\ form'[q].pc = form[q].pc /\ form'[q].row = form[q].row
  BY DEF OthersHeard, Heard
<1>3. form'[p].op = "confirm" => form'[p].row = i /\ form'[p].pc = "mark"
  BY IdleForm
<1>4. ASSUME NEW r \in Requests, NEW q \in Requests, r # q, form'[r].op = "confirm", form'[q].op = "confirm",
             form'[r].row = form'[q].row
      PROVE  resets'[form'[r].row].shared
  <2>1. form[r].op = "confirm" /\ form[q].op = "confirm" /\ form'[r].row = form[r].row /\ form'[q].row = form[q].row
    BY <1>2, <1>3, <1>4
  <2>2. form[r].row \in 1 .. Len(resets) /\ form[r].row = form[q].row
    BY <1>0, <1>4, <2>1
  <2>3. resets[form[r].row].shared
    BY <1>4, <2>1, <2>2 DEF CodesInv
  <2> QED BY <1>1, <2>1, <2>2, <2>3
<1>5. ASSUME NEW q \in Requests, form'[q].op = "confirm", form'[q].pc \in {"compare", "update"}
      PROVE  \/ resets'[form'[q].row].shared \/ resets'[form'[q].row].cut \/ resets'[form'[q].row].writes = 0
  <2>1. q # p /\ form[q].op = "confirm" /\ form'[q].row = form[q].row /\ form[q].pc \in {"compare", "update"}
    BY <1>2, <1>3, <1>5
  <2>2. form[q].row \in 1 .. Len(resets)
    BY <1>0, <2>1
  <2>3. CASE form[q].row = i
    <3>1. resets[i].shared
      BY <2>1, <2>3 DEF CodesInv
    <3> QED BY <1>1, <2>1, <2>3, <3>1
  <2>4. CASE form[q].row # i
    <3>1. \/ resets[form[q].row].shared \/ resets[form[q].row].cut \/ resets[form[q].row].writes = 0
      BY <2>1 DEF CodesInv
    <3> QED BY <1>1, <2>1, <2>2, <2>4, <3>1
  <2> QED BY <2>3, <2>4
<1>6. ASSUME NEW j \in 1 .. Len(resets')
      PROVE  \/ resets'[j].shared \/ resets'[j].cut \/ resets'[j].writes = 0
             \/ /\ resets'[j].writes = 1
                /\ \/ resets'[j].used
                   \/ \E q \in Requests : form'[q].op = "confirm" /\ form'[q].pc = "mark" /\ form'[q].row = j
  <2>1. j \in 1 .. Len(resets)
    BY <1>1, <1>6
  <2>2. \/ resets[j].shared \/ resets[j].cut \/ resets[j].writes = 0
        \/ /\ resets[j].writes = 1
           /\ \/ resets[j].used
              \/ \E q \in Requests : form[q].op = "confirm" /\ form[q].pc = "mark" /\ form[q].row = j
    BY <2>1 DEF CodesInv
  <2>3. CASE j # i
    <3>1. resets'[j] = resets[j]
      BY <1>1, <2>1, <2>3
    <3>2. ASSUME NEW q \in Requests, form[q].op = "confirm", form[q].pc = "mark", form[q].row = j
          PROVE  form'[q].op = "confirm" /\ form'[q].pc = "mark" /\ form'[q].row = j
      BY <1>2, <2>3, <3>2
    <3> QED BY <2>2, <3>1, <3>2
  <2>4. CASE j = i /\ form[p].pc = "update"
    <3>1. /\ form'[p].op = "confirm" /\ form'[p].pc = "mark" /\ form'[p].row = i
          /\ v.writes = resets[i].writes + 1 /\ v.cut = resets[i].cut
      BY <2>4
    <3>2. \/ resets[i].shared \/ resets[i].cut \/ resets[i].writes = 0
      BY <2>4 DEF CodesInv
    <3>3. CASE resets[i].shared
      BY <1>1, <2>1, <2>4, <3>3
    <3>4. CASE resets[i].cut
      BY <1>1, <2>4, <3>1, <3>4
    <3>5. CASE resets[i].writes = 0
      <4>1. v.writes = 1
        BY <3>1, <3>5
      <4> QED BY <1>1, <2>4, <3>1, <4>1
    <3> QED BY <3>2, <3>3, <3>4, <3>5
  <2>5. CASE j = i /\ form[p].pc = "mark"
    <3>1. v.cut = TRUE \/ (v.used = TRUE /\ v.writes = resets[i].writes /\ v.cut = resets[i].cut)
      BY <2>5
    <3>2. CASE v.cut = TRUE
      BY <1>1, <2>5, <3>2
    <3>3. CASE v.used = TRUE /\ v.writes = resets[i].writes /\ v.cut = resets[i].cut
      <4>1. resets[i].shared => resets'[i].shared
        BY <1>1
      <4> QED BY <1>1, <2>2, <2>5, <3>3, <4>1
    <3> QED BY <3>1, <3>2, <3>3
  <2> QED BY <2>3, <2>4, <2>5
<1> QED BY <1>4, <1>5, <1>6 DEF CodesInv

(* The steps that leave every reset request alone.                              *)
LEMMA PlainMoves ==
    ASSUME AccountsInv, NEW p \in Requests,
           \/ \E e \in Emails, w \in Passwords :
                Accounts!RegisterStart(p, e, w) \/ \E n \in Passwords : Accounts!ChangeStart(p, e, w, n)
           \/ Accounts!RegisterInsert(p) \/ Accounts!RegisterVerification(p) \/ Accounts!ChangeUpdate(p)
           \/ Accounts!Verification(p)
    PROVE  /\ AccountsInv' /\ OthersHeard(p) /\ UNCHANGED resets
           /\ form'[p].op # "confirm" /\ form[p].op # "confirm"
<1>0. PICK f : f = form[p] /\ f \in Forms /\ FormOk(f)
  BY FormFacts
<1>9. form \in [Requests -> Forms]
  BY DEF AccountsInv
<1>1. ASSUME NEW e \in Emails, NEW w \in Passwords, Accounts!RegisterStart(p, e, w)
      PROVE  /\ AccountsInv' /\ OthersHeard(p) /\ UNCHANGED resets
             /\ form'[p].op # "confirm" /\ form[p].op # "confirm"
  <2>1. AccountsInv' /\ OthersHeard(p)
    BY <1>1, RegisterStartKeeps
  <2>2. PICK g : g = [Accounts!Idle EXCEPT !.op = "register", !.pc = "insert", !.email = e, !.new = w]
    OBVIOUS
  <2>3. g.op = "register"
    BY <2>2, IdleForm DEF Forms
  <2>4. form' = [form EXCEPT ![p] = g] /\ UNCHANGED resets /\ form[p] = Accounts!Idle
    BY <1>1, <2>2 DEF Accounts!RegisterStart, Accounts!Begin
  <2> QED BY <1>9, <2>1, <2>3, <2>4, IdleForm
<1>2. ASSUME NEW e \in Emails, NEW w \in Passwords, NEW n \in Passwords, Accounts!ChangeStart(p, e, w, n)
      PROVE  /\ AccountsInv' /\ OthersHeard(p) /\ UNCHANGED resets
             /\ form'[p].op # "confirm" /\ form[p].op # "confirm"
  <2>1. AccountsInv' /\ OthersHeard(p)
    BY <1>2, ChangeStartKeeps
  <2>2. PICK g : g = [Accounts!Idle EXCEPT !.op = "change", !.pc = "update", !.email = e, !.pw = w, !.new = n,
                                           !.held = {users[e]}]
    OBVIOUS
  <2>3. g.op = "change"
    BY <2>2, IdleForm DEF Forms
  <2>4. form' = [form EXCEPT ![p] = g] /\ UNCHANGED resets /\ form[p] = Accounts!Idle
    BY <1>2, <2>2 DEF Accounts!ChangeStart, Accounts!Begin
  <2> QED BY <1>9, <2>1, <2>3, <2>4, IdleForm
<1>3. CASE Accounts!RegisterInsert(p) \/ Accounts!RegisterVerification(p)
  <2>1. AccountsInv' /\ OthersHeard(p)
    BY <1>3, RegisterKeeps
  <2>2. f.op = "register" /\ UNCHANGED resets
    BY <1>0, <1>3 DEF Accounts!RegisterInsert, Accounts!RegisterVerification, Accounts!At
  <2>3. PICK g : g = [f EXCEPT !.pc = "verification"]
    OBVIOUS
  <2>4. g.op = "register"
    BY <1>0, <2>2, <2>3 DEF Forms
  <2>5. form'[p] = Accounts!Idle \/ form'[p] = g
    BY <1>0, <1>3, <1>9, <2>3
       DEF Accounts!RegisterInsert, Accounts!RegisterVerification, Accounts!Reply, Accounts!SetPassword
  <2> QED BY <1>0, <2>1, <2>2, <2>4, <2>5, IdleForm
<1>4. CASE Accounts!ChangeUpdate(p)
  <2>1. AccountsInv' /\ OthersHeard(p) /\ form'[p] = Accounts!Idle
    BY <1>4, ChangeUpdateKeeps
  <2>2. f.op = "change" /\ UNCHANGED resets
    BY <1>0, <1>4 DEF Accounts!ChangeUpdate, Accounts!At
  <2> QED BY <1>0, <2>1, <2>2, IdleForm
<1>5. CASE \/ \E i \in DOMAIN verifs : Accounts!VerifyRead(p, i)
           \/ \E e \in Emails : Accounts!AskRead(p, e)
  <2>1. /\ AccountsInv' /\ OthersHeard(p) /\ form[p] = Accounts!Idle
        /\ \E g : form' = [form EXCEPT ![p] = g] /\ g.op \in {"verify", "ask"}
        /\ UNCHANGED resets
    BY <1>5, VerificationStarts
  <2> QED BY <1>9, <2>1, IdleForm
<1>6. CASE Accounts!VerifyUpdate(p) \/ Accounts!AskDelete(p) \/ Accounts!AskInsert(p)
  BY <1>6, VerificationWrites
<1> QED BY <1>1, <1>2, <1>3, <1>4, <1>5, <1>6 DEF Accounts!Verification

(* Every step of the platform account handlers keeps AccountsInv.               *)
LEMMA AccountsStep ==
    ASSUME AccountsInv, [Accounts!Next]_Accounts!vars
    PROVE  AccountsInv'
<1>1. CASE Accounts!Expire \/ UNCHANGED Accounts!vars
  BY <1>1, EasyAccountSteps
<1>2. ASSUME NEW p \in Requests, Accounts!Verification(p)
      PROVE  AccountsInv'
  BY <1>2, PlainMoves
<1>3. ASSUME NEW p \in Requests, Accounts!Account(p)
      PROVE  AccountsInv'
  <2>1. ASSUME NEW e \in Emails, NEW w \in Passwords,
               \/ Accounts!RegisterStart(p, e, w) \/ Accounts!Login(p, e, w)
               \/ \E n \in Passwords : Accounts!ChangeStart(p, e, w, n)
               \/ \E i \in DOMAIN resets, s \in ClientSecrets : Accounts!ConfirmStart(p, e, i, s, w)
        PROVE  AccountsInv'
    <3>1. DOMAIN resets = 1 .. Len(resets)
      BY DEF AccountsInv
    <3>2. CASE Accounts!RegisterStart(p, e, w) \/ \E n \in Passwords : Accounts!ChangeStart(p, e, w, n)
      BY <3>2, PlainMoves
    <3>3. CASE Accounts!Login(p, e, w)
      BY <3>3, EasyAccountSteps
    <3>4. ASSUME NEW i \in DOMAIN resets, NEW s \in ClientSecrets, Accounts!ConfirmStart(p, e, i, s, w)
          PROVE  AccountsInv'
      BY <3>1, <3>4, ConfirmStartKeeps
    <3> QED BY <2>1, <3>2, <3>3, <3>4
  <2>2. CASE \E e \in Emails : \/ \E s \in ClientSecrets : Accounts!RequestReset(p, e, s)
                               \/ Accounts!RefreshOrLogout(p, e)
    BY <2>2, EasyAccountSteps
  <2>3. CASE Accounts!RegisterInsert(p) \/ Accounts!RegisterVerification(p) \/ Accounts!ChangeUpdate(p)
    BY <2>3, PlainMoves
  <2>4. CASE Accounts!ConfirmCompare(p) \/ Accounts!ConfirmUpdate(p) \/ Accounts!ConfirmMark(p) \/ Accounts!Fail(p)
    <3>1. PICK f : f = form[p]
      OBVIOUS
    <3> QED BY <2>4, <3>1, ConfirmCompareKeeps, ConfirmUpdateKeeps, ConfirmMarkKeeps, FailKeeps
  <2> QED BY <1>3, <2>1, <2>2, <2>3, <2>4 DEF Accounts!Account
<1> QED BY <1>1, <1>2, <1>3 DEF Accounts!Next

(* And CodesInv.                                                                *)
LEMMA CodesStep ==
    ASSUME AccountsInv, CodesInv, [Accounts!Next]_Accounts!vars
    PROVE  CodesInv'
<1>1. ASSUME NEW p \in Requests, UNCHANGED resets, OthersHeard(p), form'[p].op # "confirm", form[p].op # "confirm"
      PROVE  CodesInv'
  BY <1>1, MarksUnchanged, QuietCodes DEF Unmarked
<1>2. ASSUME form' = form, MarksKept
      PROVE  CodesInv'
  <2>1. PICK p \in Requests : TRUE
    BY PlatformAssumption DEF Accounts!PlatformAssumption
  <2>2. OthersHeard(p) /\ Unmarked(p)
    BY <1>2 DEF OthersHeard, Unmarked, Heard
  <2> QED BY <1>2, <2>2, QuietCodes
<1>3. CASE UNCHANGED Accounts!vars
  BY <1>2, <1>3, MarksUnchanged DEF Accounts!vars
<1>4. CASE Accounts!Expire
  <2>1. form' = form
    BY <1>4 DEF Accounts!Expire
  <2>2. MarksKept
    <3>1. CASE UNCHANGED resets
      BY <3>1, MarksUnchanged
    <3>2. ASSUME NEW i \in DOMAIN resets, resets' = [resets EXCEPT ![i].expired = TRUE]
          PROVE  MarksKept
      <4>1. Len(resets') = Len(resets) /\ Len(resets) \in Nat /\ i \in 1 .. Len(resets)
        BY <3>2 DEF AccountsInv
      <4>2. \A j \in 1 .. Len(resets) : resets[j] \in ResetRows
        BY DEF AccountsInv
      <4>3. \A j \in 1 .. Len(resets) : j # i => resets'[j] = resets[j]
        BY <3>2, <4>1
      <4>4. resets'[i] = [resets[i] EXCEPT !.expired = TRUE]
        BY <3>2, <4>1
      <4>5. /\ resets'[i].shared = resets[i].shared /\ resets'[i].cut = resets[i].cut
            /\ resets'[i].writes = resets[i].writes /\ resets'[i].used = resets[i].used
        BY <4>1, <4>2, <4>4 DEF ResetRows
      <4> QED BY <4>1, <4>3, <4>5 DEF MarksKept
    <3> QED BY <1>4, <3>1, <3>2 DEF Accounts!Expire
  <2> QED BY <1>2, <2>1, <2>2
<1>5. ASSUME NEW p \in Requests, NEW e \in Emails,
             \/ \E w \in Passwords : Accounts!Login(p, e, w)
             \/ \E s \in ClientSecrets : Accounts!RequestReset(p, e, s)
             \/ Accounts!RefreshOrLogout(p, e)
      PROVE  CodesInv'
  <2>1. form' = form
    BY <1>5, EasyAccountSteps
  <2>2. MarksKept
    <3>1. CASE UNCHANGED resets
      BY <3>1, MarksUnchanged
    <3>2. ASSUME NEW s \in ClientSecrets, Accounts!InsertReset(e, s)
          PROVE  MarksKept
      <4>1. PICK v : v = [user |-> e, secret |-> s, used |-> FALSE, expired |-> FALSE,
                          writes |-> 0, shared |-> FALSE, cut |-> FALSE]
        OBVIOUS
      <4>2. resets' = Append(resets, v) /\ v.writes = 0
        BY <3>2, <4>1 DEF Accounts!InsertReset
      <4>3. /\ Len(resets') = Len(resets) + 1 /\ Len(resets) \in Nat /\ resets'[Len(resets) + 1] = v
            /\ \A j \in 1 .. Len(resets) : resets'[j] = resets[j]
        BY <4>2 DEF AccountsInv
      <4> QED BY <4>2, <4>3 DEF MarksKept
    <3> QED BY <1>5, <3>1, <3>2 DEF Accounts!Login, Accounts!RequestReset, Accounts!RefreshOrLogout
  <2> QED BY <1>2, <2>1, <2>2
<1>6. ASSUME NEW p \in Requests,
             \/ \E e \in Emails, w \in Passwords :
                  Accounts!RegisterStart(p, e, w) \/ \E n \in Passwords : Accounts!ChangeStart(p, e, w, n)
             \/ Accounts!RegisterInsert(p) \/ Accounts!RegisterVerification(p) \/ Accounts!ChangeUpdate(p)
             \/ Accounts!Verification(p)
      PROVE  CodesInv'
  BY <1>1, <1>6, PlainMoves
<1>7. ASSUME NEW p \in Requests, NEW e \in Emails, NEW w \in Passwords,
             \E i \in DOMAIN resets, s \in ClientSecrets : Accounts!ConfirmStart(p, e, i, s, w)
      PROVE  CodesInv'
  <2>1. DOMAIN resets = 1 .. Len(resets)
    BY DEF AccountsInv
  <2> QED BY <1>7, <2>1, ConfirmStartCodes
<1>8. ASSUME NEW p \in Requests, Accounts!ConfirmCompare(p)
      PROVE  CodesInv'
  <2>1. PICK f : f = form[p]
    OBVIOUS
  <2>2. /\ OthersHeard(p) /\ f.op = "confirm" /\ f.pc = "compare"
        /\ \/ form'[p].op = "confirm" /\ form'[p].pc = "update" /\ form'[p].row = f.row
           \/ form'[p] = Accounts!Idle
    BY <1>8, <2>1, ConfirmCompareKeeps
  <2>3. Unmarked(p)
    BY <2>1, <2>2, IdleForm DEF Unmarked
  <2>4. MarksKept
    BY <1>8, MarksUnchanged DEF Accounts!ConfirmCompare
  <2> QED BY <2>2, <2>3, <2>4, QuietCodes
<1>9. ASSUME NEW p \in Requests, Accounts!ConfirmUpdate(p)
      PROVE  CodesInv'
  <2>1. PICK f : f = form[p]
    OBVIOUS
  <2>2. f.op = "confirm" /\ f.pc = "update"
    BY <1>9, <2>1 DEF Accounts!ConfirmUpdate, Accounts!At
  <2>3. f.row \in 1 .. Len(resets)
    BY <2>1, <2>2, ConfirmRow
  <2>4. PICK v : Marks(f.row, v) /\ v.writes = resets[f.row].writes + 1 /\ v.cut = resets[f.row].cut
    BY <1>9, <2>1, ConfirmUpdateKeeps
  <2>5. OthersHeard(p) /\ form'[p].op = "confirm" /\ form'[p].pc = "mark" /\ form'[p].row = f.row
    BY <1>9, <2>1, ConfirmUpdateKeeps
  <2> QED BY <2>1, <2>2, <2>3, <2>4, <2>5, MarkingCodes
<1>10. ASSUME NEW p \in Requests, Accounts!ConfirmMark(p)
       PROVE  CodesInv'
  <2>1. PICK f : f = form[p]
    OBVIOUS
  <2>2. /\ OthersHeard(p) /\ form'[p] = Accounts!Idle
        /\ f.op = "confirm" /\ f.pc = "mark" /\ f.row \in 1 .. Len(resets)
    BY <1>10, <2>1, ConfirmMarkKeeps
  <2>3. PICK v : /\ Marks(f.row, v) /\ v.writes = resets[f.row].writes
                 /\ v.cut = resets[f.row].cut /\ v.used = TRUE
    BY <1>10, <2>1, ConfirmMarkKeeps
  <2> QED BY <2>1, <2>2, <2>3, MarkingCodes
<1>11. ASSUME NEW p \in Requests, Accounts!Fail(p)
       PROVE  CodesInv'
  <2>1. PICK f : f = form[p]
    OBVIOUS
  <2>2. /\ OthersHeard(p) /\ form'[p] = Accounts!Idle
        /\ f.op = "confirm" /\ f.pc = "mark" =>
             /\ f.row \in 1 .. Len(resets)
             /\ \E v : Marks(f.row, v) /\ v.cut = TRUE
        /\ ~(f.op = "confirm" /\ f.pc = "mark") => UNCHANGED resets
    BY <1>11, <2>1, FailKeeps
  <2>3. CASE f.op = "confirm" /\ f.pc = "mark"
    BY <2>1, <2>2, <2>3, MarkingCodes
  <2>4. CASE ~(f.op = "confirm" /\ f.pc = "mark")
    <3>1. Unmarked(p)
      BY <2>1, <2>2, <2>4, IdleForm DEF Unmarked
    <3> QED BY <2>2, <2>4, <3>1, MarksUnchanged, QuietCodes
  <2> QED BY <2>3, <2>4
<1> QED BY <1>3, <1>4, <1>5, <1>6, <1>7, <1>8, <1>9, <1>10, <1>11 DEF Accounts!Next, Accounts!Account

(* Both hold before the first registration.                                     *)
LEMMA AccountsStart ==
    ASSUME Accounts!Init
    PROVE  AccountsInv /\ CodesInv
<1>1. /\ users = [e \in Emails |-> NoUser] /\ verifs = <<>> /\ resets = <<>>
      /\ form = [p \in Requests |-> Accounts!Idle] /\ tokens = {}
  BY DEF Accounts!Init
<1>2. Len(verifs) = 0 /\ Len(resets) = 0 /\ verifs \in Seq(VerifRows) /\ resets \in Seq(ResetRows)
  BY <1>1
<1>3. \A p \in Requests : form[p] = Accounts!Idle
  BY <1>1
<1>4. AccountsInv
  BY <1>1, <1>2, <1>3, IdleForm, AccountBounds DEF AccountsInv
<1>5. CodesInv
  BY <1>2, <1>3, IdleForm DEF CodesInv
<1> QED BY <1>4, <1>5

(* Hence a code writes once, but for an overlap or a failure in between.        *)
LEMMA CodesOnce ==
    ASSUME AccountsInv, CodesInv
    PROVE  CodeWritesOnce
<1>1. DOMAIN resets = 1 .. Len(resets)
  BY DEF AccountsInv
<1>2. ASSUME NEW i \in 1 .. Len(resets)
      PROVE  resets[i].writes <= 1 \/ resets[i].shared \/ resets[i].cut
  BY DEF CodesInv
<1> QED BY <1>1, <1>2 DEF CodeWritesOnce, Accounts!CodeWritesOnce

(* A reset code changes the password once, however confirmations, password      *)
(* changes and failures interleave: the second write needs two confirmations of *)
(* the code that overlapped, or one that failed between the password and        *)
(* mark_as_reset, for neither statement is in a transaction with the other.     *)
THEOREM CodeSafety == Accounts!Spec => []CodeWritesOnce
<1>1. Accounts!Init => AccountsInv /\ CodesInv
  BY AccountsStart
<1>2. AccountsInv /\ CodesInv /\ [Accounts!Next]_Accounts!vars => AccountsInv' /\ CodesInv'
  BY AccountsStep, CodesStep
<1>3. AccountsInv /\ CodesInv => CodeWritesOnce
  BY CodesOnce
<1> QED BY <1>1, <1>2, <1>3, PTL DEF Accounts!Spec

(* A password changes on the strength of the current one, or of a code and      *)
(* secret of the same account.                                                  *)
LEMMA AuthorityStep ==
    ASSUME AccountsInv, [Accounts!Next]_Accounts!vars, NEW e \in Emails, Accounts!Exists(e), users'[e] # users[e]
    PROVE  \E p \in Requests :
              /\ form[p].email = e
              /\ \/ form[p].op = "change" /\ form[p].pw \in form[p].held
                 \/ /\ form[p].op = "confirm" /\ resets[form[p].row].user = e
                    /\ resets[form[p].row].secret = form[p].secret
<1>1. ASSUME NEW x, NEW w, NEW p, NEW g, Accounts!SetPassword(x, w, p, g)
      PROVE  x = e
  BY <1>1 DEF Accounts!SetPassword, AccountsInv
<1>2. PICK p \in Requests : Accounts!RegisterInsert(p) \/ Accounts!ChangeUpdate(p) \/ Accounts!ConfirmUpdate(p)
  BY ZenonT(60) DEF Accounts!Next, Accounts!vars, Accounts!Account, Accounts!Verification, Accounts!Expire,
         Accounts!RegisterStart, Accounts!Login, Accounts!ChangeStart, Accounts!ConfirmStart,
         Accounts!RequestReset, Accounts!RefreshOrLogout, Accounts!RegisterVerification,
         Accounts!ConfirmCompare, Accounts!ConfirmMark, Accounts!Fail, Accounts!VerifyRead,
         Accounts!AskRead, Accounts!VerifyUpdate, Accounts!AskDelete, Accounts!AskInsert
<1>3. PICK f : f = form[p] /\ f \in Forms /\ FormOk(f)
  BY FormFacts
<1>4. CASE Accounts!RegisterInsert(p)
  <2>1. ~Accounts!Exists(f.email) /\ f.email = e
    BY <1>1, <1>3, <1>4 DEF Accounts!RegisterInsert
  <2> QED BY <2>1
<1>5. CASE Accounts!ChangeUpdate(p)
  <2>1. f.op = "change" /\ f.email = e
    BY <1>1, <1>3, <1>5 DEF Accounts!ChangeUpdate, Accounts!At
  <2>2. f.pw \in f.held
    BY <1>3, <2>1 DEF FormOk
  <2> QED BY <1>3, <2>1, <2>2
<1>6. CASE Accounts!ConfirmUpdate(p)
  <2>1. f.op = "confirm" /\ f.pc = "update" /\ f.email = e
    BY <1>1, <1>3, <1>6 DEF Accounts!ConfirmUpdate, Accounts!At
  <2>2. resets[f.row].user = e /\ resets[f.row].secret = f.secret
    BY <1>3, <2>1 DEF FormOk
  <2> QED BY <1>3, <2>1, <2>2
<1> QED BY <1>2, <1>4, <1>5, <1>6

\* One request at a time.
OneForm == \A p, q \in Requests : form[p] # Accounts!Idle /\ form[q] # Accounts!Idle => p = q

NoLiveRow(e) == \A i \in 1 .. Len(verifs) : ~(verifs[i].user = e /\ verifs[i].live)

\* Then an account has one live verification; the one that is to be replaced is
\* live, unverified and the account's; and there is none when one is inserted.
VerifiedInv ==
    /\ \A i, j \in 1 .. Len(verifs) :
         verifs[i].live /\ verifs[j].live /\ verifs[i].user = verifs[j].user => i = j
    /\ \A p \in Requests : \A f \in {form[p]} :
         /\ f.op = "ask" /\ f.pc = "delete" =>
              verifs[f.row].live /\ ~verifs[f.row].verified /\ verifs[f.row].user = f.email
         /\ f.op = "ask" /\ f.pc # "delete" => NoLiveRow(f.email)
         /\ f.op = "register" /\ f.pc = "verification" => NoLiveRow(f.email)

(* The others are idle after a request's step.                                  *)
LEMMA OthersIdle ==
    ASSUME AccountsInv, OneForm, OneForm', NEW p \in Requests, OthersHeard(p),
           form[p] # Accounts!Idle \/ form'[p] # Accounts!Idle
    PROVE  \A q \in Requests : q # p => form'[q].op = "none"
<1>1. CASE form'[p] # Accounts!Idle
  BY <1>1, IdleForm DEF OneForm
<1>2. CASE form[p] # Accounts!Idle
  <2>1. \A q \in Requests : q # p => form[q].op = "none"
    BY <1>2, IdleForm DEF OneForm
  <2> QED BY <2>1 DEF OthersHeard, Heard
<1> QED BY <1>1, <1>2

\* A step that leaves accounts, life and verification of every row as they are.
VerifsSame ==
    /\ Len(verifs') = Len(verifs)
    /\ \A i \in 1 .. Len(verifs) : /\ verifs'[i].user = verifs[i].user /\ verifs'[i].live = verifs[i].live
                                   /\ verifs'[i].verified = verifs[i].verified

\* What Verified says, row by row.
VerifiedRows(e) ==
    /\ \E i \in 1 .. Len(verifs) : verifs[i].user = e /\ verifs[i].live
    /\ \A i \in 1 .. Len(verifs) : verifs[i].user = e /\ verifs[i].live => verifs[i].verified

(* An account is verified when one of its live rows is.                         *)
LEMMA VerifiedByRow ==
    ASSUME AccountsInv, AccountsInv', NEW e
    PROVE  (Accounts!Verified(e) <=> VerifiedRows(e)) /\ (Accounts!Verified(e)' <=> VerifiedRows(e)')
<1>1. DOMAIN verifs = 1 .. Len(verifs)
  BY DEF AccountsInv
<1>2. (DOMAIN verifs = 1 .. Len(verifs))'
  BY DEF AccountsInv
<1>3. Accounts!Verified(e) <=> VerifiedRows(e)
  BY <1>1 DEF Accounts!Verified, Accounts!VerificationRows, VerifiedRows
<1>4. Accounts!Verified(e)' <=> VerifiedRows(e)'
  BY <1>2 DEF Accounts!Verified, Accounts!VerificationRows, VerifiedRows
<1> QED BY <1>3, <1>4

(* Steps that change no verification, and give no request a new claim on one.   *)
LEMMA SameVerifs ==
    ASSUME AccountsInv, VerifiedInv, VerifsSame,
           \A q \in Requests : \/ form'[q].op \notin {"ask", "register"}
                               \/ form'[q].op = "register" /\ form'[q].pc = "insert"
                               \/ form'[q] = form[q]
    PROVE  VerifiedInv' /\ \A e : VerifiedRows(e) => VerifiedRows(e)'
<1>1. \A e : VerifiedRows(e) => VerifiedRows(e)'
  BY DEF VerifsSame, VerifiedRows
<1>2. \A e : NoLiveRow(e) => NoLiveRow(e)'
  BY DEF VerifsSame, NoLiveRow
<1>3. \A i, j \in 1 .. Len(verifs') :
         verifs'[i].live /\ verifs'[j].live /\ verifs'[i].user = verifs'[j].user => i = j
  BY DEF VerifiedInv, VerifsSame
<1>4. ASSUME NEW q \in Requests, NEW f, f = form'[q]
      PROVE  /\ f.op = "ask" /\ f.pc = "delete" =>
                  verifs'[f.row].live /\ ~verifs'[f.row].verified /\ verifs'[f.row].user = f.email
             /\ f.op = "ask" /\ f.pc # "delete" => NoLiveRow(f.email)'
             /\ f.op = "register" /\ f.pc = "verification" => NoLiveRow(f.email)'
  <2>1. CASE f.op \notin {"ask", "register"}
    BY <2>1
  <2>2. CASE f.op = "register" /\ f.pc = "insert"
    BY <2>2
  <2>3. CASE f = form[q]
    <3>1. f.op = "ask" /\ f.pc = "delete" => f.row \in 1 .. Len(verifs)
      BY <2>3, FormFacts DEF FormOk
    <3>2. f.op = "ask" /\ f.pc = "delete" =>
             verifs'[f.row].live /\ ~verifs'[f.row].verified /\ verifs'[f.row].user = f.email
      BY <2>3, <3>1 DEF VerifiedInv, VerifsSame
    <3>3. /\ f.op = "ask" /\ f.pc # "delete" => NoLiveRow(f.email)
          /\ f.op = "register" /\ f.pc = "verification" => NoLiveRow(f.email)
      BY <2>3 DEF VerifiedInv
    <3> QED BY <1>2, <3>2, <3>3
  <2> QED BY <1>4, <2>1, <2>2, <2>3
<1> QED BY <1>1, <1>3, <1>4 DEF VerifiedInv

(* Only the request that takes the step has a claim after it.                   *)
LEMMA ClaimsOf ==
    ASSUME NEW p \in Requests, \A q \in Requests : q # p => form'[q].op = "none", NEW f, f = form'[p],
           \A i, j \in 1 .. Len(verifs') :
              verifs'[i].live /\ verifs'[j].live /\ verifs'[i].user = verifs'[j].user => i = j,
           f.op = "ask" /\ f.pc = "delete" =>
              verifs'[f.row].live /\ ~verifs'[f.row].verified /\ verifs'[f.row].user = f.email,
           f.op = "ask" /\ f.pc # "delete" => NoLiveRow(f.email)',
           f.op = "register" /\ f.pc = "verification" => NoLiveRow(f.email)'
    PROVE  VerifiedInv'
<1>1. ASSUME NEW q \in Requests, NEW g, g = form'[q]
      PROVE  /\ g.op = "ask" /\ g.pc = "delete" =>
                  verifs'[g.row].live /\ ~verifs'[g.row].verified /\ verifs'[g.row].user = g.email
             /\ g.op = "ask" /\ g.pc # "delete" => NoLiveRow(g.email)'
             /\ g.op = "register" /\ g.pc = "verification" => NoLiveRow(g.email)'
  <2>1. CASE q = p
    BY <1>1, <2>1
  <2>2. CASE q # p
    BY <1>1, <2>2
  <2> QED BY <2>1, <2>2
<1> QED BY <1>1 DEF VerifiedInv

(* Without a write of verification rows nobody loses a verified address.        *)
LEMMA VerifsUnchanged ==
    ASSUME UNCHANGED verifs
    PROVE  VerifsSame /\ \A e : VerifiedRows(e) => VerifiedRows(e)'
BY DEF VerifsSame, VerifiedRows

(* request_platform_verification reads the row it will replace, or finds none.  *)
LEMMA AskReadVerified ==
    ASSUME AccountsInv, VerifiedInv, OneForm, OneForm', NEW p \in Requests, NEW e \in Emails, Accounts!AskRead(p, e)
    PROVE  VerifiedInv' /\ \A x : VerifiedRows(x) => VerifiedRows(x)'
<1>1. OthersHeard(p) /\ form[p] = Accounts!Idle /\ UNCHANGED verifs
  BY VerificationStarts
<1>2. DOMAIN verifs = 1 .. Len(verifs) /\ form \in [Requests -> Forms]
  BY DEF AccountsInv
<1>3. PICK f : /\ form' = [form EXCEPT ![p] = f] /\ f.op = "ask" /\ f.email = e
               /\ \/ f.pc = "insert" /\ Accounts!VerificationRows(e) = {}
                  \/ f.pc = "delete" /\ f.row \in Accounts!VerificationRows(e) /\ ~verifs[f.row].verified
  <2>1. CASE /\ Accounts!Begin(p, [Accounts!Idle EXCEPT !.op = "ask", !.pc = "insert", !.email = e])
             /\ Accounts!VerificationRows(e) = {}
    <3>1. PICK f : f = [Accounts!Idle EXCEPT !.op = "ask", !.pc = "insert", !.email = e]
      OBVIOUS
    <3>2. f.op = "ask" /\ f.pc = "insert" /\ f.email = e
      BY <3>1, IdleForm DEF Forms
    <3> QED BY <2>1, <3>1, <3>2 DEF Accounts!Begin
  <2>2. ASSUME NEW i \in Accounts!VerificationRows(e), Accounts!Unverified(i),
               Accounts!Begin(p, [Accounts!Idle EXCEPT !.op = "ask", !.pc = "delete", !.email = e, !.row = i])
        PROVE  \E f : /\ form' = [form EXCEPT ![p] = f] /\ f.op = "ask" /\ f.email = e
                      /\ f.pc = "delete" /\ f.row \in Accounts!VerificationRows(e) /\ ~verifs[f.row].verified
    <3>1. PICK f : f = [Accounts!Idle EXCEPT !.op = "ask", !.pc = "delete", !.email = e, !.row = i]
      OBVIOUS
    <3>2. f.op = "ask" /\ f.pc = "delete" /\ f.email = e /\ f.row = i
      BY <3>1, IdleForm DEF Forms
    <3>3. form' = [form EXCEPT ![p] = f] /\ ~verifs[i].verified
      BY <2>2, <3>1 DEF Accounts!Begin, Accounts!Unverified
    <3> QED BY <3>2, <3>3
  <2> QED BY <2>1, <2>2 DEF Accounts!AskRead
<1>4. form'[p] = f
  BY <1>2, <1>3
<1>5. form'[p] # Accounts!Idle
  BY <1>3, <1>4, IdleForm
<1>6. \A q \in Requests : q # p => form'[q].op = "none"
  BY <1>1, <1>5, OthersIdle
<1>7. CASE f.pc = "insert" /\ Accounts!VerificationRows(e) = {}
  <2>1. NoLiveRow(e)'
    BY <1>1, <1>2, <1>7 DEF NoLiveRow, Accounts!VerificationRows
  <2>2. \A i, j \in 1 .. Len(verifs') :
           verifs'[i].live /\ verifs'[j].live /\ verifs'[i].user = verifs'[j].user => i = j
    BY <1>1 DEF VerifiedInv
  <2> QED BY <1>1, <1>3, <1>4, <1>6, <1>7, <2>1, <2>2, ClaimsOf, VerifsUnchanged
<1>8. CASE f.pc = "delete" /\ f.row \in Accounts!VerificationRows(e) /\ ~verifs[f.row].verified
  <2>1. verifs'[f.row].live /\ ~verifs'[f.row].verified /\ verifs'[f.row].user = f.email
    BY <1>1, <1>3, <1>8 DEF Accounts!VerificationRows
  <2>2. \A i, j \in 1 .. Len(verifs') :
           verifs'[i].live /\ verifs'[j].live /\ verifs'[i].user = verifs'[j].user => i = j
    BY <1>1 DEF VerifiedInv
  <2> QED BY <1>1, <1>3, <1>4, <1>6, <1>8, <2>1, <2>2, ClaimsOf, VerifsUnchanged
<1> QED BY <1>3, <1>7, <1>8

(* A new row where there was no live one: the account was not verified.         *)
LEMMA InsertVerified ==
    ASSUME AccountsInv, VerifiedInv, NEW p \in Requests, NEW e, NoLiveRow(e), Accounts!InsertVerification(e),
           \A q \in Requests : form'[q].op = "none"
    PROVE  VerifiedInv' /\ \A x : VerifiedRows(x) => VerifiedRows(x)'
<1>1. PICK v : v = [user |-> e, live |-> TRUE, verified |-> FALSE, expired |-> FALSE]
  OBVIOUS
<1>2. verifs' = Append(verifs, v) /\ v.user = e
  BY <1>1 DEF Accounts!InsertVerification
<1>3. /\ Len(verifs') = Len(verifs) + 1 /\ Len(verifs) \in Nat /\ verifs'[Len(verifs) + 1] = v
      /\ \A j \in 1 .. Len(verifs) : verifs'[j] = verifs[j]
  BY <1>2 DEF AccountsInv
<1>4. \A i \in 1 .. Len(verifs') : i \in 1 .. Len(verifs) \/ (i = Len(verifs) + 1 /\ verifs'[i] = v)
  BY <1>3
<1>5. ASSUME NEW i \in 1 .. Len(verifs'), NEW j \in 1 .. Len(verifs'),
             verifs'[i].live, verifs'[j].live, verifs'[i].user = verifs'[j].user
      PROVE  i = j
  <2>1. CASE i \in 1 .. Len(verifs) /\ j \in 1 .. Len(verifs)
    BY <1>3, <1>5, <2>1 DEF VerifiedInv
  <2>2. CASE i \in 1 .. Len(verifs) /\ verifs'[j] = v
    BY <1>2, <1>3, <1>5, <2>2 DEF NoLiveRow
  <2>3. CASE j \in 1 .. Len(verifs) /\ verifs'[i] = v
    BY <1>2, <1>3, <1>5, <2>3 DEF NoLiveRow
  <2> QED BY <1>4, <2>1, <2>2, <2>3
<1>6. ASSUME NEW x, VerifiedRows(x)
      PROVE  VerifiedRows(x)'
  <2>1. x # e
    BY <1>6 DEF VerifiedRows, NoLiveRow
  <2>2. \E i \in 1 .. Len(verifs') : verifs'[i].user = x /\ verifs'[i].live
    BY <1>3, <1>6 DEF VerifiedRows
  <2>3. ASSUME NEW i \in 1 .. Len(verifs'), verifs'[i].user = x, verifs'[i].live
        PROVE  verifs'[i].verified
    BY <1>2, <1>3, <1>4, <1>6, <2>1, <2>3 DEF VerifiedRows
  <2> QED BY <2>2, <2>3 DEF VerifiedRows
<1> QED BY <1>5, <1>6 DEF VerifiedInv

(* request_new_verification deletes a row that is not verified.                 *)
LEMMA AskDeleteVerified ==
    ASSUME AccountsInv, VerifiedInv, OneForm, OneForm', NEW p \in Requests, Accounts!AskDelete(p)
    PROVE  VerifiedInv' /\ \A x : VerifiedRows(x) => VerifiedRows(x)'
<1>0. PICK f : f = form[p] /\ f \in Forms /\ FormOk(f)
  BY FormFacts
<1>1. /\ f.op = "ask" /\ f.pc = "delete" /\ form' = [form EXCEPT ![p].pc = "insert"]
      /\ verifs' = [verifs EXCEPT ![f.row].live = FALSE]
  BY <1>0 DEF Accounts!AskDelete, Accounts!At, Accounts!Step
<1>2. PICK i : i = f.row
  OBVIOUS
<1>3. i \in 1 .. Len(verifs) /\ verifs[i].live /\ ~verifs[i].verified /\ verifs[i].user = f.email
  BY <1>0, <1>1, <1>2 DEF FormOk, VerifiedInv
<1>4. verifs[i] \in VerifRows
  BY <1>3 DEF AccountsInv
<1>5. PICK v : v = [verifs[i] EXCEPT !.live = FALSE]
  OBVIOUS
<1>6. v.user = f.email /\ ~v.live /\ v \in VerifRows
  BY <1>3, <1>4, <1>5 DEF VerifRows
<1>7. verifs' = [verifs EXCEPT ![i] = v]
  BY <1>1, <1>2, <1>5
<1>8. Len(verifs') = Len(verifs) /\ \A j \in 1 .. Len(verifs) : verifs'[j] = IF j = i THEN v ELSE verifs[j]
  BY <1>3, <1>4, <1>6, <1>7, VerifMarked
<1>9. PICK g : g = [f EXCEPT !.pc = "insert"]
  OBVIOUS
<1>10. g.op = "ask" /\ g.pc = "insert" /\ g.email = f.email
  BY <1>0, <1>1, <1>9 DEF Forms
<1>11. form'[p] = g
  BY <1>0, <1>1, <1>9 DEF AccountsInv
<1>12. OthersHeard(p)
  BY VerificationWrites
<1>13. \A q \in Requests : q # p => form'[q].op = "none"
  <2>1. form[p] # Accounts!Idle
    BY <1>0, <1>1, IdleForm
  <2> QED BY <1>12, <2>1, OthersIdle
<1>14. NoLiveRow(f.email)'
  <2>1. ASSUME NEW j \in 1 .. Len(verifs'), verifs'[j].user = f.email, verifs'[j].live
        PROVE  FALSE
    <3>1. j \in 1 .. Len(verifs) /\ j # i /\ verifs'[j] = verifs[j]
      BY <1>6, <1>8, <2>1
    <3> QED BY <1>3, <2>1, <3>1 DEF VerifiedInv
  <2> QED BY <2>1 DEF NoLiveRow
<1>15. ASSUME NEW j \in 1 .. Len(verifs'), NEW k \in 1 .. Len(verifs'),
              verifs'[j].live, verifs'[k].live, verifs'[j].user = verifs'[k].user
       PROVE  j = k
  <2>1. j \in 1 .. Len(verifs) /\ j # i /\ verifs'[j] = verifs[j]
    BY <1>6, <1>8, <1>15
  <2>2. k \in 1 .. Len(verifs) /\ k # i /\ verifs'[k] = verifs[k]
    BY <1>6, <1>8, <1>15
  <2> QED BY <1>15, <2>1, <2>2 DEF VerifiedInv
<1>16. ASSUME NEW x, VerifiedRows(x)
       PROVE  VerifiedRows(x)'
  <2>1. x # f.email
    BY <1>3, <1>16 DEF VerifiedRows
  <2>2. PICK j \in 1 .. Len(verifs) : verifs[j].user = x /\ verifs[j].live
    BY <1>16 DEF VerifiedRows
  <2>3. j \in 1 .. Len(verifs') /\ verifs'[j] = verifs[j]
    BY <1>3, <1>8, <2>1, <2>2
  <2>4. ASSUME NEW k \in 1 .. Len(verifs'), verifs'[k].user = x, verifs'[k].live
        PROVE  verifs'[k].verified
    <3>1. k \in 1 .. Len(verifs) /\ k # i /\ verifs'[k] = verifs[k]
      BY <1>6, <1>8, <2>4
    <3> QED BY <1>16, <2>4, <3>1 DEF VerifiedRows
  <2> QED BY <2>2, <2>3, <2>4 DEF VerifiedRows
<1>17. VerifiedInv'
  BY <1>10, <1>11, <1>13, <1>14, <1>15, ClaimsOf
<1> QED BY <1>16, <1>17

(* verify_email marks a row and takes no mark away.                             *)
LEMMA VerifyUpdateVerified ==
    ASSUME AccountsInv, VerifiedInv, OneForm, OneForm', NEW p \in Requests, Accounts!VerifyUpdate(p)
    PROVE  VerifiedInv' /\ \A x : VerifiedRows(x) => VerifiedRows(x)'
<1>0. PICK f : f = form[p] /\ f \in Forms /\ FormOk(f)
  BY FormFacts
<1>1. /\ f.op = "verify" /\ form' = [form EXCEPT ![p] = Accounts!Idle]
      /\ verifs' = [verifs EXCEPT ![f.row].verified = @ \/ verifs[f.row].live]
  BY <1>0 DEF Accounts!VerifyUpdate, Accounts!At, Accounts!Reply
<1>2. PICK i : i = f.row
  OBVIOUS
<1>3. i \in 1 .. Len(verifs)
  BY <1>0, <1>1, <1>2 DEF FormOk
<1>4. verifs[i] \in VerifRows
  BY <1>3 DEF AccountsInv
<1>5. PICK b \in BOOLEAN : b = (verifs[i].verified \/ verifs[i].live)
  BY <1>4 DEF VerifRows
<1>6. PICK v : v = [verifs[i] EXCEPT !.verified = b]
  OBVIOUS
<1>7. v \in VerifRows /\ v.user = verifs[i].user /\ v.live = verifs[i].live /\ v.verified = b
  BY <1>4, <1>5, <1>6 DEF VerifRows
<1>8. verifs' = [verifs EXCEPT ![i] = v]
  BY <1>1, <1>2, <1>5, <1>6
<1>9. Len(verifs') = Len(verifs) /\ \A j \in 1 .. Len(verifs) : verifs'[j] = IF j = i THEN v ELSE verifs[j]
  BY <1>3, <1>7, <1>8, VerifMarked
<1>10. \A j \in 1 .. Len(verifs) :
          /\ verifs'[j].user = verifs[j].user /\ verifs'[j].live = verifs[j].live
          /\ verifs[j].verified => verifs'[j].verified
  BY <1>5, <1>7, <1>9
<1>11. form'[p] = Accounts!Idle /\ OthersHeard(p)
  BY <1>1, VerificationWrites DEF AccountsInv
<1>12. \A q \in Requests : q # p => form'[q].op = "none"
  <2>1. form[p] # Accounts!Idle
    BY <1>0, <1>1, IdleForm
  <2> QED BY <1>11, <2>1, OthersIdle
<1>13. \A j, k \in 1 .. Len(verifs') :
         verifs'[j].live /\ verifs'[k].live /\ verifs'[j].user = verifs'[k].user => j = k
  BY <1>9, <1>10 DEF VerifiedInv
<1>14. VerifiedInv'
  BY <1>11, <1>12, <1>13, IdleForm, ClaimsOf
<1>15. ASSUME NEW x, VerifiedRows(x)
       PROVE  VerifiedRows(x)'
  BY <1>9, <1>10, <1>15 DEF VerifiedRows
<1> QED BY <1>14, <1>15

(* create_platform_user: an account that did not exist has no verification.     *)
LEMMA RegisterVerified ==
    ASSUME AccountsInv, VerifiedInv, OneForm, OneForm', NEW p \in Requests, Accounts!RegisterInsert(p)
    PROVE  VerifiedInv' /\ \A x : VerifiedRows(x) => VerifiedRows(x)'
<1>0. PICK f : f = form[p] /\ f \in Forms /\ FormOk(f)
  BY FormFacts
<1>1. f.op = "register" /\ UNCHANGED verifs /\ OthersHeard(p)
  BY <1>0, PlainMoves DEF Accounts!RegisterInsert, Accounts!At
<1>2. \A q \in Requests : q # p => form'[q].op = "none"
  <2>1. form[p] # Accounts!Idle
    BY <1>0, <1>1, IdleForm
  <2> QED BY <1>1, <2>1, OthersIdle
<1>3. \A i, j \in 1 .. Len(verifs') :
         verifs'[i].live /\ verifs'[j].live /\ verifs'[i].user = verifs'[j].user => i = j
  BY <1>1 DEF VerifiedInv
<1>4. CASE form'[p] = Accounts!Idle
  BY <1>1, <1>2, <1>3, <1>4, IdleForm, ClaimsOf, VerifsUnchanged
<1>5. CASE form'[p] # Accounts!Idle
  <2>1. PICK g : g = [f EXCEPT !.pc = "verification"]
    OBVIOUS
  <2>2. g.op = "register" /\ g.email = f.email
    BY <1>0, <1>1, <2>1 DEF Forms
  <2>3. form \in [Requests -> Forms]
    BY DEF AccountsInv
  <2>4. form'[p] = g /\ ~Accounts!Exists(f.email)
    BY <1>0, <1>5, <2>1, <2>3 DEF Accounts!RegisterInsert, Accounts!SetPassword, Accounts!Reply
  <2>5. NoLiveRow(f.email)'
    BY <1>1, <2>4 DEF NoLiveRow, AccountsInv
  <2> QED BY <1>1, <1>2, <1>3, <2>2, <2>4, <2>5, ClaimsOf, VerifsUnchanged
<1> QED BY <1>4, <1>5

(* Every step keeps the verified verified, while requests come one at a time.   *)
LEMMA VerifiedStep ==
    ASSUME AccountsInv, VerifiedInv, OneForm, OneForm', [Accounts!Next]_Accounts!vars
    PROVE  VerifiedInv' /\ \A x : VerifiedRows(x) => VerifiedRows(x)'
<1>0. form \in [Requests -> Forms]
  BY DEF AccountsInv
<1>1. ASSUME form' = form, VerifsSame
      PROVE  VerifiedInv' /\ \A x : VerifiedRows(x) => VerifiedRows(x)'
  BY <1>1, SameVerifs
<1>2. ASSUME NEW p \in Requests, OthersHeard(p), form[p] # Accounts!Idle \/ form'[p] # Accounts!Idle, UNCHANGED verifs,
             \/ form'[p].op \notin {"ask", "register"}
             \/ form'[p].op = "register" /\ form'[p].pc = "insert"
      PROVE  VerifiedInv' /\ \A x : VerifiedRows(x) => VerifiedRows(x)'
  <2>1. \A q \in Requests : q # p => form'[q].op = "none"
    BY <1>2, OthersIdle
  <2> QED BY <1>2, <2>1, VerifsUnchanged, SameVerifs
<1>3. CASE UNCHANGED Accounts!vars
  BY <1>1, <1>3, VerifsUnchanged DEF Accounts!vars
<1>4. CASE Accounts!Expire
  <2>1. CASE UNCHANGED verifs
    BY <1>1, <1>4, <2>1, VerifsUnchanged DEF Accounts!Expire
  <2>2. ASSUME NEW i \in DOMAIN verifs, verifs' = [verifs EXCEPT ![i].expired = TRUE]
        PROVE  VerifsSame
    <3>1. Len(verifs') = Len(verifs) /\ Len(verifs) \in Nat /\ i \in 1 .. Len(verifs)
      BY <2>2 DEF AccountsInv
    <3>2. \A j \in 1 .. Len(verifs) : verifs[j] \in VerifRows
      BY DEF AccountsInv
    <3>3. \A j \in 1 .. Len(verifs) : j # i => verifs'[j] = verifs[j]
      BY <2>2, <3>1
    <3>4. verifs'[i] = [verifs[i] EXCEPT !.expired = TRUE]
      BY <2>2, <3>1
    <3>5. verifs'[i].user = verifs[i].user /\ verifs'[i].live = verifs[i].live /\ verifs'[i].verified = verifs[i].verified
      BY <3>1, <3>2, <3>4 DEF VerifRows
    <3> QED BY <3>1, <3>3, <3>5 DEF VerifsSame
  <2>3. form' = form
    BY <1>4 DEF Accounts!Expire
  <2> QED BY <1>1, <1>4, <2>1, <2>2, <2>3 DEF Accounts!Expire
<1>5. ASSUME NEW p \in Requests, NEW e \in Emails,
             \/ \E w \in Passwords : Accounts!Login(p, e, w)
             \/ \E s \in ClientSecrets : Accounts!RequestReset(p, e, s)
             \/ Accounts!RefreshOrLogout(p, e)
      PROVE  VerifiedInv' /\ \A x : VerifiedRows(x) => VerifiedRows(x)'
  <2>1. form' = form
    BY <1>5, EasyAccountSteps
  <2>2. UNCHANGED verifs
    BY <1>5 DEF Accounts!Login, Accounts!RequestReset, Accounts!RefreshOrLogout
  <2> QED BY <1>1, <2>1, <2>2, VerifsUnchanged
<1>6. ASSUME NEW p \in Requests, NEW e \in Emails, NEW w \in Passwords, Accounts!RegisterStart(p, e, w)
      PROVE  VerifiedInv' /\ \A x : VerifiedRows(x) => VerifiedRows(x)'
  <2>1. OthersHeard(p)
    BY <1>6, RegisterStartKeeps
  <2>2. PICK g : g = [Accounts!Idle EXCEPT !.op = "register", !.pc = "insert", !.email = e, !.new = w]
    OBVIOUS
  <2>3. g.op = "register" /\ g.pc = "insert"
    BY <2>2, IdleForm DEF Forms
  <2>4. form' = [form EXCEPT ![p] = g] /\ UNCHANGED verifs
    BY <1>6, <2>2 DEF Accounts!RegisterStart, Accounts!Begin
  <2>5. form'[p] = g /\ g # Accounts!Idle
    BY <1>0, <2>3, <2>4, IdleForm
  <2> QED BY <1>2, <2>1, <2>3, <2>4, <2>5
<1>7. ASSUME NEW p \in Requests, NEW e \in Emails, NEW w \in Passwords, NEW n \in Passwords,
             Accounts!ChangeStart(p, e, w, n)
      PROVE  VerifiedInv' /\ \A x : VerifiedRows(x) => VerifiedRows(x)'
  <2>1. OthersHeard(p)
    BY <1>7, ChangeStartKeeps
  <2>2. PICK g : g = [Accounts!Idle EXCEPT !.op = "change", !.pc = "update", !.email = e, !.pw = w, !.new = n,
                                           !.held = {users[e]}]
    OBVIOUS
  <2>3. g.op = "change"
    BY <2>2, IdleForm DEF Forms
  <2>4. form' = [form EXCEPT ![p] = g] /\ UNCHANGED verifs
    BY <1>7, <2>2 DEF Accounts!ChangeStart, Accounts!Begin
  <2>5. form'[p] = g /\ g # Accounts!Idle
    BY <1>0, <2>3, <2>4, IdleForm
  <2> QED BY <1>2, <2>1, <2>3, <2>4, <2>5
<1>8. ASSUME NEW p \in Requests, NEW e \in Emails, NEW w \in Passwords,
             \E i \in DOMAIN resets, s \in ClientSecrets : Accounts!ConfirmStart(p, e, i, s, w)
      PROVE  VerifiedInv' /\ \A x : VerifiedRows(x) => VerifiedRows(x)'
  <2>1. PICK i \in 1 .. Len(resets), s \in ClientSecrets : Accounts!ConfirmStart(p, e, i, s, w)
    BY <1>8 DEF AccountsInv
  <2>2. OthersHeard(p) /\ form'[p].op = "confirm"
    BY <2>1, ConfirmStartKeeps
  <2>3. UNCHANGED verifs
    BY <2>1 DEF Accounts!ConfirmStart
  <2>4. form'[p] # Accounts!Idle
    BY <2>2, IdleForm
  <2> QED BY <1>2, <2>2, <2>3, <2>4
<1>9. ASSUME NEW p \in Requests, Accounts!RegisterVerification(p)
      PROVE  VerifiedInv' /\ \A x : VerifiedRows(x) => VerifiedRows(x)'
  <2>1. PICK f : f = form[p] /\ f.op = "register" /\ f.pc = "verification"
    BY <1>9 DEF Accounts!RegisterVerification, Accounts!At
  <2>2. NoLiveRow(f.email) /\ Accounts!InsertVerification(f.email) /\ form' = [form EXCEPT ![p] = Accounts!Idle]
    BY <1>9, <2>1 DEF VerifiedInv, Accounts!RegisterVerification, Accounts!Reply
  <2>3. form[p] # Accounts!Idle /\ form'[p] = Accounts!Idle
    BY <1>0, <2>1, <2>2, IdleForm
  <2>4. OthersHeard(p)
    BY <1>9, PlainMoves
  <2>5. \A q \in Requests : form'[q].op = "none"
    BY <2>3, <2>4, OthersIdle, IdleForm
  <2> QED BY <2>2, <2>5, InsertVerified
<1>10. ASSUME NEW p \in Requests, Accounts!AskInsert(p)
       PROVE  VerifiedInv' /\ \A x : VerifiedRows(x) => VerifiedRows(x)'
  <2>1. PICK f : f = form[p] /\ f.op = "ask" /\ f.pc = "insert"
    BY <1>10 DEF Accounts!AskInsert, Accounts!At
  <2>2. NoLiveRow(f.email) /\ Accounts!InsertVerification(f.email) /\ form' = [form EXCEPT ![p] = Accounts!Idle]
    BY <1>10, <2>1 DEF VerifiedInv, Accounts!AskInsert, Accounts!Reply
  <2>3. form[p] # Accounts!Idle /\ form'[p] = Accounts!Idle
    BY <1>0, <2>1, <2>2, IdleForm
  <2>4. OthersHeard(p)
    BY <1>10, VerificationWrites
  <2>5. \A q \in Requests : form'[q].op = "none"
    BY <2>3, <2>4, OthersIdle, IdleForm
  <2> QED BY <2>2, <2>5, InsertVerified
<1>11. ASSUME NEW p \in Requests, Accounts!ChangeUpdate(p)
       PROVE  VerifiedInv' /\ \A x : VerifiedRows(x) => VerifiedRows(x)'
  <2>1. OthersHeard(p) /\ form'[p] = Accounts!Idle
    BY <1>11, ChangeUpdateKeeps
  <2>2. form[p].op = "change" /\ UNCHANGED verifs
    BY <1>11 DEF Accounts!ChangeUpdate, Accounts!At
  <2> QED BY <1>2, <2>1, <2>2, IdleForm
<1>12. ASSUME NEW p \in Requests, NEW f, f = form[p], Accounts!ConfirmCompare(p)
       PROVE  VerifiedInv' /\ \A x : VerifiedRows(x) => VerifiedRows(x)'
  <2>1. /\ OthersHeard(p) /\ f.op = "confirm"
        /\ form'[p].op = "confirm" \/ form'[p] = Accounts!Idle
    BY <1>12, ConfirmCompareKeeps
  <2>2. UNCHANGED verifs
    BY <1>12 DEF Accounts!ConfirmCompare
  <2>3. form[p] # Accounts!Idle /\ form'[p].op \notin {"ask", "register"}
    BY <1>12, <2>1, IdleForm
  <2> QED BY <1>2, <2>1, <2>2, <2>3
<1>13. ASSUME NEW p \in Requests, NEW f, f = form[p], Accounts!ConfirmUpdate(p)
       PROVE  VerifiedInv' /\ \A x : VerifiedRows(x) => VerifiedRows(x)'
  <2>1. OthersHeard(p) /\ form'[p].op = "confirm"
    BY <1>13, ConfirmUpdateKeeps
  <2>2. UNCHANGED verifs
    BY <1>13 DEF Accounts!ConfirmUpdate
  <2>3. form'[p] # Accounts!Idle
    BY <2>1, IdleForm
  <2> QED BY <1>2, <2>1, <2>2, <2>3
<1>14. ASSUME NEW p \in Requests, NEW f, f = form[p], Accounts!ConfirmMark(p)
       PROVE  VerifiedInv' /\ \A x : VerifiedRows(x) => VerifiedRows(x)'
  <2>1. OthersHeard(p) /\ form'[p] = Accounts!Idle /\ f.op = "confirm"
    BY <1>14, ConfirmMarkKeeps
  <2>2. UNCHANGED verifs
    BY <1>14 DEF Accounts!ConfirmMark
  <2> QED BY <1>2, <1>14, <2>1, <2>2, IdleForm
<1>15. ASSUME NEW p \in Requests, NEW f, f = form[p], Accounts!Fail(p)
       PROVE  VerifiedInv' /\ \A x : VerifiedRows(x) => VerifiedRows(x)'
  <2>1. OthersHeard(p) /\ form'[p] = Accounts!Idle /\ UNCHANGED verifs
    BY <1>15, FailKeeps
  <2>2. form[p] # Accounts!Idle
    BY <1>15 DEF Accounts!Fail
  <2> QED BY <1>2, <2>1, <2>2, IdleForm
<1>16. ASSUME NEW p \in Requests, NEW i \in DOMAIN verifs, Accounts!VerifyRead(p, i)
       PROVE  VerifiedInv' /\ \A x : VerifiedRows(x) => VerifiedRows(x)'
  <2>1. OthersHeard(p) /\ UNCHANGED verifs
    BY <1>16, VerificationStarts
  <2>2. PICK f : f = [Accounts!Idle EXCEPT !.op = "verify", !.pc = "update", !.email = verifs[i].user, !.row = i]
    OBVIOUS
  <2>3. f.op = "verify"
    BY <2>2, IdleForm DEF Forms
  <2>4. form' = [form EXCEPT ![p] = f]
    BY <1>16, <2>2 DEF Accounts!VerifyRead, Accounts!Begin
  <2>5. form'[p] = f /\ f # Accounts!Idle
    BY <1>0, <2>3, <2>4, IdleForm
  <2> QED BY <1>2, <2>1, <2>3, <2>5
<1>17. ASSUME NEW p \in Requests, Accounts!Verification(p)
       PROVE  VerifiedInv' /\ \A x : VerifiedRows(x) => VerifiedRows(x)'
  BY <1>10, <1>16, <1>17, AskReadVerified, AskDeleteVerified, VerifyUpdateVerified DEF Accounts!Verification
<1>18. ASSUME NEW p \in Requests, Accounts!Account(p)
       PROVE  VerifiedInv' /\ \A x : VerifiedRows(x) => VerifiedRows(x)'
  BY <1>5, <1>6, <1>7, <1>8, <1>9, <1>11, <1>12, <1>13, <1>14, <1>15, <1>18, RegisterVerified DEF Accounts!Account
<1> QED BY <1>3, <1>4, <1>17, <1>18 DEF Accounts!Next

(* Hence a verified account stays verified, one request at a time.              *)
LEMMA StaysVerifiedStep ==
    ASSUME AccountsInv, AccountsInv', VerifiedInv, OneForm, OneForm', [Accounts!Next]_Accounts!vars
    PROVE  Accounts!StaysVerified
<1>1. \A x : VerifiedRows(x) => VerifiedRows(x)'
  BY VerifiedStep
<1> QED BY <1>1, VerifiedByRow DEF Accounts!StaysVerified

(* At the start there are no verification rows.                                 *)
LEMMA VerifiedStart ==
    ASSUME Accounts!Init
    PROVE  VerifiedInv
<1>1. Len(verifs) = 0 /\ \A p \in Requests : form[p] = Accounts!Idle
  BY DEF Accounts!Init
<1> QED BY <1>1, IdleForm DEF VerifiedInv
-----------------------------------------------------------------------------
(* Projects, their secrets and their settings *)

ProjectRow == [id : 1 .. MaxProjects, org : Hosts, name : Hosting!Names, status : Hosting!Statuses]
SecretRow == [id : 1 .. MaxSecrets, project : 1 .. MaxProjects, key : Keys]
SettingValues == { v \in Hosting!Values : v.on => v.details }
SettingRow == [id : 1 .. MaxSettings, project : 1 .. MaxProjects, category : Hosting!Categories,
               value : SettingValues]

UpdateBody == [name : Hosting!Names \union {Hosting!Absent}, status : {Hosting!Absent, "suspended", "unknown"}]
UpdateForm == [pc : {"update", "rename"}, user : Developers, org : Hosts, project : ProjectRow, body : UpdateBody]

HasProject(id) == \E p \in projects : p.id = id

ProjectTable ==
    /\ projects \subseteq ProjectRow
    /\ \A p \in projects : p.id <= made.project /\ p.org \in hosts
    /\ \A p, q \in projects : p.id = q.id => p = q
    /\ \A p, q \in projects : p.org = q.org /\ p.name = q.name => p = q

SecretTable ==
    /\ secrets \subseteq SecretRow
    /\ \A s \in secrets : s.id <= made.secret /\ HasProject(s.project)
    /\ \A s, t \in secrets : s.id = t.id => s = t

SettingTable ==
    /\ settings \subseteq SettingRow
    /\ \A s \in settings : s.id <= made.setting /\ HasProject(s.project)
    /\ \A s, t \in settings : s.id = t.id => s = t
    /\ \A s, t \in settings : s.project = t.project /\ s.category = t.category => s = t

Counters ==
    /\ hosts \subseteq Hosts
    /\ DOMAIN made = {"project", "secret", "setting"}
    /\ made.project \in 0 .. MaxProjects /\ made.secret \in 0 .. MaxSecrets /\ made.setting \in 0 .. MaxSettings

\* A row of this id, if there is one, is in this organization.
InOrg(id, o) == \A p \in projects : p.id = id => p.org = o

\* What a request may rely on while others act: its caller manages the
\* organization, and the project it read is of it, if it is still there; the
\* secret it found, if it is still there, is as it was and in the organization; the
\* settings it found are of its project.
OnProject == {"update", "rename", "delete", "secret", "delete_secret", "settings", "store_settings"}
EditOk(k) ==
    /\ k.pc \in {"idle", "shown", "create", "drop_secret"} \union OnProject
    /\ k.pc = "shown" => Hosting!Belongs(k.user, k.project.org)
    /\ k.pc = "create" => k.org \in Hosts /\ k.name \in GoodNames
    /\ k.pc \in OnProject => /\ k.org \in Hosts /\ Hosting!Manages(k.user, k.org)
                             /\ k.project \in ProjectRow /\ k.project.org = k.org
                             /\ k.project.id <= made.project /\ InOrg(k.project.id, k.org)
    /\ k.pc \in {"update", "rename"} => k \in UpdateForm
    /\ k.pc \in {"secret", "delete_secret"} => k.body \in Keys
    /\ k.pc \in {"settings", "store_settings"} =>
         k.body.category \in Hosting!Categories /\ k.body.value \in SettingValues
    /\ k.pc = "store_settings" =>
         /\ \A i \in k.found : i \in Nat /\ i <= made.setting
         /\ \A s \in settings : s.id \in k.found => s.project = k.project.id
    /\ k.pc = "drop_secret" =>
         /\ Hosting!Manages(k.user, k.org) /\ k.secret \in SecretRow
         /\ k.secret.id <= made.secret /\ k.secret.project <= made.project
         /\ InOrg(k.secret.project, k.org)
         /\ \A s \in secrets : s.id = k.secret.id => s = k.secret

EditsOk ==
    /\ DOMAIN edit = Requests
    /\ \A r \in Requests : \A k \in {edit[r]} : EditOk(k)

\* The inductive invariant of projects, however requests overlap.
HostingInv == Counters /\ ProjectTable /\ SecretTable /\ SettingTable /\ EditsOk

(* The bounds on rows are numbers.                                              *)
LEMMA HostingBounds == MaxProjects \in Nat /\ MaxSecrets \in Nat /\ MaxSettings \in Nat
BY PlatformAssumption DEF Hosting!ProjectsAssumption

\* Rows move only so: a project keeps its organization, a secret stays as it is, a
\* setting keeps its project, and ids are not used again.
RowsMove ==
    /\ made'.project \in Nat /\ made.project <= made'.project
    /\ made'.secret \in Nat /\ made.secret <= made'.secret
    /\ made'.setting \in Nat /\ made.setting <= made'.setting
    /\ \A p \in projects' : \/ \E q \in projects : q.id = p.id /\ q.org = p.org
                            \/ p.id > made.project
    /\ \A s \in secrets' : s \in secrets \/ s.id > made.secret
    /\ \A s \in settings' : \/ \E t \in settings : t.id = s.id /\ t.project = s.project
                            \/ s.id > made.setting

(* The organization of a project id outlasts every step.                        *)
LEMMA InOrgOutlasts ==
    ASSUME Counters, RowsMove, NEW i \in Nat, i <= made.project, NEW o, InOrg(i, o), NEW p \in projects', p.id = i
    PROVE  p.org = o
<1>1. \/ \E q \in projects : q.id = p.id /\ q.org = p.org
      \/ i > made.project
  BY DEF RowsMove
<1>2. ~(i > made.project)
  BY HostingBounds DEF Counters
<1> QED BY <1>1, <1>2 DEF InOrg

(* What a request relies on outlasts the steps of the others.                   *)
LEMMA EditOutlasts ==
    ASSUME Counters, RowsMove, NEW k, EditOk(k)
    PROVE  EditOk(k)'
<1>1. made.project \in Nat /\ made.secret \in Nat /\ made.setting \in Nat
  BY HostingBounds DEF Counters
<1>2. ASSUME NEW i \in Nat, i <= made.project, NEW o, InOrg(i, o)
      PROVE  InOrg(i, o)' /\ i <= made'.project
  BY <1>1, <1>2, InOrgOutlasts DEF InOrg, RowsMove
<1>3. ASSUME k.pc \in OnProject
      PROVE  k.project.id <= made'.project /\ InOrg(k.project.id, k.org)'
  <2>1. k.project \in ProjectRow /\ k.project.id <= made.project /\ InOrg(k.project.id, k.org)
    BY <1>3 DEF EditOk
  <2>2. k.project.id \in Nat
    BY <2>1, HostingBounds DEF ProjectRow
  <2> QED BY <1>2, <2>1, <2>2
<1>4. ASSUME k.pc = "store_settings"
      PROVE  /\ \A i \in k.found : i \in Nat /\ i <= made'.setting
             /\ \A s \in settings' : s.id \in k.found => s.project = k.project.id
  <2>1. /\ \A i \in k.found : i \in Nat /\ i <= made.setting
        /\ \A s \in settings : s.id \in k.found => s.project = k.project.id
    BY <1>4 DEF EditOk
  <2>2. made'.setting \in Nat /\ made.setting <= made'.setting
    BY DEF RowsMove
  <2>3. ASSUME NEW s \in settings', s.id \in k.found
        PROVE  s.project = k.project.id
    BY <1>1, <2>1, <2>3 DEF RowsMove
  <2> QED BY <1>1, <2>1, <2>2, <2>3
<1>5. ASSUME k.pc = "drop_secret"
      PROVE  /\ k.secret.id <= made'.secret /\ k.secret.project <= made'.project
             /\ InOrg(k.secret.project, k.org)'
             /\ \A s \in secrets' : s.id = k.secret.id => s = k.secret
  <2>1. /\ k.secret \in SecretRow /\ k.secret.id <= made.secret /\ k.secret.project <= made.project
        /\ InOrg(k.secret.project, k.org) /\ \A s \in secrets : s.id = k.secret.id => s = k.secret
    BY <1>5 DEF EditOk
  <2>2. k.secret.id \in Nat /\ k.secret.project \in Nat
    BY <2>1, HostingBounds DEF SecretRow
  <2>3. k.secret.id <= made'.secret
    BY <1>1, <2>1, <2>2 DEF RowsMove
  <2>4. ASSUME NEW s \in secrets', s.id = k.secret.id
        PROVE  s = k.secret
    BY <1>1, <2>1, <2>2, <2>4 DEF RowsMove
  <2> QED BY <1>2, <2>1, <2>2, <2>3, <2>4
<1> QED BY <1>3, <1>4, <1>5 DEF EditOk

(* One request moves on, the others keep what they rely on.                     *)
LEMMA EditsMove ==
    ASSUME Counters, EditsOk, RowsMove, NEW r \in Requests, NEW k, EditOk(k)', edit' = [edit EXCEPT ![r] = k]
    PROVE  EditsOk'
<1>1. DOMAIN edit' = Requests
  BY DEF EditsOk
<1>2. ASSUME NEW q \in Requests, NEW j, j = edit'[q]
      PROVE  EditOk(j)'
  <2>1. CASE q = r
    BY <1>2, <2>1 DEF EditsOk
  <2>2. CASE q # r
    <3>1. j = edit[q] /\ EditOk(j)
      BY <1>2, <2>2 DEF EditsOk
    <3> QED BY <3>1, EditOutlasts
  <2> QED BY <2>1, <2>2
<1> QED BY <1>1, <1>2 DEF EditsOk

(* The same when nobody moves.                                                  *)
LEMMA EditsStay ==
    ASSUME Counters, EditsOk, RowsMove, edit' = edit
    PROVE  EditsOk'
<1>1. ASSUME NEW q \in Requests, NEW j, j = edit'[q]
      PROVE  EditOk(j)'
  <2>1. j = edit[q] /\ EditOk(j)
    BY <1>1 DEF EditsOk
  <2> QED BY <2>1, EditOutlasts
<1> QED BY <1>1 DEF EditsOk

(* A request that has not begun relies on nothing.                              *)
LEMMA IdleEdit ==
    Hosting!Idle.pc = "idle" /\ EditOk(Hosting!Idle) /\ EditOk(Hosting!Idle)'
<1>1. Hosting!Idle.pc = "idle"
  BY DEF Hosting!Idle
<1> QED BY <1>1 DEF EditOk, OnProject

(* Rows that do not change keep their places.                                   *)
LEMMA RowsStay ==
    ASSUME Counters, UNCHANGED <<projects, secrets, settings, made>>
    PROVE  RowsMove
BY HostingBounds DEF Counters, RowsMove

(* What the invariant says of one request.                                      *)
LEMMA EditFacts ==
    ASSUME HostingInv, NEW r \in Requests, NEW k, k = edit[r]
    PROVE  EditOk(k)
BY DEF HostingInv, EditsOk

(* A step that leaves the tables alone.                                         *)
LEMMA QuietEdit ==
    ASSUME HostingInv, UNCHANGED Hosting!tables, NEW r \in Requests, NEW k, EditOk(k), edit' = [edit EXCEPT ![r] = k]
    PROVE  HostingInv'
<1>1. UNCHANGED <<hosts, projects, secrets, settings, made>>
  BY DEF Hosting!tables
<1>2. RowsMove
  BY <1>1, RowsStay DEF HostingInv
<1>3. EditOk(k)'
  BY <1>2, EditOutlasts DEF HostingInv
<1>4. EditsOk'
  BY <1>2, <1>3, EditsMove DEF HostingInv
<1>5. Counters' /\ ProjectTable' /\ SecretTable' /\ SettingTable'
  BY <1>1 DEF HostingInv, Counters, ProjectTable, SecretTable, SettingTable, HasProject
<1> QED BY <1>4, <1>5 DEF HostingInv

(* The caller manages the organization, and the project of the path is of it.   *)
LEMMA AuthorizeKeeps ==
    ASSUME HostingInv, NEW r \in Requests, NEW u \in Developers, NEW o \in Hosts, NEW op \in OnProject, NEW body,
           Hosting!Authorize(r, u, o, op, body), op \notin {"rename", "store_settings"},
           op = "update" => body \in UpdateBody,
           op \in {"secret", "delete_secret"} => body \in Keys,
           op = "settings" => body.category \in Hosting!Categories /\ body.value \in SettingValues
    PROVE  HostingInv'
<1>1. PICK p \in projects : p.org = o /\ edit' = [edit EXCEPT ![r] =
                              [pc |-> op, user |-> u, org |-> o, project |-> p, body |-> body]]
  BY DEF Hosting!Authorize, Hosting!ProjectsOf, Hosting!To
<1>2. PICK k : k = [pc |-> op, user |-> u, org |-> o, project |-> p, body |-> body]
  OBVIOUS
<1>3. k.pc = op /\ k.user = u /\ k.org = o /\ k.project = p /\ k.body = body
  BY <1>2
<1>4. Hosting!Manages(u, o) /\ UNCHANGED Hosting!tables
  BY DEF Hosting!Authorize
<1>5. p \in ProjectRow /\ p.id <= made.project /\ InOrg(p.id, o)
  BY <1>1 DEF HostingInv, ProjectTable, InOrg
<1>7. op = "update" => k \in UpdateForm
  BY <1>2, <1>5 DEF UpdateForm
<1>6. EditOk(k)
  BY <1>1, <1>3, <1>4, <1>5, <1>7 DEF EditOk, OnProject
<1> QED BY <1>1, <1>2, <1>4, <1>6, QuietEdit

(* What a member is shown is about a project of the organization.               *)
LEMMA ViewKeeps ==
    ASSUME HostingInv, NEW r \in Requests, NEW u \in Developers, NEW o \in Hosts, NEW found,
           found \subseteq { p \in projects : p.org = o }, Hosting!View(r, u, o, found)
    PROVE  HostingInv'
<1>1. PICK p \in found : edit' = [edit EXCEPT ![r] = [pc |-> "shown", user |-> u, project |-> p]]
  BY DEF Hosting!View, Hosting!To
<1>2. PICK k : k = [pc |-> "shown", user |-> u, project |-> p]
  OBVIOUS
<1>3. k.pc = "shown" /\ k.user = u /\ k.project = p
  BY <1>2
<1>4. Hosting!Belongs(u, o) /\ UNCHANGED Hosting!tables /\ p.org = o
  BY DEF Hosting!View
<1>5. EditOk(k)
  BY <1>3, <1>4 DEF EditOk, OnProject
<1> QED BY <1>1, <1>2, <1>4, <1>5, QuietEdit

(* The routes that read change no rows.                                         *)
LEMMA ViewsKeep ==
    ASSUME HostingInv, NEW r \in Requests, Hosting!ViewNext(r)
    PROVE  HostingInv'
<1>1. \E u \in Developers, o \in Hosts : \E found :
         found \subseteq { p \in projects : p.org = o } /\ Hosting!View(r, u, o, found)
  <2>1. PICK u \in Developers, o \in Hosts :
           \/ Hosting!ListProjects(r, u, o) \/ Hosting!GetProject(r, u, o) \/ Hosting!ListSecrets(r, u, o)
           \/ Hosting!GetEmailSettings(r, u, o) \/ Hosting!GetOAuthSettings(r, u, o)
    BY DEF Hosting!ViewNext
  <2>2. CASE Hosting!ListProjects(r, u, o)
    BY <2>2 DEF Hosting!ListProjects
  <2>3. CASE Hosting!GetProject(r, u, o) \/ Hosting!GetOAuthSettings(r, u, o)
    BY <2>3 DEF Hosting!GetProject, Hosting!GetOAuthSettings, Hosting!ProjectsOf
  <2>4. CASE Hosting!ListSecrets(r, u, o)
    <3>1. PICK found : found = {p \in Hosting!ProjectsOf(o) : \E s \in secrets : s.project = p.id}
      OBVIOUS
    <3>2. found \subseteq { p \in projects : p.org = o }
      BY <3>1 DEF Hosting!ProjectsOf
    <3> QED BY <2>4, <3>1, <3>2 DEF Hosting!ListSecrets
  <2>5. CASE Hosting!GetEmailSettings(r, u, o)
    <3>1. PICK found : found = {p \in Hosting!ProjectsOf(o) : \E s \in settings :
                                  s.project = p.id /\ s.category = "email"}
      OBVIOUS
    <3>2. found \subseteq { p \in projects : p.org = o }
      BY <3>1 DEF Hosting!ProjectsOf
    <3> QED BY <2>5, <3>1, <3>2 DEF Hosting!GetEmailSettings
  <2> QED BY <2>1, <2>2, <2>3, <2>4, <2>5
<1> QED BY <1>1, ViewKeeps

(* The requests that begin, and those that end.                                 *)
LEMMA AsksKeep ==
    ASSUME HostingInv, NEW r \in Requests, NEW u \in Developers, NEW o \in Hosts,
           \/ \E n \in Hosting!Names : Hosting!AskCreate(r, u, o, n)
           \/ \E n \in Hosting!Names \union {Hosting!Absent}, s \in {Hosting!Absent, "suspended", "unknown"} :
                Hosting!AskUpdate(r, u, o, n, s)
           \/ Hosting!AskDelete(r, u, o)
           \/ \E k \in Keys : Hosting!AskCreateSecret(r, u, o, k) \/ Hosting!AskDeleteSecret(r, u, o, k)
           \/ Hosting!AskEmailSettings(r, u, o)
           \/ \E v \in Hosting!Values : Hosting!AskOAuthSettings(r, u, o, v)
    PROVE  HostingInv'
<1>1. ASSUME NEW n \in Hosting!Names, Hosting!AskCreate(r, u, o, n)
      PROVE  HostingInv'
  <2>1. PICK k : k = [pc |-> "create", user |-> u, org |-> o, name |-> n]
    OBVIOUS
  <2>2. k.pc = "create" /\ k.org = o /\ k.name = n
    BY <2>1
  <2>3. n \in GoodNames /\ UNCHANGED Hosting!tables /\ edit' = [edit EXCEPT ![r] = k]
    BY <1>1, <2>1 DEF Hosting!AskCreate, Hosting!To
  <2>4. EditOk(k)
    BY <2>2, <2>3 DEF EditOk, OnProject
  <2> QED BY <2>3, <2>4, QuietEdit
<1>2. ASSUME NEW n \in Hosting!Names \union {Hosting!Absent}, NEW s \in {Hosting!Absent, "suspended", "unknown"},
             Hosting!AskUpdate(r, u, o, n, s)
      PROVE  HostingInv'
  <2>1. PICK b : b = [name |-> n, status |-> s]
    OBVIOUS
  <2>2. b \in UpdateBody /\ Hosting!Authorize(r, u, o, "update", b)
    BY <1>2, <2>1 DEF Hosting!AskUpdate, UpdateBody
  <2> QED BY <2>2, AuthorizeKeeps DEF OnProject
<1>3. CASE Hosting!AskDelete(r, u, o)
  BY <1>3, AuthorizeKeeps DEF Hosting!AskDelete, OnProject
<1>4. ASSUME NEW k \in Keys, Hosting!AskCreateSecret(r, u, o, k) \/ Hosting!AskDeleteSecret(r, u, o, k)
      PROVE  HostingInv'
  BY <1>4, AuthorizeKeeps DEF Hosting!AskCreateSecret, Hosting!AskDeleteSecret, OnProject
<1>5. CASE Hosting!AskEmailSettings(r, u, o)
  <2>1. PICK v : v = [on |-> FALSE, details |-> TRUE]
    OBVIOUS
  <2>2. v \in SettingValues
    BY <2>1 DEF SettingValues, Hosting!Values
  <2>3. PICK b : b = [category |-> "email", value |-> v]
    OBVIOUS
  <2>4. b.category \in Hosting!Categories /\ b.value = v
    BY <2>3 DEF Hosting!Categories
  <2>5. Hosting!Authorize(r, u, o, "settings", b)
    BY <1>5, <2>1, <2>3 DEF Hosting!AskEmailSettings
  <2> QED BY <2>2, <2>4, <2>5, AuthorizeKeeps DEF OnProject
<1>6. ASSUME NEW v \in Hosting!Values, Hosting!AskOAuthSettings(r, u, o, v)
      PROVE  HostingInv'
  <2>2. v \in SettingValues
    BY <1>6 DEF SettingValues, Hosting!AskOAuthSettings, Hosting!Accepted
  <2>3. PICK b : b = [category |-> "oauth", value |-> v]
    OBVIOUS
  <2>4. b.category \in Hosting!Categories /\ b.value = v
    BY <2>3 DEF Hosting!Categories
  <2>5. Hosting!Authorize(r, u, o, "settings", b)
    BY <1>6, <2>3 DEF Hosting!AskOAuthSettings
  <2> QED BY <2>2, <2>4, <2>5, AuthorizeKeeps DEF OnProject
<1> QED BY <1>1, <1>2, <1>3, <1>4, <1>5, <1>6

(* The reads in the middle of a request.                                        *)
LEMMA FindsKeep ==
    ASSUME HostingInv, NEW r \in Requests,
           Hosting!CheckName(r) \/ Hosting!FindSecret(r) \/ Hosting!FindSetting(r) \/ Hosting!End(r)
    PROVE  HostingInv'
<1>0. PICK k : k = edit[r] /\ EditOk(k)
  BY EditFacts
<1>9. ASSUME UNCHANGED Hosting!tables, edit' = [edit EXCEPT ![r] = Hosting!Idle]
      PROVE  HostingInv'
  BY <1>9, IdleEdit, QuietEdit
<1>1. CASE Hosting!End(r)
  BY <1>1, <1>9 DEF Hosting!End, Hosting!To
<1>2. CASE Hosting!CheckName(r)
  <2>1. k.pc = "update" /\ UNCHANGED Hosting!tables
    BY <1>0, <1>2 DEF Hosting!CheckName
  <2>2. PICK j : j = [k EXCEPT !.pc = "rename"]
    OBVIOUS
  <2>3. edit' = [edit EXCEPT ![r] = Hosting!Idle] \/ edit' = [edit EXCEPT ![r] = j]
    BY <1>0, <1>2, <2>2 DEF Hosting!CheckName, Hosting!To
  <2>4. k \in UpdateForm
    BY <1>0, <2>1 DEF EditOk
  <2>5. /\ j \in UpdateForm /\ j.pc = "rename" /\ j.user = k.user /\ j.org = k.org /\ j.project = k.project
        /\ j.body = k.body
    BY <2>2, <2>4 DEF UpdateForm
  <2>6. EditOk(j)
    BY <1>0, <2>1, <2>5 DEF EditOk, OnProject
  <2> QED BY <1>9, <2>1, <2>3, <2>6, QuietEdit
<1>3. CASE Hosting!FindSecret(r)
  <2>1. k.pc = "delete_secret" /\ UNCHANGED Hosting!tables
    BY <1>0, <1>3 DEF Hosting!FindSecret
  <2>2. ASSUME NEW s \in Hosting!Secret(k.project.id, k.body),
               edit' = [edit EXCEPT ![r] = [pc |-> "drop_secret", user |-> k.user, org |-> k.org, secret |-> s]]
        PROVE  HostingInv'
    <3>1. PICK j : j = [pc |-> "drop_secret", user |-> k.user, org |-> k.org, secret |-> s]
      OBVIOUS
    <3>2. j.pc = "drop_secret" /\ j.user = k.user /\ j.org = k.org /\ j.secret = s
      BY <3>1
    <3>3. s \in secrets /\ s.project = k.project.id
      BY DEF Hosting!Secret
    <3>4. s \in SecretRow /\ s.id <= made.secret /\ \A t \in secrets : t.id = s.id => t = s
      BY <3>3 DEF HostingInv, SecretTable
    <3>5. Hosting!Manages(k.user, k.org) /\ k.project.id <= made.project /\ InOrg(k.project.id, k.org)
      BY <1>0, <2>1 DEF EditOk, OnProject
    <3>6. EditOk(j)
      BY <3>2, <3>3, <3>4, <3>5 DEF EditOk, OnProject
    <3> QED BY <2>1, <2>2, <3>1, <3>6, QuietEdit
  <2> QED BY <1>0, <1>3, <1>9, <2>1, <2>2 DEF Hosting!FindSecret, Hosting!To
<1>4. CASE Hosting!FindSetting(r)
  <2>1. k.pc = "settings" /\ UNCHANGED Hosting!tables
    BY <1>0, <1>4 DEF Hosting!FindSetting
  <2>2. PICK found : found = {s.id : s \in Hosting!Setting(k.project.id, k.body.category)}
    OBVIOUS
  <2>3. PICK j : j = [pc |-> "store_settings", user |-> k.user, org |-> k.org, project |-> k.project,
                      body |-> k.body, found |-> found]
    OBVIOUS
  <2>4. edit' = [edit EXCEPT ![r] = j]
    BY <1>0, <1>4, <2>2, <2>3 DEF Hosting!FindSetting, Hosting!To
  <2>5. /\ j.pc = "store_settings" /\ j.user = k.user /\ j.org = k.org /\ j.project = k.project
        /\ j.body = k.body /\ j.found = found
    BY <2>3
  <2>6. /\ \A i \in found : i \in Nat /\ i <= made.setting
        /\ \A s \in settings : s.id \in found => s.project = k.project.id
    <3>1. \A s \in settings : s.id \in Nat /\ s.id <= made.setting
      BY HostingBounds DEF HostingInv, SettingTable, SettingRow
    <3> QED BY <2>2, <3>1 DEF Hosting!Setting, HostingInv, SettingTable
  <2>7. EditOk(j)
    BY <1>0, <2>1, <2>5, <2>6 DEF EditOk, OnProject
  <2> QED BY <2>1, <2>4, <2>7, QuietEdit
<1> QED BY <1>1, <1>2, <1>3, <1>4

(* A request writes and ends.                                                   *)
LEMMA WriteKeeps ==
    ASSUME HostingInv, RowsMove, NEW r \in Requests, edit' = [edit EXCEPT ![r] = Hosting!Idle],
           Counters', ProjectTable', SecretTable', SettingTable'
    PROVE  HostingInv' /\ edit'[r] = Hosting!Idle
<1>1. EditsOk'
  BY IdleEdit, EditsMove DEF HostingInv
<1> QED BY <1>1 DEF HostingInv, EditsOk

(* A new row takes an id that was not used.                                     *)
LEMMA MadeOne ==
    ASSUME Counters, NEW f \in {"project", "secret", "setting"}, made' = [made EXCEPT ![f] = @ + 1],
           UNCHANGED hosts,
           f = "project" => made.project < MaxProjects, f = "secret" => made.secret < MaxSecrets,
           f = "setting" => made.setting < MaxSettings
    PROVE  /\ Counters'
           /\ made'.project = IF f = "project" THEN made.project + 1 ELSE made.project
           /\ made'.secret = IF f = "secret" THEN made.secret + 1 ELSE made.secret
           /\ made'.setting = IF f = "setting" THEN made.setting + 1 ELSE made.setting
BY HostingBounds DEF Counters

(* create_project: the unique name and the organization are checked again.      *)
LEMMA InsertProjectKeeps ==
    ASSUME HostingInv, NEW r \in Requests, Hosting!InsertProject(r)
    PROVE  HostingInv' /\ edit'[r] = Hosting!Idle /\ Hosting!Touched = {}
<1>0. PICK k : k = edit[r] /\ EditOk(k)
  BY EditFacts
<1>1. /\ k.pc = "create" /\ made.project < MaxProjects /\ made' = [made EXCEPT !.project = @ + 1]
      /\ edit' = [edit EXCEPT ![r] = Hosting!Idle] /\ UNCHANGED <<hosts, secrets, settings>>
      /\ projects' = IF ~Hosting!MayStore(0, k.org, k.name) THEN projects
                     ELSE projects \union {[id |-> made.project + 1, org |-> k.org, name |-> k.name, status |-> "active"]}
  BY <1>0 DEF Hosting!InsertProject, Hosting!To
<1>2. k.org \in Hosts /\ k.name \in Hosting!Names
  BY <1>0, <1>1 DEF EditOk, Hosting!Names
<1>3. /\ Counters' /\ made'.project = made.project + 1 /\ made'.secret = made.secret
      /\ made'.setting = made.setting
  BY <1>1, MadeOne DEF HostingInv
<1>4. made.project \in Nat /\ made.secret \in Nat /\ made.setting \in Nat
  BY HostingBounds DEF HostingInv, Counters
<1>5. PICK n : n = [id |-> made.project + 1, org |-> k.org, name |-> k.name, status |-> "active"]
  OBVIOUS
<1>6. n \in ProjectRow /\ n.id = made.project + 1 /\ n.org = k.org /\ n.name = k.name
  BY <1>1, <1>2, <1>4, <1>5, HostingBounds DEF ProjectRow, Hosting!Statuses
<1>7. \A p \in projects : p.id \in Nat /\ p.id <= made.project
  BY HostingBounds DEF HostingInv, ProjectTable, ProjectRow
<1>8. ProjectTable' /\ projects \subseteq projects' /\ \A p \in projects' : p \in projects \/ p.id > made.project
  <2>1. CASE projects' = projects
    <3>1. \A p \in projects : p.id <= made'.project
      BY <1>3, <1>4, <1>7
    <3> QED BY <1>1, <2>1, <3>1 DEF HostingInv, ProjectTable
  <2>2. CASE projects' = projects \union {n} /\ Hosting!MayStore(0, k.org, k.name)
    <3>1. \A p \in projects' : (p \in projects /\ p.id <= made.project) \/ p = n
      BY <1>7, <2>2
    <3>2. projects' \subseteq ProjectRow
      BY <1>6, <2>2 DEF HostingInv, ProjectTable
    <3>3. k.org \in hosts /\ \A p \in projects : ~(p.org = k.org /\ p.name = k.name)
      BY <1>7, <2>2, HostingBounds DEF Hosting!MayStore, HostingInv, ProjectTable, ProjectRow
    <3>4. \A p \in projects' : p.id <= made'.project /\ p.org \in hosts'
      BY <1>1, <1>3, <1>4, <1>6, <1>7, <2>2, <3>3 DEF HostingInv, ProjectTable
    <3>5. \A p, q \in projects' : p.id = q.id => p = q
      BY <1>4, <1>6, <1>7, <2>2 DEF HostingInv, ProjectTable
    <3>6. \A p, q \in projects' : p.org = q.org /\ p.name = q.name => p = q
      BY <1>6, <2>2, <3>3 DEF HostingInv, ProjectTable
    <3>7. \A p \in projects' : p \in projects \/ p.id > made.project
      BY <1>4, <1>6, <2>2
    <3> QED BY <2>2, <3>2, <3>4, <3>5, <3>6, <3>7 DEF ProjectTable
  <2> QED BY <1>1, <1>5, <2>1, <2>2
<1>9. SecretTable' /\ SettingTable'
  BY <1>1, <1>3, <1>8 DEF HostingInv, SecretTable, SettingTable, HasProject
<1>10. RowsMove
  BY <1>1, <1>3, <1>4, <1>8 DEF RowsMove
<1>11. Hosting!Touched = {}
  BY <1>1, <1>8 DEF Hosting!Touched
<1> QED BY <1>1, <1>3, <1>8, <1>9, <1>10, <1>11, WriteKeeps

(* OrgProject::update writes the row that it read, of the same organization.    *)
LEMMA UpdateProjectKeeps ==
    ASSUME HostingInv, NEW r \in Requests, NEW k, k = edit[r], Hosting!UpdateProject(r)
    PROVE  /\ HostingInv' /\ edit'[r] = Hosting!Idle /\ Hosting!Manages(k.user, k.org)
           /\ \A p \in Hosting!Touched : p.org = k.org
           /\ UNCHANGED <<hosts, secrets>>
           /\ \A q \in projects' : \/ q \in projects
                                   \/ q = Hosting!Merged(r)
<1>0. EditOk(k)
  BY EditFacts
<1>1. /\ k.pc = "rename" /\ edit' = [edit EXCEPT ![r] = Hosting!Idle] /\ UNCHANGED <<hosts, secrets, settings, made>>
  BY DEF Hosting!UpdateProject, Hosting!To
<1>2. PICK n : n = Hosting!Merged(r)
  OBVIOUS
<1>3. projects' = IF n.status \notin Hosting!Statuses \/ ~Hosting!MayStore(n.id, n.org, n.name) THEN projects
                  ELSE {IF p.id = n.id THEN n ELSE p : p \in projects}
  BY <1>2 DEF Hosting!UpdateProject
<1>4. /\ k.project \in ProjectRow /\ k.body \in UpdateBody /\ k.project.org = k.org /\ k.org \in Hosts
      /\ InOrg(k.project.id, k.org) /\ Hosting!Manages(k.user, k.org)
  BY <1>0, <1>1 DEF EditOk, OnProject, UpdateForm
<1>5. PICK m, t : /\ n = [k.project EXCEPT !.name = m, !.status = t]
                  /\ m \in Hosting!Names
  <2>1. n = [k.project EXCEPT !.name = IF k.body.name = Hosting!Absent THEN k.project.name ELSE k.body.name,
                              !.status = Hosting!Or(k.body.status, k.project.status)]
    BY <1>2 DEF Hosting!Merged
  <2>2. k.body.name \in Hosting!Names \union {Hosting!Absent} /\ k.project.name \in Hosting!Names
    BY <1>4 DEF UpdateBody, ProjectRow
  <2> QED BY <2>1, <2>2
<1>6. /\ n.id = k.project.id /\ n.org = k.org /\ n.name = m /\ n.status = t
      /\ t \in Hosting!Statuses => n \in ProjectRow
  BY <1>4, <1>5 DEF ProjectRow
<1>7. made.project \in Nat /\ made.secret \in Nat /\ made.setting \in Nat
  BY HostingBounds DEF HostingInv, Counters
<1>8. CASE projects' = projects
  <2>1. HostingInv' /\ edit'[r] = Hosting!Idle
    <3>1. Counters' /\ ProjectTable' /\ SecretTable' /\ SettingTable'
      BY <1>1, <1>8 DEF HostingInv, Counters, ProjectTable, SecretTable, SettingTable, HasProject
    <3>2. RowsMove
      BY <1>1, <1>8, RowsStay DEF HostingInv
    <3> QED BY <1>1, <3>1, <3>2, WriteKeeps
  <2>2. Hosting!Touched = {}
    BY <1>1, <1>8 DEF Hosting!Touched
  <2> QED BY <1>1, <1>4, <1>8, <2>1, <2>2
<1>9. CASE /\ projects' = {IF p.id = n.id THEN n ELSE p : p \in projects}
           /\ t \in Hosting!Statuses /\ Hosting!MayStore(n.id, n.org, n.name)
  <2>1. \A q \in projects' : \E p \in projects :
           p.id = q.id /\ p.org = q.org /\ \/ p.id = n.id /\ q = n
                                           \/ p.id # n.id /\ q = p
    BY <1>4, <1>6, <1>9 DEF InOrg
  <2>2. \A p \in projects : IF p.id = n.id THEN n \in projects' ELSE p \in projects'
    BY <1>9
  <2>3. n.org \in hosts /\ \A p \in projects : p.org = n.org /\ p.name = n.name => p.id = n.id
    BY <1>9 DEF Hosting!MayStore
  <2>4. projects' \subseteq ProjectRow /\ \A q \in projects' : q.id <= made'.project /\ q.org \in hosts'
    BY <1>1, <1>6, <1>9, <2>1 DEF HostingInv, ProjectTable
  <2>5. \A p, q \in projects' : p.id = q.id => p = q
    BY <2>1 DEF HostingInv, ProjectTable
  <2>6. ASSUME NEW p \in projects', NEW q \in projects', p.org = q.org, p.name = q.name
        PROVE  p = q
    <3>1. p = n \/ (p \in projects /\ p.id # n.id)
      BY <2>1
    <3>2. q = n \/ (q \in projects /\ q.id # n.id)
      BY <2>1
    <3> QED BY <2>3, <2>6, <3>1, <3>2 DEF HostingInv, ProjectTable
  <2>7. ProjectTable'
    BY <2>4, <2>5, <2>6 DEF ProjectTable
  <2>8. \A i : HasProject(i) => HasProject(i)'
    BY <2>2 DEF HasProject
  <2>9. SecretTable' /\ SettingTable' /\ Counters'
    BY <1>1, <2>8 DEF HostingInv, SecretTable, SettingTable, Counters
  <2>10. RowsMove
    BY <1>1, <1>7, <2>1 DEF RowsMove
  <2>11. HostingInv' /\ edit'[r] = Hosting!Idle
    BY <1>1, <2>7, <2>9, <2>10, WriteKeeps
  <2>12. ASSUME NEW p \in Hosting!Touched
         PROVE  p.org = k.org
    <3>1. p \in projects /\ p \notin projects'
      BY <1>1, <2>12 DEF Hosting!Touched
    <3>2. p.id = n.id
      BY <2>2, <3>1
    <3> QED BY <1>4, <1>6, <3>1, <3>2 DEF InOrg
  <2>13. \A q \in projects' : q \in projects \/ q = n
    BY <2>1
  <2> QED BY <1>1, <1>2, <1>4, <2>11, <2>12, <2>13
<1> QED BY <1>3, <1>6, <1>8, <1>9

(* ON DELETE CASCADE takes projects with what belongs to them.                  *)
LEMMA DropKeeps ==
    ASSUME HostingInv, NEW ids, Hosting!Drop(ids), UNCHANGED made, hosts' \subseteq hosts,
           \A p \in projects : p.id \notin ids => p.org \in hosts'
    PROVE  /\ Counters' /\ ProjectTable' /\ SecretTable' /\ SettingTable' /\ RowsMove
           /\ \A p \in Hosting!Touched : p.id \in ids
<1>1. /\ projects' = {p \in projects : p.id \notin ids}
      /\ secrets' = {x \in secrets : x.project \notin ids}
      /\ settings' = {x \in settings : x.project \notin ids}
  BY DEF Hosting!Drop, Hosting!Without
<1>2. Counters'
  BY DEF HostingInv, Counters
<1>3. ProjectTable'
  BY <1>1 DEF HostingInv, ProjectTable
<1>4. \A i : HasProject(i) /\ i \notin ids => HasProject(i)'
  BY <1>1 DEF HasProject
<1>5. SecretTable' /\ SettingTable'
  BY <1>1, <1>4 DEF HostingInv, SecretTable, SettingTable
<1>6. RowsMove
  <2>1. made.project \in Nat /\ made.secret \in Nat /\ made.setting \in Nat
    BY HostingBounds DEF HostingInv, Counters
  <2> QED BY <1>1, <2>1 DEF RowsMove
<1>7. ASSUME NEW p \in Hosting!Touched, p.id \notin ids
      PROVE  FALSE
  <2>1. p \in projects /\ p \in projects'
    BY <1>1, <1>7 DEF Hosting!Touched
  <2>2. {s \in secrets : s.project = p.id} = {s \in secrets' : s.project = p.id}
    BY <1>1, <1>7
  <2>3. {s \in settings : s.project = p.id} = {s \in settings' : s.project = p.id}
    BY <1>1, <1>7
  <2> QED BY <2>1, <2>2, <2>3 DEF Hosting!Touched
<1> QED BY <1>2, <1>3, <1>5, <1>6, <1>7

(* delete_project takes the secrets and settings of its project along.          *)
LEMMA DeleteProjectKeeps ==
    ASSUME HostingInv, NEW r \in Requests, NEW k, k = edit[r], Hosting!DeleteProject(r)
    PROVE  /\ HostingInv' /\ edit'[r] = Hosting!Idle /\ Hosting!Manages(k.user, k.org)
           /\ \A p \in Hosting!Touched : p.org = k.org
<1>0. EditOk(k)
  BY EditFacts
<1>1. /\ k.pc = "delete" /\ edit' = [edit EXCEPT ![r] = Hosting!Idle] /\ UNCHANGED <<hosts, made>>
      /\ Hosting!Drop({k.project.id})
  BY DEF Hosting!DeleteProject, Hosting!To
<1>2. InOrg(k.project.id, k.org) /\ Hosting!Manages(k.user, k.org)
  BY <1>0, <1>1 DEF EditOk, OnProject
<1>3. \A p \in projects : p.org \in hosts'
  BY <1>1 DEF HostingInv, ProjectTable
<1>4. /\ Counters' /\ ProjectTable' /\ SecretTable' /\ SettingTable' /\ RowsMove
      /\ \A p \in Hosting!Touched : p.id \in {k.project.id}
  BY <1>1, <1>3, DropKeeps
<1>5. \A p \in Hosting!Touched : p \in projects
  BY DEF Hosting!Touched
<1>6. \A p \in Hosting!Touched : p.org = k.org
  BY <1>2, <1>4, <1>5 DEF InOrg
<1> QED BY <1>1, <1>2, <1>4, <1>6, WriteKeeps

(* Deleting an organization takes its projects and all of theirs along.         *)
LEMMA DeleteOrgKeeps ==
    ASSUME HostingInv, NEW o \in Hosts, Hosting!DeleteOrg(o)
    PROVE  HostingInv' /\ edit' = edit /\ hosts' # hosts /\ projects' \subseteq projects
<1>1. /\ o \in hosts /\ hosts' = hosts \ {o} /\ UNCHANGED <<made, edit>>
      /\ Hosting!Drop({p.id : p \in Hosting!ProjectsOf(o)})
  BY DEF Hosting!DeleteOrg
<1>2. ASSUME NEW p \in projects, p.id \notin {q.id : q \in Hosting!ProjectsOf(o)}
      PROVE  p.org \in hosts'
  BY <1>1, <1>2 DEF Hosting!ProjectsOf, HostingInv, ProjectTable
<1>3. Counters' /\ ProjectTable' /\ SecretTable' /\ SettingTable' /\ RowsMove
  BY <1>1, <1>2, DropKeeps
<1>4. EditsOk'
  BY <1>1, <1>3, EditsStay DEF HostingInv
<1>5. projects' \subseteq projects
  BY <1>1 DEF Hosting!Drop
<1> QED BY <1>1, <1>3, <1>4, <1>5 DEF HostingInv

(* create_secret: the foreign key refuses a project that is gone.               *)
LEMMA UpsertSecretKeeps ==
    ASSUME HostingInv, NEW r \in Requests, NEW k, k = edit[r], Hosting!UpsertSecret(r)
    PROVE  /\ HostingInv' /\ edit'[r] = Hosting!Idle /\ Hosting!Manages(k.user, k.org)
           /\ \A p \in Hosting!Touched : p.org = k.org
           /\ UNCHANGED projects
<1>0. EditOk(k)
  BY EditFacts
<1>1. /\ k.pc = "secret" /\ made.secret < MaxSecrets /\ made' = [made EXCEPT !.secret = @ + 1]
      /\ edit' = [edit EXCEPT ![r] = Hosting!Idle] /\ UNCHANGED <<hosts, projects, settings>>
      /\ secrets' = IF ~Hosting!Exists(k.project.id) \/ Hosting!Secret(k.project.id, k.body) # {} THEN secrets
                    ELSE secrets \union {[id |-> made.secret + 1, project |-> k.project.id, key |-> k.body]}
  BY DEF Hosting!UpsertSecret, Hosting!To
<1>2. /\ InOrg(k.project.id, k.org) /\ Hosting!Manages(k.user, k.org) /\ k.body \in Keys
      /\ k.project.id \in 1 .. MaxProjects
  BY <1>0, <1>1 DEF EditOk, OnProject, ProjectRow
<1>3. /\ Counters' /\ made'.project = made.project /\ made'.secret = made.secret + 1
      /\ made'.setting = made.setting
  BY <1>1, MadeOne DEF HostingInv
<1>4. made.project \in Nat /\ made.secret \in Nat /\ made.setting \in Nat
  BY HostingBounds DEF HostingInv, Counters
<1>5. PICK n : n = [id |-> made.secret + 1, project |-> k.project.id, key |-> k.body]
  OBVIOUS
<1>6. n \in SecretRow /\ n.id = made.secret + 1 /\ n.project = k.project.id
  BY <1>1, <1>2, <1>4, <1>5, HostingBounds DEF SecretRow
<1>7. \A s \in secrets : s.id \in Nat /\ s.id <= made.secret
  BY HostingBounds DEF HostingInv, SecretTable, SecretRow
<1>8. /\ SecretTable' /\ \A s \in secrets' : s \in secrets \/ s.id > made.secret
      /\ secrets' = secrets \/ secrets' = secrets \union {n}
  <2>1. CASE secrets' = secrets
    <3>1. \A s \in secrets : s.id <= made'.secret
      BY <1>3, <1>4, <1>7
    <3> QED BY <1>1, <2>1, <3>1 DEF HostingInv, SecretTable, HasProject
  <2>2. CASE secrets' = secrets \union {n} /\ Hosting!Exists(k.project.id)
    <3>1. secrets' \subseteq SecretRow
      BY <1>6, <2>2 DEF HostingInv, SecretTable
    <3>2. HasProject(n.project)
      BY <1>6, <2>2 DEF HasProject, Hosting!Exists
    <3>3. \A s \in secrets' : s.id <= made'.secret /\ HasProject(s.project)'
      BY <1>1, <1>3, <1>4, <1>6, <1>7, <2>2, <3>2 DEF HostingInv, SecretTable, HasProject
    <3>4. \A s, t \in secrets' : s.id = t.id => s = t
      BY <1>4, <1>6, <1>7, <2>2 DEF HostingInv, SecretTable
    <3>5. \A s \in secrets' : s \in secrets \/ s.id > made.secret
      BY <1>4, <1>6, <2>2
    <3> QED BY <2>2, <3>1, <3>3, <3>4, <3>5 DEF SecretTable
  <2> QED BY <1>1, <1>5, <2>1, <2>2
<1>9. ProjectTable' /\ SettingTable'
  BY <1>1, <1>3 DEF HostingInv, ProjectTable, SettingTable, HasProject
<1>10. RowsMove
  BY <1>1, <1>3, <1>4, <1>8 DEF RowsMove
<1>11. ASSUME NEW p \in Hosting!Touched
       PROVE  p.org = k.org
  <2>1. p \in projects /\ {s \in secrets : s.project = p.id} # {s \in secrets' : s.project = p.id}
    BY <1>1, <1>11 DEF Hosting!Touched
  <2>2. p.id = k.project.id
    BY <1>6, <1>8, <2>1
  <2> QED BY <1>2, <2>1, <2>2 DEF InOrg
<1> QED BY <1>1, <1>2, <1>3, <1>8, <1>9, <1>10, <1>11, WriteKeeps

(* delete_project_secret deletes the row it read, or none.                      *)
LEMMA DropSecretKeeps ==
    ASSUME HostingInv, NEW r \in Requests, NEW k, k = edit[r], Hosting!DropSecret(r)
    PROVE  /\ HostingInv' /\ edit'[r] = Hosting!Idle /\ Hosting!Manages(k.user, k.org)
           /\ \A p \in Hosting!Touched : p.org = k.org
           /\ UNCHANGED projects /\ secrets \ secrets' \subseteq {k.secret}
<1>0. EditOk(k)
  BY EditFacts
<1>1. /\ k.pc = "drop_secret" /\ edit' = [edit EXCEPT ![r] = Hosting!Idle]
      /\ UNCHANGED <<hosts, projects, settings, made>> /\ secrets' = {x \in secrets : x.id # k.secret.id}
  BY DEF Hosting!DropSecret, Hosting!To, Hosting!Doomed
<1>2. /\ InOrg(k.secret.project, k.org) /\ Hosting!Manages(k.user, k.org)
      /\ \A s \in secrets : s.id = k.secret.id => s = k.secret
  BY <1>0, <1>1 DEF EditOk, OnProject
<1>3. Counters' /\ ProjectTable' /\ SecretTable' /\ SettingTable'
  BY <1>1 DEF HostingInv, Counters, ProjectTable, SecretTable, SettingTable, HasProject
<1>4. RowsMove
  <2>1. made.project \in Nat /\ made.secret \in Nat /\ made.setting \in Nat
    BY HostingBounds DEF HostingInv, Counters
  <2> QED BY <1>1, <2>1 DEF RowsMove
<1>5. ASSUME NEW p \in Hosting!Touched
      PROVE  p.org = k.org
  <2>1. p \in projects /\ {s \in secrets : s.project = p.id} # {s \in secrets' : s.project = p.id}
    BY <1>1, <1>5 DEF Hosting!Touched
  <2>2. p.id = k.secret.project
    BY <1>1, <1>2, <2>1
  <2> QED BY <1>2, <2>1, <2>2 DEF InOrg
<1>6. secrets \ secrets' \subseteq {k.secret}
  BY <1>1, <1>2
<1> QED BY <1>1, <1>2, <1>3, <1>4, <1>5, <1>6, WriteKeeps

(* Settings: the rows that were found are updated, or one is inserted unless    *)
(* another request was first.                                                   *)
LEMMA StoreSettingKeeps ==
    ASSUME HostingInv, NEW r \in Requests, NEW k, k = edit[r], Hosting!StoreSetting(r)
    PROVE  /\ HostingInv' /\ edit'[r] = Hosting!Idle /\ Hosting!Manages(k.user, k.org)
           /\ \A p \in Hosting!Touched : p.org = k.org
           /\ UNCHANGED projects
<1>0. EditOk(k)
  BY EditFacts
<1>1. /\ k.pc = "store_settings" /\ edit' = [edit EXCEPT ![r] = Hosting!Idle]
      /\ UNCHANGED <<hosts, projects, secrets>>
      /\ IF k.found # {}
         THEN /\ settings' = {IF s.id \in k.found THEN [s EXCEPT !.value = k.body.value] ELSE s : s \in settings}
              /\ UNCHANGED made
         ELSE /\ made.setting < MaxSettings /\ made' = [made EXCEPT !.setting = @ + 1]
              /\ settings' = IF ~Hosting!MayInsertSetting(k.project.id, k.body.category) THEN settings
                             ELSE settings \union {[id |-> made.setting + 1, project |-> k.project.id,
                                                    category |-> k.body.category, value |-> k.body.value]}
  BY DEF Hosting!StoreSetting, Hosting!To
<1>2. /\ InOrg(k.project.id, k.org) /\ Hosting!Manages(k.user, k.org)
      /\ k.project.id \in 1 .. MaxProjects
      /\ k.body.category \in Hosting!Categories /\ k.body.value \in SettingValues
      /\ \A s \in settings : s.id \in k.found => s.project = k.project.id
  BY <1>0, <1>1 DEF EditOk, OnProject, ProjectRow
<1>3. made.project \in Nat /\ made.secret \in Nat /\ made.setting \in Nat
  BY HostingBounds DEF HostingInv, Counters
<1>4. \A s \in settings : s \in SettingRow /\ s.id \in Nat /\ s.id <= made.setting
  BY HostingBounds DEF HostingInv, SettingTable, SettingRow
<1>5. ASSUME NEW p \in Hosting!Touched,
             \A s \in settings : s \notin settings' => s.project = k.project.id,
             \A s \in settings' : s \notin settings => s.project = k.project.id
      PROVE  p.org = k.org
  <2>1. p \in projects /\ {s \in settings : s.project = p.id} # {s \in settings' : s.project = p.id}
    BY <1>1, <1>5 DEF Hosting!Touched
  <2>2. p.id = k.project.id
    BY <1>5, <2>1
  <2> QED BY <1>2, <2>1, <2>2 DEF InOrg
<1>6. CASE k.found # {}
  <2>1. PICK v : v = k.body.value
    OBVIOUS
  <2>2. \A s \in settings : \A t : t = [s EXCEPT !.value = v] =>
           t \in SettingRow /\ t.id = s.id /\ t.project = s.project /\ t.category = s.category
    BY <1>2, <1>4, <2>1 DEF SettingRow
  <2>3. /\ settings' = {IF s.id \in k.found THEN [s EXCEPT !.value = v] ELSE s : s \in settings}
        /\ UNCHANGED made
    BY <1>1, <1>6, <2>1
  <2>4. \A t \in settings' : \E s \in settings :
           /\ t \in SettingRow /\ t.id = s.id /\ t.project = s.project /\ t.category = s.category
           /\ t = IF s.id \in k.found THEN [s EXCEPT !.value = v] ELSE s
    <3>1. ASSUME NEW t \in settings'
          PROVE  \E s \in settings :
                   /\ t \in SettingRow /\ t.id = s.id /\ t.project = s.project /\ t.category = s.category
                   /\ t = IF s.id \in k.found THEN [s EXCEPT !.value = v] ELSE s
      <4>1. PICK s \in settings : t = IF s.id \in k.found THEN [s EXCEPT !.value = v] ELSE s
        BY <2>3, <3>1
      <4>2. t \in SettingRow /\ t.id = s.id /\ t.project = s.project /\ t.category = s.category
        BY <1>4, <2>2, <4>1
      <4> QED BY <4>1, <4>2
    <3> QED BY <3>1
  <2>5. settings' \subseteq SettingRow /\ \A t \in settings' : t.id <= made'.setting /\ HasProject(t.project)'
    BY <1>1, <1>4, <2>3, <2>4 DEF HostingInv, SettingTable, HasProject
  <2>6. ASSUME NEW s \in settings', NEW t \in settings',
               s.id = t.id \/ (s.project = t.project /\ s.category = t.category)
        PROVE  s = t
    <3>1. PICK a \in settings : /\ s.id = a.id /\ s.project = a.project /\ s.category = a.category
                                /\ s = IF a.id \in k.found THEN [a EXCEPT !.value = v] ELSE a
      BY <2>4
    <3>2. PICK b \in settings : /\ t.id = b.id /\ t.project = b.project /\ t.category = b.category
                                /\ t = IF b.id \in k.found THEN [b EXCEPT !.value = v] ELSE b
      BY <2>4
    <3>3. a = b
      BY <2>6, <3>1, <3>2 DEF HostingInv, SettingTable
    <3> QED BY <3>1, <3>2, <3>3
  <2>7. SettingTable'
    BY <2>5, <2>6 DEF SettingTable
  <2>8. Counters' /\ ProjectTable' /\ SecretTable'
    BY <1>1, <2>3 DEF HostingInv, Counters, ProjectTable, SecretTable, HasProject
  <2>9. RowsMove
    BY <1>1, <1>3, <2>3, <2>4 DEF RowsMove
  <2>10. HostingInv' /\ edit'[r] = Hosting!Idle
    BY <1>1, <2>7, <2>8, <2>9, WriteKeeps
  <2>11. ASSUME NEW s \in settings, s \notin settings'
         PROVE  s.project = k.project.id
    BY <1>2, <2>3, <2>11
  <2>12. ASSUME NEW t \in settings', t \notin settings
         PROVE  t.project = k.project.id
    BY <1>2, <2>4, <2>12
  <2> QED BY <1>1, <1>2, <1>5, <2>10, <2>11, <2>12
<1>7. CASE k.found = {}
  <2>1. /\ made.setting < MaxSettings /\ made' = [made EXCEPT !.setting = @ + 1]
        /\ settings' = IF ~Hosting!MayInsertSetting(k.project.id, k.body.category) THEN settings
                       ELSE settings \union {[id |-> made.setting + 1, project |-> k.project.id,
                                              category |-> k.body.category, value |-> k.body.value]}
    BY <1>1, <1>7
  <2>2. /\ Counters' /\ made'.project = made.project /\ made'.secret = made.secret
        /\ made'.setting = made.setting + 1
    BY <1>1, <2>1, MadeOne DEF HostingInv
  <2>3. PICK n : n = [id |-> made.setting + 1, project |-> k.project.id,
                      category |-> k.body.category, value |-> k.body.value]
    OBVIOUS
  <2>4. n \in SettingRow /\ n.id = made.setting + 1 /\ n.project = k.project.id /\ n.category = k.body.category
    BY <1>2, <1>3, <2>1, <2>3, HostingBounds DEF SettingRow
  <2>5. /\ SettingTable' /\ \A s \in settings' : s \in settings \/ (s.id > made.setting /\ s.project = k.project.id)
        /\ settings \subseteq settings'
    <3>1. CASE settings' = settings
      <4>1. \A s \in settings : s.id <= made'.setting
        BY <1>3, <1>4, <2>2
      <4> QED BY <1>1, <3>1, <4>1 DEF HostingInv, SettingTable, HasProject
    <3>2. CASE settings' = settings \union {n} /\ Hosting!MayInsertSetting(k.project.id, k.body.category)
      <4>1. settings' \subseteq SettingRow
        BY <1>4, <2>4, <3>2
      <4>2. HasProject(n.project) /\ \A s \in settings : ~(s.project = n.project /\ s.category = n.category)
        BY <2>4, <3>2 DEF HasProject, Hosting!Exists, Hosting!MayInsertSetting, Hosting!Setting
      <4>3. \A s \in settings' : s.id <= made'.setting /\ HasProject(s.project)'
        BY <1>1, <1>3, <1>4, <2>2, <2>4, <3>2, <4>2 DEF HostingInv, SettingTable, HasProject
      <4>4. \A s, t \in settings' : s.id = t.id => s = t
        BY <1>3, <1>4, <2>4, <3>2 DEF HostingInv, SettingTable
      <4>5. \A s, t \in settings' : s.project = t.project /\ s.category = t.category => s = t
        BY <3>2, <4>2 DEF HostingInv, SettingTable
      <4>6. \A s \in settings' : s \in settings \/ (s.id > made.setting /\ s.project = k.project.id)
        BY <1>3, <2>4, <3>2
      <4> QED BY <3>2, <4>1, <4>3, <4>4, <4>5, <4>6 DEF SettingTable
    <3> QED BY <2>1, <2>3, <3>1, <3>2
  <2>6. ProjectTable' /\ SecretTable'
    BY <1>1, <2>2 DEF HostingInv, ProjectTable, SecretTable, HasProject
  <2>7. RowsMove
    BY <1>1, <1>3, <2>2, <2>5 DEF RowsMove
  <2>8. HostingInv' /\ edit'[r] = Hosting!Idle
    BY <1>1, <2>2, <2>5, <2>6, <2>7, WriteKeeps
  <2> QED BY <1>1, <1>2, <1>5, <2>5, <2>8
<1> QED BY <1>6, <1>7

(* Every step of the project handlers keeps HostingInv.                         *)
LEMMA HostingStep ==
    ASSUME HostingInv, [Hosting!Next]_Hosting!vars
    PROVE  HostingInv'
<1>1. CASE UNCHANGED Hosting!vars
  <2>1. UNCHANGED <<hosts, projects, secrets, settings, made, edit>>
    BY <1>1 DEF Hosting!vars, Hosting!tables
  <2>2. Counters' /\ ProjectTable' /\ SecretTable' /\ SettingTable'
    BY <2>1 DEF HostingInv, Counters, ProjectTable, SecretTable, SettingTable, HasProject
  <2>3. EditsOk'
    BY <2>1, RowsStay, EditsStay DEF HostingInv
  <2> QED BY <2>2, <2>3 DEF HostingInv
<1>2. CASE \E o \in Hosts : Hosting!DeleteOrg(o)
  BY <1>2, DeleteOrgKeeps
<1>3. ASSUME NEW r \in Requests, Hosting!ProjectNext(r)
      PROVE  HostingInv'
  <2>1. CASE \E u \in Developers, o \in Hosts :
              \/ \E n \in Hosting!Names : Hosting!AskCreate(r, u, o, n)
              \/ \E n \in Hosting!Names \union {Hosting!Absent}, s \in {Hosting!Absent, "suspended", "unknown"} :
                   Hosting!AskUpdate(r, u, o, n, s)
              \/ Hosting!AskDelete(r, u, o)
    BY <2>1, AsksKeep
  <2>2. CASE Hosting!InsertProject(r) \/ Hosting!UpdateProject(r) \/ Hosting!DeleteProject(r)
    BY <2>2, InsertProjectKeeps, UpdateProjectKeeps, DeleteProjectKeeps
  <2>3. CASE Hosting!CheckName(r)
    BY <2>3, FindsKeep
  <2> QED BY <1>3, <2>1, <2>2, <2>3 DEF Hosting!ProjectNext
<1>4. ASSUME NEW r \in Requests, Hosting!SecretNext(r)
      PROVE  HostingInv'
  <2>1. CASE \E u \in Developers, o \in Hosts, k \in Keys :
              Hosting!AskCreateSecret(r, u, o, k) \/ Hosting!AskDeleteSecret(r, u, o, k)
    BY <2>1, AsksKeep
  <2>2. CASE Hosting!UpsertSecret(r) \/ Hosting!DropSecret(r)
    BY <2>2, UpsertSecretKeeps, DropSecretKeeps
  <2>3. CASE Hosting!FindSecret(r)
    BY <2>3, FindsKeep
  <2> QED BY <1>4, <2>1, <2>2, <2>3 DEF Hosting!SecretNext
<1>5. ASSUME NEW r \in Requests, Hosting!SettingNext(r)
      PROVE  HostingInv'
  <2>1. CASE \E u \in Developers, o \in Hosts :
              Hosting!AskEmailSettings(r, u, o) \/ \E v \in Hosting!Values : Hosting!AskOAuthSettings(r, u, o, v)
    BY <2>1, AsksKeep
  <2>2. CASE Hosting!StoreSetting(r)
    BY <2>2, StoreSettingKeeps
  <2>3. CASE Hosting!FindSetting(r)
    BY <2>3, FindsKeep
  <2> QED BY <1>5, <2>1, <2>2, <2>3 DEF Hosting!SettingNext
<1>6. ASSUME NEW r \in Requests, Hosting!ViewNext(r) \/ Hosting!End(r)
      PROVE  HostingInv'
  BY <1>6, ViewsKeep, FindsKeep
<1> QED BY <1>1, <1>2, <1>3, <1>4, <1>5, <1>6 DEF Hosting!Next

(* It holds before the first project.                                           *)
LEMMA HostingStart ==
    ASSUME Hosting!Init
    PROVE  HostingInv
<1>1. /\ hosts = Hosts /\ projects = {} /\ secrets = {} /\ settings = {}
      /\ made = [project |-> 0, secret |-> 0, setting |-> 0]
      /\ edit = [r \in Requests |-> Hosting!Idle]
  BY DEF Hosting!Init
<1>2. Counters
  BY <1>1, HostingBounds DEF Counters
<1>3. ProjectTable /\ SecretTable /\ SettingTable
  BY <1>1 DEF ProjectTable, SecretTable, SettingTable
<1>4. EditsOk
  BY <1>1, IdleEdit DEF EditsOk
<1> QED BY <1>2, <1>3, <1>4 DEF HostingInv

\* The six writes of a request.
Write(r) ==
    \/ Hosting!InsertProject(r) \/ Hosting!UpdateProject(r) \/ Hosting!DeleteProject(r)
    \/ Hosting!UpsertSecret(r) \/ Hosting!DropSecret(r) \/ Hosting!StoreSetting(r)

\* The other steps of a request.
Read(r) ==
    /\ UNCHANGED Hosting!tables
    /\ \E k : /\ edit' = [edit EXCEPT ![r] = k]
              /\ \/ k.pc \notin {"update", "rename"}
                 \/ k.project \in projects
                 \/ edit[r].pc = "update" /\ k.project = edit[r].project

(* A step is a write or a read of a request, or a deletion of an organization.  *)
LEMMA HostingMoves ==
    ASSUME HostingInv, [Hosting!Next]_Hosting!vars
    PROVE  \/ UNCHANGED Hosting!vars
           \/ \E r \in Requests : Write(r) \/ Read(r)
           \/ \E o \in Hosts : Hosting!DeleteOrg(o)
<1>1. ASSUME NEW r \in Requests, NEW u, NEW o, NEW op, NEW body, Hosting!Authorize(r, u, o, op, body)
      PROVE  Read(r)
  <2>1. PICK p \in projects : edit' = [edit EXCEPT ![r] =
                                [pc |-> op, user |-> u, org |-> o, project |-> p, body |-> body]]
    BY <1>1 DEF Hosting!Authorize, Hosting!ProjectsOf, Hosting!To
  <2>2. PICK k : k = [pc |-> op, user |-> u, org |-> o, project |-> p, body |-> body]
    OBVIOUS
  <2>3. k.project \in projects
    BY <2>2
  <2> QED BY <1>1, <2>1, <2>2, <2>3 DEF Read, Hosting!Authorize
<1>2. ASSUME NEW r \in Requests, NEW k, edit' = [edit EXCEPT ![r] = k], UNCHANGED Hosting!tables,
             k.pc \notin {"update", "rename"}
      PROVE  Read(r)
  BY <1>2 DEF Read
<1>3. ASSUME NEW r \in Requests, NEW u, NEW o, NEW found, Hosting!View(r, u, o, found)
      PROVE  Read(r)
  <2>1. PICK p : edit' = [edit EXCEPT ![r] = [pc |-> "shown", user |-> u, project |-> p]]
    BY <1>3 DEF Hosting!View, Hosting!To
  <2>2. PICK k : k = [pc |-> "shown", user |-> u, project |-> p]
    OBVIOUS
  <2>3. k.pc = "shown"
    BY <2>2
  <2> QED BY <1>2, <1>3, <2>1, <2>2, <2>3 DEF Hosting!View
<1>4. ASSUME NEW r \in Requests, Hosting!ViewNext(r)
      PROVE  Read(r)
  BY <1>3, <1>4 DEF Hosting!ViewNext, Hosting!ListProjects, Hosting!GetProject, Hosting!ListSecrets,
                    Hosting!GetEmailSettings, Hosting!GetOAuthSettings
<1>5. ASSUME NEW r \in Requests, Hosting!End(r)
      PROVE  Read(r)
  BY <1>2, <1>5, IdleEdit DEF Hosting!End, Hosting!To
<1>6. ASSUME NEW r \in Requests, Hosting!ProjectNext(r)
      PROVE  Write(r) \/ Read(r)
  <2>1. ASSUME NEW u, NEW o, NEW n, Hosting!AskCreate(r, u, o, n)
        PROVE  Read(r)
    <3>1. PICK k : k = [pc |-> "create", user |-> u, org |-> o, name |-> n]
      OBVIOUS
    <3>2. k.pc = "create"
      BY <3>1
    <3> QED BY <1>2, <2>1, <3>1, <3>2 DEF Hosting!AskCreate, Hosting!To
  <2>2. ASSUME Hosting!CheckName(r)
        PROVE  Read(r)
    <3>1. PICK k : k = edit[r] /\ EditOk(k)
      BY EditFacts
    <3>2. k.pc = "update" /\ UNCHANGED Hosting!tables
      BY <2>2, <3>1 DEF Hosting!CheckName
    <3>3. PICK j : j = [k EXCEPT !.pc = "rename"]
      OBVIOUS
    <3>4. k \in UpdateForm
      BY <3>1, <3>2 DEF EditOk
    <3>5. j.project = k.project
      BY <3>3, <3>4 DEF UpdateForm
    <3>6. edit' = [edit EXCEPT ![r] = Hosting!Idle] \/ edit' = [edit EXCEPT ![r] = j]
      BY <2>2, <3>1, <3>3 DEF Hosting!CheckName, Hosting!To
    <3>7. CASE edit' = [edit EXCEPT ![r] = Hosting!Idle]
      BY <1>2, <3>2, <3>7, IdleEdit
    <3>8. CASE edit' = [edit EXCEPT ![r] = j]
      BY <3>1, <3>2, <3>5, <3>8 DEF Read
    <3> QED BY <3>6, <3>7, <3>8
  <2> QED BY <1>1, <1>6, <2>1, <2>2 DEF Hosting!ProjectNext, Hosting!AskUpdate, Hosting!AskDelete, Write
<1>7. ASSUME NEW r \in Requests, Hosting!SecretNext(r)
      PROVE  Write(r) \/ Read(r)
  <2>1. ASSUME Hosting!FindSecret(r)
        PROVE  Read(r)
    <3>1. ASSUME NEW s, edit' = [edit EXCEPT ![r] = [pc |-> "drop_secret", user |-> edit[r].user,
                                                     org |-> edit[r].org, secret |-> s]]
          PROVE  Read(r)
      <4>1. PICK k : k = [pc |-> "drop_secret", user |-> edit[r].user, org |-> edit[r].org, secret |-> s]
        OBVIOUS
      <4>2. k.pc = "drop_secret"
        BY <4>1
      <4> QED BY <1>2, <2>1, <3>1, <4>1, <4>2 DEF Hosting!FindSecret
    <3>2. ASSUME edit' = [edit EXCEPT ![r] = Hosting!Idle]
          PROVE  Read(r)
      BY <1>2, <2>1, <3>2, IdleEdit DEF Hosting!FindSecret
    <3> QED BY <2>1, <3>1, <3>2 DEF Hosting!FindSecret, Hosting!To
  <2> QED BY <1>1, <1>7, <2>1 DEF Hosting!SecretNext, Hosting!AskCreateSecret, Hosting!AskDeleteSecret, Write
<1>8. ASSUME NEW r \in Requests, Hosting!SettingNext(r)
      PROVE  Write(r) \/ Read(r)
  <2>1. ASSUME Hosting!FindSetting(r)
        PROVE  Read(r)
    <3>1. PICK k : k = [pc |-> "store_settings", user |-> edit[r].user, org |-> edit[r].org,
                        project |-> edit[r].project, body |-> edit[r].body,
                        found |-> {s.id : s \in Hosting!Setting(edit[r].project.id, edit[r].body.category)}]
      OBVIOUS
    <3>2. k.pc = "store_settings"
      BY <3>1
    <3>3. edit' = [edit EXCEPT ![r] = k] /\ UNCHANGED Hosting!tables
      BY <2>1, <3>1 DEF Hosting!FindSetting, Hosting!To
    <3> QED BY <1>2, <3>2, <3>3
  <2> QED BY <1>1, <1>8, <2>1 DEF Hosting!SettingNext, Hosting!AskEmailSettings, Hosting!AskOAuthSettings, Write
<1> QED BY <1>4, <1>5, <1>6, <1>7, <1>8 DEF Hosting!Next

(* A write is for a manager of the organization whose project it touches.       *)
LEMMA WritesAreManaged ==
    ASSUME HostingInv, NEW r \in Requests, Write(r)
    PROVE  /\ edit[r] # Hosting!Idle /\ edit'[r] = Hosting!Idle
           /\ \A q \in Requests : q # r => edit'[q] = edit[q]
           /\ \A p \in Hosting!Touched : Hosting!Manages(edit[r].user, p.org)
<1>0. PICK k : k = edit[r]
  OBVIOUS
<1>1. edit[r].pc # "idle" /\ edit' = [edit EXCEPT ![r] = Hosting!Idle]
  BY DEF Write, Hosting!InsertProject, Hosting!UpdateProject, Hosting!DeleteProject, Hosting!UpsertSecret,
         Hosting!DropSecret, Hosting!StoreSetting, Hosting!To
<1>2. \A p \in Hosting!Touched : Hosting!Manages(k.user, p.org)
  <2>1. CASE Hosting!InsertProject(r)
    BY <2>1, InsertProjectKeeps
  <2>2. CASE Hosting!UpdateProject(r)
    BY <1>0, <2>2, UpdateProjectKeeps
  <2>3. CASE Hosting!DeleteProject(r)
    BY <1>0, <2>3, DeleteProjectKeeps
  <2>4. CASE Hosting!UpsertSecret(r)
    BY <1>0, <2>4, UpsertSecretKeeps
  <2>5. CASE Hosting!DropSecret(r)
    BY <1>0, <2>5, DropSecretKeeps
  <2>6. CASE Hosting!StoreSetting(r)
    BY <1>0, <2>6, StoreSettingKeeps
  <2> QED BY <2>1, <2>2, <2>3, <2>4, <2>5, <2>6 DEF Write
<1>3. edit'[r] = Hosting!Idle /\ \A q \in Requests : q # r => edit'[q] = edit[q]
  BY <1>1 DEF HostingInv, EditsOk
<1> QED BY <1>0, <1>1, <1>2, <1>3, IdleEdit

(* Only a manager of its organization changes a project, and only members see it. *)
LEMMA OwnOrganizationStep ==
    ASSUME HostingInv, HostingInv', [Hosting!Next]_Hosting!vars
    PROVE  /\ hosts' = hosts => \A p \in Hosting!Touched : \E r \in Requests :
                edit[r] # Hosting!Idle /\ edit'[r] = Hosting!Idle /\ Hosting!Manages(edit[r].user, p.org)
           /\ \A r \in Requests : edit'[r].pc = "shown" => Hosting!Belongs(edit'[r].user, edit'[r].project.org)
<1>1. ASSUME NEW r \in Requests, edit'[r].pc = "shown"
      PROVE  Hosting!Belongs(edit'[r].user, edit'[r].project.org)
  <2>1. PICK k : k = edit'[r]
    OBVIOUS
  <2>2. EditOk(k)'
    BY <2>1 DEF HostingInv, EditsOk
  <2> QED BY <1>1, <2>1, <2>2 DEF EditOk, Hosting!Belongs
<1>2. ASSUME hosts' = hosts, NEW p \in Hosting!Touched
      PROVE  \E r \in Requests :
                edit[r] # Hosting!Idle /\ edit'[r] = Hosting!Idle /\ Hosting!Manages(edit[r].user, p.org)
  <2>1. CASE UNCHANGED Hosting!tables
    BY <1>2, <2>1 DEF Hosting!Touched, Hosting!tables
  <2>2. CASE \E r \in Requests : Write(r)
    BY <1>2, <2>2, WritesAreManaged
  <2>3. CASE \E o \in Hosts : Hosting!DeleteOrg(o)
    BY <1>2, <2>3, DeleteOrgKeeps
  <2> QED BY <2>1, <2>2, <2>3, HostingMoves DEF Read, Hosting!vars
<1> QED BY <1>1, <1>2

(* A deletion of a secret takes the row that was found and no other.            *)
LEMMA DeletionStep ==
    ASSUME HostingInv, [Hosting!Next]_Hosting!vars,
           NEW r \in Requests, edit[r].pc = "drop_secret", edit'[r] = Hosting!Idle
    PROVE  secrets \ secrets' \subseteq {edit[r].secret}
<1>1. edit'[r] # edit[r]
  BY IdleEdit
<1>2. CASE UNCHANGED Hosting!tables
  BY <1>2 DEF Hosting!tables
<1>3. ASSUME NEW q \in Requests, Write(q)
      PROVE  secrets \ secrets' \subseteq {edit[r].secret}
  <2>1. q = r
    BY <1>1, <1>3, WritesAreManaged
  <2>2. Hosting!DropSecret(r)
    BY <1>3, <2>1 DEF Write, Hosting!InsertProject, Hosting!UpdateProject, Hosting!DeleteProject,
                      Hosting!UpsertSecret, Hosting!StoreSetting
  <2>3. PICK k : k = edit[r]
    OBVIOUS
  <2> QED BY <2>2, <2>3, DropSecretKeeps
<1>4. CASE \E o \in Hosts : Hosting!DeleteOrg(o)
  BY <1>1, <1>4, DeleteOrgKeeps
<1> QED BY <1>2, <1>3, <1>4, HostingMoves DEF Read, Hosting!vars

\* One request at a time.
OneEdit == \A r, q \in Requests : edit[r] # Hosting!Idle /\ edit[q] # Hosting!Idle => r = q

\* Then the project that an update has read is as it was, if it is still there.
ReadProjectIsCurrent ==
    \A r \in Requests : edit[r].pc \in {"update", "rename"} =>
        \A p \in projects : p.id = edit[r].project.id => p = edit[r].project

(* One request at a time, the project an update has read stays as it was.       *)
LEMMA CurrentStep ==
    ASSUME HostingInv, ReadProjectIsCurrent, OneEdit, [Hosting!Next]_Hosting!vars
    PROVE  ReadProjectIsCurrent'
<1>1. SUFFICES ASSUME NEW q \in Requests, edit'[q].pc \in {"update", "rename"},
                      NEW p \in projects', p.id = edit'[q].project.id
               PROVE  p = edit'[q].project
  BY DEF ReadProjectIsCurrent
<1>2. CASE UNCHANGED Hosting!vars
  BY <1>1, <1>2 DEF ReadProjectIsCurrent, Hosting!vars, Hosting!tables
<1>3. ASSUME NEW r \in Requests, Read(r)
      PROVE  p = edit'[q].project
  <2>1. projects' = projects
    BY <1>3 DEF Read, Hosting!tables
  <2>2. CASE q # r
    <3>1. edit'[q] = edit[q]
      BY <1>3, <2>2 DEF Read, HostingInv, EditsOk
    <3> QED BY <1>1, <2>1, <3>1 DEF ReadProjectIsCurrent
  <2>3. CASE q = r
    <3>1. \/ edit'[q].project \in projects
          \/ edit[q].pc = "update" /\ edit'[q].project = edit[q].project
      BY <1>1, <1>3, <2>3 DEF Read, HostingInv, EditsOk
    <3> QED BY <1>1, <2>1, <3>1 DEF ReadProjectIsCurrent, HostingInv, ProjectTable
  <2> QED BY <2>2, <2>3
<1>4. ASSUME NEW r \in Requests, Write(r)
      PROVE  FALSE
  <2>1. edit[r] # Hosting!Idle /\ edit'[r] = Hosting!Idle /\ (q # r => edit'[q] = edit[q])
    BY <1>4, WritesAreManaged
  <2>2. q # r /\ edit[q] # Hosting!Idle
    BY <1>1, <2>1, IdleEdit
  <2> QED BY <2>1, <2>2 DEF OneEdit
<1>5. CASE \E o \in Hosts : Hosting!DeleteOrg(o)
  BY <1>1, <1>5, DeleteOrgKeeps DEF ReadProjectIsCurrent
<1> QED BY <1>2, <1>3, <1>4, <1>5, HostingMoves

(* Hence update_project changes only what its body gives.                       *)
LEMMA ChangesAskedStep ==
    ASSUME HostingInv, ReadProjectIsCurrent, OneEdit, [Hosting!Next]_Hosting!vars
    PROVE  Hosting!ChangesOnlyAsked
<1>1. SUFFICES ASSUME NEW r \in Requests, NEW p \in projects, NEW q \in projects',
                      edit[r].pc = "rename", p.id = q.id
               PROVE  /\ p.name # q.name => edit[r].body.name = q.name
                      /\ p.status # q.status => edit[r].body.status = q.status
  BY DEF Hosting!ChangesOnlyAsked
<1>2. CASE q \in projects
  BY <1>1, <1>2 DEF HostingInv, ProjectTable
<1>3. CASE q \notin projects
  <2>1. PICK w \in Requests : Write(w)
    BY <1>3, HostingMoves, DeleteOrgKeeps DEF Read, Hosting!vars, Hosting!tables
  <2>2. w = r
    BY <1>1, <2>1, WritesAreManaged, IdleEdit DEF OneEdit
  <2>3. Hosting!UpdateProject(r)
    BY <1>1, <2>1, <2>2 DEF Write, Hosting!InsertProject, Hosting!DeleteProject,
                            Hosting!UpsertSecret, Hosting!DropSecret, Hosting!StoreSetting
  <2>4. PICK k : k = edit[r] /\ EditOk(k)
    BY EditFacts
  <2>5. q = Hosting!Merged(r)
    BY <1>3, <2>3, <2>4, UpdateProjectKeeps
  <2>6. k.project \in ProjectRow
    BY <1>1, <2>4 DEF EditOk, UpdateForm
  <2>7. q = [k.project EXCEPT !.name = IF k.body.name = Hosting!Absent THEN k.project.name ELSE k.body.name,
                              !.status = Hosting!Or(k.body.status, k.project.status)]
    BY <2>4, <2>5 DEF Hosting!Merged
  <2>8. /\ q.id = k.project.id
        /\ q.name = IF k.body.name = Hosting!Absent THEN k.project.name ELSE k.body.name
        /\ q.status = Hosting!Or(k.body.status, k.project.status)
    BY <2>6, <2>7 DEF ProjectRow
  <2>9. p = k.project
    BY <1>1, <2>4, <2>8 DEF ReadProjectIsCurrent
  <2> QED BY <2>4, <2>8, <2>9 DEF Hosting!Or
<1> QED BY <1>2, <1>3
-----------------------------------------------------------------------------
(* What the runs check of the developer platform as a whole *)

(* AccountsInv includes the types of platform accounts.                         *)
LEMMA AccountsTyped ==
    ASSUME AccountsInv
    PROVE  Accounts!TypeOK
<1>1. DOMAIN verifs = 1 .. Len(verifs) /\ DOMAIN resets = 1 .. Len(resets)
  BY DEF AccountsInv
<1>2. \A i \in 1 .. Len(verifs) : verifs[i] \in VerifRows
  BY DEF AccountsInv
<1>3. \A i \in 1 .. Len(resets) : resets[i] \in ResetRows
  BY DEF AccountsInv
<1>4. \A i \in DOMAIN verifs : verifs[i].user \in Emails /\ Accounts!Exists(verifs[i].user)
  BY <1>1, <1>2 DEF AccountsInv, VerifRows
<1>5. \A i \in DOMAIN resets : resets[i].user \in Emails /\ Accounts!Exists(resets[i].user)
  BY <1>1, <1>3 DEF AccountsInv, ResetRows
<1>6. ASSUME NEW p \in Requests
      PROVE  form[p].row \in 0 .. MaxRows /\ form[p].held \subseteq Passwords
  <2>1. PICK f : f = form[p] /\ f \in Forms /\ FormOk(f)
    BY FormFacts
  <2>2. f.row \in Nat /\ f.row <= MaxRows /\ f.held \subseteq Passwords
    BY <2>1 DEF Forms, FormOk
  <2> QED BY <2>1, <2>2, AccountBounds
<1> QED BY <1>4, <1>5, <1>6 DEF AccountsInv, Accounts!TypeOK

(* What HostingInv says of projects, secrets and settings.                      *)
LEMMA HostingRows ==
    ASSUME HostingInv
    PROVE  /\ Hosting!TypeOK /\ Hosting!NothingOutlivesProject
           /\ Hosting!OneRowOfSettings /\ Hosting!OneProjectPerName
<1>1. Hosting!TypeOK
  BY DEF HostingInv, ProjectTable, SecretTable, SettingTable, ProjectRow, SecretRow, SettingRow, SettingValues,
         Hosting!TypeOK, Hosting!ProjectIds
<1>2. Hosting!NothingOutlivesProject
  BY DEF HostingInv, ProjectTable, SecretTable, SettingTable, HasProject, Hosting!NothingOutlivesProject, Hosting!Exists
<1>3. Hosting!OneRowOfSettings /\ Hosting!OneProjectPerName
  BY DEF HostingInv, ProjectTable, SettingTable, Hosting!OneRowOfSettings, Hosting!OneProjectPerName
<1> QED BY <1>1, <1>2, <1>3

(* Every behaviour of platform accounts keeps AccountsInv.                      *)
LEMMA AccountsInvariant == Accounts!Spec => []AccountsInv
<1>1. Accounts!Init => AccountsInv
  BY AccountsStart
<1>2. AccountsInv /\ [Accounts!Next]_Accounts!vars => AccountsInv'
  BY AccountsStep
<1> QED BY <1>1, <1>2, PTL DEF Accounts!Spec

(* Every behaviour of projects keeps HostingInv.                                *)
LEMMA HostingInvariant == Hosting!Spec => []HostingInv
<1>1. Hosting!Init => HostingInv
  BY HostingStart
<1>2. HostingInv /\ [Hosting!Next]_Hosting!vars => HostingInv'
  BY HostingStep
<1> QED BY <1>1, <1>2, PTL DEF Hosting!Spec

(* Rows agree however requests overlap: members and invitations go with their   *)
(* organization, projects with it too, secrets and settings with their project; *)
(* an organization has one project of a name and a project one row of each kind *)
(* of settings, though every handler looks first and writes later.  While       *)
(* requests come one at a time, a live organization keeps an owner.             *)
THEOREM PlatformSafety ==
    Spec /\ Accounts!Spec /\ Hosting!Spec /\ [][part' = part]_part /\ [](part = "serial" => OneAtATime)
        => []RowsAreConsistent
<1>1. Init => SerialInv
  BY DEF Init, SerialInv, ReadIsCurrent, OwnerRemains
<1>2. OrgInv /\ SerialInv /\ OneAtATime /\ OneAtATime' /\ [Next]_vars => SerialInv'
  <2>1. ASSUME UNCHANGED vars, SerialInv PROVE SerialInv'
    BY <2>1 DEF vars, SerialInv, ReadIsCurrent, OwnerRemains, Owners
  <2> QED BY <2>1, SerialReads, SerialOwners DEF SerialInv
<1> DEFINE Guarded == part = "serial" => SerialInv
           Alone == part = "serial" => OneAtATime
<1>3. Init => Guarded
  BY <1>1
<1>4. OrgInv /\ Guarded /\ Alone /\ Alone' /\ [Next]_vars /\ [part' = part]_part => Guarded'
  BY <1>2
<1>5. OrgInv /\ Guarded /\ AccountsInv /\ HostingInv => RowsAreConsistent
  BY AccountsTyped, HostingRows DEF RowsAreConsistent, OrgInv, SerialInv
<1> HIDE DEF Guarded, Alone
<1>6. Spec /\ [][part' = part]_part /\ []Alone => []Guarded
  BY <1>3, <1>4, OrgInvariant, PTL DEF Spec
<1>7. Spec /\ Accounts!Spec /\ Hosting!Spec /\ [][part' = part]_part /\ []Alone => []RowsAreConsistent
  BY <1>5, <1>6, OrgInvariant, AccountsInvariant, HostingInvariant, PTL
<1> QED BY <1>7 DEF Alone

(* Authority is earned, however requests overlap: membership by an invitation   *)
(* live when it is spent; a change of a project by a manager of its own         *)
(* organization, whatever organization and project the path names; a platform   *)
(* password by the current one or a reset of the same account.                  *)
THEOREM AuthoritySafety == Spec /\ Accounts!Spec /\ Hosting!Spec => AuthorityIsEarned
<1> DEFINE Own ==
      /\ hosts' = hosts => \A p \in Hosting!Touched : \E r \in Requests :
            edit[r] # Hosting!Idle /\ edit'[r] = Hosting!Idle /\ Hosting!Manages(edit[r].user, p.org)
      /\ \A r \in Requests : edit'[r].pc = "shown" => Hosting!Belongs(edit'[r].user, edit'[r].project.org)
    Earned ==
      \A e \in Emails : Accounts!Exists(e) /\ users'[e] # users[e] =>
         \E p \in Requests :
            /\ form[p].email = e
            /\ \/ form[p].op = "change" /\ form[p].pw \in form[p].held
               \/ form[p].op = "confirm" /\ resets[form[p].row].user = e
                  /\ resets[form[p].row].secret = form[p].secret
<1>1. HostingInv /\ HostingInv' /\ [Hosting!Next]_Hosting!vars => [Own]_Hosting!vars
  BY OwnOrganizationStep
<1>2. AccountsInv /\ [Accounts!Next]_Accounts!vars => [Earned]_Accounts!vars
  BY AuthorityStep
<1> HIDE DEF Own, Earned
<1>3. Hosting!Spec => [][Own]_Hosting!vars
  BY <1>1, HostingInvariant, PTL DEF Hosting!Spec
<1>4. Accounts!Spec => [][Earned]_Accounts!vars
  BY <1>2, AccountsInvariant, PTL DEF Accounts!Spec
<1>5. Hosting!Spec => Hosting!OwnOrganizationOnly
  BY <1>3 DEF Own, Hosting!OwnOrganizationOnly
<1>6. Accounts!Spec => Accounts!PasswordAuthority
  BY <1>4 DEF Earned, Accounts!PasswordAuthority
<1> QED BY <1>5, <1>6, InviteSafety DEF AuthorityIsEarned

(* A request that acts on what it read changes that row or none.  While         *)
(* requests come one at a time, update_project changes only what its body       *)
(* gives, and a verified platform account stays verified.                       *)
THEOREM StaleWriteSafety ==
    /\ Spec /\ Accounts!Spec /\ Hosting!Spec /\ [][part' = part]_part
    /\ [](part = "serial renames" => OneEdit) /\ [](part = "serial verification" => OneForm)
    => StaleWritesAreHarmless
<1> DEFINE Takes == \A r \in Requests : edit[r].pc = "drop_secret" /\ edit'[r] = Hosting!Idle =>
                       secrets \ secrets' \subseteq {edit[r].secret}
           Asked == part = "serial renames" => Hosting!ChangesOnlyAsked
           Stays == part = "serial verification" => Accounts!StaysVerified
           EditAlone == part = "serial renames" => OneEdit
           FormAlone == part = "serial verification" => OneForm
           Current == part = "serial renames" => ReadProjectIsCurrent
           Kept == part = "serial verification" => VerifiedInv
<1>1. HostingInv /\ [Hosting!Next]_Hosting!vars => [Takes]_Hosting!vars
  BY DeletionStep
<1>2. Hosting!Init => Current
  BY DEF Hosting!Init, ReadProjectIsCurrent
<1>3. HostingInv /\ Current /\ EditAlone /\ [Hosting!Next]_Hosting!vars /\ [part' = part]_part => Current'
  BY CurrentStep
<1>4. HostingInv /\ Current /\ EditAlone /\ [Hosting!Next]_Hosting!vars => [Asked]_hosting
  BY ChangesAskedStep
<1>5. Accounts!Init => Kept
  BY VerifiedStart
<1>6. /\ AccountsInv /\ Kept /\ FormAlone /\ FormAlone' /\ [Accounts!Next]_Accounts!vars /\ [part' = part]_part
      => Kept'
  BY VerifiedStep
<1>7. /\ AccountsInv /\ AccountsInv' /\ Kept /\ FormAlone /\ FormAlone' /\ [part' = part]_part
      /\ [Accounts!Next]_Accounts!vars
      => [Stays]_accounts
  BY StaysVerifiedStep
<1> HIDE DEF Takes, Asked, Stays, EditAlone, FormAlone, Current, Kept
<1>8. Hosting!Spec => [][Takes]_Hosting!vars
  BY <1>1, HostingInvariant, PTL DEF Hosting!Spec
<1>9. Hosting!Spec /\ [][part' = part]_part /\ []EditAlone => [][Asked]_hosting
  BY <1>2, <1>3, <1>4, HostingInvariant, PTL DEF Hosting!Spec
<1>10. Accounts!Spec /\ [][part' = part]_part /\ []FormAlone => [][Stays]_accounts
  BY <1>5, <1>6, <1>7, AccountsInvariant, PTL DEF Accounts!Spec
<1>11. Hosting!Spec => Hosting!DeletionTakesWhatItFound
  BY <1>8 DEF Takes, Hosting!DeletionTakesWhatItFound
<1>12. Hosting!Spec /\ [][part' = part]_part /\ [](part = "serial renames" => OneEdit)
       => [][part = "serial renames" => Hosting!ChangesOnlyAsked]_hosting
  BY <1>9 DEF Asked, EditAlone
<1>13. Accounts!Spec /\ [][part' = part]_part /\ [](part = "serial verification" => OneForm)
       => [][part = "serial verification" => Accounts!StaysVerified]_accounts
  BY <1>10 DEF Stays, FormAlone
<1> QED BY <1>11, <1>12, <1>13, RowSafety DEF StaleWritesAreHarmless
=============================================================================
