--------------------------- MODULE Organizations ---------------------------
(*****************************************************************************)
(* Platform organizations: who is a member with which role, the invitation   *)
(* codes, and the concurrent requests that change them (web/platform/        *)
(* org_routes.rs, membership_routes.rs, invite_routes.rs, the models         *)
(* orgs.rs, org_memberships.rs, invite_codes.rs and their calls in db.rs).   *)
(*                                                                           *)
(* A handler reads the caller's role, then reads the row it is about to      *)
(* change, then runs one transaction: three steps, between which any other   *)
(* request may commit.  A transaction is one step: where it counts owners it *)
(* holds their rows locked until it commits.  Any statement may fail for     *)
(* want of a connection, which ends the request without effect.              *)
(*                                                                           *)
(* Addresses are the users who own them.  Ids and codes are never reissued:  *)
(* a membership's id is the number of times that user has joined.            *)
(*****************************************************************************)
EXTENDS Naturals, FiniteSets

CONSTANTS
    Requests,     \* concurrent HTTP requests
    Users,        \* platform users
    Orgs,         \* organizations that can be created
    Codes,        \* invitation codes that can be issued
    AskedRoles    \* bound: the roles that requests ask for

Roles == {"owner", "admin", "developer", "viewer"}
NoRole == "none"                 \* no membership row

ASSUME OrganizationsAssumption ==
    /\ AskedRoles \subseteq Roles
    /\ IsFiniteSet(Users)

VARIABLES
    orgs,      \* orgs: "future", "live" or "deleted"
    member,    \* org_memberships, unique in the user and the organization
    invites,   \* invite_codes
    pc, req    \* each request's place; its arguments and what it has read

vars == <<orgs, member, invites, pc, req>>

NoInvite == [st |-> "future"]
Deleted == [st |-> "deleted"]
Invites == [st : {"stored"}, org : Orgs, email : Users, role : AskedRoles,
            used : BOOLEAN, expired : BOOLEAN]

\* What a request holds: its operation, the caller, the organization, the
\* target user and the role asked for, the membership read (its id and its
\* role), and the invitation code.  {} stands for a field the operation lacks.
NoRow == [id |-> 0, role |-> NoRole]
Fresh == [op |-> "none", by |-> {}, org |-> {}, who |-> {}, role |-> NoRole, seen |-> NoRow,
          code |-> {}]

Init ==
    /\ orgs = [o \in Orgs |-> "future"]
    /\ member = [o \in Orgs |-> [u \in Users |-> NoRow]]
    /\ invites = [c \in Codes |-> NoInvite]
    /\ pc = [r \in Requests |-> "idle"]
    /\ req = [r \in Requests |-> Fresh]
-----------------------------------------------------------------------------
Owners(o) == { u \in Users : member[o][u].role = "owner" }
IsMember(o, u) == member[o][u].role # NoRole
Stored(c) == invites[c].st = "stored"

Answer(r) == pc' = [pc EXCEPT ![r] = "idle"] /\ req' = [req EXCEPT ![r] = Fresh]
Proceed(r, label, q) == pc' = [pc EXCEPT ![r] = label] /\ req' = [req EXCEPT ![r] = q]

\* Membership changes and deleting the organization ask for an owner; the
\* invitation routes also let an admin in.
RolesAllowed(op) ==
    IF op \in {"update", "remove", "delete_org"} THEN {"owner"} ELSE {"owner", "admin"}

\* create_org: the organization and its owner's membership in one transaction.
CreateOrg(u, o) ==
    /\ orgs[o] = "future"
    /\ orgs' = [orgs EXCEPT ![o] = "live"]
    /\ member' = [member EXCEPT ![o][u] = [id |-> 1, role |-> "owner"]]
    /\ UNCHANGED <<invites, pc, req>>

\* The head of every other handler but accept_invite: the organization and the
\* caller's membership are read; a caller without the role is refused.
Authorize(r, u, o, q) ==
    /\ pc[r] = "idle"
    /\ orgs[o] = "live"
    /\ member[o][u].role \in RolesAllowed(q.op)
    /\ Proceed(r, "authorized", [q EXCEPT !.by = u, !.org = o])
    /\ UNCHANGED <<orgs, member, invites>>

AskUpdate(r, u, o, who, role) ==
    Authorize(r, u, o, [Fresh EXCEPT !.op = "update", !.who = who, !.role = role])
AskRemove(r, u, o, who) == Authorize(r, u, o, [Fresh EXCEPT !.op = "remove", !.who = who])
AskInvite(r, u, o, who, role) ==
    Authorize(r, u, o, [Fresh EXCEPT !.op = "invite", !.who = who, !.role = role])
AskUninvite(r, u, o, c) == Authorize(r, u, o, [Fresh EXCEPT !.op = "uninvite", !.code = c])
AskDeleteOrg(r, u, o) == Authorize(r, u, o, [Fresh EXCEPT !.op = "delete_org"])

\* update_membership and delete_membership read the row they will change.
ReadTarget(r) ==
    /\ pc[r] = "authorized" /\ req[r].op \in {"update", "remove"}
    /\ LET row == member[req[r].org][req[r].who] IN
         IF row.role # NoRole
         THEN Proceed(r, "commit", [req[r] EXCEPT !.seen = row])
         ELSE Answer(r)
    /\ UNCHANGED <<orgs, member, invites>>

\* Mutant: the owner count is compared with the wrong bound.
RefusedWithNoOwner(q, newRole) ==
    /\ q.seen.role = "owner" /\ newRole # "owner"
    /\ Cardinality(Owners(q.org)) < 1

\* The check both transactions make, on the role the handler read before the
\* transaction began: the last owner is neither demoted nor removed.
RefusedAsLastOwner(q, newRole) ==
    /\ q.seen.role = "owner" /\ newRole # "owner"
    /\ Cardinality(Owners(q.org)) <= 1

\* UPDATE and DELETE address the row by its id.
SameRow(q) == IsMember(q.org, q.who) /\ member[q.org][q.who].id = q.seen.id

\* OrgMembership::update_role_with_owner_check.  update_membership then reads
\* the row once more, for its answer only.
UpdateCommit(r) ==
    /\ pc[r] = "commit" /\ req[r].op = "update"
    /\ LET q == req[r] IN
         IF SameRow(q) /\ ~RefusedAsLastOwner(q, q.role)
         THEN member' = [member EXCEPT ![q.org][q.who].role = q.role]
         ELSE UNCHANGED member
    /\ Answer(r)
    /\ UNCHANGED <<orgs, invites>>

\* OrgMembership::delete_with_owner_check.
RemoveCommit(r) ==
    /\ pc[r] = "commit" /\ req[r].op = "remove"
    /\ LET q == req[r] IN
         IF SameRow(q) /\ ~RefusedAsLastOwner(q, NoRole)
         THEN member' = [member EXCEPT ![q.org][q.who].role = NoRole]
         ELSE UNCHANGED member
    /\ Answer(r)
    /\ UNCHANGED <<orgs, invites>>

\* delete_org: its memberships and invitations go with it (ON DELETE CASCADE).
DeleteOrgCommit(r) ==
    /\ pc[r] = "authorized" /\ req[r].op = "delete_org"
    /\ LET o == req[r].org IN
         /\ orgs' = [orgs EXCEPT ![o] = "deleted"]
         /\ member' = [member EXCEPT ![o] = [u \in Users |-> [@[u] EXCEPT !.role = NoRole]]]
         /\ invites' = [c \in Codes |-> IF Stored(c) /\ invites[c].org = o
                                        THEN Deleted
                                        ELSE invites[c]]
    /\ Answer(r)

\* invite_codes.org_id and org_memberships.org_id reference orgs: an insert for
\* an organization that is gone is refused.
ReferencedOrgExists(o) == orgs[o] = "live"

\* create_invite.
InviteCommit(r, c) ==
    /\ pc[r] = "authorized" /\ req[r].op = "invite"
    /\ invites[c].st = "future"
    /\ LET q == req[r] IN
         IF ReferencedOrgExists(q.org)
         THEN invites' = [invites EXCEPT ![c] =
                [st |-> "stored", org |-> q.org, email |-> q.who, role |-> q.role,
                 used |-> FALSE, expired |-> FALSE]]
         ELSE UNCHANGED invites
    /\ Answer(r)
    /\ UNCHANGED <<orgs, member>>

\* delete_invite reads the invitation, and refuses one of another organization.
ReadInvite(r) ==
    /\ pc[r] = "authorized" /\ req[r].op = "uninvite"
    /\ LET c == req[r].code IN
         IF Stored(c) /\ invites[c].org = req[r].org
         THEN Proceed(r, "commit", req[r])
         ELSE Answer(r)
    /\ UNCHANGED <<orgs, member, invites>>

UninviteCommit(r) ==
    /\ pc[r] = "commit" /\ req[r].op = "uninvite"
    /\ LET c == req[r].code IN invites' = [invites EXCEPT ![c] = Deleted]
    /\ Answer(r)
    /\ UNCHANGED <<orgs, member>>

\* accept_invite: the invitation is read and judged outside the transaction.
AcceptRead(r, u, c) ==
    /\ pc[r] = "idle"
    /\ Stored(c)
    /\ ~invites[c].used /\ ~invites[c].expired /\ invites[c].email = u
    /\ Proceed(r, "commit", [Fresh EXCEPT !.op = "accept", !.by = u, !.code = c])
    /\ UNCHANGED <<orgs, member, invites>>

\* Mutant: the UPDATE does not ask for an unused row.
MarksAnyStored(c) == Stored(c) /\ ~invites[c].expired

\* InviteCode::mark_as_used: expiry is judged again, and the UPDATE must find
\* the row, still unused.
MarksAsUsed(c) == Stored(c) /\ ~invites[c].used /\ ~invites[c].expired

\* NewOrgMembership::insert, under the unique and the foreign key.
Inserts(u, o) == ~IsMember(o, u) /\ ReferencedOrgExists(o)

\* accept_invite_transaction: the membership is inserted and the invitation is
\* spent, or neither.
AcceptCommit(r) ==
    /\ pc[r] = "commit" /\ req[r].op = "accept"
    /\ LET u == req[r].by
           c == req[r].code
       IN  IF MarksAsUsed(c) /\ Inserts(u, invites[c].org)
           THEN /\ member' = [member EXCEPT ![invites[c].org][u] =
                                [id |-> @.id + 1, role |-> invites[c].role]]
                /\ invites' = [invites EXCEPT ![c].used = TRUE]
           ELSE UNCHANGED <<member, invites>>
    /\ Answer(r)
    /\ UNCHANGED orgs

\* The 24 hours of an invitation pass.
InviteExpires(c) ==
    /\ Stored(c) /\ ~invites[c].expired
    /\ invites' = [invites EXCEPT ![c].expired = TRUE]
    /\ UNCHANGED <<orgs, member, pc, req>>

\* A read or a transaction fails: the handler returns its error.
Fail(r) == pc[r] # "idle" /\ Answer(r) /\ UNCHANGED <<orgs, member, invites>>

RequestStep(r) ==
    \/ \E u \in Users, o \in Orgs :
          \/ \E who \in Users, role \in AskedRoles :
                AskUpdate(r, u, o, who, role) \/ AskInvite(r, u, o, who, role)
          \/ \E who \in Users : AskRemove(r, u, o, who)
          \/ \E c \in Codes : AskUninvite(r, u, o, c)
          \/ AskDeleteOrg(r, u, o)
    \/ \E u \in Users, c \in Codes : AcceptRead(r, u, c)
    \/ \E c \in Codes : InviteCommit(r, c)
    \/ ReadTarget(r) \/ UpdateCommit(r) \/ RemoveCommit(r) \/ DeleteOrgCommit(r)
    \/ ReadInvite(r) \/ UninviteCommit(r) \/ AcceptCommit(r) \/ Fail(r)

Next ==
    \/ \E u \in Users, o \in Orgs : CreateOrg(u, o)
    \/ \E c \in Codes : InviteExpires(c)
    \/ \E r \in Requests : RequestStep(r)

Spec == Init /\ [][Next]_vars
-----------------------------------------------------------------------------
Rows == [id : Nat, role : Roles \union {NoRole}]
Calls == [op : {"none", "update", "remove", "invite", "uninvite", "delete_org", "accept"},
          by : Users \union {{}}, org : Orgs \union {{}}, who : Users \union {{}},
          role : Roles \union {NoRole}, seen : Rows, code : Codes \union {{}}]

\* Every variable has the shape its tables and handlers give it; in particular
\* the id of a membership that exists is never that of an absent row.
TypeOK ==
    /\ orgs \in [Orgs -> {"future", "live", "deleted"}]
    /\ member \in [Orgs -> [Users -> Rows]]
    /\ invites \in [Codes -> Invites \union {NoInvite, Deleted}]
    /\ pc \in [Requests -> {"idle", "authorized", "commit"}]
    /\ req \in [Requests -> Calls]
    /\ \A o \in Orgs, u \in Users : IsMember(o, u) => member[o][u].id > 0

\* Whatever requests were under way when an organization was deleted, it keeps
\* no member and no invitation: a create_invite or accept_invite that had
\* already passed its checks adds nothing afterwards.
NothingOutlivesOrg ==
    \A o \in Orgs : orgs[o] # "live" =>
        /\ \A u \in Users : ~IsMember(o, u)
        /\ \A c \in Codes : Stored(c) => invites[c].org # o

\* An organization always has an owner: "Cannot demote the last owner of the
\* organization", "Cannot delete the last owner of the organization".  It holds
\* while requests are served one at a time, and fails when they overlap: the
\* check is skipped on the strength of a role read before the transaction.
OwnerRemains == \A o \in Orgs : orgs[o] = "live" => Owners(o) # {}

\* Request r commits operation op in this step.
Commits(r, ops) == pc[r] = "commit" /\ pc'[r] = "idle" /\ req[r].op \in ops

\* accept_invite: a user joins an organization that exists already only in the
\* step that spends an invitation that is stored, unspent and unexpired at that
\* moment, addressed to that user, and with the role it names: not one that was
\* deleted, spent by another request, or expired after the handler read it.
JoinsByLiveInvite ==
    [][\A o \in Orgs, u \in Users :
          orgs[o] = "live" /\ ~IsMember(o, u) /\ IsMember(o, u)' =>
            \E c \in Codes : /\ Stored(c) /\ ~invites[c].used /\ ~invites[c].expired
                             /\ invites[c].org = o /\ invites[c].email = u
                             /\ invites'[c].used
                             /\ member'[o][u].role = invites[c].role]_vars

\* accept_invite_transaction: an invitation is spent only in the step in which
\* its addressee joins; one refused because the user is a member already, or the
\* organization is gone, is not used up.
SpentMeansJoined ==
    [][\A c \in Codes :
          Stored(c) /\ ~invites[c].used /\ invites'[c].st = "stored" /\ invites'[c].used =>
            /\ ~IsMember(invites[c].org, invites[c].email)
            /\ IsMember(invites[c].org, invites[c].email)']_vars

\* A request that read a membership changes that row only: one that names a
\* member who has since been removed and has joined again leaves the new
\* membership alone.
ChangesOnlyTheRowRead ==
    [][\A o \in Orgs, u \in Users :
          IsMember(o, u) /\ member'[o][u] # member[o][u] /\ orgs'[o] = "live" =>
            \E r \in Requests : /\ Commits(r, {"update", "remove"})
                                /\ req[r].org = o /\ req[r].who = u
                                /\ req[r].seen.id = member[o][u].id]_vars

\* The owner count of update_role_with_owner_check and delete_with_owner_check:
\* among overlapping requests, one that read its target as an owner never leaves
\* the organization without any, even when each of two owners demotes the other.
CheckedChangeKeepsAnOwner ==
    [][\A o \in Orgs, r \in Requests :
          /\ orgs[o] = "live" /\ orgs'[o] = "live" /\ Owners(o) # {}
          /\ Commits(r, {"update", "remove"})
          /\ req[r].org = o /\ req[r].seen.role = "owner"
          => Owners(o)' # {}]_vars
=============================================================================
