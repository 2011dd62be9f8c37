----------------------------- MODULE MCPlatform -----------------------------
(***************************************************************************)
(* The developer platform for TLC: organizations with their members and    *)
(* invitations, platform accounts, and projects with their secrets and     *)
(* settings. A behaviour exercises one part, chosen at the start. In the   *)
(* parts that restrict a set, its other members never take part, so the    *)
(* permutations of the whole set remain symmetries. The parts named serial *)
(* have one request in flight, for what the code guarantees only then.     *)
(***************************************************************************)
EXTENDS Organizations, TLC

CONSTANTS
    r1, o1, c1, m1, m2, g1, g2, key,
    Emails, Passwords, ClientSecrets, NoUser, None, MaxRows, MaxOps,   \* of PlatformAccounts
    Developers, Hosts, RoleIn, GoodNames, BadNames, Keys,              \* of Projects
    MaxProjects, MaxSecrets, MaxSettings

VARIABLES
    part,
    users, verifs, resets, form, tokens, ops,
    hosts, projects, secrets, settings, made, edit

accounts == <<users, verifs, resets, form, tokens, ops>>
hosting == <<hosts, projects, secrets, settings, made, edit>>

Racing == INSTANCE Organizations WITH Orgs <- {o1}
Serial == INSTANCE Organizations WITH Requests <- {r1}

\* Emails are the model values of the users, passwords and client secrets those
\* of the codes and the organizations.
Accounts == INSTANCE PlatformAccounts WITH Secrets <- ClientSecrets, req <- form
AccountsRacing == INSTANCE PlatformAccounts WITH
    Secrets <- ClientSecrets, MaxRows <- 2, MaxOps <- 5, req <- form
Verification == INSTANCE PlatformAccounts WITH
    Requests <- {r1}, Passwords <- {c1}, Secrets <- {o1}, req <- form

\* m1 owns g1 and may look at g2, which m2 administers.
BothRoles == m1 :> (g1 :> "owner" @@ g2 :> "viewer") @@ m2 :> (g1 :> "none" @@ g2 :> "admin")

Hosting == INSTANCE Projects WITH Users <- Developers, Orgs <- Hosts, orgs <- hosts, req <- edit
Tenants == INSTANCE Projects WITH
    Users <- Developers, Orgs <- Hosts, GoodNames <- {"a"}, BadNames <- {},
    MaxProjects <- 1, MaxSecrets <- 1, MaxSettings <- 0, orgs <- hosts, req <- edit
ProjectRows == INSTANCE Projects WITH
    Users <- {m1}, Orgs <- {g1}, GoodNames <- {"a"}, BadNames <- {},
    MaxProjects <- 1, orgs <- hosts, req <- edit
ProjectNames == INSTANCE Projects WITH
    Users <- {m1}, Orgs <- {g1}, BadNames <- {}, MaxSecrets <- 0, MaxSettings <- 0,
    orgs <- hosts, req <- edit
Renames == INSTANCE Projects WITH
    Users <- {m1}, Orgs <- {g1}, Requests <- {r1}, MaxSecrets <- 1, MaxSettings <- 1,
    orgs <- hosts, req <- edit

ASSUME PlatformAssumption == Accounts!PlatformAssumption /\ Hosting!ProjectsAssumption

Parts == {"racing", "serial", "accounts", "serial verification", "tenants", "rows", "names",
          "serial renames"}

PartInit == part \in Parts /\ Init /\ Accounts!Init /\ Hosting!Init

PartNext ==
    \/ part = "racing" /\ Racing!Next /\ UNCHANGED <<part, accounts, hosting>>
    \/ part = "serial" /\ Serial!Next /\ UNCHANGED <<part, accounts, hosting>>
    \/ part = "accounts" /\ AccountsRacing!Next /\ UNCHANGED <<part, vars, hosting>>
    \/ part = "serial verification" /\ Verification!Next /\ UNCHANGED <<part, vars, hosting>>
    \/ part = "tenants" /\ Tenants!Next /\ UNCHANGED <<part, vars, accounts>>
    \/ part = "rows" /\ ProjectRows!Next /\ UNCHANGED <<part, vars, accounts>>
    \/ part = "names" /\ ProjectNames!Next /\ UNCHANGED <<part, vars, accounts>>
    \/ part = "serial renames" /\ Renames!Next /\ UNCHANGED <<part, vars, accounts>>

PartSpec == PartInit /\ [][PartNext]_<<part, vars, accounts, hosting>>

Perms == Permutations(Requests) \union Permutations(Users) \union Permutations(Orgs)
         \union Permutations(Codes)
-----------------------------------------------------------------------------
(* No row outlives the organization or project it belongs to, a project has   *)
(* one row of each kind of settings, and an organization one project of a     *)
(* name, however requests overlap. While they come one at a time, a live      *)
(* organization keeps an owner.                                               *)
RowsAreConsistent ==
    /\ TypeOK /\ NothingOutlivesOrg
    /\ Accounts!TypeOK
    /\ Hosting!TypeOK /\ Hosting!NothingOutlivesProject
    /\ Hosting!OneRowOfSettings /\ Hosting!OneProjectPerName
    /\ part = "serial" => OwnerRemains

(* A reset code changes the platform password once, unless two confirmations  *)
(* of it overlapped or one failed between its two statements.                 *)
CodeWritesOnce == Accounts!CodeWritesOnce

(* Membership comes by an invitation that is live when it is spent, and a     *)
(* spent one made a member; a project is changed only by a manager of its     *)
(* organization, whatever a path names; a platform password changes only on   *)
(* the strength of the current one or of a reset code of the same account.    *)
AuthorityIsEarned ==
    /\ JoinsByLiveInvite /\ SpentMeansJoined
    /\ Hosting!OwnOrganizationOnly
    /\ Accounts!PasswordAuthority

(* A request that acts on what it read earlier changes that row or none: the  *)
(* membership, though the member may have joined again, and the secret,       *)
(* though the key may have a new row. While requests come one at a time,      *)
(* update_project changes only what its body gives, and a verified platform   *)
(* account stays verified. (Overlapping, a request for a new code that has    *)
(* read the unverified row deletes it after it was verified.)                 *)
StaleWritesAreHarmless ==
    /\ ChangesOnlyTheRowRead
    /\ Hosting!DeletionTakesWhatItFound
    /\ [][part = "serial renames" => Hosting!ChangesOnlyAsked]_hosting
    /\ [][part = "serial verification" => Accounts!StaysVerified]_accounts
=============================================================================
