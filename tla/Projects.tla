------------------------------ MODULE Projects ------------------------------
(*****************************************************************************)
(* The projects of platform organizations, their secrets and their settings  *)
(* (web/platform/project_routes.rs, common.rs, models/org_projects.rs,       *)
(* org_project_secrets.rs, project_settings.rs, db.rs).                      *)
(*                                                                           *)
(* A handler reads the organization, the project and the caller's role, then *)
(* the row it is about to change, then writes: any request may act between.  *)
(* Writes are by row id, so each is one statement.  Who has which role is    *)
(* fixed here; Organizations has the changes of roles.                       *)
(*****************************************************************************)
EXTENDS Naturals, FiniteSets

CONSTANTS
    Users, Orgs,
    RoleIn,       \* the role of each user in each organization
    Requests,     \* requests in flight at most
    GoodNames,    \* names that validate_alphanumeric_with_symbols and the length admit
    BadNames,     \* names that they do not
    Keys,         \* names of secrets
    MaxProjects, MaxSecrets, MaxSettings   \* bounds: rows ever created

Roles == {"owner", "admin", "developer", "viewer", "none"}
Names == GoodNames \union BadNames

ProjectsAssumption ==
    /\ RoleIn \in [Users -> [Orgs -> Roles]]
    /\ MaxProjects \in Nat /\ MaxSecrets \in Nat /\ MaxSettings \in Nat
    /\ GoodNames \intersect BadNames = {}

VARIABLES
    orgs,       \* organizations not deleted
    projects,   \* rows of org_projects
    secrets,    \* rows of org_project_secrets
    settings,   \* rows of project_settings
    made,       \* rows created so far in each table
    req

tables == <<orgs, projects, secrets, settings, made>>
vars == <<tables, req>>

ProjectIds == 1..MaxProjects
Absent == "absent"   \* a field the body leaves out
Statuses == {"active", "inactive", "suspended"}
Categories == {"email", "oauth"}
Idle == [pc |-> "idle"]

\* An OAuth provider's part of the settings: switched on or not, with its client id
\* and redirect URL or without.
Values == [on : BOOLEAN, details : BOOLEAN]

Init ==
    /\ orgs = Orgs /\ projects = {} /\ secrets = {} /\ settings = {}
    /\ made = [project |-> 0, secret |-> 0, setting |-> 0]
    /\ req = [r \in Requests |-> Idle]

To(r, state) == req' = [req EXCEPT ![r] = state]
-----------------------------------------------------------------------------
(* What every handler starts with *)

Manages(u, o) == RoleIn[u][o] \in {"owner", "admin"}
Belongs(u, o) == RoleIn[u][o] # "none"

\* get_org_project_by_uuid, "Ensure project belongs to org".
ProjectsOf(o) == {p \in projects : p.org = o}

\* The caller is an owner or an admin; the project of the path is read.
Authorize(r, u, o, op, body) ==
    /\ req[r].pc = "idle" /\ o \in orgs /\ Manages(u, o)
    /\ \E p \in ProjectsOf(o) :
         To(r, [pc |-> op, user |-> u, org |-> o, project |-> p, body |-> body])
    /\ UNCHANGED tables

\* Reads are for every member; what is answered is about one of the projects.
View(r, u, o, found) ==
    /\ req[r].pc = "idle" /\ o \in orgs /\ Belongs(u, o)
    /\ \E p \in found : To(r, [pc |-> "shown", user |-> u, project |-> p])
    /\ UNCHANGED tables

ListProjects(r, u, o) == View(r, u, o, {p \in projects : p.org = o})
GetProject(r, u, o) == View(r, u, o, ProjectsOf(o))
ListSecrets(r, u, o) == View(r, u, o, {p \in ProjectsOf(o) : \E s \in secrets : s.project = p.id})
GetEmailSettings(r, u, o) ==
    View(r, u, o, {p \in ProjectsOf(o) : \E s \in settings :
                     s.project = p.id /\ s.category = "email"})
GetOAuthSettings(r, u, o) == View(r, u, o, ProjectsOf(o))     \* or the default
-----------------------------------------------------------------------------
(* Projects *)

NameTaken(name, o) == \E p \in projects : p.name = name /\ p.org = o

\* UNIQUE(org_id, name), and the organization's foreign key.
MayStore(id, o, name) ==
    o \in orgs /\ ~\E p \in projects : p.org = o /\ p.name = name /\ p.id # id

\* create_project validates the name, and looks for it, before it inserts.
AskCreate(r, u, o, name) ==
    /\ req[r].pc = "idle" /\ name \in GoodNames
    /\ o \in orgs /\ Manages(u, o) /\ ~NameTaken(name, o)
    /\ To(r, [pc |-> "create", user |-> u, org |-> o, name |-> name])
    /\ UNCHANGED tables

InsertProject(r) ==
    /\ req[r].pc = "create" /\ made.project < MaxProjects
    /\ made' = [made EXCEPT !.project = @ + 1]
    /\ projects' = IF ~MayStore(0, req[r].org, req[r].name) THEN projects
                   ELSE projects \union {[id |-> made.project + 1, org |-> req[r].org,
                                          name |-> req[r].name, status |-> "active"]}
    /\ To(r, Idle) /\ UNCHANGED <<orgs, secrets, settings>>

\* update_project does not validate its body.
AskUpdate(r, u, o, name, status) ==
    Authorize(r, u, o, "update", [name |-> name, status |-> status])

Or(given, old) == IF given = Absent THEN old ELSE given

\* The fields that are not given come from the row that was read.
Merged(r) == [req[r].project EXCEPT !.name = IF req[r].body.name = Absent THEN @ ELSE req[r].body.name,
                                    !.status = Or(req[r].body.status, @)]

\* A name that changes is looked for.
CheckName(r) ==
    /\ req[r].pc = "update"
    /\ To(r, IF Merged(r).name # req[r].project.name /\ NameTaken(Merged(r).name, req[r].org)
             THEN Idle ELSE [req[r] EXCEPT !.pc = "rename"])
    /\ UNCHANGED tables

\* OrgProject::update writes every field, of no row if the project is gone; the
\* table's CHECK refuses an unknown status.
UpdateProject(r) ==
    /\ req[r].pc = "rename"
    /\ LET new == Merged(r) IN
       projects' = IF new.status \notin Statuses \/ ~MayStore(new.id, new.org, new.name)
                   THEN projects
                   ELSE {IF p.id = new.id THEN new ELSE p : p \in projects}
    /\ To(r, Idle) /\ UNCHANGED <<orgs, secrets, settings, made>>

\* Mutant: the foreign keys do not cascade.
NothingCascades(rows, ids) == rows

Without(rows, ids) == {x \in rows : x.project \notin ids}

\* ON DELETE CASCADE.
Drop(ids) ==
    /\ projects' = {p \in projects : p.id \notin ids}
    /\ secrets' = Without(secrets, ids) /\ settings' = Without(settings, ids)

AskDelete(r, u, o) == Authorize(r, u, o, "delete", Absent)

DeleteProject(r) ==
    /\ req[r].pc = "delete" /\ Drop({req[r].project.id})
    /\ To(r, Idle) /\ UNCHANGED <<orgs, made>>

\* delete_org, which Organizations models.
DeleteOrg(o) ==
    /\ o \in orgs /\ orgs' = orgs \ {o}
    /\ Drop({p.id : p \in ProjectsOf(o)}) /\ UNCHANGED <<made, req>>
-----------------------------------------------------------------------------
(* Secrets *)

Exists(id) == \E p \in projects : p.id = id
Secret(id, k) == {s \in secrets : s.project = id /\ s.key = k}

\* create_secret encrypts with an await before it stores.
AskCreateSecret(r, u, o, k) == Authorize(r, u, o, "secret", k)

\* NewOrgProjectSecret::insert: ON CONFLICT (project_id, key_name) DO UPDATE, which
\* keeps the row's id.
UpsertSecret(r) ==
    /\ req[r].pc = "secret" /\ made.secret < MaxSecrets
    /\ made' = [made EXCEPT !.secret = @ + 1]
    /\ secrets' = IF ~Exists(req[r].project.id) \/ Secret(req[r].project.id, req[r].body) # {}
                  THEN secrets
                  ELSE secrets \union {[id |-> made.secret + 1, project |-> req[r].project.id,
                                        key |-> req[r].body]}
    /\ To(r, Idle) /\ UNCHANGED <<orgs, projects, settings>>

AskDeleteSecret(r, u, o, k) == Authorize(r, u, o, "delete_secret", k)

FindSecret(r) ==
    /\ req[r].pc = "delete_secret"
    /\ \/ /\ Secret(req[r].project.id, req[r].body) = {} /\ To(r, Idle)
       \/ \E s \in Secret(req[r].project.id, req[r].body) :
            To(r, [pc |-> "drop_secret", user |-> req[r].user, org |-> req[r].org, secret |-> s])
    /\ UNCHANGED tables

\* Mutant: the secret is deleted by its name.
ByName(s) == Secret(s.project, s.key)

Doomed(s) == {x \in secrets : x.id = s.id}

\* OrgProjectSecret::delete, by id.
DropSecret(r) ==
    /\ req[r].pc = "drop_secret"
    /\ secrets' = secrets \ Doomed(req[r].secret)
    /\ To(r, Idle) /\ UNCHANGED <<orgs, projects, settings, made>>
-----------------------------------------------------------------------------
(* Settings *)

Setting(id, c) == {s \in settings : s.project = id /\ s.category = c}

\* "settings must be provided when ... is enabled".
Accepted(v) == v.on => v.details

AskEmailSettings(r, u, o) ==
    Authorize(r, u, o, "settings",
              [category |-> "email", value |-> [on |-> FALSE, details |-> TRUE]])
AskOAuthSettings(r, u, o, v) ==
    Accepted(v) /\ Authorize(r, u, o, "settings", [category |-> "oauth", value |-> v])

\* update_project_email_settings, update_project_oauth_settings: "Check if settings exist".
FindSetting(r) ==
    /\ req[r].pc = "settings"
    /\ To(r, [pc |-> "store_settings", user |-> req[r].user, org |-> req[r].org,
              project |-> req[r].project, body |-> req[r].body,
              found |-> {s.id : s \in Setting(req[r].project.id, req[r].body.category)}])
    /\ UNCHANGED tables

\* UNIQUE(project_id, category), and the project's foreign key.
MayInsertSetting(id, c) == Exists(id) /\ Setting(id, c) = {}

StoreSetting(r) ==
    /\ req[r].pc = "store_settings"
    /\ LET id == req[r].project.id
           c == req[r].body.category
       IN  IF req[r].found # {}
           THEN /\ settings' = {IF s.id \in req[r].found THEN [s EXCEPT !.value = req[r].body.value]
                                ELSE s : s \in settings}
                /\ UNCHANGED made
           ELSE /\ made.setting < MaxSettings /\ made' = [made EXCEPT !.setting = @ + 1]
                /\ settings' = IF ~MayInsertSetting(id, c) THEN settings
                               ELSE settings \union {[id |-> made.setting + 1, project |-> id,
                                      category |-> c, value |-> req[r].body.value]}
    /\ To(r, Idle) /\ UNCHANGED <<orgs, projects, secrets>>

\* An answer is given, a statement fails, or the request is dropped at an await.
End(r) == req[r].pc # "idle" /\ To(r, Idle) /\ UNCHANGED tables
-----------------------------------------------------------------------------
ProjectNext(r) ==
    \/ \E u \in Users, o \in Orgs :
         \/ \E n \in Names : AskCreate(r, u, o, n)
         \/ \E n \in Names \union {Absent}, s \in {Absent, "suspended", "unknown"} :
              AskUpdate(r, u, o, n, s)
         \/ AskDelete(r, u, o)
    \/ InsertProject(r) \/ CheckName(r) \/ UpdateProject(r) \/ DeleteProject(r)

SecretNext(r) ==
    \/ \E u \in Users, o \in Orgs, k \in Keys :
         AskCreateSecret(r, u, o, k) \/ AskDeleteSecret(r, u, o, k)
    \/ UpsertSecret(r) \/ FindSecret(r) \/ DropSecret(r)

SettingNext(r) ==
    \/ \E u \in Users, o \in Orgs :
         AskEmailSettings(r, u, o) \/ \E v \in Values : AskOAuthSettings(r, u, o, v)
    \/ FindSetting(r) \/ StoreSetting(r)

ViewNext(r) ==
    \E u \in Users, o \in Orgs :
        \/ ListProjects(r, u, o) \/ GetProject(r, u, o) \/ ListSecrets(r, u, o)
        \/ GetEmailSettings(r, u, o) \/ GetOAuthSettings(r, u, o)

Next ==
    \/ \E r \in Requests :
         ProjectNext(r) \/ SecretNext(r) \/ SettingNext(r) \/ ViewNext(r) \/ End(r)
    \/ \E o \in Orgs : DeleteOrg(o)

Spec == Init /\ [][Next]_vars
-----------------------------------------------------------------------------
TypeOK ==
    /\ projects \subseteq [id : ProjectIds, org : Orgs, name : Names, status : Statuses]
    /\ secrets \subseteq [id : 1..MaxSecrets, project : ProjectIds, key : Keys]
    /\ settings \subseteq [id : 1..MaxSettings, project : ProjectIds, category : Categories,
                           value : {v \in Values : v.on => v.details}]

(* However requests overlap, an organization has one project of a name: it   *)
(* is looked for first, and inserted or renamed later.                       *)
OneProjectPerName == \A p, q \in projects : p.org = q.org /\ p.name = q.name => p = q

(* And a project has one row of each kind of settings.                       *)
OneRowOfSettings ==
    \A s, t \in settings : s.project = t.project /\ s.category = t.category => s = t

(* Nothing outlives its project or its organization, though requests that    *)
(* found them still write.                                                   *)
NothingOutlivesProject ==
    /\ \A p \in projects : p.org \in orgs
    /\ \A x \in secrets : Exists(x.project)
    /\ \A x \in settings : Exists(x.project)

\* The projects a step changes, in themselves or in what belongs to them.
Touched ==
    {p \in projects :
        \/ p \notin projects'
        \/ {s \in secrets : s.project = p.id} # {s \in secrets' : s.project = p.id}
        \/ {s \in settings : s.project = p.id} # {s \in settings' : s.project = p.id}}

(* Whatever organization and project a path names, a project is changed only *)
(* by a manager of its own organization and shown only to a member of it.    *)
OwnOrganizationOnly ==
    [][/\ orgs' = orgs => \A p \in Touched : \E r \in Requests :
            req[r] # Idle /\ req'[r] = Idle /\ Manages(req[r].user, p.org)
       /\ \A r \in Requests : req'[r].pc = "shown" =>
            Belongs(req'[r].user, req'[r].project.org)]_vars

(* A deletion of a secret takes the row it found: one deleted and stored     *)
(* again meanwhile stays.                                                    *)
DeletionTakesWhatItFound ==
    [][\A r \in Requests : req[r].pc = "drop_secret" /\ req'[r] = Idle =>
         secrets \ secrets' \subseteq {req[r].secret}]_vars

(* An update of a project changes what its body gives, and nothing else.     *)
ChangesOnlyAsked ==
    \A r \in Requests, p \in projects, q \in projects' :
        req[r].pc = "rename" /\ p.id = q.id =>
            /\ p.name # q.name => req[r].body.name = q.name
            /\ p.status # q.status => req[r].body.status = q.status
=============================================================================
