------------------------------- MODULE Startup ------------------------------
(***************************************************************************)
(* The start of the program in an enclave: AWS credentials from the parent *)
(* and their refresh, the database URL and the keys without which no start *)
(* succeeds, the enclave key and the JWT secret, which are made on the     *)
(* first start ever and read on every later one, the third-party secrets,  *)
(* and the migration of the Maple project's settings (main.rs,             *)
(* aws_credentials.rs, migrations.rs).  One process runs at a time; it may *)
(* stop between any two statements, and an operator may launch it again:   *)
(* entrypoint.sh starts it once and does not watch over it.                *)
(***************************************************************************)
EXTENDS Naturals

CONSTANTS
    MaxRetries,     \* max_retries of wait_for_credentials
    MaxFaults,      \* bound: crashes, and errors of KMS, the parent and the database
    MaxExpiries     \* bound: times the AWS credentials expire

StartupAssumption == MaxRetries \in Nat \ {0} /\ MaxFaults \in Nat /\ MaxExpiries \in Nat

VARIABLES
    keyRow,     \* enclave_secrets: the enclave key, sealed by KMS; 0 is no row
    jwtRow,     \* enclave_secrets: the JWT secret and the key it is encrypted under
    needed,     \* the secrets this deployment cannot start without
    given,      \* the secrets it has
    maple,      \* the Maple project is found by its name
    settings,   \* project_settings rows of the Maple project
    secrets,    \* org_project_secrets rows of the Maple project
    written,    \* the keys under which user data has been encrypted
    pc,         \* where main is; "down" between two processes
    key,        \* enclave_key of the process
    jwt,        \* jwt_secret of the process
    creds,      \* the cached AWS credentials: "none", "fresh" or "expired"
    attempts,   \* failed attempts of wait_for_credentials
    fresh,      \* the next random secret
    faults,     \* faults left
    expiries    \* expiries left
rows == <<keyRow, jwtRow, maple, settings, secrets, written>>
memory == <<key, jwt, creds, attempts>>
vars == <<rows, needed, given, pc, memory, fresh, faults, expiries>>

Categories == {"email", "oauth"}
Names == {"resend", "github", "google"}

\* The OpenAI key is needed where the API base is OpenAI's own.
Needs == {{"database", "tinfoil"}, {"database", "openai", "tinfoil"}}
NoJwt == [id |-> 0, under |-> 0]

TypeOK ==
    /\ keyRow \in 0 .. fresh /\ jwtRow \in [id : 0 .. fresh, under : 0 .. fresh]
    /\ needed \in Needs /\ given \subseteq Names \union needed
    /\ maple \in BOOLEAN /\ settings \subseteq Categories /\ secrets \subseteq Names
    /\ written \subseteq 1 .. fresh
    /\ pc \in {"down", "creds", "url", "key", "persistKey", "required", "jwt", "persistJwt", "retrieve",
               "migrate", "email", "resend", "oauth", "github", "google", "serving"}
    /\ key \in 0 .. fresh /\ jwt \in 0 .. fresh
    /\ creds \in {"none", "fresh", "expired"} /\ attempts \in 0 .. MaxRetries - 1
    /\ faults \in 0 .. MaxFaults /\ expiries \in 0 .. MaxExpiries

\* A new database, whose schema migrations make the project; a developer may have stored a
\* secret of the project already.
Init ==
    /\ keyRow = 0 /\ jwtRow = NoJwt /\ maple = TRUE /\ settings = {} /\ written = {}
    /\ needed \in Needs /\ given \in SUBSET (Names \union needed) /\ secrets \in {{}, {"github"}}
    /\ pc = "down" /\ key = 0 /\ jwt = 0 /\ creds = "none" /\ attempts = 0
    /\ fresh = 1 /\ faults = MaxFaults /\ expiries = MaxExpiries

Fault == faults > 0 /\ faults' = faults - 1
NoFault == UNCHANGED faults

\* main returns an error or panics: the memory of the process is gone.
Down ==
    /\ pc' = "down" /\ key' = 0 /\ jwt' = 0 /\ creds' = "none" /\ attempts' = 0
    /\ UNCHANGED <<rows, needed, given, fresh, expiries>>

-----------------------------------------------------------------------------
(* The process and its credentials.                                        *)

\* The operator launches the program, or provides a secret that it missed.
Start ==
    /\ pc = "down" /\ pc' = "creds"
    /\ UNCHANGED <<rows, needed, given, memory, fresh, faults, expiries>>

Provide ==
    /\ pc = "down" /\ \E n \in needed \ given : given' = given \union {n}
    /\ UNCHANGED <<rows, needed, pc, memory, fresh, faults, expiries>>

\* A crash, an error of the database or a secret that cannot be unsealed: `?` ends main.
Crash == pc # "down" /\ Fault /\ Down

FetchCredentials ==
    /\ pc = "creds" /\ pc' = "url" /\ creds' = "fresh" /\ NoFault
    /\ UNCHANGED <<rows, needed, given, key, jwt, attempts, fresh, expiries>>

\* The parent does not answer: again after a delay, until the retries are used up or the
\* minute main allows is over (Crash).
FetchFails ==
    /\ pc = "creds" /\ Fault
    /\ IF attempts + 1 >= MaxRetries THEN Down
       ELSE attempts' = attempts + 1 /\ UNCHANGED <<rows, needed, given, pc, key, jwt, creds, fresh, expiries>>

\* External: AWS credentials last some hours.
Expire ==
    /\ creds = "fresh" /\ expiries > 0 /\ pc # "creds"
    /\ creds' = "expired" /\ expiries' = expiries - 1
    /\ UNCHANGED <<rows, needed, given, pc, key, jwt, attempts, fresh, faults>>

\* The refresh task never ends: five hours after a success, five seconds after an error.
RefreshRuns == creds # "none"

Refresh ==
    /\ RefreshRuns /\ creds = "expired"
    /\ creds' = "fresh"
    /\ UNCHANGED <<rows, needed, given, pc, key, jwt, attempts, fresh, faults, expiries>>

RefreshFails ==
    /\ RefreshRuns /\ creds = "expired" /\ Fault
    /\ UNCHANGED <<rows, needed, given, pc, memory, fresh, expiries>>

-----------------------------------------------------------------------------
(* The enclave key and the JWT secret.                                     *)

\* KMS takes valid credentials only, and may fail with them.
KmsAnswers(ok) == IF ok THEN creds = "fresh" /\ NoFault ELSE IF creds = "fresh" THEN Fault ELSE NoFault

\* get_secret and decrypt_with_kms: without its URL there is no database.
GetUrl ==
    /\ pc = "url"
    /\ \E ok \in BOOLEAN :
         /\ KmsAnswers(ok)
         /\ IF ok /\ "database" \in given
            THEN pc' = "key" /\ UNCHANGED <<rows, needed, given, memory, fresh, expiries>>
            ELSE Down

Generate(next) ==
    /\ key' = fresh /\ fresh' = fresh + 1 /\ pc' = next
    /\ UNCHANGED <<rows, needed, given, jwt, creds, attempts, expiries>>

\* resolve_enclave_key_material: an existing key is unsealed or the start fails; a new one is
\* made only when there is no row.
ResolveKey(ok) ==
    IF ~ ok THEN Down
    ELSE IF keyRow # 0
    THEN pc' = "required" /\ key' = keyRow /\ UNCHANGED <<rows, needed, given, jwt, creds, attempts, fresh, expiries>>
    ELSE Generate("persistKey")

GetKey == pc = "key" /\ \E ok \in BOOLEAN : KmsAnswers(ok) /\ ResolveKey(ok)

\* create_enclave_secret: an upsert.
KeyStored == keyRow' = key

PersistKey ==
    /\ pc = "persistKey" /\ pc' = "required" /\ KeyStored
    /\ UNCHANGED <<jwtRow, maple, settings, secrets, written, needed, given, memory, fresh, faults, expiries>>

\* retrieve_openai_api_key, where it is needed, and TINFOIL_API_KEY, from the environment:
\* a missing one ends main.
RequireKeys ==
    /\ pc = "required"
    /\ \E ok \in BOOLEAN :
         /\ IF "openai" \in needed THEN KmsAnswers(ok) ELSE ok /\ NoFault
         /\ IF ok /\ needed \subseteq given
            THEN pc' = "jwt" /\ UNCHANGED <<rows, needed, given, memory, fresh, expiries>>
            ELSE Down

\* The JWT secret is encrypted under the enclave key: reading it needs no KMS.
ReadJwt ==
    /\ pc = "jwt" /\ jwtRow # NoJwt /\ NoFault
    /\ IF jwtRow.under = key
       THEN pc' = "retrieve" /\ jwt' = jwtRow.id
            /\ UNCHANGED <<rows, needed, given, key, creds, attempts, fresh, expiries>>
       ELSE Down

GenerateJwt ==
    /\ pc = "jwt" /\ jwtRow = NoJwt
    /\ \E ok \in BOOLEAN :
         /\ KmsAnswers(ok)
         /\ IF ok
            THEN jwt' = fresh /\ fresh' = fresh + 1 /\ pc' = "persistJwt"
                 /\ UNCHANGED <<rows, needed, given, key, creds, attempts, expiries>>
            ELSE Down

\* Mutant: the new secret is used, but not stored.
PersistJwtLater ==
    /\ pc = "persistJwt" /\ pc' = "retrieve"
    /\ UNCHANGED <<rows, needed, given, memory, fresh, faults, expiries>>

PersistJwt ==
    /\ pc = "persistJwt" /\ pc' = "retrieve"
    /\ jwtRow' = [id |-> jwt, under |-> key]
    /\ UNCHANGED <<keyRow, maple, settings, secrets, written, needed, given, memory, fresh, faults, expiries>>

\* Mutant: a secret that is not configured ends the start.
RetrieveAll ==
    /\ pc = "retrieve" /\ NoFault
    /\ IF Names \subseteq given THEN pc' = "migrate" /\ UNCHANGED <<rows, needed, given, memory, fresh, expiries>> ELSE Down

\* The retrieve_ functions: each stored secret is unsealed, a missing one is None.
Retrieve ==
    /\ pc = "retrieve"
    /\ \E ok \in BOOLEAN :
         /\ IF Names \intersect given = {} THEN ok /\ NoFault ELSE KmsAnswers(ok)
         /\ IF ok THEN pc' = "migrate" /\ UNCHANGED <<rows, needed, given, memory, fresh, expiries>> ELSE Down

-----------------------------------------------------------------------------
(* migrate_maple_project_settings.                                         *)

Goto(next) == pc' = next /\ UNCHANGED <<rows, needed, given, memory, fresh, faults, expiries>>

\* A project (or organization) that is not found by its name is a panic.
CheckMigration ==
    /\ pc = "migrate"
    /\ IF maple THEN Goto(IF settings = Categories THEN "serving" ELSE "email") ELSE Down /\ NoFault

WriteSettings(category, skip, next) ==
    /\ pc = category
    /\ IF category \in settings THEN Goto(skip)
       ELSE /\ pc' = next /\ settings' = settings \union {category}
            /\ UNCHANGED <<keyRow, jwtRow, maple, secrets, written, needed, given, memory, fresh, faults, expiries>>

\* migrate_project_secret: a plain insert, which fails when the name is taken.
WriteSecret(name, next) ==
    /\ pc = name
    /\ IF name \notin given THEN Goto(next)
       ELSE IF name \in secrets THEN Down /\ NoFault
       ELSE /\ pc' = next /\ secrets' = secrets \union {name}
            /\ UNCHANGED <<keyRow, jwtRow, maple, settings, written, needed, given, memory, fresh, faults, expiries>>

Migrate ==
    \/ CheckMigration
    \/ WriteSettings("email", "oauth", "resend") \/ WriteSecret("resend", "oauth")
    \/ WriteSettings("oauth", "serving", "github") \/ WriteSecret("github", "google")
    \/ WriteSecret("google", "serving")

\* Any request that encrypts something under the enclave key.
Serve ==
    /\ pc = "serving" /\ key \notin written
    /\ written' = written \union {key}
    /\ UNCHANGED <<keyRow, jwtRow, maple, settings, secrets, needed, given, pc, memory, fresh, faults, expiries>>

\* update_project: an administrator gives the project another name, or a project this one.
RenameProject ==
    /\ pc = "serving" /\ maple' = ~ maple
    /\ UNCHANGED <<keyRow, jwtRow, settings, secrets, written, needed, given, pc, memory, fresh, faults, expiries>>

\* delete_project: its settings and secrets go with it.
DeleteProject ==
    /\ pc = "serving" /\ maple /\ maple' = FALSE /\ settings' = {} /\ secrets' = {}
    /\ UNCHANGED <<keyRow, jwtRow, written, needed, given, pc, memory, fresh, faults, expiries>>

Main ==
    \/ FetchCredentials \/ GetUrl \/ GetKey \/ PersistKey \/ RequireKeys \/ ReadJwt \/ GenerateJwt
    \/ PersistJwt \/ Retrieve \/ Migrate

Operator == Start \/ Provide \/ RenameProject \/ DeleteProject

Next == Main \/ Operator \/ Crash \/ FetchFails \/ Expire \/ Refresh \/ RefreshFails \/ Serve

Spec == Init /\ [][Next]_vars

\* main goes on and the refresh task runs, as long as the process does; faults are finitely
\* many. Nothing is assumed of the operator.
FairSpec == Spec /\ WF_vars(Main) /\ WF_vars(Refresh)

-----------------------------------------------------------------------------
(* Properties.                                                             *)

\* Whatever fails during a start, the enclave key and the JWT secret in the database are
\* never replaced: every row ever encrypted and every token ever signed depends on them.
StoredSecretsAreForever ==
    [][/\ keyRow # 0 => keyRow' = keyRow
       /\ jwtRow # NoJwt => jwtRow' = jwtRow]_vars

\* No data is encrypted under a key that a later process could not find again.
DataSurvivesRestart == written \subseteq {keyRow} /\ (pc = "serving" => jwtRow = [id |-> jwt, under |-> keyRow])

\* A launch never hangs: it ends in a program that serves, or in none.
LaunchEnds == pc # "down" ~> pc \in {"down", "serving"}

\* What no start succeeds without.
Complete == needed \subseteq given /\ maple

\* After any sequence of crashes and failures, at whatever statements, the program comes up
\* again and stays up, if it is launched again whenever it is down and if its deployment is
\* complete time and again: no state that the database is left in forbids it.
ComesUpAgain == []<>(pc # "down") /\ []<>Complete => <>[](pc = "serving")

\* Expired AWS credentials are replaced while the process runs, however many refreshes fail.
CredentialsAreRenewed == creds = "expired" ~> creds # "expired"
=============================================================================
