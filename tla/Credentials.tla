---------------------------- MODULE Credentials ----------------------------
(****************************************************************************)
(* One user account: its password verifier, the wrappings of its seed, its  *)
(* OAuth connection, the data encrypted under the seed, its password-reset  *)
(* and deletion requests, and the concurrent HTTP requests that read and    *)
(* change them (main.rs, db.rs, kv.rs, jwt.rs, login_routes.rs,             *)
(* oauth_routes.rs, protected_routes.rs).                                   *)
(*                                                                          *)
(* A handler reads the users row, awaits (password hashing, random numbers, *)
(* the connection pool) and writes later, so every handler is split at its  *)
(* database statements; a database transaction is one step.  Verifiers and  *)
(* seeds are random in the code: here they are numbered as they are stored. *)
(* A wrapping is readable by exactly the credential it is bound to; tokens  *)
(* are the auth contexts their claims carry, and never expire.              *)
(****************************************************************************)
EXTENDS Naturals, FiniteSets

CONSTANTS
    Requests,     \* concurrent HTTP requests
    Codes,        \* password reset requests that can be made
    Keys,         \* keys of the encrypted key-value store
    MaxVerifier   \* bound: stored password verifiers

ASSUME CredentialsAssumption == MaxVerifier \in Nat /\ IsFiniteSet(Requests)

VARIABLES
    user,      \* the users row: its state, email or guest, password_enc
    wraps,     \* user_seed_wrappings
    linked,    \* user_oauth_connections has a row
    data,      \* user_kv: the pairs (key, seed it is encrypted under)
    resets,    \* password_reset_requests: each code's state
    issuedFor, \* auxiliary: the seed in force when a code was issued
    deletion,  \* account_deletion_requests: the confirmation code's state
    tokens,    \* auth contexts of the tokens handed out
    verifier,  \* the last verifier stored
    seed,      \* the last seed stored
    outrun,    \* auxiliary: the seeds of puts in flight when a reset replaced the seed
    pc, loc    \* each request's place, and what it has read

account == <<user, wraps, linked, data, verifier, seed, outrun>>
vars == <<user, wraps, linked, data, resets, issuedFor, deletion, tokens, verifier, seed, outrun, pc, loc>>

NoPassword == 0                              \* password_enc IS NULL
PasswordContext(v) == [kind |-> "password", cred |-> v]
OAuthContext == [kind |-> "oauth", cred |-> 0]
Contexts == [kind : {"password", "oauth"}, cred : Nat]
Fresh == [ctx |-> OAuthContext, pw |-> NoPassword, cur |-> NoPassword, seed |-> 0, code |-> {}]

PcStates == {"idle", "registered", "login", "oauth", "jwt", "authed", "put", "delete", "change",
             "rewrap", "swap", "reissue", "reset", "erase"}

Wrap(c, s) == [kind |-> c.kind, cred |-> c.cred, seed |-> s]

\* The account may be new, or one that linked a provider to its password.
Init ==
    /\ \/ /\ user = [st |-> "absent", email |-> FALSE, pw |-> NoPassword]
          /\ wraps = {} /\ linked = FALSE /\ verifier = 0 /\ seed = 0
       \/ /\ user = [st |-> "present", email |-> TRUE, pw |-> 1]
          /\ wraps = {Wrap(PasswordContext(1), 1), Wrap(OAuthContext, 1)}
          /\ linked = TRUE /\ verifier = 1 /\ seed = 1
    /\ data = {}
    /\ resets = [c \in Codes |-> "unused"]
    /\ issuedFor = [c \in Codes |-> 0]
    /\ deletion = "none"
    /\ tokens = {} /\ outrun = {}
    /\ pc = [r \in Requests |-> "idle"]
    /\ loc = [r \in Requests |-> Fresh]
-----------------------------------------------------------------------------
\* decrypt_seed_for_auth_context: the wrappings this context opens.
Opened(c) == { w \in wraps : w.kind = c.kind /\ w.cred = c.cred }

Goto(r, label) == pc' = [pc EXCEPT ![r] = label]
Answer(r) == Goto(r, "idle") /\ loc' = [loc EXCEPT ![r] = Fresh]

\* register_user and the new-user branch of find_or_create_user_from_oauth: the
\* row, its wrapping and (OAuth) its connection are one transaction; a row that
\* exists is refused by the first read or by the unique email.  Both handlers go
\* on to log the new user in.
Register(r, email, oauth) ==
    /\ pc[r] = "idle"
    /\ user.st = "absent" /\ verifier < MaxVerifier
    /\ oauth => email
    /\ seed' = seed + 1
    /\ verifier' = IF oauth THEN verifier ELSE verifier + 1
    /\ user' = [st |-> "present", email |-> email, pw |-> IF oauth THEN NoPassword ELSE verifier + 1]
    /\ wraps' = {Wrap(IF oauth THEN OAuthContext ELSE PasswordContext(verifier + 1), seed + 1)}
    /\ linked' = oauth
    /\ Goto(r, IF oauth THEN "oauth" ELSE "registered")
    /\ UNCHANGED <<data, outrun, resets, issuedFor, deletion, tokens, loc>>

\* authenticate_user: the row is read, then the password is hashed off-thread.
LoginRead(r) ==
    /\ pc[r] \in {"idle", "registered"}
    /\ user.st = "present" /\ user.pw # NoPassword
    /\ Goto(r, "login")
    /\ loc' = [loc EXCEPT ![r].ctx = PasswordContext(user.pw)]
    /\ UNCHANGED <<account, resets, issuedFor, deletion, tokens>>

\* find_or_create_user_from_oauth: the connection and its user are read.
OAuthRead(r) ==
    /\ pc[r] = "idle"
    /\ linked
    /\ Goto(r, "oauth")
    /\ loc' = [loc EXCEPT ![r].ctx = OAuthContext]
    /\ UNCHANGED <<account, resets, issuedFor, deletion, tokens>>

\* verify_seed_wrap_for_auth_context, then the tokens.
LoginFinish(r) ==
    /\ pc[r] \in {"login", "oauth"}
    /\ tokens' = IF Opened(loc[r].ctx) # {} THEN tokens \union {loc[r].ctx} ELSE tokens
    /\ Answer(r)
    /\ UNCHANGED <<account, resets, issuedFor, deletion>>

\* validate_jwt: the user row ...
JwtRead(r, c) ==
    /\ pc[r] = "idle"
    /\ c \in tokens
    /\ user.st = "present"
    /\ Goto(r, "jwt")
    /\ loc' = [loc EXCEPT ![r].ctx = c, ![r].pw = user.pw]
    /\ UNCHANGED <<account, resets, issuedFor, deletion, tokens>>

\* ... then the wrapping its context must still open.
JwtVerify(r) ==
    /\ pc[r] = "jwt"
    /\ IF Opened(loc[r].ctx) # {} THEN Goto(r, "authed") /\ UNCHANGED loc ELSE Answer(r)
    /\ UNCHANGED <<account, resets, issuedFor, deletion, tokens>>

\* AppState::put, delete: get_user_key decrypts the seed ...
DeriveKey(r, op) ==
    /\ pc[r] = "authed"
    /\ IF Opened(loc[r].ctx) = {} THEN Answer(r)
       ELSE \E w \in Opened(loc[r].ctx) : Goto(r, op) /\ loc' = [loc EXCEPT ![r].seed = w.seed]
    /\ UNCHANGED <<account, resets, issuedFor, deletion, tokens>>

\* Mutant: a user_kv without its foreign key to users.
KvPutUnreferenced(r, k) ==
    /\ pc[r] = "put"
    /\ data' = data \union {<<k, loc[r].seed>>}
    /\ Answer(r)
    /\ UNCHANGED <<user, wraps, linked, verifier, seed, outrun, resets, issuedFor, deletion, tokens>>

\* ... and kv::put upserts the row: its key is encrypted deterministically under
\* the seed, and the foreign key refuses it once the user is gone.
KvPut(r, k) ==
    /\ pc[r] = "put"
    /\ data' = IF user.st = "present" THEN data \union {<<k, loc[r].seed>>} ELSE data
    /\ Answer(r)
    /\ UNCHANGED <<user, wraps, linked, verifier, seed, outrun, resets, issuedFor, deletion, tokens>>

KvDelete(r, k) ==
    /\ pc[r] = "delete"
    /\ data' = data \ {<<k, loc[r].seed>>}
    /\ Answer(r)
    /\ UNCHANGED <<user, wraps, linked, verifier, seed, outrun, resets, issuedFor, deletion, tokens>>

\* delete_all_kv needs no key.
KvDeleteAll(r) ==
    /\ pc[r] = "authed"
    /\ data' = {}
    /\ Answer(r)
    /\ UNCHANGED <<user, wraps, linked, verifier, seed, outrun, resets, issuedFor, deletion, tokens>>
-----------------------------------------------------------------------------
\* change_password authenticates the current password against a second read ...
ChangeRead(r) ==
    /\ pc[r] = "authed"
    /\ loc[r].pw # NoPassword
    /\ IF user.st = "present" /\ user.pw # NoPassword
       THEN Goto(r, "change") /\ loc' = [loc EXCEPT ![r].cur = user.pw]
       ELSE Answer(r)
    /\ UNCHANGED <<account, resets, issuedFor, deletion, tokens>>

ChangeVerify(r) ==
    /\ pc[r] = "change"
    /\ IF Opened(PasswordContext(loc[r].cur)) # {} THEN Goto(r, "rewrap") /\ UNCHANGED loc ELSE Answer(r)
    /\ UNCHANGED <<account, resets, issuedFor, deletion, tokens>>

\* ... then unwraps the seed with the token's context ...
ChangeUnwrap(r) ==
    /\ pc[r] = "rewrap"
    /\ IF Opened(loc[r].ctx) = {} THEN Answer(r)
       ELSE \E w \in Opened(loc[r].ctx) : Goto(r, "swap") /\ loc' = [loc EXCEPT ![r].seed = w.seed]
    /\ UNCHANGED <<account, resets, issuedFor, deletion, tokens>>

\* Mutant: an UPDATE by uuid alone, without the expected password_enc.
ExpectAnyPassword(r) == user.st = "present"

\* The filter of the UPDATE: the password_enc the middleware read.
ExpectedPassword(r) == user.st = "present" /\ user.pw = loc[r].pw

\* delete_for_user_and_kind(.., "password"): what is left.
WithoutPasswordWraps == { w \in wraps : w.kind # "password" }

\* ... and db.update_user_password_and_seed_wrap swaps verifier and wrapping,
\* StaleCredentialState if the row is no longer the one that was read.
ChangeCommit(r) ==
    /\ pc[r] = "swap"
    /\ verifier < MaxVerifier
    /\ IF ExpectedPassword(r)
       THEN /\ verifier' = verifier + 1
            /\ user' = [user EXCEPT !.pw = verifier + 1]
            /\ wraps' = WithoutPasswordWraps
                          \union {Wrap(PasswordContext(verifier + 1), loc[r].seed)}
            /\ Goto(r, "reissue")
            /\ loc' = [loc EXCEPT ![r].cur = verifier + 1]
       ELSE Answer(r) /\ UNCHANGED <<user, wraps, verifier>>
    /\ UNCHANGED <<linked, data, seed, outrun, resets, issuedFor, deletion, tokens>>

\* The new wrapping is read back before tokens are issued.
ChangeReissue(r) ==
    /\ pc[r] = "reissue"
    /\ tokens' = IF Opened(PasswordContext(loc[r].cur)) # {}
                 THEN tokens \union {PasswordContext(loc[r].cur)} ELSE tokens
    /\ Answer(r)
    /\ UNCHANGED <<account, resets, issuedFor, deletion>>
-----------------------------------------------------------------------------
\* create_password_reset_request, for a password user with an email: what is read of the
\* user does not change before the insert, but for a deletion, which the foreign key refuses.
ResetRequest(c) ==
    /\ user.st = "present" /\ user.email /\ user.pw # NoPassword
    /\ resets[c] = "unused"
    /\ resets' = [resets EXCEPT ![c] = "open"]
    /\ issuedFor' = [issuedFor EXCEPT ![c] = seed]
    /\ UNCHANGED <<account, deletion, tokens, pc, loc>>

\* 24 hours pass.
ResetExpires(c) ==
    /\ resets[c] = "open"
    /\ resets' = [resets EXCEPT ![c] = "expired"]
    /\ UNCHANGED <<account, issuedFor, deletion, tokens, pc, loc>>

\* confirm_password_reset: the code and the secret match an open request; the
\* fresh seed and verifier are made before the transaction.
ResetRead(r, c) ==
    /\ pc[r] = "idle"
    /\ user.st = "present" /\ user.email /\ user.pw # NoPassword
    /\ resets[c] = "open"
    /\ Goto(r, "reset")
    /\ loc' = [loc EXCEPT ![r].code = {c}]
    /\ UNCHANGED <<account, resets, issuedFor, deletion, tokens>>

\* Mutant: the transaction trusts the request it was handed.
TrustsEarlierRead(c) == TRUE

\* The UPDATE that consumes the request must hit one unreset, unexpired row.
Consumable(c) == resets[c] = "open"

\* What the reset leaves of user_kv.
KvAfterReset == {}

\* complete_destructive_password_reset, one transaction under the row lock.
ResetCommit(r) ==
    /\ pc[r] = "reset"
    /\ verifier < MaxVerifier
    /\ \E c \in loc[r].code :
         IF user.st = "present" /\ Consumable(c)
         THEN /\ resets' = [d \in Codes |-> IF resets[d] \in {"open", "expired"} THEN "used" ELSE resets[d]]
              /\ verifier' = verifier + 1
              /\ seed' = seed + 1
              /\ wraps' = {Wrap(PasswordContext(verifier + 1), seed + 1)}
              /\ linked' = FALSE
              /\ data' = KvAfterReset
              /\ outrun' = outrun \union { loc[s].seed : s \in { q \in Requests : pc[q] = "put" } }
              /\ user' = [user EXCEPT !.pw = verifier + 1]
         ELSE UNCHANGED <<account, resets>>
    /\ Answer(r)
    /\ UNCHANGED <<issuedFor, deletion, tokens>>
-----------------------------------------------------------------------------
\* create_account_deletion_request; a further request is one more code that is
\* good for the same thing, so the codes are kept as one.
DeletionRequest(r) ==
    /\ pc[r] = "authed"
    /\ deletion' = IF user.st = "present" THEN "open" ELSE deletion
    /\ Answer(r)
    /\ UNCHANGED <<account, resets, issuedFor, tokens>>

DeletionExpires ==
    /\ deletion = "open"
    /\ deletion' = "expired"
    /\ UNCHANGED <<account, resets, issuedFor, tokens, pc, loc>>

\* confirm_account_deletion: the user and an open request are read ...
DeletionRead(r) ==
    /\ pc[r] = "authed"
    /\ IF user.st = "present" /\ deletion = "open" THEN Goto(r, "erase") /\ UNCHANGED loc ELSE Answer(r)
    /\ UNCHANGED <<account, resets, issuedFor, deletion, tokens>>

\* ... and mark_and_delete_user deletes the row with everything that references it.
DeletionCommit(r) ==
    /\ pc[r] = "erase"
    /\ deletion' = "done"
    /\ user' = [user EXCEPT !.st = "deleted", !.pw = NoPassword]
    /\ wraps' = {} /\ linked' = FALSE /\ data' = {}
    /\ resets' = [c \in Codes |-> "used"]
    /\ Answer(r)
    /\ UNCHANGED <<verifier, seed, outrun, issuedFor, tokens>>

\* The client went away: the handler's future is dropped at an await.
Abandon(r) ==
    /\ pc[r] # "idle"
    /\ Answer(r)
    /\ UNCHANGED <<account, resets, issuedFor, deletion, tokens>>

Session(r) ==
    \/ LoginRead(r) \/ OAuthRead(r) \/ LoginFinish(r)
    \/ \E c \in tokens : JwtRead(r, c)
    \/ JwtVerify(r) \/ Abandon(r)

KeyValue(r) ==
    \/ DeriveKey(r, "put") \/ DeriveKey(r, "delete") \/ KvDeleteAll(r)
    \/ \E k \in Keys : KvPut(r, k) \/ KvDelete(r, k)

Change(r) ==
    ChangeRead(r) \/ ChangeVerify(r) \/ ChangeUnwrap(r) \/ ChangeCommit(r) \/ ChangeReissue(r)

Reset(r) == ResetCommit(r) \/ \E c \in Codes : ResetRead(r, c)

Deletion(r) == DeletionRequest(r) \/ DeletionRead(r) \/ DeletionCommit(r)

Next ==
    \/ \E r \in Requests, email, oauth \in BOOLEAN : Register(r, email, oauth)
    \/ \E r \in Requests : Session(r) \/ KeyValue(r) \/ Change(r) \/ Reset(r) \/ Deletion(r)
    \/ \E c \in Codes : ResetRequest(c) \/ ResetExpires(c)
    \/ DeletionExpires

Spec == Init /\ [][Next]_vars
-----------------------------------------------------------------------------
TypeOK ==
    /\ user \in [st : {"absent", "present", "deleted"}, email : BOOLEAN, pw : 0 .. verifier]
    /\ wraps \subseteq [kind : {"password", "oauth"}, cred : 0 .. verifier, seed : 1 .. seed]
    /\ linked \in BOOLEAN
    /\ data \subseteq Keys \X (1 .. seed)
    /\ resets \in [Codes -> {"unused", "open", "expired", "used"}]
    /\ issuedFor \in [Codes -> Nat]
    /\ deletion \in {"none", "open", "expired", "done"}
    /\ tokens \subseteq Contexts
    /\ verifier \in Nat /\ seed \in Nat /\ outrun \subseteq Nat
    /\ pc \in [Requests -> PcStates]
    /\ loc \in [Requests -> [ctx : Contexts, pw : Nat, cur : Nat, seed : Nat, code : SUBSET Codes]]

(* The owner is never locked out and no old credential lingers: whatever        *)
(* logins, changes, resets and deletions race, the stored verifier opens exactly *)
(* one password wrapping, the OAuth wrapping exists exactly while the provider   *)
(* is linked, and every wrapping holds the latest seed, so a seed rotated by a   *)
(* reset is never wrapped again ("password change must fail if destructive       *)
(* reset changed the credential row after old auth proof").                      *)
WrapsMatchCredentials ==
    user.st = "present" =>
        wraps = { Wrap(c, seed) : c \in (IF user.pw # NoPassword THEN {PasswordContext(user.pw)} ELSE {})
                                         \union (IF linked THEN {OAuthContext} ELSE {}) }

(* "stale reset credential must not trigger a second destructive reset": a reset *)
(* destroys only the seed its code was issued for, so of several confirmations   *)
(* in flight at most one takes effect.                                           *)
ResetOnlyIssuedSeed ==
    [][user.st = "present" /\ seed' # seed =>
         \E c \in Codes : resets[c] = "open" /\ issuedFor[c] = seed]_vars

(* A deleted account stays empty, whatever was in flight when it was deleted.    *)
DeletedIsGone == user.st = "deleted" => wraps = {} /\ data = {} /\ ~linked

(* Every stored key-value row is encrypted under the seed the account has now, so *)
(* that kv::list, which gives up at the first row it cannot decrypt, can read     *)
(* them all: a destructive reset wipes what the earlier seed encrypted.  Only a   *)
(* put that had derived its key before the reset may store a row after it.        *)
DataIsReadable == \A d \in data : d[2] = seed \/ d[2] \in outrun
=============================================================================
