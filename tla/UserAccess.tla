----------------------------- MODULE UserAccess -----------------------------
(*****************************************************************************)
(* What opens the user API: access and refresh tokens bound to a credential, *)
(* third-party tokens for other services, and API keys (jwt.rs,              *)
(* openai_auth.rs, login_routes.rs, protected_routes.rs, user_api_keys.rs).  *)
(*                                                                           *)
(* The user, platform and third-party tokens may all be signed with one key; *)
(* only the audience tells them apart.  Requests run concurrently; each      *)
(* statement is a step, and a request may be dropped between two.  A token's *)
(* expiry is left out: it only makes fewer tokens valid.                     *)
(*****************************************************************************)
EXTENDS Naturals, FiniteSets

CONSTANTS
    Users, Projects,
    ProjectOf,     \* the project of each account
    Names,         \* API key names
    Requests,      \* requests in flight at most
    MaxTokens,     \* bound: tokens minted
    MaxKeys,       \* bound: API keys generated
    MaxChanges     \* bound: credential changes of an account

UserDoors == {"user_access", "user_refresh"}
PlatformDoors == {"platform_access", "platform_refresh"}
Doors == UserDoors \union PlatformDoors
NoAudience == "none"

\* What a caller may ask a third-party token to be for; "https" stands for the
\* well-formed audiences of other services.
Wanted == Doors \union {"https", NoAudience}

AccessAssumption ==
    /\ ProjectOf \in [Users -> Projects]
    /\ MaxTokens \in Nat /\ MaxKeys \in Nat /\ MaxChanges \in Nat

VARIABLES
    credential,  \* the generation of each account's seed wrap; 0: account deleted
    secrets,     \* the projects with a third-party JWT secret of their own
    tokens,      \* tokens handed out
    keys,        \* rows of user_api_keys
    generated,   \* API keys generated so far
    shown,       \* history: API keys returned to a client
    dropped,     \* history: API keys covered by a completed deletion
    req,
    entered      \* history: the last door a token opened

vars == <<credential, secrets, tokens, keys, generated, shown, dropped, req, entered>>
others == <<secrets, keys, generated, shown, dropped>>

Idle == [pc |-> "idle"]

Init ==
    /\ credential = [u \in Users |-> 1]
    /\ secrets = {} /\ tokens = {} /\ keys = {} /\ generated = 0 /\ shown = {} /\ dropped = {}
    /\ req = [r \in Requests |-> Idle] /\ entered = {}

Exists(u) == credential[u] > 0
-----------------------------------------------------------------------------
(* Tokens *)

\* new_with_auth_context and new_for_platform_user: door is what it is meant to
\* open; aud, the signer and the binding are what the token carries.
Token(door, u, binding) ==
    [door |-> door, aud |-> door, signer |-> "server", user |-> u, binding |-> binding]

\* validate_third_party_audience.
AudienceAllowed(aud) == aud \notin Doors

\* get_third_party_token: HS256 with the project's own secret, or the server's key.
ThirdPartyToken(u, aud) ==
    [door |-> "third_party", aud |-> aud, user |-> u, binding |-> 0,
     signer |-> IF ProjectOf[u] \in secrets THEN "project" ELSE "server"]

Mint(new) == Cardinality(tokens \union new) <= MaxTokens /\ tokens' = tokens \union new

\* login_internal up to the password check, and the context it returns.
Login(r, u, p) ==
    /\ req[r] = Idle /\ Exists(u) /\ ProjectOf[u] = p
    /\ req' = [req EXCEPT ![r] = [pc |-> "mint", user |-> u, binding |-> credential[u]]]
    /\ UNCHANGED <<credential, tokens, entered, others>>

\* An access and a refresh token of that context.
MintPair(r) ==
    /\ req[r].pc = "mint"
    /\ Mint({Token(d, req[r].user, req[r].binding) : d \in UserDoors})
    /\ req' = [req EXCEPT ![r] = Idle]
    /\ UNCHANGED <<credential, entered, others>>

PlatformLogin(u) ==
    /\ Mint({Token(d, u, 0) : d \in PlatformDoors})
    /\ UNCHANGED <<credential, req, entered, others>>

\* generate_third_party_token, by a user who got in.
ThirdParty(u, aud) ==
    /\ Exists(u)
    /\ aud # NoAudience => AudienceAllowed(aud)
    /\ Mint({ThirdPartyToken(u, aud)})
    /\ UNCHANGED <<credential, req, entered, others>>

\* validate_token.
Valid(t, door) == t.signer = "server" /\ t.aud = door

\* validate_jwt, validate_openai_auth, refresh_token: the account is read ...
Present(r, t, door) ==
    /\ req[r] = Idle /\ t \in tokens /\ Valid(t, door)
    /\ door \in UserDoors => Exists(t.user)
    /\ req' = [req EXCEPT ![r] = [pc |-> "unwrap", token |-> t, door |-> door,
                                  since |-> IF door \in UserDoors THEN credential[t.user] ELSE 0]]
    /\ UNCHANGED <<credential, tokens, entered, others>>

\* Mutant: the account exists, whatever the token is bound to.
AnyBinding(t) == Exists(t.user)

\* from_claims and verify_seed_wrap_for_auth_context: the wrap opens with the
\* binding in the token.
Unwraps(t) == t.binding > 0 /\ credential[t.user] = t.binding

\* ... then its wrap, and the request gets in; validate_platform_jwt stops at the
\* account.
Enter(r) ==
    /\ req[r].pc = "unwrap"
    /\ LET in == req[r].door \in UserDoors => Unwraps(req[r].token) IN
       /\ entered' = IF in THEN {[token |-> req[r].token, door |-> req[r].door, since |-> req[r].since]}
                     ELSE entered
       /\ req' = [req EXCEPT ![r] = IF in /\ req[r].door = "user_refresh"
                                    THEN [pc |-> "mint", user |-> req[r].token.user, binding |-> req[r].token.binding]
                                    ELSE Idle]
    /\ UNCHANGED <<credential, tokens, others>>
-----------------------------------------------------------------------------
(* API keys *)

\* create_api_key: a valid name, then a random key.
AskKey(r, u, n) ==
    /\ req[r] = Idle /\ Exists(u) /\ generated < MaxKeys
    /\ generated' = generated + 1
    /\ req' = [req EXCEPT ![r] = [pc |-> "insert", user |-> u, name |-> n, key |-> generated + 1]]
    /\ UNCHANGED <<credential, secrets, tokens, keys, shown, dropped, entered>>

Named(u, n) == { x \in keys : x.user = u /\ x.name = n }

\* user_api_keys_user_id_name_key: the insert fails on a name in use.
InsertKey(row) == IF Named(row.user, row.name) = {} THEN keys \union {row} ELSE keys

\* user_api_keys.user_id REFERENCES users ON DELETE CASCADE.
Referenced(u) == Exists(u)

CreateKey(r) ==
    /\ req[r].pc = "insert"
    /\ LET row == [user |-> req[r].user, name |-> req[r].name, key |-> req[r].key] IN
       /\ keys' = IF Referenced(row.user) THEN InsertKey(row) ELSE keys
       /\ shown' = IF row \in keys' THEN shown \union {row} ELSE shown
    /\ req' = [req EXCEPT ![r] = Idle]
    /\ UNCHANGED <<credential, secrets, tokens, generated, dropped, entered>>

Doomed(u, n) == Named(u, n)

\* delete_api_key.
DeleteKey(u, n) ==
    /\ Exists(u) /\ Named(u, n) # {}
    /\ keys' = keys \ Doomed(u, n)
    /\ dropped' = dropped \union Named(u, n)
    /\ UNCHANGED <<credential, secrets, tokens, generated, shown, req, entered>>

\* get_user_by_api_key_hash: the account a key opens.
KeyOpens(k) == { x.user : x \in { y \in keys : y.key = k /\ Exists(y.user) } }
-----------------------------------------------------------------------------
(* The rest of the system *)

\* A password change or reset replaces the wrap.
ChangeCredential(u) ==
    /\ Exists(u) /\ credential[u] <= MaxChanges
    /\ credential' = [credential EXCEPT ![u] = @ + 1]
    /\ UNCHANGED <<tokens, req, entered, others>>

\* The account is deleted; its keys go with it.
DeleteAccount(u) ==
    /\ Exists(u)
    /\ credential' = [credential EXCEPT ![u] = 0]
    /\ keys' = { x \in keys : x.user # u }
    /\ UNCHANGED <<secrets, tokens, generated, shown, dropped, req, entered>>

SetSecret(p) ==
    /\ secrets' = secrets \union {p}
    /\ UNCHANGED <<credential, tokens, keys, generated, shown, dropped, req, entered>>

Drop(r) ==
    /\ req[r] # Idle /\ req' = [req EXCEPT ![r] = Idle]
    /\ UNCHANGED <<credential, tokens, entered, others>>

Next ==
    \/ \E u \in Users :
         \/ PlatformLogin(u) \/ ChangeCredential(u) \/ DeleteAccount(u)
         \/ \E aud \in Wanted : ThirdParty(u, aud)
         \/ \E n \in Names : DeleteKey(u, n)
    \/ \E p \in Projects : SetSecret(p)
    \/ \E r \in Requests :
         \/ \E u \in Users, p \in Projects : Login(r, u, p)
         \/ \E u \in Users, n \in Names : AskKey(r, u, n)
         \/ \E t \in tokens, d \in Doors : Present(r, t, d)
         \/ MintPair(r) \/ Enter(r) \/ CreateKey(r) \/ Drop(r)

Spec == Init /\ [][Next]_vars
-----------------------------------------------------------------------------
TypeOK ==
    /\ credential \in [Users -> 0 .. MaxChanges + 1]
    /\ secrets \subseteq Projects
    /\ \A t \in tokens : t.user \in Users /\ t.aud \in Wanted
    /\ \A x \in keys : x.user \in Users /\ x.name \in Names /\ x.key \in 1 .. generated /\ Exists(x.user)
    /\ \A r \in Requests : req[r].pc \in {"idle", "mint", "unwrap", "insert"}

\* A token opens only the door it was made for, though one key signs them all and
\* a user chooses the audience of a third-party token.
DoorsAreSeparate == \A e \in entered : e.token.door = e.door

\* A token of a credential that was replaced before the request came opens
\* nothing, and neither does one refreshed from it while it was being replaced.
ReplacedCredentialIsRefused ==
    \A e \in entered : e.door \in UserDoors => e.token.binding >= e.since

\* A key that was shown to its user opens that account until the user deletes the
\* key by its name or the account goes: no other user's request and no second key
\* of the same name takes it away, and afterwards it opens nothing.
KeyLivesUntilDeleted ==
    \A x \in shown : KeyOpens(x.key) = IF x \in dropped \/ ~Exists(x.user) THEN {} ELSE {x.user}
=============================================================================
