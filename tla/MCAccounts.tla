----------------------------- MODULE MCAccounts -----------------------------
(***************************************************************************)
(* The accounts of end users for TLC: credentials and key-value data,      *)
(* email verification, tokens and API keys. A behaviour exercises one      *)
(* part, chosen at the start.                                              *)
(***************************************************************************)
EXTENDS Credentials, TLC

CONSTANTS
    r1, k1, u1, u2, p1, p2, c1,
    Addressees, MaxSent,                                       \* of EmailVerification
    Holders, Tenants, TenantOf, Labels, MaxMinted, MaxGenerated, MaxReplaced   \* of UserAccess

VARIABLES
    part,
    accounts, rows, inserted, federated, proven, told, crossed, asked,
    credential, secrets, minted, keys, generated, shown, dropped, door, entered

email == <<accounts, rows, inserted, federated, proven, told, crossed, asked>>
access == <<credential, secrets, minted, keys, generated, shown, dropped, door, entered>>

\* Two requests on one key, and longer histories of single requests on two keys.
Racing == INSTANCE Credentials WITH Keys <- {k1}, MaxVerifier <- 3
Long == INSTANCE Credentials WITH Requests <- {r1}

Email == INSTANCE EmailVerification WITH Users <- Addressees, MaxRows <- MaxSent, req <- asked

OwnProject == u1 :> p1 @@ u2 :> p2

\* Many tokens of one account, and many API keys of two.
Access == INSTANCE UserAccess WITH
    Users <- Holders, Projects <- Tenants, ProjectOf <- TenantOf, Names <- Labels,
    MaxTokens <- MaxMinted, MaxKeys <- MaxGenerated, MaxChanges <- MaxReplaced,
    tokens <- minted, req <- door
Tokens == INSTANCE UserAccess WITH
    Users <- {u1}, Projects <- Tenants, ProjectOf <- (u1 :> p1), Names <- {c1},
    MaxTokens <- MaxMinted, MaxKeys <- 0, MaxChanges <- MaxReplaced, tokens <- minted, req <- door
ApiKeys == INSTANCE UserAccess WITH
    Users <- Holders, Projects <- Tenants, ProjectOf <- TenantOf, Names <- Labels,
    MaxTokens <- 0, MaxKeys <- MaxGenerated, MaxChanges <- 0, tokens <- minted, req <- door

ASSUME AccountsAssumption == Email!VerificationAssumption /\ Access!AccessAssumption

PartInit ==
    /\ part \in {"racing", "long", "email", "tokens", "api keys"}
    /\ Init /\ (part \notin {"racing", "long"} => user.st = "absent")
    /\ Email!Init /\ Access!Init

PartNext ==
    \/ part = "racing" /\ Racing!Next /\ UNCHANGED <<part, email, access>>
    \/ part = "long" /\ Long!Next /\ UNCHANGED <<part, email, access>>
    \/ part = "email" /\ Email!Next /\ UNCHANGED <<part, vars, access>>
    \/ part = "tokens" /\ Tokens!Next /\ UNCHANGED <<part, vars, email>>
    \/ part = "api keys" /\ ApiKeys!Next /\ UNCHANGED <<part, vars, email>>

PartSpec == PartInit /\ [][PartNext]_<<part, vars, email, access>>

\* Codes also stand for the users of the email part and for the names of keys.
Perms == Permutations(Requests) \union Permutations(Codes)
-----------------------------------------------------------------------------
(* The rows of an account agree with it. A deleted account leaves none behind, *)
(* whatever was in flight. Every key-value row can be read with the seed the   *)
(* account has, but those of puts that a destructive reset outran. An address  *)
(* is verified by an OAuth sign-in or by a code that came back in time, and    *)
(* reported as verified it stays so, unless requests of its user overlapped.   *)
AccountRowsAgree ==
    /\ TypeOK /\ DeletedIsGone /\ DataIsReadable
    /\ Email!VerifiedForAReason /\ Email!ToldIsVerified /\ Email!FederatedIsVerified

(* A token opens only the door it was made for, and nothing once its          *)
(* credential was replaced, nor does one refreshed from it; an API key opens  *)
(* its account until it is deleted, and nothing afterwards.                   *)
OnlyLiveCredentialsOpen ==
    /\ Access!TypeOK /\ Access!KeyLivesUntilDeleted
    /\ Access!DoorsAreSeparate /\ Access!ReplacedCredentialIsRefused
=============================================================================
