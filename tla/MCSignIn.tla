------------------------------ MODULE MCSignIn ------------------------------
(***************************************************************************)
(* Third-party sign-in for TLC: the OAuth states, the accounts the         *)
(* callbacks reach, and the keys of Apple's tokens. A behaviour exercises  *)
(* one part, chosen at the start.                                          *)
(***************************************************************************)
EXTENDS OAuthFlow, TLC

CONSTANTS
    apple, s1, s2, e1, e2,
    Kids, Fresh, Leeway, Latency, LastTime     \* of AppleKeys

VARIABLES
    part,
    clock, published, withdrawn, cache, req

keys == <<clock, published, withdrawn, cache, req>>

AnyEmail == [s \in Subjects |-> Emails]

\* Tokens that expire and stores that fill up; accounts are created elsewhere.
States == INSTANCE OAuthFlow WITH
    Subjects <- {s1}, EmailsOf <- (s1 :> {e1}), MaxUsers <- 0

\* Two subjects with one address.
Shared == INSTANCE OAuthFlow WITH
    EmailsOf <- (s1 :> {e1} @@ s2 :> {e1}), MaxTime <- 0, MaxStates <- 1

\* A subject whose address changes.
Changed == INSTANCE OAuthFlow WITH
    Providers <- {apple}, Subjects <- {s1}, EmailsOf <- (s1 :> {e1, e2}),
    MaxTime <- 0, MaxStates <- 1

Apple == INSTANCE AppleKeys WITH
    Requests <- Callbacks, MaxTime <- LastTime, now <- clock

ASSUME SignInAssumption == Apple!AppleAssumption

PartInit ==
    /\ part \in {"states", "shared", "changed", "apple"}
    /\ Init
    /\ Apple!Init /\ (part # "apple" => published = {})

PartNext ==
    \/ part = "states" /\ States!Next /\ UNCHANGED <<part, keys>>
    \/ part = "shared" /\ Shared!Next /\ UNCHANGED <<part, keys>>
    \/ part = "changed" /\ Changed!Next /\ UNCHANGED <<part, keys>>
    \/ part = "apple" /\ Apple!Next /\ UNCHANGED <<part, vars>>

PartSpec == PartInit /\ [][PartNext]_<<part, vars, keys>>

\* Callbacks are also the sign-ins that fetch Apple's keys.
Perms == Permutations(Callbacks) \union Permutations(Projects)
-----------------------------------------------------------------------------
(* The bounded store gives a state to one callback only, and an account       *)
(* belongs to the subject that signs in to it. For each of its addresses a    *)
(* subject has one account at most.                                           *)
SignInsAreSeparate ==
    TypeOK /\ StateUsedOnce /\ WithinCapacity /\ SubjectOwnsAccount /\ OneAccountPerSubject

(* A state under way is consumed only by a callback of its own client, and a  *)
(* subject with two accounts is signed in to neither.                         *)
CallbacksKeepToTheirOwn == OnlyItsCallbackConsumes /\ AmbiguousIsRefused

(* A key Apple withdrew is honoured for the cache's hour, plus the time an    *)
(* answer from before the withdrawal is under way (to which the code sets no  *)
(* limit), a token that expires while its key is fetched is refused, and a    *)
(* published key is found, unless another sign-in's older answer came last.   *)
AppleKeysAreCurrent ==
    Apple!WithdrawnKeyExpires /\ Apple!ExpiredIsRefused /\ Apple!PublishedIsFound
=============================================================================
