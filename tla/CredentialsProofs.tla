--------------------------- MODULE CredentialsProofs ---------------------------
(*****************************************************************************)
(* What Credentials promises, for any number of overlapping requests, reset  *)
(* codes, keys and verifiers; the same for tokens and API keys, and for the  *)
(* verification of addresses.                                                *)
(*                                                                           *)
(* That wrappings match credentials is not inductive alone: a password       *)
(* change wraps a seed it unwrapped some awaits earlier. It is safe because  *)
(* the change commits only over the verifier the request read before that,   *)
(* and whatever replaces the seed replaces the verifier by one that nobody   *)
(* has read (SwapHoldsSeed). That a reset destroys only the seed its code    *)
(* was issued for needs that a reset spends every open code                  *)
(* (OpenCodesAreCurrent), and that nothing is left of a deleted account      *)
(* needs that nothing is there before the row is (NoRowNothing).             *)
(*                                                                           *)
(* A token is checked in two halves; the second finds the credential of the  *)
(* first or a later one, because credentials are only replaced by later ones *)
(* (AccessInv). An address is verified by a provider or by a code that was   *)
(* shown in time, because the row with that id is the user's or gone         *)
(* (MailInv); a user whose requests for codes met no other one of theirs has *)
(* one row at most, and a request that is about to write it finds it as it   *)
(* was read (Uncrossed). A key-value row is stored under the seed in force,  *)
(* or under one that a reset replaced while the put was on its way           *)
(* (KeyIsCurrent).                                                           *)
(*****************************************************************************)
EXTENDS MCAccounts, TLAPS

\* Without a users row there is nothing that references it.
NoRowNothing == user.st # "present" => wraps = {} /\ data = {} /\ ~linked

\* A code that can still be confirmed was issued for the seed in force.
OpenCodesAreCurrent ==
    \A c \in Codes : resets[c] = "open" => user.st = "present" /\ issuedFor[c] = seed

\* What a request remembers: verifiers that were stored, a seed where it is
\* about to use one, and the latest seed if its verifier still is the latest.
SwapHoldsSeed ==
    \A r \in Requests :
        /\ loc[r].pw <= verifier
        /\ pc[r] \in {"change", "rewrap", "swap"} => loc[r].pw # NoPassword
        /\ pc[r] \in {"put", "swap"} => loc[r].seed \in 1 .. seed
        /\ pc[r] = "swap" /\ user.pw = loc[r].pw => loc[r].seed = seed

\* The inductive invariant.
CredInv ==
    TypeOK /\ NoRowNothing /\ WrapsMatchCredentials /\ OpenCodesAreCurrent /\ SwapHoldsSeed

LocType == [ctx : Contexts, pw : Nat, cur : Nat, seed : Nat, code : SUBSET Codes]
-----------------------------------------------------------------------------
(* Contexts are what tokens carry.                                              *)
LEMMA ContextTypes ==
    OAuthContext \in Contexts /\ \A v \in Nat : PasswordContext(v) \in Contexts
BY DEF OAuthContext, PasswordContext, Contexts

(* A request that has answered remembers nothing.                               *)
LEMMA FreshType == Fresh \in LocType /\ Fresh.pw = NoPassword
BY ContextTypes DEF Fresh, LocType, NoPassword

(* Every wrapping that exists holds the latest seed.                            *)
LEMMA WrapsHoldSeed ==
    ASSUME CredInv, NEW w \in wraps
    PROVE  w.seed = seed /\ seed \in 1 .. seed
<1>1. user.st = "present"
  BY DEF CredInv, NoRowNothing
<1>2. w.seed = seed
  BY <1>1 DEF CredInv, WrapsMatchCredentials, Wrap
<1>3. w.seed \in 1 .. seed
  BY DEF CredInv, TypeOK
<1> QED BY <1>2, <1>3

(* Steps that change neither the account nor its codes: what they keep of the   *)
(* invariant besides what each request remembers.                               *)
LEMMA QuietStep ==
    ASSUME CredInv, UNCHANGED <<user, wraps, linked, data, verifier, seed, resets, issuedFor>>
    PROVE  NoRowNothing' /\ WrapsMatchCredentials' /\ OpenCodesAreCurrent'
BY DEF CredInv, NoRowNothing, WrapsMatchCredentials, OpenCodesAreCurrent

(* What one request remembers changes; the others are left alone, and it keeps  *)
(* to SwapHoldsSeed.                                                            *)
LEMMA OneRequest ==
    ASSUME CredInv, UNCHANGED <<user, verifier, seed>>,
           NEW r \in Requests, NEW p \in PcStates, NEW q \in LocType,
           pc' = [pc EXCEPT ![r] = p], loc' = [loc EXCEPT ![r] = q],
           q.pw <= verifier,
           p \in {"change", "rewrap", "swap"} => q.pw # NoPassword,
           p \in {"put", "swap"} => q.seed \in 1 .. seed,
           p = "swap" /\ user.pw = q.pw => q.seed = seed
    PROVE  /\ SwapHoldsSeed'
           /\ pc' \in [Requests -> PcStates] /\ loc' \in [Requests -> LocType]
<1>1. pc' \in [Requests -> PcStates] /\ loc' \in [Requests -> LocType]
  BY DEF CredInv, TypeOK, LocType
<1>2. \A s \in Requests : pc'[s] = (IF s = r THEN p ELSE pc[s]) /\ loc'[s] = (IF s = r THEN q ELSE loc[s])
  BY DEF CredInv, TypeOK
<1>3. SwapHoldsSeed'
  BY <1>2 DEF CredInv, SwapHoldsSeed
<1> QED BY <1>1, <1>3

(* Answering is always within that.                                             *)
LEMMA AnswerKeeps ==
    ASSUME CredInv, UNCHANGED <<user, verifier, seed>>, NEW r \in Requests, Answer(r)
    PROVE  /\ SwapHoldsSeed'
           /\ pc' \in [Requests -> PcStates] /\ loc' \in [Requests -> LocType]
<1>1. "idle" \in PcStates /\ Fresh \in LocType /\ Fresh.pw <= verifier
  BY FreshType DEF PcStates, CredInv, TypeOK, NoPassword
<1> QED BY <1>1, OneRequest DEF Answer, Goto

(* A quiet step of one request keeps the invariant.                             *)
LEMMA QuietRequest ==
    ASSUME CredInv, UNCHANGED <<account, resets, issuedFor>>,
           tokens' \subseteq Contexts, deletion' \in {"none", "open", "expired", "done"},
           NEW r \in Requests, NEW p \in PcStates, NEW q \in LocType,
           pc' = [pc EXCEPT ![r] = p], loc' = [loc EXCEPT ![r] = q],
           q.pw <= verifier,
           p \in {"change", "rewrap", "swap"} => q.pw # NoPassword,
           p \in {"put", "swap"} => q.seed \in 1 .. seed,
           p = "swap" /\ user.pw = q.pw => q.seed = seed
    PROVE  CredInv'
<1>1. UNCHANGED <<user, wraps, linked, data, verifier, seed, outrun, resets, issuedFor>>
  BY DEF account
<1>2. SwapHoldsSeed' /\ pc' \in [Requests -> PcStates] /\ loc' \in [Requests -> LocType]
  BY <1>1, OneRequest
<1>3. TypeOK'
  BY <1>1, <1>2 DEF CredInv, TypeOK, LocType
<1> QED BY <1>1, <1>2, <1>3, QuietStep DEF CredInv

(* So does one that ends a request without touching the account.                *)
LEMMA QuietAnswer ==
    ASSUME CredInv, UNCHANGED <<account, resets, issuedFor>>,
           tokens' \subseteq Contexts, deletion' \in {"none", "open", "expired", "done"},
           NEW r \in Requests, Answer(r)
    PROVE  CredInv'
<1>1. UNCHANGED <<user, wraps, linked, data, verifier, seed, outrun, resets, issuedFor>>
  BY DEF account
<1>2. SwapHoldsSeed' /\ pc' \in [Requests -> PcStates] /\ loc' \in [Requests -> LocType]
  BY <1>1, AnswerKeeps
<1>3. TypeOK'
  BY <1>1, <1>2 DEF CredInv, TypeOK, LocType
<1> QED BY <1>1, <1>2, <1>3, QuietStep DEF CredInv

(* What the invariant says of one request.                                      *)
LEMMA RequestFacts ==
    ASSUME CredInv, NEW r \in Requests
    PROVE  /\ loc[r] \in LocType /\ pc[r] \in PcStates /\ loc[r].pw <= verifier
           /\ loc' = loc => loc' = [loc EXCEPT ![r] = loc[r]]
           /\ user.pw \in Nat /\ user.pw <= verifier /\ verifier \in Nat
           /\ tokens \subseteq Contexts /\ deletion \in {"none", "open", "expired", "done"}
BY DEF CredInv, TypeOK, LocType, SwapHoldsSeed
-----------------------------------------------------------------------------
(* Logins and the JWT middleware read the account and change nothing of it.     *)
LEMMA SessionPreserves ==
    ASSUME CredInv, NEW r \in Requests, Session(r)
    PROVE  CredInv'
<1> USE RequestFacts, ContextTypes
<1>1. CASE LoginRead(r)
  <2> DEFINE q == [loc[r] EXCEPT !.ctx = PasswordContext(user.pw)]
  <2>1. q \in LocType /\ q.pw = loc[r].pw
    BY DEF LocType
  <2>2. /\ pc' = [pc EXCEPT ![r] = "login"] /\ loc' = [loc EXCEPT ![r] = q]
        /\ UNCHANGED <<account, resets, issuedFor, tokens, deletion>>
    BY <1>1 DEF LoginRead, Goto
  <2> HIDE DEF q
  <2> QED BY <2>1, <2>2, QuietRequest DEF PcStates
<1>2. CASE OAuthRead(r)
  <2> DEFINE q == [loc[r] EXCEPT !.ctx = OAuthContext]
  <2>1. q \in LocType /\ q.pw = loc[r].pw
    BY DEF LocType
  <2>2. /\ pc' = [pc EXCEPT ![r] = "oauth"] /\ loc' = [loc EXCEPT ![r] = q]
        /\ UNCHANGED <<account, resets, issuedFor, tokens, deletion>>
    BY <1>2 DEF OAuthRead, Goto
  <2> HIDE DEF q
  <2> QED BY <2>1, <2>2, QuietRequest DEF PcStates
<1>3. CASE LoginFinish(r)
  <2>1. tokens' \subseteq Contexts
    BY <1>3 DEF LoginFinish, LocType
  <2> QED BY <1>3, <2>1, QuietAnswer DEF LoginFinish
<1>4. ASSUME NEW c \in tokens, JwtRead(r, c) PROVE CredInv'
  <2> DEFINE q == [loc[r] EXCEPT !.ctx = c, !.pw = user.pw]
  <2>1. q \in LocType /\ q.pw = user.pw
    BY DEF LocType
  <2>2. /\ pc' = [pc EXCEPT ![r] = "jwt"] /\ loc' = [loc EXCEPT ![r] = q]
        /\ UNCHANGED <<account, resets, issuedFor, tokens, deletion>>
    BY <1>4 DEF JwtRead, Goto
  <2> HIDE DEF q
  <2> QED BY <2>1, <2>2, QuietRequest DEF PcStates
<1>5. CASE JwtVerify(r)
  <2>1. CASE Opened(loc[r].ctx) # {}
    BY <1>5, <2>1, QuietRequest DEF JwtVerify, Goto, PcStates
  <2>2. CASE Opened(loc[r].ctx) = {}
    BY <1>5, <2>2, QuietAnswer DEF JwtVerify
  <2> QED BY <2>1, <2>2
<1>6. CASE Abandon(r)
  BY <1>6, QuietAnswer DEF Abandon
<1> QED BY <1>1, <1>2, <1>3, <1>4, <1>5, <1>6 DEF Session

(* The key-value store: a row is stored only while its user is, under a seed    *)
(* that was unwrapped before.                                                   *)
LEMMA KeyValuePreserves ==
    ASSUME CredInv, NEW r \in Requests, KeyValue(r)
    PROVE  CredInv'
<1> USE RequestFacts
<1>1. ASSUME NEW op \in {"put", "delete"}, DeriveKey(r, op) PROVE CredInv'
  <2>1. CASE Opened(loc[r].ctx) = {}
    BY <1>1, <2>1, QuietAnswer DEF DeriveKey
  <2>2. CASE Opened(loc[r].ctx) # {}
    <3>1. PICK w \in Opened(loc[r].ctx) : Goto(r, op) /\ loc' = [loc EXCEPT ![r].seed = w.seed]
      BY <1>1, <2>2 DEF DeriveKey
    <3>2. w.seed = seed /\ seed \in 1 .. seed
      BY WrapsHoldSeed DEF Opened
    <3> DEFINE q == [loc[r] EXCEPT !.seed = w.seed]
    <3>3. q \in LocType /\ q.pw = loc[r].pw /\ q.seed = seed
      BY <3>2 DEF LocType, CredInv, TypeOK
    <3>4. /\ pc' = [pc EXCEPT ![r] = op] /\ loc' = [loc EXCEPT ![r] = q]
          /\ UNCHANGED <<account, resets, issuedFor, tokens, deletion>>
      BY <1>1, <3>1 DEF DeriveKey, Goto
    <3>5. op \in PcStates /\ op \notin {"change", "rewrap", "swap"} /\ q.pw <= verifier
      BY <3>3 DEF PcStates
    <3> HIDE DEF q
    <3> QED BY <3>2, <3>3, <3>4, <3>5, QuietRequest
  <2> QED BY <2>1, <2>2
<1>2. ASSUME Answer(r), data' \subseteq Keys \X (1 .. seed), user.st # "present" => data' \subseteq data,
             UNCHANGED <<user, wraps, linked, verifier, seed, outrun, resets, issuedFor, deletion, tokens>>
      PROVE  CredInv'
  <2>1. SwapHoldsSeed' /\ pc' \in [Requests -> PcStates] /\ loc' \in [Requests -> LocType]
    BY <1>2, AnswerKeeps
  <2>2. TypeOK'
    BY <1>2, <2>1 DEF CredInv, TypeOK, LocType
  <2>3. NoRowNothing' /\ WrapsMatchCredentials' /\ OpenCodesAreCurrent'
    BY <1>2 DEF CredInv, NoRowNothing, WrapsMatchCredentials, OpenCodesAreCurrent
  <2> QED BY <2>1, <2>2, <2>3 DEF CredInv
<1>3. CASE KvDeleteAll(r)
  BY <1>2, <1>3 DEF KvDeleteAll
<1>4. ASSUME NEW k \in Keys, KvPut(r, k) PROVE CredInv'
  <2>1. loc[r].seed \in 1 .. seed
    BY <1>4 DEF KvPut, CredInv, SwapHoldsSeed
  <2>2. data' \subseteq Keys \X (1 .. seed) /\ (user.st # "present" => data' \subseteq data)
    BY <1>4, <2>1 DEF KvPut, CredInv, TypeOK
  <2> QED BY <1>2, <1>4, <2>2 DEF KvPut
<1>5. ASSUME NEW k \in Keys, KvDelete(r, k) PROVE CredInv'
  <2>1. data' \subseteq data /\ data \subseteq Keys \X (1 .. seed)
    BY <1>5 DEF KvDelete, CredInv, TypeOK
  <2> QED BY <1>2, <1>5, <2>1 DEF KvDelete
<1> QED BY <1>1, <1>3, <1>4, <1>5 DEF KeyValue

\* The contexts a linked provider gives, and the wrappings that a verifier,
\* such contexts and a seed call for.
Links(l) == IF l THEN {OAuthContext} ELSE {}
Due(v, O, s) == { Wrap(c, s) : c \in (IF v # NoPassword THEN {PasswordContext(v)} ELSE {}) \union O }

(* A member of the due wrappings is one of the two kinds.                       *)
LEMMA DueMembers ==
    ASSUME NEW v, NEW O, NEW s
    PROVE  \A w : w \in Due(v, O, s) <=> \/ v # NoPassword /\ w = Wrap(PasswordContext(v), s)
                                        \/ \E c \in O : w = Wrap(c, s)
BY DEF Due

(* Replacing the password wrapping by one of the same seed under another        *)
(* verifier leaves exactly the due wrappings.                                   *)
LEMMA SwapDue ==
    ASSUME NEW v, NEW x, x # NoPassword, NEW O, O \subseteq {OAuthContext}, NEW s
    PROVE  {w \in Due(v, O, s) : w.kind # "password"} \union {Wrap(PasswordContext(x), s)} = Due(x, O, s)
<1>1. /\ Wrap(PasswordContext(v), s).kind = "password"
      /\ \A c \in O : Wrap(c, s).kind # "password"
  BY DEF Wrap, PasswordContext, OAuthContext
<1>2. \A w : w \in {z \in Due(v, O, s) : z.kind # "password"} \union {Wrap(PasswordContext(x), s)}
             <=> w \in Due(x, O, s)
  BY <1>1, DueMembers
<1> QED BY <1>2

(* The invariant in these terms.                                                *)
LEMMA WrapsAreDue ==
    WrapsMatchCredentials <=> (user.st = "present" => wraps = Due(user.pw, Links(linked), seed))
BY DEF WrapsMatchCredentials, Due, Links

(* register_user, and the first sign-in with a provider.                        *)
LEMMA RegisterPreserves ==
    ASSUME CredInv, NEW r \in Requests, NEW mail \in BOOLEAN, NEW oauth \in BOOLEAN,
           Register(r, mail, oauth)
    PROVE  CredInv'
<1> USE RequestFacts
<1>1. /\ user.st = "absent" /\ seed' = seed + 1
      /\ verifier' = (IF oauth THEN verifier ELSE verifier + 1)
      /\ user' = [st |-> "present", email |-> mail, pw |-> IF oauth THEN NoPassword ELSE verifier + 1]
      /\ wraps' = {Wrap(IF oauth THEN OAuthContext ELSE PasswordContext(verifier + 1), seed + 1)}
      /\ linked' = oauth
      /\ pc' = [pc EXCEPT ![r] = IF oauth THEN "oauth" ELSE "registered"]
      /\ UNCHANGED <<data, outrun, resets, issuedFor, deletion, tokens, loc>>
  BY DEF Register, Goto
<1>2. verifier \in Nat /\ seed \in Nat /\ verifier + 1 # NoPassword
  BY DEF CredInv, TypeOK, NoPassword
<1>3. TypeOK'
  <2>1. user' \in [st : {"absent", "present", "deleted"}, email : BOOLEAN, pw : 0 .. verifier']
    BY <1>1, <1>2 DEF NoPassword
  <2>2. wraps' \subseteq [kind : {"password", "oauth"}, cred : 0 .. verifier', seed : 1 .. seed']
    BY <1>1, <1>2 DEF Wrap, OAuthContext, PasswordContext
  <2>3. data' \subseteq Keys \X (1 .. seed') /\ pc' \in [Requests -> PcStates]
    BY <1>1, <1>2 DEF CredInv, TypeOK, NoRowNothing, PcStates
  <2> QED BY <1>1, <1>2, <2>1, <2>2, <2>3 DEF CredInv, TypeOK
<1>4. NoRowNothing' /\ OpenCodesAreCurrent'
  BY <1>1 DEF CredInv, NoRowNothing, OpenCodesAreCurrent
<1>5. WrapsMatchCredentials'
  <2>1. CASE oauth
    <3>1. wraps' = {Wrap(OAuthContext, seed + 1)} /\ user'.pw = NoPassword /\ Links(linked') = {OAuthContext}
      BY <1>1, <2>1 DEF Links
    <3>2. \A w : w \in Due(NoPassword, {OAuthContext}, seed + 1) <=> w = Wrap(OAuthContext, seed + 1)
      BY DueMembers
    <3>3. wraps' = Due(user'.pw, Links(linked'), seed')
      BY <1>1, <3>1, <3>2
    <3> QED BY <3>3 DEF Due, Links, WrapsMatchCredentials
  <2>2. CASE ~oauth
    <3>1. /\ wraps' = {Wrap(PasswordContext(verifier + 1), seed + 1)} /\ user'.pw = verifier + 1
          /\ Links(linked') = {}
      BY <1>1, <2>2 DEF Links
    <3>2. \A w : w \in Due(verifier + 1, {}, seed + 1) <=> w = Wrap(PasswordContext(verifier + 1), seed + 1)
      BY <1>2, DueMembers
    <3>3. wraps' = Due(user'.pw, Links(linked'), seed')
      BY <1>1, <3>1, <3>2
    <3> QED BY <3>3 DEF Due, Links, WrapsMatchCredentials
  <2> QED BY <2>1, <2>2
<1>6. SwapHoldsSeed'
  <2>1. \A q \in Requests : loc[q].pw # NoPassword => user'.pw # loc[q].pw
    BY <1>1, <1>2 DEF CredInv, SwapHoldsSeed, TypeOK
  <2>2. \A q \in Requests : pc'[q] = (IF q = r THEN (IF oauth THEN "oauth" ELSE "registered") ELSE pc[q])
    BY <1>1 DEF CredInv, TypeOK
  <2>3. \A q \in Requests : loc[q].pw <= verifier'
    BY <1>1, <1>2 DEF CredInv, SwapHoldsSeed, TypeOK
  <2> QED BY <1>1, <1>2, <2>1, <2>2, <2>3 DEF CredInv, SwapHoldsSeed
<1> QED BY <1>3, <1>4, <1>5, <1>6 DEF CredInv

(* change_password: the compare-and-swap on the verifier makes sure that the    *)
(* seed unwrapped earlier is the latest one.                                    *)
LEMMA ChangePreserves ==
    ASSUME CredInv, NEW r \in Requests, Change(r)
    PROVE  CredInv'
<1> USE RequestFacts, ContextTypes
<1>1. CASE ChangeRead(r)
  <2>1. CASE user.st = "present" /\ user.pw # NoPassword
    <3> DEFINE q == [loc[r] EXCEPT !.cur = user.pw]
    <3>1. q \in LocType /\ q.pw = loc[r].pw
      BY DEF LocType
    <3>2. /\ pc' = [pc EXCEPT ![r] = "change"] /\ loc' = [loc EXCEPT ![r] = q]
          /\ loc[r].pw # NoPassword /\ UNCHANGED <<account, resets, issuedFor, tokens, deletion>>
      BY <1>1, <2>1 DEF ChangeRead, Goto
    <3> HIDE DEF q
    <3> QED BY <3>1, <3>2, QuietRequest DEF PcStates
  <2>2. CASE ~(user.st = "present" /\ user.pw # NoPassword)
    BY <1>1, <2>2, QuietAnswer DEF ChangeRead
  <2> QED BY <2>1, <2>2
<1>2. CASE ChangeVerify(r)
  <2>1. CASE Opened(PasswordContext(loc[r].cur)) # {}
    <3>1. loc[r].pw # NoPassword
      BY <1>2 DEF ChangeVerify, CredInv, SwapHoldsSeed
    <3> QED BY <1>2, <2>1, <3>1, QuietRequest DEF ChangeVerify, Goto, PcStates
  <2>2. CASE Opened(PasswordContext(loc[r].cur)) = {}
    BY <1>2, <2>2, QuietAnswer DEF ChangeVerify
  <2> QED BY <2>1, <2>2
<1>3. CASE ChangeUnwrap(r)
  <2>1. CASE Opened(loc[r].ctx) = {}
    BY <1>3, <2>1, QuietAnswer DEF ChangeUnwrap
  <2>2. CASE Opened(loc[r].ctx) # {}
    <3>1. PICK w \in Opened(loc[r].ctx) : Goto(r, "swap") /\ loc' = [loc EXCEPT ![r].seed = w.seed]
      BY <1>3, <2>2 DEF ChangeUnwrap
    <3>2. w.seed = seed /\ seed \in 1 .. seed /\ loc[r].pw # NoPassword
      BY <1>3, WrapsHoldSeed DEF Opened, ChangeUnwrap, CredInv, SwapHoldsSeed
    <3> DEFINE q == [loc[r] EXCEPT !.seed = w.seed]
    <3>3. q \in LocType /\ q.pw = loc[r].pw /\ q.seed = seed
      BY <3>2 DEF LocType, CredInv, TypeOK
    <3>4. /\ pc' = [pc EXCEPT ![r] = "swap"] /\ loc' = [loc EXCEPT ![r] = q]
          /\ UNCHANGED <<account, resets, issuedFor, tokens, deletion>>
      BY <1>3, <3>1 DEF ChangeUnwrap, Goto
    <3>5. "swap" \in PcStates /\ q.pw # NoPassword /\ q.pw <= verifier /\ q.seed \in 1 .. seed
      BY <3>2, <3>3 DEF PcStates
    <3> HIDE DEF q
    <3> QED BY <3>3, <3>4, <3>5, QuietRequest
  <2> QED BY <2>1, <2>2
<1>4. CASE ChangeCommit(r)
  <2>1. CASE ~ExpectedPassword(r)
    BY <1>4, <2>1, QuietAnswer DEF ChangeCommit, account
  <2>2. CASE ExpectedPassword(r)
    <3> DEFINE v == verifier + 1
               q == [loc[r] EXCEPT !.cur = v]
    <3>1. /\ pc[r] = "swap" /\ user.st = "present" /\ user.pw = loc[r].pw
          /\ verifier' = v /\ user' = [user EXCEPT !.pw = v]
          /\ wraps' = WithoutPasswordWraps \union {Wrap(PasswordContext(v), loc[r].seed)}
          /\ pc' = [pc EXCEPT ![r] = "reissue"] /\ loc' = [loc EXCEPT ![r] = q]
          /\ UNCHANGED <<linked, data, seed, outrun, resets, issuedFor, deletion, tokens>>
      BY <1>4, <2>2 DEF ChangeCommit, ExpectedPassword, Goto
    <3>2. loc[r].seed = seed /\ seed \in 1 .. seed
      BY <3>1 DEF CredInv, SwapHoldsSeed
    <3>3. v \in Nat /\ v # NoPassword /\ q \in LocType /\ q.pw = loc[r].pw /\ verifier < v
      BY DEF LocType, NoPassword
    <3>4. user'.st = "present" /\ user'.pw = v
      BY <3>1 DEF CredInv, TypeOK
    <3>5. TypeOK'
      <4>1. user' \in [st : {"absent", "present", "deleted"}, email : BOOLEAN, pw : 0 .. verifier']
        BY <3>1, <3>3 DEF CredInv, TypeOK
      <4>2. wraps' \subseteq [kind : {"password", "oauth"}, cred : 0 .. verifier', seed : 1 .. seed']
        BY <3>1, <3>2, <3>3 DEF CredInv, TypeOK, Wrap, PasswordContext, WithoutPasswordWraps
      <4>3. pc' \in [Requests -> PcStates] /\ loc' \in [Requests -> LocType]
        BY <3>1, <3>3 DEF CredInv, TypeOK, PcStates, LocType
      <4> QED BY <3>1, <3>3, <4>1, <4>2, <4>3 DEF CredInv, TypeOK, LocType
    <3>6. WrapsMatchCredentials'
      <4>1. wraps = Due(user.pw, Links(linked), seed)
        BY <3>1, WrapsAreDue DEF CredInv
      <4>2. Links(linked) \subseteq {OAuthContext}
        BY DEF Links
      <4>3. wraps' = Due(v, Links(linked), seed)
        BY <3>1, <3>2, <3>3, <4>1, <4>2, SwapDue DEF WithoutPasswordWraps
      <4> QED BY <3>1, <3>4, <4>3 DEF WrapsMatchCredentials, Due, Links
    <3>7. NoRowNothing' /\ OpenCodesAreCurrent'
      BY <3>1, <3>4 DEF CredInv, NoRowNothing, OpenCodesAreCurrent
    <3>8. SwapHoldsSeed'
      <4>1. \A s \in Requests : pc'[s] = (IF s = r THEN "reissue" ELSE pc[s])
                               /\ loc'[s] = (IF s = r THEN q ELSE loc[s])
        BY <3>1 DEF CredInv, TypeOK
      <4>2. \A s \in Requests : loc'[s].pw <= verifier /\ loc'[s].pw \in Nat
        BY <3>3, <4>1 DEF CredInv, SwapHoldsSeed, TypeOK
      <4>3. \A s \in Requests : loc'[s].pw <= v /\ loc'[s].pw # v
        BY <4>2
      <4> HIDE DEF q, v
      <4> QED BY <3>1, <3>4, <4>1, <4>3 DEF CredInv, SwapHoldsSeed
    <3> QED BY <3>5, <3>6, <3>7, <3>8 DEF CredInv
  <2> QED BY <2>1, <2>2
<1>5. CASE ChangeReissue(r)
  <2>1. tokens' \subseteq Contexts
    BY <1>5 DEF ChangeReissue, LocType
  <2> QED BY <1>5, <2>1, QuietAnswer DEF ChangeReissue
<1> QED BY <1>1, <1>2, <1>3, <1>4, <1>5 DEF Change

(* complete_destructive_password_reset: a new verifier, a new seed, its only    *)
(* wrapping, no link, no data and no open code, in one transaction.             *)
LEMMA ResetPreserves ==
    ASSUME CredInv, NEW r \in Requests, Reset(r)
    PROVE  CredInv'
<1> USE RequestFacts, ContextTypes
<1>1. ASSUME NEW c \in Codes, ResetRead(r, c) PROVE CredInv'
  <2> DEFINE q == [loc[r] EXCEPT !.code = {c}]
  <2>1. q \in LocType /\ q.pw = loc[r].pw
    BY DEF LocType
  <2>2. /\ pc' = [pc EXCEPT ![r] = "reset"] /\ loc' = [loc EXCEPT ![r] = q]
        /\ UNCHANGED <<account, resets, issuedFor, tokens, deletion>>
    BY <1>1 DEF ResetRead, Goto
  <2> HIDE DEF q
  <2> QED BY <2>1, <2>2, QuietRequest DEF PcStates
<1>2. CASE ResetCommit(r)
  <2>1. PICK c \in loc[r].code :
          IF user.st = "present" /\ Consumable(c)
          THEN /\ resets' = [d \in Codes |-> IF resets[d] \in {"open", "expired"} THEN "used" ELSE resets[d]]
               /\ verifier' = verifier + 1 /\ seed' = seed + 1
               /\ wraps' = {Wrap(PasswordContext(verifier + 1), seed + 1)}
               /\ linked' = FALSE /\ data' = {}
               /\ outrun' = outrun \union { loc[s].seed : s \in { q \in Requests : pc[q] = "put" } }
               /\ user' = [user EXCEPT !.pw = verifier + 1]
          ELSE UNCHANGED <<account, resets>>
    BY <1>2 DEF ResetCommit, KvAfterReset
  <2>2. Answer(r) /\ UNCHANGED <<issuedFor, deletion, tokens>>
    BY <1>2 DEF ResetCommit
  <2>3. CASE ~(user.st = "present" /\ Consumable(c))
    <3>1. UNCHANGED <<account, resets>>
      BY <2>1, <2>3
    <3> QED BY <2>2, <3>1, QuietAnswer
  <2>4. CASE user.st = "present" /\ Consumable(c)
    <3> DEFINE v == verifier + 1
               z == seed + 1
    <3>1. /\ resets' = [d \in Codes |-> IF resets[d] \in {"open", "expired"} THEN "used" ELSE resets[d]]
          /\ verifier' = v /\ seed' = z
          /\ wraps' = {Wrap(PasswordContext(v), z)}
          /\ linked' = FALSE /\ data' = {} /\ outrun' \subseteq Nat
          /\ user' = [user EXCEPT !.pw = v]
      <4>1. outrun' \subseteq Nat
        BY <2>1, <2>4 DEF CredInv, TypeOK
      <4> QED BY <2>1, <2>4, <4>1
    <3>2. v \in Nat /\ v # NoPassword /\ verifier < v /\ z \in Nat /\ z \in 1 .. z /\ seed < z /\ seed \in Nat
      BY DEF NoPassword, CredInv, TypeOK
    <3> HIDE DEF v, z
    <3>3. user'.st = "present" /\ user'.pw = v
      BY <2>4, <3>1 DEF CredInv, TypeOK
    <3>4. /\ pc' = [pc EXCEPT ![r] = "idle"] /\ loc' = [loc EXCEPT ![r] = Fresh]
          /\ Fresh \in LocType /\ Fresh.pw = NoPassword
      BY <2>2, FreshType DEF Answer, Goto
    <3>5. TypeOK'
      <4>1. user' \in [st : {"absent", "present", "deleted"}, email : BOOLEAN, pw : 0 .. verifier']
        BY <3>1, <3>2 DEF CredInv, TypeOK
      <4>2. wraps' \subseteq [kind : {"password", "oauth"}, cred : 0 .. verifier', seed : 1 .. seed']
        BY <3>1, <3>2 DEF Wrap, PasswordContext
      <4>3. pc' \in [Requests -> PcStates] /\ loc' \in [Requests -> LocType]
        BY <3>4 DEF CredInv, TypeOK, PcStates, LocType
      <4>4. resets' \in [Codes -> {"unused", "open", "expired", "used"}]
        BY <3>1 DEF CredInv, TypeOK
      <4> QED BY <2>2, <3>1, <3>2, <4>1, <4>2, <4>3, <4>4 DEF CredInv, TypeOK, LocType
    <3>6. WrapsMatchCredentials'
      <4>1. \A w : w \in Due(v, {}, z) <=> w = Wrap(PasswordContext(v), z)
        BY <3>2, DueMembers
      <4>2. wraps' = Due(v, Links(linked'), z)
        BY <3>1, <4>1 DEF Links
      <4> QED BY <3>1, <3>3, <4>2 DEF WrapsMatchCredentials, Due, Links
    <3>7. NoRowNothing' /\ OpenCodesAreCurrent'
      BY <3>1, <3>3 DEF CredInv, TypeOK, NoRowNothing, OpenCodesAreCurrent
    <3>8. SwapHoldsSeed'
      <4>1. \A t \in Requests : pc'[t] = (IF t = r THEN "idle" ELSE pc[t])
                               /\ loc'[t] = (IF t = r THEN Fresh ELSE loc[t])
        BY <3>4 DEF CredInv, TypeOK
      <4>2. \A t \in Requests : loc'[t].pw <= v /\ loc'[t].pw # v
        BY <3>2, <3>4, <4>1 DEF CredInv, SwapHoldsSeed, TypeOK, NoPassword
      <4>3. \A t \in Requests : pc'[t] \in {"put", "swap"} => loc'[t].seed \in 1 .. z
        BY <3>2, <4>1 DEF CredInv, SwapHoldsSeed
      <4>4. \A t \in Requests : pc'[t] \in {"change", "rewrap", "swap"} => loc'[t].pw # NoPassword
        BY <4>1 DEF CredInv, SwapHoldsSeed
      <4> QED BY <3>1, <3>3, <4>2, <4>3, <4>4 DEF SwapHoldsSeed
    <3> QED BY <3>5, <3>6, <3>7, <3>8 DEF CredInv
  <2> QED BY <2>3, <2>4
<1> QED BY <1>1, <1>2 DEF Reset

(* mark_and_delete_user takes everything that references the row with it.       *)
LEMMA DeletionPreserves ==
    ASSUME CredInv, NEW r \in Requests, Deletion(r)
    PROVE  CredInv'
<1> USE RequestFacts
<1>1. CASE DeletionRequest(r)
  BY <1>1, QuietAnswer DEF DeletionRequest
<1>2. CASE DeletionRead(r)
  <2>1. CASE user.st = "present" /\ deletion = "open"
    BY <1>2, <2>1, QuietRequest DEF DeletionRead, Goto, PcStates
  <2>2. CASE ~(user.st = "present" /\ deletion = "open")
    BY <1>2, <2>2, QuietAnswer DEF DeletionRead
  <2> QED BY <2>1, <2>2
<1>3. CASE DeletionCommit(r)
  <2>1. /\ deletion' = "done" /\ user' = [user EXCEPT !.st = "deleted", !.pw = NoPassword]
        /\ wraps' = {} /\ linked' = FALSE /\ data' = {} /\ resets' = [c \in Codes |-> "used"]
        /\ UNCHANGED <<verifier, seed, outrun, issuedFor, tokens>>
        /\ pc' = [pc EXCEPT ![r] = "idle"] /\ loc' = [loc EXCEPT ![r] = Fresh]
    BY <1>3 DEF DeletionCommit, Answer, Goto
  <2>2. user'.st = "deleted" /\ user'.pw = NoPassword
    BY <2>1 DEF CredInv, TypeOK
  <2>3. TypeOK'
    <3>1. user' \in [st : {"absent", "present", "deleted"}, email : BOOLEAN, pw : 0 .. verifier']
      <4>1. user \in [st : {"absent", "present", "deleted"}, email : BOOLEAN, pw : 0 .. verifier]
        BY DEF CredInv, TypeOK
      <4>2. NoPassword \in 0 .. verifier /\ verifier' = verifier
        BY <2>1 DEF CredInv, TypeOK, NoPassword
      <4>3. user' = [user EXCEPT !.st = "deleted", !.pw = NoPassword]
        BY <2>1
      <4> QED BY <4>1, <4>2, <4>3
    <3>2. pc' \in [Requests -> PcStates] /\ loc' \in [Requests -> LocType]
      BY <2>1, FreshType DEF CredInv, TypeOK, PcStates, LocType
    <3> QED BY <2>1, <3>1, <3>2 DEF CredInv, TypeOK, LocType
  <2>4. NoRowNothing' /\ WrapsMatchCredentials' /\ OpenCodesAreCurrent'
    BY <2>1, <2>2 DEF NoRowNothing, WrapsMatchCredentials, OpenCodesAreCurrent
  <2>5. SwapHoldsSeed'
    <3>1. \A t \in Requests : pc'[t] = (IF t = r THEN "idle" ELSE pc[t])
                             /\ loc'[t] = (IF t = r THEN Fresh ELSE loc[t])
      BY <2>1 DEF CredInv, TypeOK
    <3>2. \A t \in Requests : loc'[t].pw <= verifier
      BY <3>1, FreshType DEF CredInv, SwapHoldsSeed, TypeOK, NoPassword
    <3> QED BY <2>1, <2>2, <3>1, <3>2 DEF CredInv, SwapHoldsSeed
  <2> QED BY <2>3, <2>4, <2>5 DEF CredInv
<1> QED BY <1>1, <1>2, <1>3 DEF Deletion

(* Codes are issued for the seed in force, and expire with time.                *)
LEMMA CodesPreserve ==
    ASSUME CredInv, \/ \E c \in Codes : ResetRequest(c) \/ ResetExpires(c)
                    \/ DeletionExpires
                    \/ UNCHANGED vars
    PROVE  CredInv'
<1>1. UNCHANGED <<user, wraps, linked, data, verifier, seed, outrun, tokens, pc, loc>>
  BY DEF ResetRequest, ResetExpires, DeletionExpires, vars, account
<1>2. NoRowNothing' /\ WrapsMatchCredentials' /\ SwapHoldsSeed'
  BY <1>1 DEF CredInv, NoRowNothing, WrapsMatchCredentials, SwapHoldsSeed
<1>3. /\ resets' \in [Codes -> {"unused", "open", "expired", "used"}] /\ issuedFor' \in [Codes -> Nat]
      /\ deletion' \in {"none", "open", "expired", "done"}
  BY DEF ResetRequest, ResetExpires, DeletionExpires, vars, CredInv, TypeOK
<1>4. TypeOK'
  BY <1>1, <1>3 DEF CredInv, TypeOK
<1>5. OpenCodesAreCurrent'
  BY <1>1 DEF ResetRequest, ResetExpires, DeletionExpires, vars, CredInv, TypeOK, OpenCodesAreCurrent
<1> QED BY <1>2, <1>4, <1>5 DEF CredInv

(* Both accounts the model starts from satisfy the invariant.                   *)
LEMMA CredInit == Init => CredInv
<1> SUFFICES ASSUME Init PROVE CredInv
  OBVIOUS
<1>1. pc \in [Requests -> PcStates] /\ loc \in [Requests -> LocType]
  BY FreshType DEF Init, PcStates
<1>2. CASE user.st = "absent"
  <2>1. /\ user = [st |-> "absent", email |-> FALSE, pw |-> NoPassword]
        /\ wraps = {} /\ linked = FALSE /\ verifier = 0 /\ seed = 0
    BY <1>2 DEF Init
  <2>2. TypeOK
    <3>1. user \in [st : {"absent", "present", "deleted"}, email : BOOLEAN, pw : 0 .. verifier]
      BY <2>1 DEF NoPassword
    <3>2. /\ data = {} /\ tokens = {} /\ outrun = {} /\ deletion = "none"
          /\ resets = [c \in Codes |-> "unused"] /\ issuedFor = [c \in Codes |-> 0]
      BY DEF Init
    <3> QED BY <1>1, <2>1, <3>1, <3>2 DEF TypeOK, LocType
  <2>3. NoRowNothing /\ WrapsMatchCredentials /\ OpenCodesAreCurrent /\ SwapHoldsSeed
    BY <2>1, FreshType
       DEF Init, NoRowNothing, WrapsMatchCredentials, OpenCodesAreCurrent, SwapHoldsSeed, NoPassword
  <2> QED BY <2>2, <2>3 DEF CredInv
<1>3. CASE user.st = "present"
  <2>1. /\ user = [st |-> "present", email |-> TRUE, pw |-> 1]
        /\ wraps = {Wrap(PasswordContext(1), 1), Wrap(OAuthContext, 1)}
        /\ linked = TRUE /\ verifier = 1 /\ seed = 1
    BY <1>3 DEF Init
  <2>2. TypeOK
    BY <1>1, <2>1 DEF Init, TypeOK, LocType, Wrap, PasswordContext, OAuthContext
  <2>3. WrapsMatchCredentials
    <3>1. \A w : w \in Due(1, {OAuthContext}, 1) <=> w \in wraps
      BY <2>1, DueMembers DEF NoPassword
    <3>2. Links(linked) = {OAuthContext}
      BY <2>1 DEF Links
    <3> QED BY <2>1, <3>1, <3>2, WrapsAreDue
  <2>4. NoRowNothing /\ OpenCodesAreCurrent /\ SwapHoldsSeed
    BY <2>1, FreshType DEF Init, NoRowNothing, OpenCodesAreCurrent, SwapHoldsSeed, NoPassword
  <2> QED BY <2>2, <2>3, <2>4 DEF CredInv
<1> QED BY <1>2, <1>3 DEF Init

(* Every step keeps the inductive invariant.                                    *)
LEMMA CredStep == CredInv /\ [Next]_vars => CredInv'
BY RegisterPreserves, SessionPreserves, KeyValuePreserves, ChangePreserves, ResetPreserves,
   DeletionPreserves, CodesPreserve
   DEF Next

(* Hence every behaviour keeps it.                                             *)
LEMMA CredInvariant == Spec => []CredInv
BY CredInit, CredStep, PTL DEF Spec
-----------------------------------------------------------------------------
(* The variables keep the shape of their tables.                                *)
THEOREM CredentialsTypeSafety == Spec => []TypeOK
<1>1. CredInv => TypeOK
  BY DEF CredInv
<1> QED BY <1>1, CredInvariant, PTL

(* However logins, password changes, destructive resets and deletions overlap,  *)
(* the stored verifier and the linked provider each open exactly one wrapping,  *)
(* and every wrapping holds the latest seed.                                    *)
THEOREM CredentialSafety == Spec => []WrapsMatchCredentials
<1>1. CredInv => WrapsMatchCredentials
  BY DEF CredInv
<1> QED BY <1>1, CredInvariant, PTL

(* Nothing is stored for a deleted account, whatever was in flight.             *)
THEOREM DeletionSafety == Spec => []DeletedIsGone
<1>1. CredInv => DeletedIsGone
  BY DEF CredInv, NoRowNothing, DeletedIsGone
<1> QED BY <1>1, CredInvariant, PTL

(* A reset takes effect only on the strength of a code that is open and was     *)
(* issued for the very seed it destroys.                                        *)
THEOREM ResetSafety == Spec => ResetOnlyIssuedSeed
<1>1. ASSUME CredInv, [Next]_vars, user.st = "present", seed' # seed
      PROVE  \E c \in Codes : resets[c] = "open" /\ issuedFor[c] = seed
  <2>1. PICK r \in Requests : ResetCommit(r)
    BY <1>1 DEF Next, vars, account, Register, Session, LoginRead, OAuthRead, LoginFinish, JwtRead,
           JwtVerify, Abandon, KeyValue, DeriveKey, KvPut, KvDelete, KvDeleteAll, Change, ChangeRead,
           ChangeVerify, ChangeUnwrap, ChangeCommit, ChangeReissue, Reset, ResetRead, Deletion,
           DeletionRequest, DeletionRead, DeletionCommit, ResetRequest, ResetExpires, DeletionExpires
  <2>2. PICK c \in loc[r].code : Consumable(c)
    BY <1>1, <2>1 DEF ResetCommit, account
  <2>3. c \in Codes
    BY <1>1 DEF CredInv, TypeOK
  <2> QED BY <1>1, <2>2, <2>3 DEF Consumable, CredInv, OpenCodesAreCurrent
<1>2. CredInv /\ [Next]_vars =>
        [user.st = "present" /\ seed' # seed =>
           \E c \in Codes : resets[c] = "open" /\ issuedFor[c] = seed]_vars
  BY <1>1
<1> QED BY <1>2, CredInvariant, PTL DEF Spec, ResetOnlyIssuedSeed
-----------------------------------------------------------------------------
(* Tokens and API keys *)

\* A token for one of the doors of the server says so; a third-party token does not.
TokenOk(t) ==
    /\ t.user \in Holders /\ t.aud \in Access!Wanted
    /\ t.aud \in Access!Doors => t.door = t.aud

\* A credential is only ever replaced by a later one or deleted, so one that is
\* there when the wrap is opened is not older than the one that was read.
DoorOk(k) ==
    /\ k.pc \in {"idle", "mint", "unwrap", "insert"}
    /\ k.pc \in {"mint", "insert"} => k.user \in Holders
    /\ k.pc = "unwrap" =>
         /\ TokenOk(k.token) /\ k.door \in Access!Doors /\ k.token.aud = k.door
         /\ k.door \in Access!UserDoors =>
              k.since \in Nat /\ (credential[k.token.user] > 0 => credential[k.token.user] >= k.since)
    /\ k.pc = "insert" =>
         /\ k.name \in Labels /\ k.key \in 1 .. generated
         /\ \A x \in shown : x.key # k.key

DoorsOk ==
    /\ door = [r \in Requests |-> door[r]]
    /\ \A r \in Requests : \A k \in {door[r]} : DoorOk(k)
    /\ \A q, r \in Requests :
         q # r /\ door[q].pc = "insert" /\ door[r].pc = "insert" => door[q].key # door[r].key

\* The rows are the keys that were shown, less the ones that are gone.
KeysOk ==
    /\ shown \subseteq [user : Holders, name : Labels, key : 1 .. generated]
    /\ \A x, y \in shown : x.key = y.key => x = y
    /\ dropped \subseteq shown
    /\ keys = {x \in shown : x \notin dropped /\ credential[x.user] > 0}

EnteredOk ==
    \A e \in entered : /\ e.token.door = e.door
                       /\ e.door \in Access!UserDoors => e.token.binding >= e.since

AccessInv ==
    /\ credential \in [Holders -> 0 .. MaxReplaced + 1] /\ secrets \subseteq Tenants /\ generated \in Nat
    /\ (\A t \in minted : TokenOk(t)) /\ DoorsOk /\ KeysOk /\ EnteredOk

\* What the theorem takes of the constants.
LEMMA AccessBounds == TenantOf \in [Holders -> Tenants] /\ MaxReplaced \in Nat /\ MaxGenerated \in Nat
BY AccountsAssumption DEF AccountsAssumption, Access!AccessAssumption

(* Before the first token and key the invariant holds.                          *)
LEMMA AccessInit == ASSUME Access!Init PROVE AccessInv
<1>1. DoorsOk
  BY DEF Access!Init, Access!Idle, DoorsOk, DoorOk
<1>2. KeysOk /\ EnteredOk
  BY DEF Access!Init, KeysOk, EnteredOk
<1>3. credential \in [Holders -> 0 .. MaxReplaced + 1]
  BY AccessBounds DEF Access!Init
<1> QED BY <1>1, <1>2, <1>3 DEF AccessInv, Access!Init

(* One request moves on; the account and the keys are left alone.               *)
LEMMA DoorMoves ==
    ASSUME AccessInv, NEW r \in Requests, NEW k, door' = [door EXCEPT ![r] = k],
           UNCHANGED <<credential, secrets, keys, generated, shown, dropped>>, DoorOk(k), k.pc # "insert",
           \A t \in minted' : TokenOk(t), EnteredOk'
    PROVE  AccessInv'
<1>1. \A q \in Requests : door'[q] = IF q = r THEN k ELSE door[q]
  BY DEF AccessInv, DoorsOk
<1>2. door' = [q \in Requests |-> door'[q]]
  BY DEF AccessInv, DoorsOk
<1>3. \A j : DoorOk(j) => DoorOk(j)'
  BY DEF DoorOk, TokenOk
<1>4. DoorsOk'
  BY <1>1, <1>2, <1>3 DEF AccessInv, DoorsOk
<1>5. KeysOk' /\ (\A t \in minted' : TokenOk(t)')
  BY DEF AccessInv, KeysOk, TokenOk
<1> QED BY <1>4, <1>5 DEF AccessInv

(* A request that has not begun relies on nothing.                              *)
LEMMA AtTheDoor == DoorOk(Access!Idle) /\ DoorOk(Access!Idle)' /\ Access!Idle.pc = "idle"
BY DEF DoorOk, Access!Idle

(* Tokens are minted, each for one door.                                        *)
LEMMA MintPreserves ==
    ASSUME AccessInv,
           \/ \E r \in Requests : Access!MintPair(r)
           \/ \E u \in Holders : Access!PlatformLogin(u) \/ \E aud \in Access!Wanted : Access!ThirdParty(u, aud)
    PROVE  AccessInv'
<1>1. ASSUME NEW u \in Holders, NEW d \in Access!Doors, NEW b PROVE TokenOk(Access!Token(d, u, b))
  BY DEF TokenOk, Access!Token, Access!Wanted
<1>2. ASSUME NEW u \in Holders, NEW aud \in Access!Wanted, aud \notin Access!Doors
      PROVE  TokenOk(Access!ThirdPartyToken(u, aud))
  BY <1>2 DEF TokenOk, Access!ThirdPartyToken
<1>3. Access!NoAudience \notin Access!Doors
  BY DEF Access!NoAudience, Access!Doors, Access!UserDoors, Access!PlatformDoors
<1>4. ASSUME NEW r \in Requests, Access!MintPair(r) PROVE AccessInv'
  <2>1. door[r].user \in Holders
    BY <1>4 DEF Access!MintPair, AccessInv, DoorsOk, DoorOk
  <2>2. \A t \in minted' : TokenOk(t)
    BY <1>1, <1>4, <2>1 DEF Access!MintPair, Access!Mint, Access!Doors, AccessInv
  <2>3. /\ UNCHANGED <<credential, secrets, keys, generated, shown, dropped, entered>>
        /\ door' = [door EXCEPT ![r] = Access!Idle]
    BY <1>4 DEF Access!MintPair, Access!others
  <2>4. EnteredOk'
    BY <2>3 DEF EnteredOk, AccessInv
  <2> QED BY <2>2, <2>3, <2>4, AtTheDoor, DoorMoves
<1>5. ASSUME NEW u \in Holders, Access!PlatformLogin(u) \/ \E aud \in Access!Wanted : Access!ThirdParty(u, aud)
      PROVE  AccessInv'
  <2>1. \A t \in minted' : TokenOk(t)
    <3>1. CASE Access!PlatformLogin(u)
      BY <1>1, <3>1 DEF Access!PlatformLogin, Access!Mint, Access!Doors, AccessInv
    <3>2. ASSUME NEW aud \in Access!Wanted, Access!ThirdParty(u, aud) PROVE \A t \in minted' : TokenOk(t)
      <4>1. aud \notin Access!Doors /\ minted' = minted \union {Access!ThirdPartyToken(u, aud)}
        BY <1>3, <3>2 DEF Access!ThirdParty, Access!AudienceAllowed, Access!Mint
      <4> QED BY <1>2, <4>1 DEF AccessInv
    <3> QED BY <1>5, <3>1, <3>2
  <2>2. UNCHANGED <<credential, secrets, keys, generated, shown, dropped, door, entered>>
    BY <1>5 DEF Access!PlatformLogin, Access!ThirdParty, Access!others
  <2>3. DoorsOk' /\ KeysOk' /\ EnteredOk' /\ (\A t \in minted' : TokenOk(t)')
    BY <2>1, <2>2 DEF AccessInv, DoorsOk, DoorOk, KeysOk, EnteredOk, TokenOk
  <2> QED BY <2>2, <2>3 DEF AccessInv
<1> QED BY <1>4, <1>5

(* A login reads the account, a token is presented and its wrap opened.         *)
LEMMA EntryPreserves ==
    ASSUME AccessInv, NEW r \in Requests,
           \/ \E u \in Holders, p \in Tenants : Access!Login(r, u, p)
           \/ \E t \in minted, d \in Access!Doors : Access!Present(r, t, d)
           \/ Access!Enter(r) \/ Access!Drop(r)
    PROVE  AccessInv'
<1>0. (\A t \in minted : TokenOk(t)) /\ EnteredOk /\ credential \in [Holders -> 0 .. MaxReplaced + 1]
  BY DEF AccessInv
<1>1. ASSUME NEW u \in Holders, NEW p \in Tenants, Access!Login(r, u, p) PROVE AccessInv'
  <2> DEFINE k == [pc |-> "mint", user |-> u, binding |-> credential[u]]
  <2>1. /\ door' = [door EXCEPT ![r] = k]
        /\ UNCHANGED <<credential, secrets, keys, generated, shown, dropped, minted, entered>>
    BY <1>1 DEF Access!Login, Access!others
  <2>2. k.pc = "mint" /\ k.user = u
    OBVIOUS
  <2> HIDE DEF k
  <2>3. DoorOk(k) /\ k.pc # "insert" /\ (\A t \in minted' : TokenOk(t)) /\ EnteredOk'
    BY <1>0, <2>1, <2>2 DEF DoorOk, EnteredOk
  <2> QED BY <2>1, <2>3, DoorMoves
<1>2. ASSUME NEW t \in minted, NEW d \in Access!Doors, Access!Present(r, t, d) PROVE AccessInv'
  <2> DEFINE k == [pc |-> "unwrap", token |-> t, door |-> d,
                   since |-> IF d \in Access!UserDoors THEN credential[t.user] ELSE 0]
  <2>1. /\ door' = [door EXCEPT ![r] = k] /\ t.aud = d
        /\ UNCHANGED <<credential, secrets, keys, generated, shown, dropped, minted, entered>>
    BY <1>2 DEF Access!Present, Access!Valid, Access!others
  <2>2. /\ k.pc = "unwrap" /\ k.token = t /\ k.door = d
        /\ d \in Access!UserDoors => k.since = credential[t.user]
    OBVIOUS
  <2>3. TokenOk(t) /\ credential[t.user] \in Nat
    BY <1>0, AccessBounds DEF TokenOk
  <2> HIDE DEF k
  <2>4. DoorOk(k) /\ k.pc # "insert"
    BY <2>1, <2>2, <2>3 DEF DoorOk
  <2>5. (\A a \in minted' : TokenOk(a)) /\ EnteredOk'
    BY <1>0, <2>1 DEF EnteredOk
  <2> QED BY <2>1, <2>4, <2>5, DoorMoves
<1>3. CASE Access!Enter(r)
  <2> DEFINE in == door[r].door \in Access!UserDoors => Access!Unwraps(door[r].token)
  <2> DEFINE e == [token |-> door[r].token, door |-> door[r].door, since |-> door[r].since]
  <2> DEFINE m == [pc |-> "mint", user |-> door[r].token.user, binding |-> door[r].token.binding]
  <2>1. /\ door[r].pc = "unwrap" /\ UNCHANGED <<credential, secrets, keys, generated, shown, dropped, minted>>
        /\ entered' = IF in THEN {e} ELSE entered
        /\ door' = [door EXCEPT ![r] = IF in /\ door[r].door = "user_refresh" THEN m ELSE Access!Idle]
    BY <1>3 DEF Access!Enter, Access!others
  <2>2. /\ TokenOk(door[r].token) /\ door[r].door \in Access!Doors /\ door[r].token.aud = door[r].door
        /\ door[r].door \in Access!UserDoors =>
             /\ door[r].since \in Nat
             /\ credential[door[r].token.user] > 0 => credential[door[r].token.user] >= door[r].since
    BY <2>1 DEF AccessInv, DoorsOk, DoorOk
  <2>3. e.token = door[r].token /\ e.door = door[r].door /\ e.since = door[r].since
    OBVIOUS
  <2>4. in => e.token.door = e.door /\ (e.door \in Access!UserDoors => e.token.binding >= e.since)
    BY <2>2, <2>3 DEF TokenOk, Access!Unwraps
  <2>5. m.pc = "mint" /\ m.user \in Holders
    BY <2>2 DEF TokenOk
  <2> HIDE DEF in, e, m
  <2>6. EnteredOk'
    BY <1>0, <2>1, <2>4 DEF EnteredOk
  <2>7. DoorOk(m)
    BY <2>5 DEF DoorOk
  <2>8. PICK k \in {m, Access!Idle} : door' = [door EXCEPT ![r] = k]
    BY <2>1
  <2>9. DoorOk(k) /\ k.pc # "insert" /\ \A t \in minted' : TokenOk(t)
    BY <1>0, <2>1, <2>5, <2>7, AtTheDoor
  <2> QED BY <2>1, <2>6, <2>8, <2>9, DoorMoves
<1>4. CASE Access!Drop(r)
  <2>1. /\ door' = [door EXCEPT ![r] = Access!Idle]
        /\ UNCHANGED <<credential, secrets, keys, generated, shown, dropped, minted, entered>>
    BY <1>4 DEF Access!Drop, Access!others
  <2>2. (\A t \in minted' : TokenOk(t)) /\ EnteredOk'
    BY <1>0, <2>1 DEF EnteredOk
  <2> QED BY <2>1, <2>2, AtTheDoor, DoorMoves
<1> QED BY <1>1, <1>2, <1>3, <1>4

(* A key is made up, and its row inserted or refused.                           *)
LEMMA KeyPreserves ==
    ASSUME AccessInv, NEW r \in Requests,
           (\E u \in Holders, n \in Labels : Access!AskKey(r, u, n)) \/ Access!CreateKey(r)
    PROVE  AccessInv'
<1>0. /\ door = [q \in Requests |-> door[q]] /\ generated \in Nat /\ KeysOk
      /\ \A q \in Requests : \A j \in {door[q]} : DoorOk(j)
  BY DEF AccessInv, DoorsOk
<1>1. ASSUME NEW u \in Holders, NEW n \in Labels, Access!AskKey(r, u, n) PROVE AccessInv'
  <2>0. PICK k : k = [pc |-> "insert", user |-> u, name |-> n, key |-> generated + 1]
    OBVIOUS
  <2>1. /\ door' = [door EXCEPT ![r] = k] /\ generated' = generated + 1
        /\ UNCHANGED <<credential, secrets, minted, keys, shown, dropped, entered>>
    BY <1>1, <2>0 DEF Access!AskKey
  <2>2. k.pc = "insert" /\ k.user = u /\ k.name = n /\ k.key = generated + 1
    BY <2>0
  <2>3. \A q \in Requests : door'[q] = IF q = r THEN k ELSE door[q]
    BY <1>0, <2>1
  <2>4. \A x \in shown : x.key \in 1 .. generated
    BY <1>0 DEF KeysOk
  <2>5. DoorOk(k)'
    BY <1>0, <2>1, <2>2, <2>4 DEF DoorOk
  <2>6. ASSUME NEW j, DoorOk(j) PROVE DoorOk(j)'
    <3>1. 1 .. generated \subseteq 1 .. generated'
      BY <1>0, <2>1
    <3> QED BY <2>1, <2>6, <3>1 DEF DoorOk, TokenOk
  <2>7. \A q \in Requests : q # r /\ door[q].pc = "insert" => door[q].key # k.key
    BY <1>0, <2>2 DEF DoorOk
  <2>8. door' = [q \in Requests |-> door'[q]]
    BY <1>0, <2>1
  <2>9. DoorsOk'
    <3>1. ASSUME NEW q \in Requests, NEW j, j = door'[q] PROVE DoorOk(j)'
      <4>1. CASE q = r
        BY <2>3, <2>5, <3>1, <4>1
      <4>2. CASE q # r
        BY <1>0, <2>3, <2>6, <3>1, <4>2
      <4> QED BY <4>1, <4>2
    <3>2. \A a, b \in Requests : a # b /\ door'[a].pc = "insert" /\ door'[b].pc = "insert" => door'[a].key # door'[b].key
      BY <2>3, <2>7 DEF AccessInv, DoorsOk
    <3> QED BY <2>8, <3>1, <3>2 DEF DoorsOk
  <2>10. KeysOk'
    <3>1. shown \subseteq [user : Holders, name : Labels, key : 1 .. generated + 1]
      BY <1>0 DEF KeysOk
    <3> QED BY <1>0, <2>1, <3>1 DEF KeysOk
  <2>11. EnteredOk' /\ \A t \in minted' : TokenOk(t)'
    BY <2>1 DEF AccessInv, EnteredOk, TokenOk
  <2> QED BY <1>0, <2>1, <2>9, <2>10, <2>11 DEF AccessInv
<1>2. CASE Access!CreateKey(r)
  <2> DEFINE row == [user |-> door[r].user, name |-> door[r].name, key |-> door[r].key]
  <2>1. /\ door[r].pc = "insert" /\ door' = [door EXCEPT ![r] = Access!Idle]
        /\ UNCHANGED <<credential, secrets, minted, generated, dropped, entered>>
        /\ keys' = IF Access!Referenced(row.user) THEN Access!InsertKey(row) ELSE keys
        /\ shown' = IF row \in keys' THEN shown \union {row} ELSE shown
    BY <1>2 DEF Access!CreateKey
  <2>2. door[r].user \in Holders /\ door[r].name \in Labels /\ door[r].key \in 1 .. generated
        /\ \A x \in shown : x.key # door[r].key
    BY <1>0, <2>1 DEF DoorOk
  <2>3. /\ row \in [user : Holders, name : Labels, key : 1 .. generated] /\ row.key = door[r].key
        /\ row.user = door[r].user
    BY <2>2
  <2> HIDE DEF row
  <2>4. row \notin shown /\ row \notin keys /\ row \notin dropped
    BY <1>0, <2>2, <2>3 DEF KeysOk
  <2>5. \/ keys' = keys /\ shown' = shown
        \/ keys' = keys \union {row} /\ shown' = shown \union {row} /\ credential[row.user] > 0
    BY <2>1, <2>4 DEF Access!InsertKey, Access!Referenced, Access!Exists
  <2>6. \A q \in Requests : door'[q] = IF q = r THEN Access!Idle ELSE door[q]
    BY <1>0, <2>1
  <2>7. door' = [q \in Requests |-> door'[q]]
    BY <1>0, <2>1
  <2>8. \A x \in shown' : x \in shown \/ x = row
    BY <2>5
  <2>9. ASSUME NEW q \in Requests, NEW j, j = door'[q] PROVE DoorOk(j)'
    <3>1. CASE q = r
      BY <2>6, <2>9, <3>1, AtTheDoor
    <3>2. CASE q # r
      <4>1. j = door[q] /\ DoorOk(j)
        BY <1>0, <2>6, <2>9, <3>2
      <4>2. j.pc = "insert" => j.key # row.key
        BY <2>1, <2>3, <3>2, <4>1 DEF AccessInv, DoorsOk
      <4> QED BY <2>1, <2>8, <4>1, <4>2 DEF DoorOk, TokenOk
    <3> QED BY <3>1, <3>2
  <2>10. DoorsOk'
    <3>1. \A a, b \in Requests : a # b /\ door'[a].pc = "insert" /\ door'[b].pc = "insert" => door'[a].key # door'[b].key
      BY <2>6, AtTheDoor DEF AccessInv, DoorsOk
    <3> QED BY <2>7, <2>9, <3>1 DEF DoorsOk
  <2>11. KeysOk'
    <3>1. shown' \subseteq [user : Holders, name : Labels, key : 1 .. generated']
      BY <1>0, <2>1, <2>3, <2>8 DEF KeysOk
    <3>2. \A x, y \in shown' : x.key = y.key => x = y
      BY <1>0, <2>2, <2>3, <2>8 DEF KeysOk
    <3>3. keys' = {x \in shown' : x \notin dropped' /\ credential'[x.user] > 0} /\ dropped' \subseteq shown'
      BY <1>0, <2>1, <2>4, <2>5 DEF KeysOk
    <3> QED BY <3>1, <3>2, <3>3 DEF KeysOk
  <2>12. EnteredOk' /\ \A t \in minted' : TokenOk(t)'
    BY <2>1 DEF AccessInv, EnteredOk, TokenOk
  <2> QED BY <1>0, <2>1, <2>10, <2>11, <2>12 DEF AccessInv
<1> QED BY <1>1, <1>2

(* A key is deleted by its name; a credential is replaced, an account deleted,  *)
(* a project given a secret.                                                    *)
LEMMA HolderPreserves ==
    ASSUME AccessInv,
           \/ \E u \in Holders : \/ Access!ChangeCredential(u) \/ Access!DeleteAccount(u)
                                 \/ \E n \in Labels : Access!DeleteKey(u, n)
           \/ \E p \in Tenants : Access!SetSecret(p)
    PROVE  AccessInv'
<1>0. credential \in [Holders -> 0 .. MaxReplaced + 1] /\ KeysOk /\ \A v \in Holders : credential[v] \in Nat
  BY AccessBounds DEF AccessInv
<1>1. ASSUME NEW u \in Holders, NEW n \in Labels, Access!DeleteKey(u, n) PROVE AccessInv'
  <2>1. /\ keys' = keys \ Access!Named(u, n) /\ dropped' = dropped \union Access!Named(u, n)
        /\ UNCHANGED <<credential, secrets, minted, generated, shown, door, entered>>
        /\ Access!Named(u, n) \subseteq keys
    BY <1>1 DEF Access!DeleteKey, Access!Doomed, Access!Named
  <2>2. KeysOk'
    BY <1>0, <2>1 DEF KeysOk
  <2>3. DoorsOk' /\ EnteredOk' /\ \A t \in minted' : TokenOk(t)'
    BY <2>1 DEF AccessInv, DoorsOk, DoorOk, EnteredOk, TokenOk
  <2> QED BY <2>1, <2>2, <2>3 DEF AccessInv
<1>2. ASSUME NEW u \in Holders, Access!ChangeCredential(u) \/ Access!DeleteAccount(u) PROVE AccessInv'
  <2>1. /\ UNCHANGED <<secrets, minted, generated, shown, dropped, door, entered>>
        /\ credential' \in [Holders -> 0 .. MaxReplaced + 1]
        /\ \A v \in Holders : v # u => credential'[v] = credential[v]
        /\ credential[u] > 0
        /\ \/ credential'[u] = credential[u] + 1 /\ keys' = keys
           \/ credential'[u] = 0 /\ keys' = {x \in keys : x.user # u}
    <3>1. CASE Access!ChangeCredential(u)
      <4>1. /\ credential' = [credential EXCEPT ![u] = @ + 1] /\ credential[u] > 0 /\ credential[u] <= MaxReplaced
            /\ UNCHANGED <<secrets, minted, keys, generated, shown, dropped, door, entered>>
        BY <3>1 DEF Access!ChangeCredential, Access!Exists, Access!others
      <4>2. credential[u] + 1 \in 0 .. MaxReplaced + 1
        BY <1>0, <4>1, AccessBounds
      <4> QED BY <1>0, <4>1, <4>2
    <3>2. CASE Access!DeleteAccount(u)
      <4>1. 0 \in 0 .. MaxReplaced + 1
        BY AccessBounds
      <4> QED BY <1>0, <3>2, <4>1 DEF Access!DeleteAccount, Access!Exists
    <3> QED BY <1>2, <3>1, <3>2
  <2>2. KeysOk'
    <3>1. \A x \in shown : x.user \in Holders
      BY <1>0 DEF KeysOk
    <3>2. keys' = {x \in shown : x \notin dropped /\ credential'[x.user] > 0}
      BY <1>0, <2>1, <3>1 DEF KeysOk
    <3> QED BY <1>0, <2>1, <3>2 DEF KeysOk
  <2>3. \A v \in Holders : credential'[v] \in Nat /\ (credential'[v] > 0 => credential[v] > 0 /\ credential'[v] >= credential[v])
    BY <1>0, <2>1, AccessBounds
  <2>4. ASSUME NEW k, DoorOk(k) PROVE DoorOk(k)'
    <3>1. k.pc = "unwrap" /\ k.door \in Access!UserDoors =>
            k.since \in Nat /\ (credential'[k.token.user] > 0 => credential'[k.token.user] >= k.since)
      BY <1>0, <2>3, <2>4 DEF DoorOk, TokenOk
    <3> QED BY <2>1, <2>4, <3>1 DEF DoorOk, TokenOk
  <2>5. DoorsOk'
    BY <2>1, <2>4 DEF AccessInv, DoorsOk
  <2>6. EnteredOk' /\ \A t \in minted' : TokenOk(t)'
    BY <2>1 DEF AccessInv, EnteredOk, TokenOk
  <2> QED BY <2>1, <2>2, <2>5, <2>6 DEF AccessInv
<1>3. ASSUME NEW p \in Tenants, Access!SetSecret(p) PROVE AccessInv'
  BY <1>3 DEF Access!SetSecret, AccessInv, DoorsOk, DoorOk, KeysOk, EnteredOk, TokenOk
<1> QED BY <1>1, <1>2, <1>3

(* A token opens only the door it was made for and nothing once its credential  *)
(* was replaced; an API key opens its account from when it is shown until it is *)
(* deleted, and nothing afterwards (jwt.rs, openai_auth.rs, user_api_keys.rs).  *)
THEOREM AccessSafety == Access!Spec => []OnlyLiveCredentialsOpen
<1>1. AccessInv => OnlyLiveCredentialsOpen
  <2> SUFFICES ASSUME AccessInv PROVE OnlyLiveCredentialsOpen
    OBVIOUS
  <2>1. Access!TypeOK
    <3>1. \A x \in keys : x.user \in Holders /\ x.name \in Labels /\ x.key \in 1 .. generated /\ credential[x.user] > 0
      BY DEF AccessInv, KeysOk
    <3>2. \A r \in Requests : door[r].pc \in {"idle", "mint", "unwrap", "insert"}
      BY DEF AccessInv, DoorsOk, DoorOk
    <3> QED BY <3>1, <3>2 DEF AccessInv, TokenOk, Access!TypeOK, Access!Exists
  <2>2. Access!DoorsAreSeparate /\ Access!ReplacedCredentialIsRefused
    BY DEF AccessInv, EnteredOk, Access!DoorsAreSeparate, Access!ReplacedCredentialIsRefused
  <2>3. ASSUME NEW x \in shown
        PROVE  Access!KeyOpens(x.key) = IF x \in dropped \/ ~Access!Exists(x.user) THEN {} ELSE {x.user}
    <3>1. \A y \in keys : y.key = x.key <=> y = x
      BY DEF AccessInv, KeysOk
    <3>2. x \in keys <=> ~(x \in dropped \/ ~Access!Exists(x.user))
      BY DEF AccessInv, KeysOk, Access!Exists
    <3>3. \A y \in keys : Access!Exists(y.user)
      BY DEF AccessInv, KeysOk, Access!Exists
    <3> QED BY <3>1, <3>2, <3>3 DEF Access!KeyOpens
  <2>4. Access!KeyLivesUntilDeleted
    BY <2>3 DEF Access!KeyLivesUntilDeleted
  <2> QED BY <2>1, <2>2, <2>4 DEF OnlyLiveCredentialsOpen
<1>2. Access!Init => AccessInv
  BY AccessInit
<1>3. AccessInv /\ [Access!Next]_Access!vars => AccessInv'
  <2>1. CASE UNCHANGED Access!vars
    BY <2>1 DEF Access!vars, AccessInv, DoorsOk, DoorOk, KeysOk, EnteredOk, TokenOk
  <2>2. CASE Access!Next
    BY <2>2, MintPreserves, EntryPreserves, KeyPreserves, HolderPreserves DEF Access!Next
  <2> QED BY <2>1, <2>2
<1> QED BY <1>1, <1>2, <1>3, PTL DEF Access!Spec
-----------------------------------------------------------------------------
\* A seed that key-value rows may be encrypted under.
Legible(s, cur, left) == s = cur \/ s \in left

\* The inductive invariant of the key-value store: a request about to store a row
\* holds the seed in force, or one that a reset has replaced since.
KeyIsCurrent ==
    /\ DataIsReadable
    /\ \A r \in Requests : pc[r] = "put" => user.st # "absent" /\ Legible(loc[r].seed, seed, outrun)

(* A step of one request that neither rotates the seed nor stores a row, and    *)
(* after which it is not about to.                                              *)
LEMMA KeysUntouched ==
    ASSUME CredInv, KeyIsCurrent, UNCHANGED <<seed, outrun>>, data' \subseteq data,
           user.st # "absent" => user'.st # "absent",
           NEW r \in Requests, NEW p, p # "put", pc' = [pc EXCEPT ![r] = p],
           \A s \in Requests : s # r => loc'[s] = loc[s]
    PROVE  KeyIsCurrent'
<1>1. \A s \in Requests : pc'[s] = (IF s = r THEN p ELSE pc[s])
  BY DEF CredInv, TypeOK
<1>2. DataIsReadable'
  BY DEF KeyIsCurrent, DataIsReadable
<1>3. ASSUME NEW s \in Requests, pc'[s] = "put"
      PROVE  user'.st # "absent" /\ Legible(loc'[s].seed, seed', outrun')
  BY <1>1, <1>3 DEF KeyIsCurrent
<1> QED BY <1>2, <1>3 DEF KeyIsCurrent

(* The others' places are left alone by whatever one request writes.            *)
LEMMA OthersKeep ==
    ASSUME CredInv, NEW r \in Requests
    PROVE  /\ \A q : loc' = [loc EXCEPT ![r] = q] => \A s \in Requests : s # r => loc'[s] = loc[s]
           /\ loc' = loc => \A s \in Requests : s # r => loc'[s] = loc[s]
           /\ Answer(r) => pc' = [pc EXCEPT ![r] = "idle"] /\ \A s \in Requests : s # r => loc'[s] = loc[s]
BY DEF CredInv, TypeOK, Answer, Goto

(* No step of a login, a change or a deletion rotates the seed or stores a row. *)
LEMMA QuietKeys ==
    ASSUME CredInv, KeyIsCurrent, NEW r \in Requests,
           Session(r) \/ Change(r) \/ Deletion(r)
    PROVE  KeyIsCurrent'
<1> USE OthersKeep
<1>1. CASE Session(r)
  <2>1. UNCHANGED <<seed, outrun, data, user>>
    BY <1>1 DEF Session, LoginRead, OAuthRead, LoginFinish, JwtRead, JwtVerify, Abandon, account
  <2>2. \E p \in {"login", "oauth", "idle", "jwt", "authed"} : pc' = [pc EXCEPT ![r] = p]
    BY <1>1 DEF Session, LoginRead, OAuthRead, LoginFinish, JwtRead, JwtVerify, Abandon, Answer, Goto
  <2>3. \A s \in Requests : s # r => loc'[s] = loc[s]
    BY <1>1 DEF Session, LoginRead, OAuthRead, LoginFinish, JwtRead, JwtVerify, Abandon, Answer, CredInv, TypeOK
  <2> QED BY <2>1, <2>2, <2>3, KeysUntouched
<1>2. CASE Change(r)
  <2>1. UNCHANGED <<seed, outrun, data>> /\ (user.st # "absent" => user'.st # "absent")
    BY <1>2 DEF Change, ChangeRead, ChangeVerify, ChangeUnwrap, ChangeCommit, ChangeReissue, account,
                CredInv, TypeOK
  <2>2. \E p \in {"idle", "change", "rewrap", "swap", "reissue"} : pc' = [pc EXCEPT ![r] = p]
    BY <1>2 DEF Change, ChangeRead, ChangeVerify, ChangeUnwrap, ChangeCommit, ChangeReissue, Answer, Goto
  <2>3. \A s \in Requests : s # r => loc'[s] = loc[s]
    BY <1>2 DEF Change, ChangeRead, ChangeVerify, ChangeUnwrap, ChangeCommit, ChangeReissue, Answer,
                CredInv, TypeOK
  <2> QED BY <2>1, <2>2, <2>3, KeysUntouched
<1>3. CASE Deletion(r)
  <2>1. UNCHANGED <<seed, outrun>> /\ data' \subseteq data /\ (user.st # "absent" => user'.st # "absent")
    BY <1>3 DEF Deletion, DeletionRequest, DeletionRead, DeletionCommit, account, CredInv, TypeOK
  <2>2. \E p \in {"idle", "erase"} : pc' = [pc EXCEPT ![r] = p]
    BY <1>3 DEF Deletion, DeletionRequest, DeletionRead, DeletionCommit, Answer, Goto
  <2>3. \A s \in Requests : s # r => loc'[s] = loc[s]
    BY <1>3 DEF Deletion, DeletionRequest, DeletionRead, DeletionCommit, Answer, CredInv, TypeOK
  <2> QED BY <2>1, <2>2, <2>3, KeysUntouched
<1> QED BY <1>1, <1>2, <1>3

(* The key-value store writes under the seed its request derived.               *)
LEMMA StoreKeys ==
    ASSUME CredInv, KeyIsCurrent, NEW r \in Requests, KeyValue(r)
    PROVE  KeyIsCurrent'
<1> USE OthersKeep
<1>1. CASE DeriveKey(r, "put") \/ DeriveKey(r, "delete")
  <2>1. UNCHANGED <<user, seed, outrun, data>>
    BY <1>1 DEF DeriveKey, account
  <2>2. CASE Opened(loc[r].ctx) = {}
    <3>1. Answer(r)
      BY <1>1, <2>2 DEF DeriveKey
    <3> QED BY <2>1, <3>1, KeysUntouched
  <2>3. CASE Opened(loc[r].ctx) # {}
    <3>1. PICK w \in Opened(loc[r].ctx) : loc' = [loc EXCEPT ![r].seed = w.seed]
      BY <1>1, <2>3 DEF DeriveKey
    <3>2. w.seed = seed /\ user.st # "absent"
      BY WrapsHoldSeed DEF Opened, CredInv, NoRowNothing
    <3>3. \E p \in {"put", "delete"} : pc' = [pc EXCEPT ![r] = p]
      BY <1>1, <2>3 DEF DeriveKey, Goto
    <3>4. \A s \in Requests : s # r => loc'[s] = loc[s] /\ pc'[s] = pc[s]
      BY <3>1, <3>3 DEF CredInv, TypeOK
    <3>5. loc'[r].seed = seed
      BY <3>1, <3>2 DEF CredInv, TypeOK
    <3>6. \A s \in Requests : pc'[s] = "put" => user'.st # "absent" /\ Legible(loc'[s].seed, seed', outrun')
      BY <2>1, <3>2, <3>4, <3>5 DEF KeyIsCurrent, Legible
    <3> QED BY <2>1, <3>6 DEF KeyIsCurrent, DataIsReadable
  <2> QED BY <2>2, <2>3
<1>2. ASSUME NEW k \in Keys, KvPut(r, k) PROVE KeyIsCurrent'
  <2>1. /\ pc[r] = "put" /\ Answer(r) /\ UNCHANGED <<user, seed, outrun>>
        /\ data' \subseteq data \union {<<k, loc[r].seed>>}
    BY <1>2 DEF KvPut
  <2>2. Legible(loc[r].seed, seed, outrun)
    BY <2>1 DEF KeyIsCurrent
  <2>3. DataIsReadable'
    BY <2>1, <2>2 DEF KeyIsCurrent, DataIsReadable, Legible
  <2>4. \A s \in Requests : pc'[s] = (IF s = r THEN "idle" ELSE pc[s]) /\ (s # r => loc'[s] = loc[s])
    BY <2>1 DEF CredInv, TypeOK
  <2>5. \A s \in Requests : pc'[s] = "put" => user'.st # "absent" /\ Legible(loc'[s].seed, seed', outrun')
    BY <2>1, <2>4 DEF KeyIsCurrent
  <2> QED BY <2>3, <2>5 DEF KeyIsCurrent
<1>3. CASE KvDeleteAll(r) \/ \E k \in Keys : KvDelete(r, k)
  <2>1. UNCHANGED <<user, seed, outrun>> /\ data' \subseteq data /\ Answer(r)
    BY <1>3 DEF KvDeleteAll, KvDelete
  <2> QED BY <2>1, KeysUntouched
<1> QED BY <1>1, <1>2, <1>3 DEF KeyValue

(* A new seed finds no row under an old one: a new account has no data and no   *)
(* request that could store any, and a reset wipes what is there; the requests  *)
(* it leaves about to store under the old seed are the ones it outran.          *)
LEMMA RotatedKeys ==
    ASSUME CredInv, KeyIsCurrent, NEW r \in Requests,
           Reset(r) \/ \E m, oauth \in BOOLEAN : Register(r, m, oauth)
    PROVE  KeyIsCurrent'
<1> USE OthersKeep
<1>1. CASE ResetCommit(r)
  <2>1. PICK c \in loc[r].code :
          IF user.st = "present" /\ Consumable(c)
          THEN /\ data' = {} /\ user' = [user EXCEPT !.pw = verifier + 1]
               /\ outrun' = outrun \union { loc[s].seed : s \in { q \in Requests : pc[q] = "put" } }
          ELSE UNCHANGED account
    BY <1>1 DEF ResetCommit, KvAfterReset
  <2>2. Answer(r) /\ pc' = [pc EXCEPT ![r] = "idle"]
    BY <1>1 DEF ResetCommit
  <2>3. \A s \in Requests : pc'[s] = (IF s = r THEN "idle" ELSE pc[s]) /\ (s # r => loc'[s] = loc[s])
    BY <2>2 DEF CredInv, TypeOK
  <2>4. CASE user.st = "present" /\ Consumable(c)
    <3>1. \A s \in Requests : pc'[s] = "put" => loc'[s].seed \in outrun'
      BY <2>1, <2>3, <2>4
    <3>2. data' = {} /\ user'.st = "present"
      BY <2>1, <2>4 DEF CredInv, TypeOK
    <3> QED BY <3>1, <3>2 DEF KeyIsCurrent, DataIsReadable, Legible
  <2>5. CASE ~(user.st = "present" /\ Consumable(c))
    <3>1. UNCHANGED <<user, data, seed, outrun>>
      BY <2>1, <2>5 DEF account
    <3> QED BY <2>2, <3>1, KeysUntouched
  <2> QED BY <2>4, <2>5
<1>2. ASSUME NEW c \in Codes, ResetRead(r, c) PROVE KeyIsCurrent'
  <2>1. UNCHANGED <<user, seed, outrun, data>> /\ pc' = [pc EXCEPT ![r] = "reset"]
    BY <1>2 DEF ResetRead, account, Goto
  <2>2. \A s \in Requests : s # r => loc'[s] = loc[s]
    BY <1>2 DEF ResetRead, CredInv, TypeOK
  <2> QED BY <2>1, <2>2, KeysUntouched
<1>3. ASSUME NEW m \in BOOLEAN, NEW oauth \in BOOLEAN, Register(r, m, oauth) PROVE KeyIsCurrent'
  <2>1. user.st = "absent" /\ data' = data /\ loc' = loc
    BY <1>3 DEF Register
  <2>2. data' = {}
    BY <2>1 DEF CredInv, NoRowNothing
  <2>3. pc'[r] # "put" /\ \A s \in Requests : s # r => pc'[s] = pc[s]
    BY <1>3 DEF Register, Goto, CredInv, TypeOK
  <2>4. \A s \in Requests : pc'[s] # "put"
    BY <2>1, <2>3 DEF KeyIsCurrent
  <2> QED BY <2>2, <2>4 DEF KeyIsCurrent, DataIsReadable
<1> QED BY <1>1, <1>2, <1>3 DEF Reset

(* Every step of the account keeps it.                                          *)
LEMMA KeyStep ==
    ASSUME CredInv, KeyIsCurrent, [Next]_vars
    PROVE  KeyIsCurrent'
<1>1. CASE \/ \E c \in Codes : ResetRequest(c) \/ ResetExpires(c)
           \/ DeletionExpires \/ UNCHANGED vars
  <2>1. UNCHANGED <<user, data, seed, outrun, pc, loc>>
    BY <1>1 DEF ResetRequest, ResetExpires, DeletionExpires, vars, account
  <2> QED BY <2>1 DEF KeyIsCurrent, DataIsReadable
<1>2. ASSUME NEW r \in Requests, Session(r) \/ KeyValue(r) \/ Change(r) \/ Reset(r) \/ Deletion(r)
      PROVE  KeyIsCurrent'
  BY <1>2, QuietKeys, StoreKeys, RotatedKeys
<1>3. ASSUME NEW r \in Requests, \E m, oauth \in BOOLEAN : Register(r, m, oauth) PROVE KeyIsCurrent'
  BY <1>3, RotatedKeys
<1> QED BY <1>1, <1>2, <1>3 DEF Next
-----------------------------------------------------------------------------
\* The rows of email_verifications, and what a request remembers of one.
MailRows == [id : Nat, user : Addressees, verified : BOOLEAN, expired : BOOLEAN]

AskTypes ==
    {Email!Idle} \union [pc : {"verify", "delete"}, row : MailRows]
                 \union [pc : {"insert"}, row : [user : Addressees]]

\* What a request is about: a registered user whose sign-in is not an OAuth one; the
\* row it remembers, if there still is one, is that user's; a code it was shown came
\* back in time.
Faithful(k) ==
    /\ k.pc # "idle" => k.row.user \in accounts /\ k.row.user \notin federated
    /\ k.pc = "verify" => k.row.user \in proven
    /\ k.pc \in {"verify", "delete"} =>
         k.row.id <= inserted /\ \A x \in rows : x.id = k.row.id => x.user = k.row.user

\* What is true of one row.
RowOk(x) ==
    /\ x.id <= inserted /\ x.user \in accounts
    /\ x.verified => x.user \in federated \union proven
    /\ x.user \in federated => x.verified

\* The inductive invariant of email verification, however requests overlap.
MailInv ==
    /\ inserted \in Nat /\ rows \subseteq MailRows
    /\ federated \subseteq accounts /\ told \subseteq accounts /\ accounts \subseteq Addressees
    /\ \A x \in rows : RowOk(x)
    /\ \A x, y \in rows : x.id = y.id => x = y
    /\ \A u \in federated : \E x \in rows : x.user = u
    /\ asked \in [Requests -> AskTypes]
    /\ \A r \in Requests : \A k \in {asked[r]} : Faithful(k)

(* The places of a request are told apart by their pc.                          *)
LEMMA AskShapes ==
    ASSUME NEW k \in AskTypes
    PROVE  /\ k.pc \in {"idle", "verify", "delete", "insert"}
           /\ k.pc = "idle" => k = Email!Idle
           /\ k.pc \in {"verify", "delete"} => k.row \in MailRows
           /\ k.pc = "insert" => k.row \in [user : Addressees]
           /\ k = Email!Idle => k.pc = "idle"
BY DEF AskTypes, Email!Idle

(* The places a request can be in.                                              *)
LEMMA AskPlaces ==
    /\ Email!Idle \in AskTypes /\ Email!Idle.pc = "idle"
    /\ \A x \in MailRows : [pc |-> "verify", row |-> x] \in AskTypes /\ [pc |-> "delete", row |-> x] \in AskTypes
    /\ \A u \in Addressees : [pc |-> "insert", row |-> [user |-> u]] \in AskTypes
<1>1. \A x \in MailRows : [pc |-> "verify", row |-> x] \in [pc : {"verify", "delete"}, row : MailRows]
  OBVIOUS
<1>2. \A x \in MailRows : [pc |-> "delete", row |-> x] \in [pc : {"verify", "delete"}, row : MailRows]
  OBVIOUS
<1>3. \A u \in Addressees : [pc |-> "insert", row |-> [user |-> u]] \in [pc : {"insert"}, row : [user : Addressees]]
  OBVIOUS
<1> QED BY <1>1, <1>2, <1>3 DEF AskTypes, Email!Idle

\* The rows of a step: ids and users are kept, and what is new has a new id.
RowsKept ==
    /\ inserted' \in Nat /\ inserted <= inserted'
    /\ \A y \in rows' : (\E x \in rows : x.id = y.id /\ x.user = y.user) \/ y.id > inserted

(* What a request remembers stays faithful while others write.                  *)
LEMMA FaithfulStays ==
    ASSUME MailInv, RowsKept, accounts \subseteq accounts', proven \subseteq proven',
           \A u \in accounts : u \in federated' => u \in federated,
           NEW j \in AskTypes, Faithful(j)
    PROVE  Faithful(j)'
<1>1. ASSUME j.pc \in {"verify", "delete"} PROVE j.row.id \in Nat /\ j.row.id <= inserted
  BY <1>1, AskShapes DEF Faithful, MailRows
<1>2. ASSUME j.pc \in {"verify", "delete"}, NEW y \in rows', y.id = j.row.id PROVE y.user = j.row.user
  BY <1>1, <1>2 DEF Faithful, MailInv, RowsKept
<1>3. j.pc \in {"verify", "delete"} => j.row.id <= inserted'
  BY <1>1 DEF MailInv, RowsKept
<1> QED BY <1>2, <1>3 DEF Faithful

(* One request moves on; the others keep what they remember.                    *)
LEMMA MailMoves ==
    ASSUME MailInv, RowsKept, accounts \subseteq accounts', proven \subseteq proven',
           \A u \in accounts : u \in federated' => u \in federated,
           NEW r \in Requests, NEW k \in AskTypes, asked' = [asked EXCEPT ![r] = k], Faithful(k)'
    PROVE  /\ asked' \in [Requests -> AskTypes]
           /\ \A s \in Requests : \A j \in {asked'[s]} : Faithful(j)'
<1>1. asked' \in [Requests -> AskTypes] /\ \A s \in Requests : asked'[s] = (IF s = r THEN k ELSE asked[s])
  BY DEF MailInv
<1>2. ASSUME NEW s \in Requests, NEW j, j = asked'[s] PROVE Faithful(j)'
  <2>1. CASE s = r
    BY <1>1, <1>2, <2>1
  <2>2. CASE s # r
    <3>1. j \in AskTypes /\ Faithful(j)
      BY <1>1, <1>2, <2>2 DEF MailInv
    <3> QED BY <3>1, FaithfulStays
  <2> QED BY <2>1, <2>2
<1> QED BY <1>1, <1>2

(* Nobody moves.                                                                *)
LEMMA MailStays ==
    ASSUME MailInv, RowsKept, accounts \subseteq accounts', proven \subseteq proven', asked' = asked,
           \A u \in accounts : u \in federated' => u \in federated
    PROVE  /\ asked' \in [Requests -> AskTypes]
           /\ \A s \in Requests : \A j \in {asked'[s]} : Faithful(j)'
<1>1. ASSUME NEW s \in Requests, NEW j, j = asked'[s] PROVE Faithful(j)'
  <2>1. j \in AskTypes /\ Faithful(j)
    BY <1>1 DEF MailInv
  <2> QED BY <2>1, FaithfulStays
<1> QED BY <1>1 DEF MailInv

(* A request that has ended remembers nothing.                                  *)
LEMMA IdleIsFaithful == Faithful(Email!Idle)'
BY AskPlaces DEF Faithful

(* A row that is written back with another mark is the same row.                *)
LEMMA RowWrites ==
    ASSUME NEW x \in MailRows
    PROVE  /\ [x EXCEPT !.expired = TRUE] \in MailRows
           /\ [x EXCEPT !.expired = TRUE].id = x.id
           /\ [x EXCEPT !.expired = TRUE].user = x.user
           /\ [x EXCEPT !.expired = TRUE].verified = x.verified
           /\ [x EXCEPT !.verified = TRUE] \in MailRows
           /\ [x EXCEPT !.verified = TRUE].id = x.id
           /\ [x EXCEPT !.verified = TRUE].user = x.user
           /\ [x EXCEPT !.verified = TRUE].verified = TRUE
BY DEF MailRows

(* A new row has an id no row had.                                              *)
LEMMA NewRowIs ==
    ASSUME MailInv, NEW u \in Addressees, NEW b \in BOOLEAN
    PROVE  \E n \in MailRows : /\ n = Email!NewRow(u, b) /\ n.id = inserted + 1
                               /\ n.user = u /\ n.verified = b
<1> DEFINE m == [id |-> inserted + 1, user |-> u, verified |-> b, expired |-> FALSE]
<1>1. m \in MailRows /\ m.id = inserted + 1 /\ m.user = u /\ m.verified = b
  BY DEF MailRows, MailInv
<1>2. m = Email!NewRow(u, b)
  BY DEF Email!NewRow
<1> QED BY <1>1, <1>2

(* What inserting a row keeps of the others.                                    *)
LEMMA InsertKeeps ==
    ASSUME MailInv, inserted' = inserted + 1,
           NEW n \in MailRows, n.id = inserted + 1, rows' = rows \union {n}
    PROVE  /\ RowsKept /\ rows' \subseteq MailRows
           /\ \A x \in rows : x.id <= inserted'
           /\ \A x, y \in rows' : x.id = y.id => x = y
<1>1. /\ inserted \in Nat /\ rows \subseteq MailRows
      /\ \A x \in rows : x.id \in Nat /\ x.id <= inserted
      /\ \A x, y \in rows : x.id = y.id => x = y
  BY DEF MailInv, MailRows, RowOk
<1>2. inserted' \in Nat /\ inserted <= inserted' /\ rows' \subseteq MailRows /\ n.id > inserted
  BY <1>1
<1>3. \A x \in rows : x.id <= inserted'
  BY <1>1
<1>4. \A x, y \in rows' : x.id = y.id => x = y
  BY <1>1
<1> QED BY <1>2, <1>3, <1>4 DEF RowsKept

(* What VerifyUpdate leaves of a row.                                           *)
Marked(i, x) == IF x.id = i THEN [x EXCEPT !.verified = TRUE] ELSE x

(* verify_email changes the row of its id, if it is still there, and no other.  *)
LEMMA MarkedRows ==
    ASSUME MailInv, NEW r \in Requests, Email!VerifyUpdate(r), NEW k, k = asked[r]
    PROVE  \A y : y \in rows' <=> \E x \in rows : y = Marked(k.row.id, x)
<1>1. rows' = (rows \ { x \in rows : x.id = k.row.id })
                \union { [x EXCEPT !.verified = TRUE] : x \in { z \in rows : z.id = k.row.id } }
  BY DEF Email!VerifyUpdate
<1> QED BY <1>1 DEF Marked

(* A row that is marked keeps its id and its user.                              *)
LEMMA MarkedIs ==
    ASSUME NEW x \in MailRows, NEW i
    PROVE  /\ Marked(i, x) \in MailRows /\ Marked(i, x).id = x.id /\ Marked(i, x).user = x.user
           /\ Marked(i, x).verified = (x.verified \/ x.id = i)
<1>1. x.verified \in BOOLEAN
  BY DEF MailRows
<1>2. CASE x.id = i
  BY <1>1, <1>2, RowWrites DEF Marked
<1>3. CASE x.id # i
  BY <1>1, <1>3 DEF Marked
<1> QED BY <1>2, <1>3

(* Before the first account there is nothing to say.                            *)
LEMMA MailInit == ASSUME Email!Init PROVE MailInv
<1>1. asked \in [Requests -> AskTypes] /\ \A r \in Requests : asked[r] = Email!Idle
  BY DEF Email!Init, AskTypes
<1>2. Email!Idle.pc = "idle"
  BY DEF Email!Idle
<1> QED BY <1>1, <1>2 DEF Email!Init, MailInv, Faithful

(* The steps that leave the rows and the accounts alone.                        *)
LEMMA MailReads ==
    ASSUME MailInv, UNCHANGED <<rows, inserted, accounts, federated, told>>, proven \subseteq proven',
           NEW r \in Requests, NEW k \in AskTypes, asked' = [asked EXCEPT ![r] = k], Faithful(k)'
    PROVE  MailInv'
<1>1. RowsKept
  BY DEF MailInv, RowsKept
<1>2. asked' \in [Requests -> AskTypes] /\ \A s \in Requests : \A j \in {asked'[s]} : Faithful(j)'
  BY <1>1, MailMoves
<1>3. \A x \in rows' : RowOk(x)'
  BY DEF MailInv, RowOk
<1> QED BY <1>2, <1>3 DEF MailInv

(* A password account, and its request for the first row.                       *)
LEMMA MailRegisters ==
    ASSUME MailInv, NEW r \in Requests, NEW u \in Addressees, Email!Register(r, u)
    PROVE  MailInv'
<1>1. u \notin accounts /\ accounts' = accounts \union {u} /\ UNCHANGED <<rows, inserted, federated, proven, told>>
  BY DEF Email!Register
<1>2. PICK k \in AskTypes : k = [pc |-> "insert", row |-> [user |-> u]]
  BY AskPlaces
<1>3. k.pc = "insert" /\ k.row.user = u /\ asked' = [asked EXCEPT ![r] = k]
  BY <1>2 DEF Email!Register
<1>4. Faithful(k)' /\ RowsKept
  BY <1>1, <1>3 DEF Faithful, MailInv, RowsKept
<1>5. asked' \in [Requests -> AskTypes] /\ \A s \in Requests : \A j \in {asked'[s]} : Faithful(j)'
  BY <1>1, <1>3, <1>4, MailMoves
<1>6. \A x \in rows' : RowOk(x)'
  BY <1>1 DEF MailInv, RowOk
<1> QED BY <1>1, <1>5, <1>6 DEF MailInv

(* An OAuth account, with its verified row.                                     *)
LEMMA MailFederates ==
    ASSUME MailInv, NEW u \in Addressees, Email!RegisterOAuth(u)
    PROVE  MailInv'
<1>1. /\ u \notin accounts /\ accounts' = accounts \union {u} /\ federated' = federated \union {u}
      /\ rows' = rows \union {Email!NewRow(u, TRUE)} /\ inserted' = inserted + 1
      /\ UNCHANGED <<proven, told, asked>>
  BY DEF Email!RegisterOAuth
<1>2. PICK n \in MailRows : /\ n.id = inserted + 1 /\ n.user = u /\ n.verified = TRUE
                            /\ rows' = rows \union {n}
  BY <1>1, NewRowIs
<1>3. /\ RowsKept /\ rows' \subseteq MailRows
      /\ \A x \in rows : x.id <= inserted'
      /\ \A x, y \in rows' : x.id = y.id => x = y
  BY <1>1, <1>2, InsertKeeps
<1>4. ASSUME NEW x \in rows' PROVE RowOk(x)'
  <2>1. CASE x \in rows
    BY <1>1, <1>3, <2>1 DEF MailInv, RowOk
  <2>2. CASE x = n
    BY <1>1, <1>2, <2>2 DEF MailInv, RowOk
  <2> QED BY <1>2, <2>1, <2>2
<1>5. asked' \in [Requests -> AskTypes] /\ \A s \in Requests : \A j \in {asked'[s]} : Faithful(j)'
  BY <1>1, <1>3, MailStays
<1>6. \A v \in federated' : \E x \in rows' : x.user = v
  BY <1>1, <1>2 DEF MailInv
<1>7. /\ federated' \subseteq accounts' /\ told' \subseteq accounts' /\ inserted' \in Nat
      /\ accounts' \subseteq Addressees
  BY <1>1 DEF MailInv
<1> QED BY <1>3, <1>4, <1>5, <1>6, <1>7 DEF MailInv

(* 24 hours pass.                                                               *)
LEMMA MailExpires ==
    ASSUME MailInv, NEW x \in rows, Email!Expire(x)
    PROVE  MailInv'
<1>1. /\ UNCHANGED <<accounts, inserted, federated, proven, told, asked>> /\ x \in MailRows
      /\ rows' = (rows \ {x}) \union {[x EXCEPT !.expired = TRUE]}
  BY DEF Email!Expire, MailInv
<1>2. PICK w \in MailRows : /\ rows' = (rows \ {x}) \union {w}
                            /\ w.id = x.id /\ w.user = x.user /\ w.verified = x.verified
  BY <1>1, RowWrites
<1>3. /\ \A y \in rows' : \E z \in rows : z.id = y.id /\ z.user = y.user /\ z.verified = y.verified
      /\ \A z \in rows : \E y \in rows' : y.user = z.user
      /\ rows' \subseteq MailRows
      /\ \A y, z \in rows' : y.id = z.id => y = z
  BY <1>2 DEF MailInv
<1>4. ASSUME NEW y \in rows' PROVE RowOk(y)'
  <2>1. PICK z \in rows : z.id = y.id /\ z.user = y.user /\ z.verified = y.verified
    BY <1>3
  <2> QED BY <1>1, <2>1 DEF MailInv, RowOk
<1>5. RowsKept
  BY <1>1, <1>3 DEF MailInv, RowsKept
<1>6. asked' \in [Requests -> AskTypes] /\ \A s \in Requests : \A j \in {asked'[s]} : Faithful(j)'
  BY <1>1, <1>5, MailStays
<1> QED BY <1>1, <1>3, <1>4, <1>6 DEF MailInv

(* A request for a new code finds an unverified row of the user, or none; the   *)
(* user's sign-in is not an OAuth one, as such a user has a verified row only.  *)
LEMMA AskFinds ==
    ASSUME MailInv, NEW r \in Requests, NEW u \in Addressees, Email!AskRead(r, u)
    PROVE  \E k \in AskTypes :
             /\ asked' = [asked EXCEPT ![r] = k] /\ k.row.user = u /\ u \in accounts /\ u \notin federated
             /\ \/ k.pc = "delete" /\ k.row \in rows /\ ~k.row.verified
                \/ k.pc = "insert" /\ \A x \in rows : x.user # u
<1>1. CASE \E x \in Email!Row(u) :
             Email!MayAsk(x) /\ asked' = [asked EXCEPT ![r] = [pc |-> "delete", row |-> x]]
  <2>1. PICK x \in rows : /\ x.user = u /\ ~x.verified
                          /\ asked' = [asked EXCEPT ![r] = [pc |-> "delete", row |-> x]]
    BY <1>1 DEF Email!Row, Email!MayAsk
  <2>2. u \in accounts /\ u \notin federated
    BY <2>1 DEF MailInv, RowOk
  <2>3. PICK k : k = [pc |-> "delete", row |-> x]
    OBVIOUS
  <2>4. k.pc = "delete" /\ k.row = x /\ k \in AskTypes
    BY <2>3, AskPlaces DEF MailInv
  <2> QED BY <2>1, <2>2, <2>3, <2>4
<1>2. CASE Email!Row(u) = {} /\ asked' = [asked EXCEPT ![r] = [pc |-> "insert", row |-> [user |-> u]]]
  <2>1. \A x \in rows : x.user # u
    BY <1>2 DEF Email!Row
  <2>2. u \in accounts /\ u \notin federated
    BY <2>1 DEF MailInv, Email!AskRead
  <2>3. PICK k : k = [pc |-> "insert", row |-> [user |-> u]]
    OBVIOUS
  <2>4. k.pc = "insert" /\ k.row.user = u /\ k \in AskTypes
    BY <2>3, AskPlaces
  <2> QED BY <1>2, <2>1, <2>2, <2>3, <2>4
<1> QED BY <1>1, <1>2 DEF Email!AskRead

(* verify_email finds an unverified row, in time.                               *)
LEMMA VerifyFinds ==
    ASSUME MailInv, NEW r \in Requests, NEW x \in rows, Email!VerifyRead(r, x)
    PROVE  \E k \in AskTypes :
             /\ asked' = [asked EXCEPT ![r] = k] /\ k.pc = "verify" /\ k.row = x
             /\ ~x.verified /\ x.user \in accounts /\ x.user \notin federated
             /\ proven' = proven \union {x.user} /\ x.user \in proven'
             /\ UNCHANGED <<rows, inserted, accounts, federated, told>>
<1>1. /\ UNCHANGED <<rows, inserted, accounts, federated, told>> /\ proven' = proven \union {x.user}
      /\ ~x.verified
  BY DEF Email!VerifyRead, Email!Pending
<1>2. x.user \in accounts /\ x.user \notin federated
  BY <1>1 DEF MailInv, RowOk
<1>3. PICK k : k = [pc |-> "verify", row |-> x]
  OBVIOUS
<1>4. k.pc = "verify" /\ k.row = x /\ k \in AskTypes
  BY <1>3, AskPlaces DEF MailInv
<1>5. asked' = [asked EXCEPT ![r] = k]
  BY <1>3 DEF Email!VerifyRead
<1> QED BY <1>1, <1>2, <1>4, <1>5

(* What is written when a code has been verified.                               *)
LEMMA MailVerifies ==
    ASSUME MailInv, NEW r \in Requests, Email!VerifyUpdate(r)
    PROVE  MailInv'
<1>1. UNCHANGED <<accounts, inserted, federated, proven>> /\ asked' = [asked EXCEPT ![r] = Email!Idle]
  BY DEF Email!VerifyUpdate
<1>2. PICK k : k = asked[r]
  OBVIOUS
<1>3. k.pc = "verify" /\ Faithful(k) /\ told' = told \union {k.row.user}
  BY <1>2 DEF Email!VerifyUpdate, MailInv
<1>4. \A y : y \in rows' <=> \E x \in rows : y = Marked(k.row.id, x)
  BY <1>2, MarkedRows
<1>5. \A x \in rows :
        /\ Marked(k.row.id, x) \in MailRows
        /\ Marked(k.row.id, x).id = x.id /\ Marked(k.row.id, x).user = x.user
        /\ Marked(k.row.id, x).verified = (x.verified \/ x.id = k.row.id)
  BY MarkedIs DEF MailInv
<1>6. /\ \A y \in rows' : \E z \in rows : z.id = y.id /\ z.user = y.user
      /\ \A z \in rows : \E y \in rows' : y.user = z.user
      /\ rows' \subseteq MailRows
  BY <1>4, <1>5
<1>7. ASSUME NEW y \in rows', NEW z \in rows', y.id = z.id PROVE y = z
  <2>1. PICK a \in rows : y = Marked(k.row.id, a)
    BY <1>4
  <2>2. PICK b \in rows : z = Marked(k.row.id, b)
    BY <1>4
  <2>3. a.id = b.id
    BY <1>5, <1>7, <2>1, <2>2
  <2>4. a = b
    BY <2>3 DEF MailInv
  <2> QED BY <2>1, <2>2, <2>4
<1>8. ASSUME NEW y \in rows' PROVE RowOk(y)'
  <2>1. PICK x \in rows : y = Marked(k.row.id, x)
    BY <1>4
  <2>2. RowOk(x) /\ (x.id = k.row.id => x.user \in proven)
    BY <1>3 DEF MailInv, Faithful
  <2>3. y.id = x.id /\ y.user = x.user /\ y.verified = (x.verified \/ x.id = k.row.id)
    BY <1>5, <2>1
  <2> QED BY <1>1, <2>2, <2>3 DEF RowOk
<1>9. RowsKept
  BY <1>1, <1>6 DEF MailInv, RowsKept
<1>10. asked' \in [Requests -> AskTypes] /\ \A s \in Requests : \A j \in {asked'[s]} : Faithful(j)'
  BY <1>1, <1>9, IdleIsFaithful, AskPlaces, MailMoves
<1>11. told' \subseteq accounts'
  BY <1>1, <1>3 DEF MailInv, Faithful
<1>12. \A u \in federated' : \E y \in rows' : y.user = u
  BY <1>1, <1>6 DEF MailInv
<1> QED BY <1>1, <1>6, <1>7, <1>8, <1>10, <1>11, <1>12 DEF MailInv

(* The old code goes: a row of a user who may have others, but no OAuth row.    *)
LEMMA MailDeletes ==
    ASSUME MailInv, NEW r \in Requests, Email!AskDelete(r)
    PROVE  MailInv'
<1>1. PICK k : k = asked[r] /\ k \in AskTypes /\ Faithful(k)
  BY DEF MailInv
<1>2. k.pc = "delete" /\ k.row \in MailRows
  BY <1>1, AskShapes DEF Email!AskDelete
<1>3. /\ UNCHANGED <<accounts, inserted, federated, proven, told>>
      /\ rows' = { x \in rows : x.id # k.row.id }
  BY <1>1 DEF Email!AskDelete
<1>4. k.row.user \in Addressees /\ k.row.user \in accounts /\ k.row.user \notin federated
  BY <1>1, <1>2 DEF MailRows, Faithful
<1>5. PICK j \in AskTypes : j = [pc |-> "insert", row |-> [user |-> k.row.user]]
  BY <1>4, AskPlaces
<1>6. j.pc = "insert" /\ j.row.user = k.row.user /\ asked' = [asked EXCEPT ![r] = j]
  BY <1>1, <1>5 DEF Email!AskDelete
<1>7. Faithful(j)' /\ RowsKept
  BY <1>3, <1>4, <1>6 DEF Faithful, MailInv, RowsKept
<1>8. asked' \in [Requests -> AskTypes] /\ \A s \in Requests : \A i \in {asked'[s]} : Faithful(i)'
  BY <1>3, <1>6, <1>7, MailMoves
<1>9. \A x \in rows' : RowOk(x)'
  BY <1>3 DEF MailInv, RowOk
<1>10. \A u \in federated' : \E x \in rows' : x.user = u
  <2>1. \A x \in rows : x.user \in federated => x.id # k.row.id
    BY <1>1, <1>2, <1>4 DEF Faithful
  <2> QED BY <1>3, <2>1 DEF MailInv
<1> QED BY <1>3, <1>8, <1>9, <1>10 DEF MailInv

(* A new code, for a user whose sign-in is not an OAuth one.                    *)
LEMMA MailInserts ==
    ASSUME MailInv, NEW r \in Requests, Email!AskInsert(r)
    PROVE  MailInv'
<1>1. PICK k : k = asked[r] /\ k \in AskTypes /\ Faithful(k)
  BY DEF MailInv
<1>2. k.pc = "insert" /\ k.row \in [user : Addressees]
  BY <1>1, AskShapes DEF Email!AskInsert
<1>3. PICK u \in Addressees : u = k.row.user
  BY <1>2
<1>4. u \in accounts /\ u \notin federated
  BY <1>1, <1>2, <1>3 DEF Faithful
<1>5. /\ UNCHANGED <<accounts, federated, proven, told>> /\ inserted' = inserted + 1
      /\ rows' = rows \union {Email!NewRow(u, FALSE)} /\ asked' = [asked EXCEPT ![r] = Email!Idle]
  BY <1>1, <1>3 DEF Email!AskInsert, Email!FreshRow
<1>6. PICK n \in MailRows : n.id = inserted + 1 /\ n.user = u /\ n.verified = FALSE /\ rows' = rows \union {n}
  BY <1>5, NewRowIs
<1>7. inserted' = inserted + 1 /\ asked' = [asked EXCEPT ![r] = Email!Idle]
  BY <1>5
<1>8. /\ RowsKept /\ rows' \subseteq MailRows
      /\ \A x \in rows : x.id <= inserted'
      /\ \A x, y \in rows' : x.id = y.id => x = y
  BY <1>6, <1>7, InsertKeeps
<1>9. ASSUME NEW x \in rows' PROVE RowOk(x)'
  <2>1. CASE x \in rows
    BY <1>5, <1>8, <2>1 DEF MailInv, RowOk
  <2>2. CASE x = n
    BY <1>4, <1>5, <1>6, <2>2 DEF MailInv, RowOk
  <2> QED BY <1>6, <2>1, <2>2
<1>10. asked' \in [Requests -> AskTypes] /\ \A s \in Requests : \A j \in {asked'[s]} : Faithful(j)'
  BY <1>5, <1>7, <1>8, IdleIsFaithful, AskPlaces, MailMoves
<1>11. \A v \in federated' : \E x \in rows' : x.user = v
  BY <1>5, <1>6 DEF MailInv
<1>12. /\ inserted' \in Nat /\ federated' \subseteq accounts' /\ told' \subseteq accounts'
       /\ accounts' \subseteq Addressees
  BY <1>5 DEF MailInv
<1> QED BY <1>8, <1>9, <1>10, <1>11, <1>12 DEF MailInv

(* Every step of the verification handlers keeps the invariant.                 *)
LEMMA MailStep == ASSUME MailInv, [Email!Next]_Email!vars PROVE MailInv'
<1>1. CASE UNCHANGED Email!vars
  <2>1. UNCHANGED <<accounts, rows, inserted, federated, proven, told, asked>>
    BY <1>1 DEF Email!vars
  <2>2. RowsKept
    BY <2>1 DEF MailInv, RowsKept
  <2>3. \A x \in rows' : RowOk(x)'
    BY <2>1 DEF MailInv, RowOk
  <2> QED BY <2>1, <2>2, <2>3, MailStays DEF MailInv
<1>2. ASSUME NEW r \in Requests, NEW u \in Addressees, Email!AskRead(r, u) PROVE MailInv'
  <2>1. UNCHANGED <<rows, inserted, accounts, federated, told, proven>>
    BY <1>2 DEF Email!AskRead
  <2>2. PICK k \in AskTypes :
          /\ asked' = [asked EXCEPT ![r] = k] /\ k.row.user = u /\ u \in accounts /\ u \notin federated
          /\ (k.pc = "delete" /\ k.row \in rows) \/ k.pc = "insert"
    BY <1>2, AskFinds
  <2>3. Faithful(k)'
    BY <2>1, <2>2 DEF Faithful, MailInv, RowOk
  <2> QED BY <2>1, <2>2, <2>3, MailReads
<1>3. ASSUME NEW r \in Requests, NEW x \in rows, Email!VerifyRead(r, x) PROVE MailInv'
  <2>1. PICK k \in AskTypes :
          /\ asked' = [asked EXCEPT ![r] = k] /\ k.pc = "verify" /\ k.row = x
          /\ x.user \in accounts /\ x.user \notin federated
          /\ proven' = proven \union {x.user} /\ x.user \in proven'
          /\ UNCHANGED <<rows, inserted, accounts, federated, told>>
    BY <1>3, VerifyFinds
  <2>2. Faithful(k)'
    BY <2>1 DEF Faithful, MailInv, RowOk
  <2> QED BY <2>1, <2>2, MailReads
<1>4. ASSUME NEW r \in Requests, Email!Fail(r) PROVE MailInv'
  <2>1. /\ UNCHANGED <<rows, inserted, accounts, federated, told, proven>>
        /\ asked' = [asked EXCEPT ![r] = Email!Idle]
    BY <1>4 DEF Email!Fail
  <2> QED BY <2>1, AskPlaces, IdleIsFaithful, MailReads
<1> QED BY <1>1, <1>2, <1>3, <1>4, MailRegisters, MailFederates, MailExpires, MailVerifies,
        MailDeletes, MailInserts
     DEF Email!Next

(* Verified rows are a provider's word, or a code's that came back in time; an  *)
(* OAuth account keeps its verified row.                                        *)
LEMMA MailSays == ASSUME MailInv PROVE Email!VerifiedForAReason /\ Email!FederatedIsVerified
BY DEF MailInv, RowOk, Email!VerifiedForAReason, Email!FederatedIsVerified, Email!Row
-----------------------------------------------------------------------------
\* Request k is about user u.
About(k, u) == k.pc # "idle" /\ k.row.user = u

\* What a request about u relies on.
Undisturbed(k, u) ==
    /\ k.pc = "verify" => \E x \in rows : x.id = k.row.id /\ x.user = u
    /\ k.pc = "delete" => u \notin told /\ \A x \in rows : x.user = u => x.id = k.row.id
    /\ k.pc = "insert" => u \notin told /\ \A x \in rows : x.user # u

\* A user whose requests for codes never overlapped another one of the same user's: one
\* row at most, verified once that was said, and requests that only show codes or are alone.
Orderly(u) ==
    /\ \A x, y \in rows : x.user = u /\ y.user = u => x = y
    /\ u \in told => \E x \in rows : x.user = u /\ x.verified
    /\ \A r, s \in Requests : \A j \in {asked[r]}, k \in {asked[s]} :
         About(j, u) /\ About(k, u) => r = s \/ (j.pc = "verify" /\ k.pc = "verify")
    /\ \A r \in Requests : \A k \in {asked[r]} : About(k, u) => Undisturbed(k, u)

\* The inductive invariant of the users whose requests did not cross.
Uncrossed == \A u \in Addressees : u \notin crossed => Orderly(u)

(* What one user's requests do leaves the other users' rows and requests alone. *)
LEMMA Elsewhere ==
    ASSUME NEW u, Orderly(u), u \in told' => u \in told,
           \A x : x \in rows' /\ x.user = u <=> x \in rows /\ x.user = u,
           \A s \in Requests : \A k \in {asked'[s]} : About(k, u) => k = asked[s]
    PROVE  Orderly(u)'
<1>1. \A x, y \in rows' : x.user = u /\ y.user = u => x = y
  BY DEF Orderly
<1>2. u \in told' => \E x \in rows' : x.user = u /\ x.verified
  BY DEF Orderly
<1>3. ASSUME NEW r \in Requests, NEW s \in Requests, NEW j, j = asked'[r], NEW k, k = asked'[s],
             About(j, u), About(k, u)
      PROVE  r = s \/ (j.pc = "verify" /\ k.pc = "verify")
  <2>1. j = asked[r] /\ k = asked[s]
    BY <1>3
  <2> QED BY <1>3, <2>1 DEF Orderly
<1>4. ASSUME NEW r \in Requests, NEW k, k = asked'[r], About(k, u)
      PROVE  Undisturbed(k, u)'
  <2>1. k = asked[r]
    BY <1>4
  <2>2. Undisturbed(k, u)
    BY <1>4, <2>1 DEF Orderly
  <2> QED BY <2>2 DEF Undisturbed
<1> QED BY <1>1, <1>2, <1>3, <1>4 DEF Orderly, About

(* Where the request of one step goes.                                          *)
LEMMA OneMoves ==
    ASSUME MailInv, NEW r \in Requests, NEW k, asked' = [asked EXCEPT ![r] = k]
    PROVE  \A s \in Requests : asked'[s] = (IF s = r THEN k ELSE asked[s])
BY DEF MailInv

(* The requests about a user it does not go to are the ones there were.         *)
LEMMA OthersStay ==
    ASSUME MailInv, NEW r \in Requests, NEW k, asked' = [asked EXCEPT ![r] = k], NEW u, ~About(k, u)
    PROVE  \A s \in Requests : \A j \in {asked'[s]} : About(j, u) => s # r /\ j = asked[s]
<1>1. \A s \in Requests : asked'[s] = (IF s = r THEN k ELSE asked[s])
  BY OneMoves
<1> QED BY <1>1

(* An ended request is about nobody.                                            *)
LEMMA IdleAbout == \A u : ~About(Email!Idle, u)
BY AskPlaces DEF About

(* Nobody asks for a user who is not registered, and there is nothing to find.  *)
LEMMA NoAccountNothing ==
    ASSUME MailInv, NEW u, u \notin accounts
    PROVE  /\ \A x \in rows : x.user # u
           /\ u \notin told
           /\ \A s \in Requests : \A j \in {asked[s]} : ~About(j, u)
<1>1. \A x \in rows : x.user # u
  BY DEF MailInv, RowOk
<1>2. u \notin told
  BY DEF MailInv
<1>3. \A s \in Requests : \A j \in {asked[s]} : ~About(j, u)
  BY DEF MailInv, Faithful, About
<1> QED BY <1>1, <1>2, <1>3

(* Only the request r is about u, and what it relies on holds.                  *)
LEMMA AloneIsOrderly ==
    ASSUME NEW u, NEW r \in Requests, NEW k,
           \A s \in Requests : \A j \in {asked'[s]} : About(j, u) => s = r /\ j = k,
           About(k, u) => Undisturbed(k, u)',
           \A x, y \in rows' : x.user = u /\ y.user = u => x = y,
           u \in told' => \E x \in rows' : x.user = u /\ x.verified
    PROVE  Orderly(u)'
BY DEF Orderly

(* A request at work on a row of u, or about to insert one, is alone.           *)
LEMMA WriterIsAlone ==
    ASSUME NEW u, Orderly(u), NEW r \in Requests, NEW k, k = asked[r], About(k, u), k.pc # "verify"
    PROVE  \A s \in Requests : \A j \in {asked[s]} : About(j, u) => s = r
BY DEF Orderly

(* A new password account: one request, about to insert the first row.          *)
LEMMA OrderlyRegisters ==
    ASSUME MailInv, Uncrossed, NEW r \in Requests, NEW u \in Addressees, Email!Register(r, u)
    PROVE  Uncrossed'
<1>1. u \notin accounts /\ UNCHANGED <<rows, told, crossed>>
  BY DEF Email!Register
<1>2. PICK k : k = [pc |-> "insert", row |-> [user |-> u]]
  OBVIOUS
<1>3. k.pc = "insert" /\ k.row.user = u /\ asked' = [asked EXCEPT ![r] = k]
  BY <1>2 DEF Email!Register
<1>4. \A s \in Requests : asked'[s] = (IF s = r THEN k ELSE asked[s])
  BY <1>3, OneMoves
<1>5. ASSUME NEW v \in Addressees, v \notin crossed' PROVE Orderly(v)'
  <2>1. CASE v = u
    <3>1. \A s \in Requests : \A j \in {asked'[s]} : About(j, v) => s = r /\ j = k
      BY <1>1, <1>4, <2>1, NoAccountNothing
    <3>2. Undisturbed(k, v)' /\ (\A x \in rows' : x.user # v) /\ v \notin told'
      BY <1>1, <1>3, <2>1, NoAccountNothing DEF Undisturbed
    <3> QED BY <3>1, <3>2, AloneIsOrderly
  <2>2. CASE v # u
    <3>1. ~About(k, v)
      BY <1>3, <2>2 DEF About
    <3> QED BY <1>1, <1>3, <1>5, <3>1, OthersStay, Elsewhere DEF Uncrossed
  <2> QED BY <2>1, <2>2
<1> QED BY <1>5 DEF Uncrossed

(* A new OAuth account: one row, and no request about it.                       *)
LEMMA OrderlyFederates ==
    ASSUME MailInv, Uncrossed, NEW u \in Addressees, Email!RegisterOAuth(u)
    PROVE  Uncrossed'
<1>1. /\ u \notin accounts /\ rows' = rows \union {Email!NewRow(u, TRUE)}
      /\ UNCHANGED <<told, crossed, asked>>
  BY DEF Email!RegisterOAuth
<1>2. PICK n \in MailRows : n.user = u /\ rows' = rows \union {n}
  BY <1>1, NewRowIs
<1>3. ASSUME NEW v \in Addressees, v \notin crossed' PROVE Orderly(v)'
  <2>1. CASE v = u
    <3>1. \A s \in Requests : \A j \in {asked'[s]} : ~About(j, v)
      BY <1>1, <2>1, NoAccountNothing
    <3>2. (\A x, y \in rows' : x.user = v /\ y.user = v => x = y) /\ v \notin told'
      BY <1>1, <1>2, <2>1, NoAccountNothing
    <3> QED BY <3>1, <3>2 DEF Orderly
  <2>2. CASE v # u
    <3>1. \A x : x \in rows' /\ x.user = v <=> x \in rows /\ x.user = v
      BY <1>2, <2>2
    <3>2. Orderly(v)
      BY <1>1, <1>3 DEF Uncrossed
    <3> QED BY <1>1, <3>1, <3>2, Elsewhere
  <2> QED BY <2>1, <2>2
<1> QED BY <1>3 DEF Uncrossed

(* A row that has expired is where it was.                                      *)
LEMMA OrderlyExpires ==
    ASSUME MailInv, Uncrossed, NEW x \in rows, Email!Expire(x)
    PROVE  Uncrossed'
<1>1. /\ UNCHANGED <<told, crossed, asked>> /\ x \in MailRows
      /\ rows' = (rows \ {x}) \union {[x EXCEPT !.expired = TRUE]}
  BY DEF Email!Expire, MailInv
<1>2. PICK w \in MailRows : /\ rows' = (rows \ {x}) \union {w}
                            /\ w.id = x.id /\ w.user = x.user /\ w.verified = x.verified
  BY <1>1, RowWrites
<1>3. ASSUME NEW v \in Addressees, v \notin crossed' PROVE Orderly(v)'
  <2>1. Orderly(v)
    BY <1>1, <1>3 DEF Uncrossed
  <2>2. /\ \A y \in rows' : \E z \in rows : z.id = y.id /\ z.user = y.user
        /\ \A z \in rows : \E y \in rows' : y.id = z.id /\ y.user = z.user /\ y.verified = z.verified
    BY <1>2
  <2>3. \A y, z \in rows' : y.user = v /\ z.user = v => y = z
    BY <1>2, <2>1 DEF Orderly
  <2>4. v \in told' => \E y \in rows' : y.user = v /\ y.verified
    BY <1>1, <2>1, <2>2 DEF Orderly
  <2>5. ASSUME NEW r \in Requests, NEW k, k = asked'[r], About(k, v) PROVE Undisturbed(k, v)'
    <3>1. Undisturbed(k, v)
      BY <1>1, <2>1, <2>5 DEF Orderly
    <3>2. k.pc = "verify" => \E y \in rows' : y.id = k.row.id /\ y.user = v
      BY <2>2, <3>1 DEF Undisturbed
    <3>3. k.pc = "delete" => v \notin told' /\ \A y \in rows' : y.user = v => y.id = k.row.id
      BY <1>1, <2>2, <3>1 DEF Undisturbed
    <3>4. k.pc = "insert" => v \notin told' /\ \A y \in rows' : y.user # v
      BY <1>1, <2>2, <3>1 DEF Undisturbed
    <3> QED BY <3>2, <3>3, <3>4 DEF Undisturbed
  <2> QED BY <1>1, <2>1, <2>3, <2>4, <2>5 DEF Orderly
<1> QED BY <1>3 DEF Uncrossed

(* A request that begins about u: which others may be about u without crossing. *)
LEMMA NotCrossed ==
    ASSUME MailInv, NEW u, NEW places, Email!Meets(u, places), u \notin crossed'
    PROVE  /\ u \notin crossed
           /\ \A s \in Requests : \A j \in {asked[s]} : About(j, u) => j.pc \notin places
<1>1. ~Email!Crosses(u, places) /\ u \notin crossed
  BY DEF Email!Meets
<1> QED BY <1>1 DEF Email!Crosses, About

(* A request for a new code that crosses nobody is alone.                       *)
LEMMA OrderlyAsks ==
    ASSUME MailInv, Uncrossed, NEW r \in Requests, NEW u \in Addressees, Email!AskRead(r, u)
    PROVE  Uncrossed'
<1>1. UNCHANGED <<rows, told>> /\ Email!Meets(u, Email!Any)
  BY DEF Email!AskRead
<1>2. PICK k \in AskTypes :
        /\ asked' = [asked EXCEPT ![r] = k] /\ k.row.user = u
        /\ \/ k.pc = "delete" /\ k.row \in rows /\ ~k.row.verified
           \/ k.pc = "insert" /\ \A x \in rows : x.user # u
  BY AskFinds
<1>3. \A s \in Requests : asked'[s] = (IF s = r THEN k ELSE asked[s])
  <2>1. asked' = [asked EXCEPT ![r] = k]
    BY <1>2
  <2> QED BY <2>1, OneMoves
<1>4. crossed \subseteq crossed'
  BY <1>1 DEF Email!Meets
<1>5. ASSUME NEW v \in Addressees, v \notin crossed' PROVE Orderly(v)'
  <2>1. Orderly(v)
    BY <1>4, <1>5 DEF Uncrossed
  <2>2. CASE v = u
    <3>1. \A s \in Requests : \A j \in {asked[s]} : ~About(j, u)
      <4>1. \A s \in Requests : \A j \in {asked[s]} : About(j, u) => j.pc \notin Email!Any
        BY <1>1, <1>5, <2>2, NotCrossed
      <4>2. \A s \in Requests : \A j \in {asked[s]} : j.pc \in {"idle", "verify", "delete", "insert"}
        BY AskShapes DEF MailInv
      <4> QED BY <4>1, <4>2 DEF Email!Any, About
    <3>2. \A s \in Requests : \A j \in {asked'[s]} : About(j, v) => s = r /\ j = k
      BY <1>3, <2>2, <3>1
    <3>3. Undisturbed(k, v)'
      <4>1. CASE k.pc = "delete"
        <5>1. k.row \in rows /\ ~k.row.verified
          BY <1>2, <4>1
        <5>2. \A x \in rows : x.user = v => x = k.row
          BY <1>2, <2>1, <2>2, <5>1 DEF Orderly
        <5>3. v \notin told
          BY <2>1, <5>1, <5>2 DEF Orderly
        <5> QED BY <1>1, <4>1, <5>2, <5>3 DEF Undisturbed
      <4>2. CASE k.pc = "insert"
        <5>1. \A x \in rows : x.user # v
          BY <1>2, <2>2, <4>2
        <5>2. v \notin told
          BY <2>1, <5>1 DEF Orderly
        <5> QED BY <1>1, <4>2, <5>1, <5>2 DEF Undisturbed
      <4> QED BY <1>2, <4>1, <4>2
    <3>4. /\ \A x, y \in rows' : x.user = v /\ y.user = v => x = y
          /\ v \in told' => \E x \in rows' : x.user = v /\ x.verified
      BY <1>1, <2>1 DEF Orderly
    <3> QED BY <3>2, <3>3, <3>4, AloneIsOrderly
  <2>3. CASE v # u
    <3>1. ~About(k, v)
      BY <1>2, <2>3 DEF About
    <3> QED BY <1>1, <1>2, <2>1, <3>1, OthersStay, Elsewhere
  <2> QED BY <2>2, <2>3
<1> QED BY <1>5 DEF Uncrossed

(* A code that is shown while no new one is asked for.                          *)
LEMMA OrderlyShows ==
    ASSUME MailInv, Uncrossed, NEW r \in Requests, NEW x \in rows, Email!VerifyRead(r, x)
    PROVE  Uncrossed'
<1>1. UNCHANGED <<rows, told>> /\ Email!Meets(x.user, {"delete", "insert"})
  BY DEF Email!VerifyRead
<1>2. PICK k \in AskTypes : asked' = [asked EXCEPT ![r] = k] /\ k.pc = "verify" /\ k.row = x
  BY VerifyFinds
<1>3. \A s \in Requests : asked'[s] = (IF s = r THEN k ELSE asked[s])
  <2>1. asked' = [asked EXCEPT ![r] = k]
    BY <1>2
  <2> QED BY <2>1, OneMoves
<1>4. crossed \subseteq crossed'
  BY <1>1 DEF Email!Meets
<1>5. ASSUME NEW v \in Addressees, v \notin crossed' PROVE Orderly(v)'
  <2>1. Orderly(v)
    BY <1>4, <1>5 DEF Uncrossed
  <2>2. CASE v = x.user
    <3>1. \A s \in Requests : \A j \in {asked[s]} : About(j, v) => j.pc = "verify"
      <4>1. \A s \in Requests : \A j \in {asked[s]} : About(j, v) => j.pc \notin {"delete", "insert"}
        BY <1>1, <1>5, <2>2, NotCrossed
      <4>2. \A s \in Requests : \A j \in {asked[s]} : j.pc \in {"idle", "verify", "delete", "insert"}
        BY AskShapes DEF MailInv
      <4> QED BY <4>1, <4>2 DEF About
    <3>2. \A s \in Requests : \A j \in {asked'[s]} : About(j, v) => j.pc = "verify"
      BY <1>2, <1>3, <3>1
    <3>3. ASSUME NEW s \in Requests, NEW j, j = asked'[s], About(j, v) PROVE Undisturbed(j, v)'
      <4>1. CASE s = r
        BY <1>1, <1>2, <1>3, <2>2, <3>3, <4>1 DEF Undisturbed
      <4>2. CASE s # r
        <5>1. Undisturbed(j, v)
          BY <1>3, <2>1, <3>3, <4>2 DEF Orderly
        <5> QED BY <1>1, <5>1 DEF Undisturbed
      <4> QED BY <4>1, <4>2
    <3> QED BY <1>1, <2>1, <3>2, <3>3 DEF Orderly
  <2>3. CASE v # x.user
    <3>1. ~About(k, v)
      BY <1>2, <2>3 DEF About
    <3> QED BY <1>1, <1>2, <2>1, <3>1, OthersStay, Elsewhere
  <2> QED BY <2>2, <2>3
<1> QED BY <1>5 DEF Uncrossed

(* The row of a shown code is still there, and verified once it is said to be.  *)
LEMMA OrderlyVerifies ==
    ASSUME MailInv, Uncrossed, NEW r \in Requests, Email!VerifyUpdate(r)
    PROVE  Uncrossed'
<1>1. UNCHANGED crossed /\ asked' = [asked EXCEPT ![r] = Email!Idle]
  BY DEF Email!VerifyUpdate
<1>2. PICK k : k = asked[r]
  OBVIOUS
<1>3. k.pc = "verify" /\ Faithful(k) /\ told' = told \union {k.row.user}
  BY <1>2 DEF Email!VerifyUpdate, MailInv
<1>4. \A y : y \in rows' <=> \E x \in rows : y = Marked(k.row.id, x)
  BY <1>2, MarkedRows
<1>5. \A x \in rows :
        /\ Marked(k.row.id, x).id = x.id /\ Marked(k.row.id, x).user = x.user
        /\ Marked(k.row.id, x).verified = (x.verified \/ x.id = k.row.id)
  BY MarkedIs DEF MailInv
<1>6. \A s \in Requests : \A j \in {asked'[s]}, v \in Addressees : About(j, v) => s # r /\ j = asked[s]
  BY <1>1, IdleAbout, OthersStay
<1>7. ASSUME NEW v \in Addressees, v \notin crossed' PROVE Orderly(v)'
  <2>1. Orderly(v)
    BY <1>1, <1>7 DEF Uncrossed
  <2>2. CASE v # k.row.user
    <3>1. \A x \in rows : x.user = v => Marked(k.row.id, x) = x
      BY <1>3, <2>2 DEF Faithful, Marked
    <3>2. \A x : x \in rows' /\ x.user = v <=> x \in rows /\ x.user = v
      BY <1>4, <1>5, <3>1
    <3> QED BY <1>3, <1>6, <2>1, <2>2, <3>2, Elsewhere
  <2>3. CASE v = k.row.user
    <3>1. About(k, v)
      BY <1>3, <2>3 DEF About
    <3>2. Undisturbed(k, v)
      BY <1>2, <2>1, <3>1 DEF Orderly
    <3>3. PICK x \in rows : x.id = k.row.id /\ x.user = v
      BY <1>3, <3>2 DEF Undisturbed
    <3>4. ASSUME NEW y \in rows', NEW z \in rows', y.user = v, z.user = v PROVE y = z
      <4>1. PICK a \in rows : y = Marked(k.row.id, a)
        BY <1>4
      <4>2. PICK b \in rows : z = Marked(k.row.id, b)
        BY <1>4
      <4>3. a.user = v /\ b.user = v
        BY <1>5, <3>4, <4>1, <4>2
      <4>4. a = b
        BY <2>1, <4>3 DEF Orderly
      <4> QED BY <4>1, <4>2, <4>4
    <3>5. \E y \in rows' : y.user = v /\ y.verified
      <4>1. PICK y : y = Marked(k.row.id, x)
        OBVIOUS
      <4> QED BY <1>4, <1>5, <3>3, <4>1
    <3>6. ASSUME NEW s \in Requests, NEW j, j = asked'[s], About(j, v)
          PROVE  j = asked[s] /\ j.pc = "verify" /\ Undisturbed(j, v)'
      <4>1. s # r /\ j = asked[s]
        BY <1>6, <3>6
      <4>2. j.pc = "verify"
        BY <1>2, <2>1, <3>1, <3>6, <4>1 DEF Orderly
      <4>3. Undisturbed(j, v)
        BY <2>1, <3>6, <4>1 DEF Orderly
      <4>4. PICK z \in rows : z.id = j.row.id /\ z.user = v
        BY <4>2, <4>3 DEF Undisturbed
      <4>5. PICK y : y = Marked(k.row.id, z)
        OBVIOUS
      <4>6. y \in rows' /\ y.id = j.row.id /\ y.user = v
        BY <1>4, <1>5, <4>4, <4>5
      <4> QED BY <4>1, <4>2, <4>6 DEF Undisturbed
    <3> QED BY <3>4, <3>5, <3>6 DEF Orderly
  <2> QED BY <2>2, <2>3
<1> QED BY <1>7 DEF Uncrossed

(* Deleting the old code leaves its user without a row, and one request.        *)
LEMMA OrderlyDeletes ==
    ASSUME MailInv, Uncrossed, NEW r \in Requests, Email!AskDelete(r)
    PROVE  Uncrossed'
<1>1. PICK k : k = asked[r] /\ Faithful(k)
  BY DEF MailInv
<1>2. k.pc = "delete" /\ UNCHANGED <<told, crossed>> /\ rows' = { x \in rows : x.id # k.row.id }
  BY <1>1 DEF Email!AskDelete
<1>3. PICK j : j = [pc |-> "insert", row |-> [user |-> k.row.user]]
  OBVIOUS
<1>4. j.pc = "insert" /\ j.row.user = k.row.user /\ asked' = [asked EXCEPT ![r] = j]
  BY <1>1, <1>3 DEF Email!AskDelete
<1>5. \A s \in Requests : asked'[s] = (IF s = r THEN j ELSE asked[s])
  BY <1>4, OneMoves
<1>6. ASSUME NEW v \in Addressees, v \notin crossed' PROVE Orderly(v)'
  <2>1. Orderly(v)
    BY <1>2, <1>6 DEF Uncrossed
  <2>2. CASE v # k.row.user
    <3>1. ~About(j, v)
      BY <1>4, <2>2 DEF About
    <3>2. \A x \in rows : x.user = v => x.id # k.row.id
      BY <1>1, <1>2, <2>2 DEF Faithful
    <3>3. \A x : x \in rows' /\ x.user = v <=> x \in rows /\ x.user = v
      BY <1>2, <3>2
    <3> QED BY <1>2, <1>4, <2>1, <3>1, <3>3, OthersStay, Elsewhere
  <2>3. CASE v = k.row.user
    <3>1. About(k, v) /\ k.pc # "verify"
      BY <1>2, <2>3 DEF About
    <3>2. Undisturbed(k, v)
      BY <1>1, <2>1, <3>1 DEF Orderly
    <3>3. v \notin told' /\ \A x \in rows' : x.user # v
      BY <1>2, <3>2 DEF Undisturbed
    <3>4. \A s \in Requests : \A i \in {asked'[s]} : About(i, v) => s = r /\ i = j
      BY <1>1, <1>5, <2>1, <3>1, WriterIsAlone
    <3>5. Undisturbed(j, v)'
      BY <1>4, <3>3 DEF Undisturbed
    <3> QED BY <3>3, <3>4, <3>5, AloneIsOrderly
  <2> QED BY <2>2, <2>3
<1> QED BY <1>6 DEF Uncrossed

(* The new code is its user's only row.                                         *)
LEMMA OrderlyInserts ==
    ASSUME MailInv, Uncrossed, NEW r \in Requests, Email!AskInsert(r)
    PROVE  Uncrossed'
<1>1. PICK k : k = asked[r] /\ k \in AskTypes
  BY DEF MailInv
<1>2. k.pc = "insert" /\ k.row \in [user : Addressees]
  BY <1>1, AskShapes DEF Email!AskInsert
<1>3. PICK u \in Addressees : u = k.row.user
  BY <1>2
<1>4. /\ UNCHANGED <<told, crossed>> /\ rows' = rows \union {Email!NewRow(u, FALSE)}
      /\ asked' = [asked EXCEPT ![r] = Email!Idle]
  BY <1>1, <1>3 DEF Email!AskInsert, Email!FreshRow
<1>5. PICK n \in MailRows : n.user = u /\ rows' = rows \union {n}
  BY <1>4, NewRowIs
<1>6. UNCHANGED <<told, crossed>> /\ asked' = [asked EXCEPT ![r] = Email!Idle]
  BY <1>4
<1>7. \A s \in Requests : \A j \in {asked'[s]}, v \in Addressees : About(j, v) => s # r /\ j = asked[s]
  BY <1>6, IdleAbout, OthersStay
<1>8. ASSUME NEW v \in Addressees, v \notin crossed' PROVE Orderly(v)'
  <2>1. Orderly(v)
    BY <1>6, <1>8 DEF Uncrossed
  <2>2. CASE v # u
    <3>1. \A x : x \in rows' /\ x.user = v <=> x \in rows /\ x.user = v
      BY <1>5, <2>2
    <3> QED BY <1>6, <1>7, <2>1, <3>1, Elsewhere
  <2>3. CASE v = u
    <3>1. About(k, v) /\ k.pc # "verify"
      BY <1>2, <1>3, <2>3 DEF About
    <3>2. Undisturbed(k, v)
      BY <1>1, <2>1, <3>1 DEF Orderly
    <3>3. v \notin told' /\ \A x, y \in rows' : x.user = v /\ y.user = v => x = y
      BY <1>2, <1>5, <1>6, <3>2 DEF Undisturbed
    <3>4. \A s \in Requests : \A i \in {asked'[s]} : ~About(i, v)
      BY <1>1, <1>7, <2>1, <3>1, WriterIsAlone
    <3> QED BY <3>3, <3>4 DEF Orderly
  <2> QED BY <2>2, <2>3
<1> QED BY <1>8 DEF Uncrossed

(* Every step keeps the users whose requests did not cross in order.            *)
LEMMA UncrossedStep == ASSUME MailInv, Uncrossed, [Email!Next]_Email!vars PROVE Uncrossed'
<1>1. CASE UNCHANGED Email!vars
  <2>1. UNCHANGED <<rows, told, crossed, asked>>
    BY <1>1 DEF Email!vars
  <2> QED BY <2>1, Elsewhere DEF Uncrossed
<1>2. ASSUME NEW r \in Requests, Email!Fail(r) PROVE Uncrossed'
  <2>1. UNCHANGED <<rows, told, crossed>> /\ asked' = [asked EXCEPT ![r] = Email!Idle]
    BY <1>2 DEF Email!Fail
  <2> QED BY <2>1, IdleAbout, OthersStay, Elsewhere DEF Uncrossed
<1> QED BY <1>1, <1>2, OrderlyRegisters, OrderlyFederates, OrderlyExpires, OrderlyAsks, OrderlyShows,
        OrderlyVerifies, OrderlyDeletes, OrderlyInserts
     DEF Email!Next

(* At the start nobody was told anything and nobody asks.                       *)
LEMMA UncrossedInit == ASSUME Email!Init PROVE Uncrossed
<1>1. \A r \in Requests : \A k \in {asked[r]}, u \in Addressees : ~About(k, u)
  BY IdleAbout DEF Email!Init
<1>2. rows = {} /\ told = {}
  BY DEF Email!Init
<1> QED BY <1>1, <1>2 DEF Uncrossed, Orderly

(* A user who was told so, and whose requests did not cross, has one verified   *)
(* row.                                                                         *)
LEMMA UncrossedSays ==
    ASSUME Uncrossed, told \subseteq Addressees
    PROVE  Email!ToldIsVerified
BY DEF Uncrossed, Orderly, Email!ToldIsVerified, Email!Row

(* The rows of an account agree with it (mark_and_delete_user, kv::put,         *)
(* complete_destructive_password_reset, verify_email,                           *)
(* request_new_verification_code, create_user_with_oauth_seed_wrap), for any    *)
(* number of requests, keys, codes and users, and however requests overlap.     *)
THEOREM AccountSafety == Spec /\ Email!Spec => []AccountRowsAgree
<1>1. Init => KeyIsCurrent
  BY DEF Init, KeyIsCurrent, DataIsReadable
<1>2. CredInv /\ KeyIsCurrent /\ [Next]_vars => KeyIsCurrent'
  BY KeyStep
<1>3. Email!Init => MailInv /\ Uncrossed
  BY MailInit, UncrossedInit
<1>4. MailInv /\ Uncrossed /\ [Email!Next]_Email!vars => MailInv' /\ Uncrossed'
  BY MailStep, UncrossedStep
<1>5. CredInv /\ KeyIsCurrent /\ MailInv /\ Uncrossed => AccountRowsAgree
  BY MailSays, UncrossedSays
     DEF AccountRowsAgree, CredInv, NoRowNothing, DeletedIsGone, KeyIsCurrent, MailInv
<1> QED BY <1>1, <1>2, <1>3, <1>4, <1>5, CredStep, CredInit, PTL DEF Spec, Email!Spec
=============================================================================
