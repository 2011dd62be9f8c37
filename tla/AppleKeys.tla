----------------------------- MODULE AppleKeys -----------------------------
(******************************************************************************)
(* Verification of Apple identity tokens (apple_signin.rs): the cache of      *)
(* Apple's signing keys, shared by concurrent sign-ins, refreshed from Apple  *)
(* when a key is missing or the cache is over an hour old.                    *)
(*                                                                            *)
(* Apple is external: it publishes and withdraws keys at any time.  Its       *)
(* answer is the set published when it answered, and may arrive after later   *)
(* ones.  The verifier's client has no timeout of its own; Latency bounds how *)
(* long a sign-in stays in flight.                                            *)
(******************************************************************************)
EXTENDS Integers, FiniteSets

CONSTANTS
    Kids,       \* key ids
    Requests,   \* sign-ins in flight at most
    Fresh,      \* one hour: how long the cache is used without a refresh
    Leeway,     \* validation.leeway
    Latency,    \* bound: how long a sign-in is in flight
    MaxTime     \* bound on the clock

AppleAssumption ==
    /\ Fresh \in Nat /\ Leeway \in Nat /\ Latency \in Nat /\ MaxTime \in Nat

VARIABLES
    now,
    published,  \* the keys Apple signs with
    withdrawn,  \* history: when a key was withdrawn, MaxTime + 1 if it was not
    cache,      \* AppleJwksCache
    req         \* the sign-ins; pc is "ok" or "missing" after one that found its
                \* token good, or its key missing

vars == <<now, published, withdrawn, cache, req>>

Idle == [pc |-> "idle"]
Ok == [pc |-> "ok"]
Missing == [pc |-> "missing"]
InFlight(r) == req[r] \notin {Idle, Ok, Missing}

Init ==
    /\ now = 0
    /\ published \in SUBSET Kids
    /\ withdrawn = [k \in Kids |-> MaxTime + 1]
    /\ cache = [keys |-> {}, updated |-> -(Fresh + 1)]
    /\ req = [r \in Requests |-> Idle]

Publish(k) ==
    /\ k \notin published /\ withdrawn[k] > MaxTime
    /\ published' = published \union {k}
    /\ UNCHANGED <<now, withdrawn, cache, req>>

Withdraw(k) ==
    /\ k \in published
    /\ published' = published \ {k} /\ withdrawn' = [withdrawn EXCEPT ![k] = now]
    /\ UNCHANGED <<now, cache, req>>

Tick ==
    /\ now < MaxTime
    /\ \A r \in Requests : InFlight(r) => now < req[r].began + Latency
    /\ now' = now + 1
    /\ UNCHANGED <<published, withdrawn, cache, req>>
-----------------------------------------------------------------------------
\* Mutant: the age of the cache is not looked at.
AnyAge(k) == k \in cache.keys

Usable(k) == k \in cache.keys /\ now - cache.updated <= Fresh

AfterLook(k) == IF Usable(k) THEN "decode" ELSE "fetch"

\* A token names its key and expires; the cache is read first.
Start(r, k, exp) ==
    /\ ~InFlight(r)
    /\ req' = [req EXCEPT ![r] = [pc |-> AfterLook(k), kid |-> k, exp |-> exp, began |-> now,
                                  signer |-> k \in published, raced |-> FALSE, snap |-> {}]]
    /\ UNCHANGED <<now, published, withdrawn, cache>>

\* refresh_jwks: Apple answers, or the sign-in fails.
Fetch(r) ==
    /\ req[r].pc = "fetch"
    /\ \/ req' = [req EXCEPT ![r].pc = "install", ![r].snap = published]
       \/ req' = [req EXCEPT ![r] = Idle]
    /\ UNCHANGED <<now, published, withdrawn, cache>>

Race(r) == [q \in Requests |-> IF q # r /\ InFlight(q) THEN [req[q] EXCEPT !.raced = TRUE] ELSE req[q]]

Replaced(r) == req[r].snap

\* Under the write lock: the keys are replaced and the time is that of writing.
Install(r) ==
    /\ req[r].pc = "install"
    /\ cache' = [keys |-> Replaced(r), updated |-> now]
    /\ req' = [Race(r) EXCEPT ![r].pc = "decide"]
    /\ UNCHANGED <<now, published, withdrawn>>

\* The cache is read again, whoever wrote it last.
Decide(r) ==
    /\ req[r].pc = "decide"
    /\ req' = [req EXCEPT ![r] = IF req[r].kid \in cache.keys THEN [req[r] EXCEPT !.pc = "decode"] ELSE Missing]
    /\ UNCHANGED <<now, published, withdrawn, cache>>

Unexpired(r) == now <= req[r].exp + Leeway

\* jsonwebtoken::decode and the nonce: the audience, issuer and nonce may also
\* turn out not to be the ones expected.
Decode(r) ==
    /\ req[r].pc = "decode"
    /\ \/ Unexpired(r) /\ req' = [req EXCEPT ![r] = Ok]
       \/ req' = [req EXCEPT ![r] = Idle]
    /\ UNCHANGED <<now, published, withdrawn, cache>>

Next ==
    \/ Tick
    \/ \E k \in Kids : Publish(k) \/ Withdraw(k)
    \/ \E r \in Requests :
         \/ \E k \in Kids, exp \in 0 .. MaxTime : Start(r, k, exp)
         \/ Fetch(r) \/ Install(r) \/ Decide(r) \/ Decode(r)

Spec == Init /\ [][Next]_vars
-----------------------------------------------------------------------------
Accepts(r) == InFlight(r) /\ req'[r] = Ok

\* A key that Apple withdrew is honoured for the cache's hour at most, plus the
\* time an answer from before the withdrawal may still be under way, however the
\* refreshes of concurrent sign-ins interleave.
WithdrawnKeyExpires ==
    [][\A r \in Requests : Accepts(r) => now <= withdrawn[req[r].kid] + 2 * Latency + Fresh]_vars

\* A token that expires while its key is being fetched is refused.
ExpiredIsRefused == [][\A r \in Requests : Accepts(r) => now <= req[r].exp + Leeway]_vars

\* A key published before the sign-in began and ever since is found after the
\* refresh, unless another sign-in's older answer replaced the keys meanwhile.
PublishedIsFound ==
    [][\A r \in Requests :
         InFlight(r) /\ req'[r] = Missing /\ req[r].signer /\ req[r].kid \in published => req[r].raced]_vars
=============================================================================
