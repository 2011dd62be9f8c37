---------------------------- MODULE ModelAccess ----------------------------
(*****************************************************************************)
(* Who may use which model, and which provider serves it: the model table    *)
(* and its aliases (model_config.rs), provider routing (provider_routing.rs, *)
(* proxy_config.rs), the billing snapshot (billing.rs), the flags client and *)
(* its cache (os_flags.rs), their use in main.rs, and the gates at the head  *)
(* of the chat, speech, embedding and transcription handlers (openai.rs).    *)
(*                                                                           *)
(* One user's concurrent requests.  The billing and the flags service answer *)
(* what holds when they read it, fail, or time out; what they hold changes   *)
(* at any time.  Every call to a service and every wait on the cache's lock  *)
(* is a step.  Time advances in ticks, never past a pending timeout.         *)
(*****************************************************************************)
EXTENDS Integers, FiniteSets, Sequences

CONSTANTS
    Requests,      \* concurrent requests of the user
    Kinds,         \* bound: the endpoints called
    Callers,       \* bound: who calls, as records [guest, api]
    Asked,         \* bound: the models that chat requests name
    Flippable,     \* bound: the flags that operators change during a run
    Changeable,    \* bound: the fields of the billing account that change
    Splits,        \* bound: tables of effective route weights
    Bucket,        \* stable_account_bucket of the user: 0 .. 99
    Ttl,           \* USER_FLAGS_CACHE_TTL, in ticks
    FlagsTimeout,  \* MODEL_ACCESS_FLAGS_TIMEOUT_SECS, MODEL_ALIAS_FLAGS_TIMEOUT_SECS
    MaxTime,       \* bound on the clock
    DefaultProxy   \* the default proxy's provider: "continuum" or "openai"

FlagKeys == {"kimi_k3", "quick_deepseek", "powerful_glm"}

ModelAccessAssumption ==
    /\ Ttl \in Nat \ {0} /\ FlagsTimeout \in Nat \ {0} /\ MaxTime \in Nat
    /\ Flippable \subseteq FlagKeys
    /\ Kinds \subseteq {"chat", "tts", "embeddings", "transcription"}
    /\ Callers \subseteq [guest : BOOLEAN, api : BOOLEAN]
    /\ Changeable \subseteq {"can", "paid", "apiCan"}
    /\ Bucket \in 0 .. 99
    /\ DefaultProxy \in {"continuum", "openai"}
-----------------------------------------------------------------------------
(* model_config.rs *)

Entry(tier, flag, listed) == [tier |-> tier, flag |-> flag, listed |-> listed]
NoFlag == "no flag"

\* Every entry is api_listed and enabled; "listed" is the catalog's flag.
Models ==
    {"gpt-oss-120b", "gemma4-31b", "kimi-k3", "kimi-k2-6", "glm-5-2", "deepseek-v4-flash",
     "llama3-3-70b", "gpt-oss-safeguard-120b"}

ModelConfigs ==
    [m \in Models |->
        CASE m = "gemma4-31b" -> Entry("starter", NoFlag, TRUE)
          [] m = "kimi-k3" -> Entry("pro", "kimi_k3", TRUE)
          [] m \in {"kimi-k2-6", "glm-5-2", "deepseek-v4-flash"} -> Entry("pro", NoFlag, TRUE)
          [] m = "gpt-oss-safeguard-120b" -> Entry("free", NoFlag, FALSE)
          [] OTHER -> Entry("free", NoFlag, TRUE)]

Aliases == {"auto:quick", "auto:powerful"}
DefaultTargets == [quick |-> "gpt-oss-120b", powerful |-> "kimi-k2-6"]

\* for_plan_with_overrides: flags move the aliases of a paid plan only.
AliasTargets(paid, flags) ==
    [quick |-> IF paid /\ flags["quick_deepseek"] THEN "deepseek-v4-flash" ELSE DefaultTargets.quick,
     powerful |-> IF paid /\ flags["powerful_glm"] THEN "glm-5-2" ELSE DefaultTargets.powerful]

Resolve(targets, model) ==
    CASE model = "auto:quick" -> targets.quick
      [] model = "auto:powerful" -> targets.powerful
      [] OTHER -> model

\* The checks resolve an alias by the default targets, whatever the plan.
Canonical(model) == Resolve(DefaultTargets, model)

RequiresFeatureFlag(model) ==
    Canonical(model) \in Models /\ ModelConfigs[Canonical(model)].flag # NoFlag

AllowsModel(kimiK3, model) == RequiresFeatureFlag(model) => kimiK3

PlanAllowsModel(paid, model) ==
    LET m == Canonical(model) IN m \in Models => paid \/ ModelConfigs[m].tier = "free"

\* resolve_public_model_id: "none" for a model that is not served.
PublicModel(model) == IF Canonical(model) \in Models THEN Canonical(model) ELSE "none"

\* openai_models_response (the speech and embedding entries left out), and the
\* catalog's models and aliases.
ApiListed(kimiK3) == { m \in Models : AllowsModel(kimiK3, m) }
CatalogModels(kimiK3) == { m \in Models : ModelConfigs[m].listed /\ AllowsModel(kimiK3, m) }
CatalogAliases(kimiK3, targets) == { a \in Aliases : AllowsModel(kimiK3, Resolve(targets, a)) }
-----------------------------------------------------------------------------
(* provider_routing.rs, proxy_config.rs *)

NoRoute == [provider |-> "none", model |-> "none"]

ProviderWeight == [tinfoil |-> 70, continuum |-> 30]

\* MODEL_ROUTES: the routes of a model, in order, and its default provider.
ConfiguredRoutes ==
    [m \in {"kimi-k2-6"} |-> <<[provider |-> "continuum", model |-> "kimi-k2.6", weight |-> 100]>>]
PreferredProvider == [m \in {"kimi-k2-6"} |-> "continuum"]

\* proxy_for_provider: continuum is reached through the default proxy only.
HasProxy(provider) == provider = "tinfoil" \/ DefaultProxy = "continuum"

EligibleRoutes(m) ==
    SelectSeq(ConfiguredRoutes[m],
              LAMBDA r : r.weight > 0 /\ ProviderWeight[r.provider] > 0 /\ HasProxy(r.provider))

SumOf(weights) ==
    LET sum[n \in 0 .. Len(weights)] == IF n = 0 THEN 0 ELSE sum[n - 1] + weights[n]
    IN sum[Len(weights)]

\* The span of the hundred buckets that each route of select_weighted_route
\* gets: shares rounded down, the remainder to the last.
BucketSpans(weights) ==
    LET share(i) == (weights[i] * 100) \div SumOf(weights)
    IN [i \in 1 .. Len(weights) |->
          IF i = Len(weights) THEN 100 - SumOf([j \in 1 .. i - 1 |-> share(j)]) ELSE share(i)]

\* select_weighted_route: the first route whose cumulated span exceeds the
\* account's bucket.
SelectWeighted(weights, bucket) ==
    LET upTo(i) == SumOf(SubSeq(BucketSpans(weights), 1, i))
        hits == { i \in 1 .. Len(weights) : bucket < upTo(i) \/ i = Len(weights) }
    IN CHOOSE i \in hits : \A j \in hits : i <= j

SelectConfigured(m, bucket) ==
    LET routes == EligibleRoutes(m)
        preferred == { i \in DOMAIN routes : routes[i].provider = PreferredProvider[m] }
        weights == [i \in DOMAIN routes |-> ProviderWeight[routes[i].provider] * routes[i].weight]
        chosen == IF preferred # {} THEN CHOOSE i \in preferred : \A j \in preferred : i <= j
                  ELSE SelectWeighted(weights, bucket)
    IN IF routes = <<>> THEN NoRoute
       ELSE [provider |-> routes[chosen].provider, model |-> m]

\* select_completion_route; the completion proxy is always Tinfoil's.
SelectRoute(model, bucket) ==
    LET m == PublicModel(model)
    IN CASE m \in DOMAIN ConfiguredRoutes -> SelectConfigured(m, bucket)
         [] m \notin DOMAIN ConfiguredRoutes /\ m # "none" -> [provider |-> "tinfoil", model |-> m]
         [] OTHER -> NoRoute
-----------------------------------------------------------------------------
VARIABLES
    split,         \* the effective weights of a model with several routes; never changes
    now,           \* the clock
    flags, offAt,  \* the flags service: its flags, and when each was last turned off
    account,       \* the billing service: can_use and paid, and the API's can_use
    cache,         \* UserFlagsCache: per key set, the flags and their expiry
    pc, req        \* each request's place; its arguments and what it has learnt

vars == <<split, now, flags, offAt, account, cache, pc, req>>

KeySets == [access |-> {"kimi_k3"}, alias |-> {"quick_deepseek", "powerful_glm"}]
NoFlags == [f \in FlagKeys |-> FALSE]      \* default-off
NoEntry == [flags |-> NoFlags, expires |-> 0]
NoAnswer == [answered |-> FALSE, can |-> TRUE, paid |-> FALSE]

Fresh == [kind |-> "none", guest |-> FALSE, api |-> FALSE, model |-> "none", bill |-> NoAnswer,
          targets |-> DefaultTargets, key |-> "none", got |-> NoFlags, since |-> 0, kimiK3 |-> FALSE]

Init ==
    /\ split \in Splits
    /\ now = 0
    /\ flags \in {NoFlags, [f \in FlagKeys |-> TRUE]}
    /\ offAt = [f \in FlagKeys |-> IF flags[f] THEN 0 ELSE -(Ttl + FlagsTimeout + 1)]
    /\ account = [field \in {"can", "paid", "apiCan"} |-> TRUE]
    /\ cache = [k \in DOMAIN KeySets |-> NoEntry]
    /\ pc = [r \in Requests |-> "idle"]
    /\ req = [r \in Requests |-> Fresh]

Go(r, label, q) == pc' = [pc EXCEPT ![r] = label] /\ req' = [req EXCEPT ![r] = q]
Refuse(r) == Go(r, "refused", req[r])
service == <<split, flags, offAt, account>>

\* A request: chat completions name a model, the other endpoints have theirs.
Ask(r, kind, by, model) ==
    /\ pc[r] = "idle"
    /\ (kind = "chat") = (model # "none")
    /\ Go(r, "billing", [Fresh EXCEPT !.kind = kind, !.guest = by.guest, !.api = by.api, !.model = model])
    /\ UNCHANGED <<now, service, cache>>

\* What chat_access may return for the account as it is.  An API request keeps
\* the API's quota and takes its plan from the other answer, free if that one
\* fails; a refused quota does not wait for the plan.
ChatAccess(api) ==
    CASE ~api -> {[answered |-> TRUE, can |-> account.can, paid |-> account.paid]}
      [] api /\ ~account.apiCan -> {[answered |-> TRUE, can |-> FALSE, paid |-> FALSE]}
      [] OTHER -> { [answered |-> TRUE, can |-> TRUE, paid |-> p] : p \in {account.paid, FALSE} }

\* chat_billing_access: a service that is missing, fails or times out is
\* NoAnswer.
BillingSnapshots(api) == ChatAccess(api) \union {NoAnswer}

\* Where a chat request goes after its aliases are resolved: only a gated model
\* needs the access flags.
AfterAlias(r, q) ==
    IF RequiresFeatureFlag(Resolve(q.targets, q.model))
    THEN Go(r, "lookup", [q EXCEPT !.key = "access"])
    ELSE Go(r, "gate", [q EXCEPT !.key = "none"])

\* The head of proxy_openai: the guest and the quota gate, then the aliases.
ChatBilling(r) ==
    /\ pc[r] = "billing" /\ req[r].kind = "chat"
    /\ \E b \in BillingSnapshots(req[r].api) :
         LET q == [req[r] EXCEPT !.bill = b]
         IN CASE q.guest /\ ~b.paid -> Refuse(r)
              [] ~(q.guest /\ ~b.paid) /\ ~b.can -> Refuse(r)
              [] OTHER -> IF q.model \in Aliases /\ b.paid
                          THEN Go(r, "lookup", [q EXCEPT !.key = "alias"])
                          ELSE AfterAlias(r, q)
    /\ UNCHANGED <<now, service, cache>>

\* Mutant: an unreachable billing service lets everybody synthesize speech.
SpeechFailsOpen(b) == b.answered => b.paid /\ b.can

\* tts_billing_access_decision: speech fails closed.
TtsAllowed(b) == b.answered /\ b.paid /\ b.can

\* ensure_paid_tts_access; proxy_embeddings and proxy_transcription ask only
\* about a guest, and also fail closed.
OtherBilling(r) ==
    /\ pc[r] = "billing" /\ req[r].kind \in {"tts", "embeddings", "transcription"}
    /\ \E b \in BillingSnapshots(FALSE) :
         LET q == [req[r] EXCEPT !.bill = b]
         IN IF (q.kind = "tts" => TtsAllowed(b)) /\ (q.kind # "tts" /\ q.guest => b.answered /\ b.paid)
            THEN Go(r, "sent", q)
            ELSE Refuse(r)
    /\ UNCHANGED <<now, service, cache>>
-----------------------------------------------------------------------------
(* get_user_flags *)

\* The flags are in hand (default-off after a failure): the aliases are
\* resolved, or the model's access is known.
Learn(r, q, f) ==
    IF q.key = "alias"
    THEN AfterAlias(r, [q EXCEPT !.targets = AliasTargets(TRUE, f), !.since = 0, !.got = NoFlags])
    ELSE Go(r, "gate", [q EXCEPT !.kimiK3 = f["kimi_k3"], !.since = 0, !.got = NoFlags])

\* Mutant: the cache keeps its entries for ever.
CacheHitForever(k) == cache[k] # NoEntry

CacheHit(k) == cache[k].expires > now

\* UserFlagsCache::get.
Lookup(r) ==
    /\ pc[r] = "lookup"
    /\ LET q == req[r]  k == q.key
       IN CASE CacheHit(k) -> Learn(r, q, cache[k].flags)
            [] ~CacheHit(k) /\ cache[k] = NoEntry -> Go(r, "fetch", [q EXCEPT !.since = now])
            [] OTHER -> Go(r, "purge", [q EXCEPT !.since = now])
    /\ UNCHANGED <<now, service, cache>>

\* get, under the write lock: the entry may have been renewed meanwhile.
IsExpired(r) == cache[req[r].key].expires <= req[r].since

PurgeExpired(r) ==
    /\ pc[r] = "purge"
    /\ cache' = IF IsExpired(r) THEN [cache EXCEPT ![req[r].key] = NoEntry] ELSE cache
    /\ Go(r, "fetch", req[r])
    /\ UNCHANGED <<now, service>>

\* The service reads its flags; the answer travels.
ServiceAnswers(r) ==
    /\ pc[r] = "fetch"
    /\ Go(r, "insert", [req[r] EXCEPT !.got =
            [f \in FlagKeys |-> f \in KeySets[req[r].key] /\ flags[f]]])
    /\ UNCHANGED <<now, service, cache>>

ExpiresAt == now + Ttl

\* UserFlagsCache::insert drops what has expired, and stores.
StoreFlags(r) ==
    /\ pc[r] = "insert"
    /\ cache' = [k \in DOMAIN cache |->
                   CASE k = req[r].key -> [flags |-> req[r].got, expires |-> ExpiresAt]
                     [] k # req[r].key /\ ~CacheHit(k) -> NoEntry
                     [] OTHER -> cache[k]]
    /\ Learn(r, req[r], req[r].got)
    /\ UNCHANGED <<now, service>>

\* A failed or timed-out lookup is default-off and caches nothing.
FlagsUnavailable(r) ==
    /\ pc[r] \in {"purge", "fetch", "insert"}
    /\ Learn(r, req[r], NoFlags)
    /\ UNCHANGED <<now, service, cache>>

\* ensure_completion_model_access and select_completion_route, on the model the
\* alias was resolved to.
Gate(r) ==
    /\ pc[r] = "gate"
    /\ LET q == req[r]  m == Resolve(q.targets, q.model)
       IN IF AllowsModel(q.kimiK3, m) /\ PlanAllowsModel(q.bill.paid, m) /\ SelectRoute(m, Bucket) # NoRoute
          THEN Go(r, "sent", [q EXCEPT !.model = m])
          ELSE Refuse(r)
    /\ UNCHANGED <<now, service, cache>>

Finish(r) ==
    /\ pc[r] \in {"sent", "refused"}
    /\ Go(r, "idle", Fresh)
    /\ UNCHANGED <<now, service, cache>>
-----------------------------------------------------------------------------
(* The services' owners, and time. *)

FlipFlag(f) ==
    /\ flags' = [flags EXCEPT ![f] = ~@]
    /\ offAt' = [offAt EXCEPT ![f] = IF flags[f] THEN now ELSE @]
    /\ UNCHANGED <<split, now, account, cache, pc, req>>

ChangeAccount(field) ==
    /\ account' = [account EXCEPT ![field] = ~@]
    /\ UNCHANGED <<split, now, flags, offAt, cache, pc, req>>

\* Time does not pass the timeout of a request that is asking for flags.
Tick ==
    /\ now < MaxTime
    /\ \A r \in Requests : pc[r] \in {"purge", "fetch", "insert"} => now < req[r].since + FlagsTimeout
    /\ now' = now + 1
    /\ UNCHANGED <<service, cache, pc, req>>

Next ==
    \/ \E r \in Requests :
         \/ \E kind \in Kinds, by \in Callers, model \in Asked \union {"none"} : Ask(r, kind, by, model)
         \/ ChatBilling(r) \/ OtherBilling(r)
         \/ Lookup(r) \/ PurgeExpired(r) \/ ServiceAnswers(r) \/ StoreFlags(r) \/ FlagsUnavailable(r)
         \/ Gate(r) \/ Finish(r)
    \/ \E f \in Flippable : FlipFlag(f)
    \/ \E field \in Changeable : ChangeAccount(field)
    \/ Tick

Spec == Init /\ [][Next]_vars
-----------------------------------------------------------------------------
TypeOK ==
    /\ now \in 0 .. MaxTime
    /\ flags \in [FlagKeys -> BOOLEAN] /\ offAt \in [FlagKeys -> Int]
    /\ account \in [{"can", "paid", "apiCan"} -> BOOLEAN]
    /\ \A k \in DOMAIN cache : cache[k].expires \in 0 .. now + Ttl
    /\ pc \in [Requests -> {"idle", "billing", "lookup", "purge", "fetch", "insert", "gate", "sent",
                            "refused"}]
    /\ \A r \in Requests : req[r].since \in 0 .. MaxTime /\ req[r].kimiK3 \in BOOLEAN

\* A flag that was turned off stops letting requests in within one cache
\* lifetime and one lookup timeout, although a slow lookup may store its stale
\* answer over a newer one.
RevokedFlagExpires ==
    [][\A r \in Requests :
         pc[r] # "gate" /\ pc'[r] = "gate" /\ req'[r].kimiK3
           => flags["kimi_k3"] \/ now - offAt["kimi_k3"] <= Ttl + FlagsTimeout]_vars

\* A purge by a reader that saw the entry expired does not drop the entry that
\* another request has stored since.
PurgeKeepsRenewed ==
    [][\A k \in DOMAIN cache : cache[k].expires > now => cache'[k].expires >= cache[k].expires]_vars

\* A guest reaches a provider only on the billing service's word that the plan
\* is paid, whichever alias, failure or timeout, at each endpoint of openai.rs. The responses
\* handler has a copy of the gate, with the same order of checks.
GuestsPay ==
    \A r \in Requests : pc[r] = "sent" /\ req[r].guest => req[r].bill.answered /\ req[r].bill.paid

\* Without the service's word that the plan is paid, only free-tier models are
\* reached, and no speech: the fail-open quota of chat opens nothing else.
OutageGrantsOnlyFree ==
    \A r \in Requests : pc[r] = "sent" /\ ~(req[r].bill.answered /\ req[r].bill.paid) =>
        /\ req[r].kind # "tts"
        /\ req[r].kind = "chat" => ModelConfigs[req[r].model].tier = "free"

\* What the model lists and the catalog offer to a user of a paid plan, aliases
\* and their overrides included, passes the gates and has a provider, when the
\* default proxy is continuum's.
ListedIsServed ==
    DefaultProxy = "continuum" =>
        \A kimiK3 \in BOOLEAN, quick, powerful \in BOOLEAN, bucket \in {0, 99} :
            LET t == AliasTargets(TRUE, [kimi_k3 |-> kimiK3, quick_deepseek |-> quick,
                                         powerful_glm |-> powerful])
                offered == ApiListed(kimiK3) \union CatalogModels(kimiK3)
                           \union { Resolve(t, a) : a \in CatalogAliases(kimiK3, t) }
            IN \A m \in offered : /\ AllowsModel(kimiK3, m) /\ PlanAllowsModel(TRUE, m)
                                  /\ SelectRoute(m, bucket) # NoRoute

\* Every bucket belongs to exactly one route, and a route's share of the hundred
\* buckets is its weight's, to within the rounding of the others.
SharesMatchWeights ==
    LET spans == BucketSpans(split)
        buckets(i) == Cardinality({ b \in 0 .. 99 : SelectWeighted(split, b) = i })
    IN /\ SumOf(spans) = 100
       /\ \A i \in 1 .. Len(split) :
            /\ buckets(i) = spans[i]
            /\ spans[i] * SumOf(split) - 100 * split[i]
                 \in -SumOf(split) .. (Len(split) - 1) * SumOf(split)
=============================================================================
