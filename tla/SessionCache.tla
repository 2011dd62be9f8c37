---------------------------- MODULE SessionCache ----------------------------
(****************************************************************************)
(* The encryption-session cache: a fixed-capacity sliding-TTL LRU map whose *)
(* in-flight values stay resident until their last request lease is dropped *)
(* (lease_aware_cache.rs), the request path that leases it                  *)
(* (encryption_middleware.rs and the session methods of AppState), and the  *)
(* maintenance task that retires expired sessions in batches                *)
(* (secret_cache_maintenance.rs).                                           *)
(*                                                                          *)
(* Every operation on the map runs under one mutex, so each is one step.    *)
(* Dropping a lease is not under the mutex: `Drop for CacheLease` first     *)
(* decrements the lease counter and only then does the compiler drop the    *)
(* Arc, so it is two steps that interleave with everything else.            *)
(****************************************************************************)
EXTENDS Naturals, FiniteSets, RecencyOrder

CONSTANTS
    SessionIds,   \* the session UUIDs key_exchange may draw
    Slots,        \* heap addresses of LeaseSlot allocations
    Requests,     \* concurrent requests
    Capacity,     \* MAX_ENCRYPTION_SESSIONS
    TTL,          \* ENCRYPTION_SESSION_IDLE_TTL
    LeaseLimit,   \* usize::MAX, where checked_add(1) fails
    BatchSize,    \* SESSION_RETIREMENT_BATCH_SIZE
    MaxTime,      \* bound: the clock stops here
    NoSlot        \* the null slot

ASSUME CacheAssumption ==
    /\ Capacity \in Nat \ {0}
    /\ TTL \in Nat \ {0}
    /\ LeaseLimit \in Nat
    /\ BatchSize \in Nat \ {0}
    /\ MaxTime \in Nat
    /\ NoSlot \notin Slots
    /\ IsFiniteSet(SessionIds)
    /\ IsFiniteSet(Requests)
    /\ 2 * Cardinality(Requests) <= LeaseLimit   \* memory ends long before usize::MAX leases

VARIABLES
    now,       \* Instant::now(), monotone
    resident,  \* keys of `entries`
    slotOf,    \* slotOf[k]: the slot the entry of k points to
    expires,   \* expires[k]: expires_at of the entry of k
    older,     \* recency order of `entries`
    handle,    \* the CacheLease a request holds, and the one encrypt_session_data holds
    pc, sid,   \* each request's place in the middleware, and its x-session-id
    purge      \* the maintenance task: its place, its `now`, its candidate snapshot

entries == <<resident, slotOf, expires, older>>
vars == <<now, resident, slotOf, expires, older, handle, pc, sid, purge>>

Handles == Requests \X {"req", "enc"}
NoHandle == [st |-> "none", slot |-> NoSlot]
HandleState == [st : {"none", "held", "dropping"}, slot : Slots \union {NoSlot}]
PcStates == {"idle", "admitted", "running", "encrypting", "encdrop", "finishing", "lost"}

Init ==
    /\ now = 0
    /\ resident = {}
    /\ slotOf = [k \in SessionIds |-> NoSlot]
    /\ expires = [k \in SessionIds |-> 0]
    /\ older = {}
    /\ handle = [h \in Handles |-> NoHandle]
    /\ pc = [r \in Requests |-> "idle"]
    /\ sid \in [Requests -> SessionIds]
    /\ purge = [pc |-> "idle", at |-> 0, cands |-> {}]
-----------------------------------------------------------------------------
\* is_leased: the lease counter, the number of leases not yet decremented.
Leases(s) == { h \in Handles : handle[h].st = "held" /\ handle[h].slot = s }

\* Mutant: trusts the lease counter alone.
CounterOnly(k) == \E h \in Handles : handle[h].st = "held" /\ handle[h].slot = slotOf[k]

\* has_external_lease: leases # 0, or an Arc besides the cache's own.
HasExternalLease(k) ==
    \/ \E h \in Handles : handle[h].st = "held" /\ handle[h].slot = slotOf[k]
    \/ \E h \in Handles : handle[h].st # "none" /\ handle[h].slot = slotOf[k]

\* Mutant: a deadline test that forgets the leases.
ExpiredOnly(k, t) == expires[k] <= t

\* The test acquire_at, touch_at and retire_expired_candidates_at make.
ExpiredAndUnleased(k, t) == expires[k] <= t /\ ~HasExternalLease(k)

\* Mutant: the walk also stops at the first leased entry.
StopsAtLeased(t) ==
    { k \in resident :
        /\ ExpiredAndUnleased(k, t)
        /\ \A j \in resident : <<j, k>> \in older => ExpiredAndUnleased(j, t) }

\* expired_unleased_keys_at: walk from the LRU end, stop at the first live
\* entry, keep the unleased keys.
ExpiredUnleasedKeys(t) ==
    { k \in resident :
        /\ expires[k] <= t
        /\ \A j \in resident : <<j, k>> \in older => expires[j] <= t
        /\ ~HasExternalLease(k) }

\* insert_new(key, value, expiry_at(now)), after the entries in `gone` left.
InsertNew(k, s, gone) ==
    /\ s \in Slots
    /\ \A j \in resident : slotOf[j] # s
    /\ \A h \in Handles : handle[h].slot # s
    /\ resident' = (resident \ gone) \union {k}
    /\ slotOf' = [j \in SessionIds |-> IF j = k THEN s ELSE IF j \in gone THEN NoSlot ELSE slotOf[j]]
    /\ expires' = [j \in SessionIds |-> IF j = k THEN now + TTL ELSE IF j \in gone THEN 0 ELSE expires[j]]
    /\ older' = Promote({p \in older : p[1] \notin gone /\ p[2] \notin gone}, resident \ gone, k)

\* Mutant: the key leaves the map but not the recency list.
PopKeepingOrder(gone) ==
    /\ resident' = resident \ gone
    /\ slotOf' = [j \in SessionIds |-> IF j \in gone THEN NoSlot ELSE slotOf[j]]
    /\ expires' = [j \in SessionIds |-> IF j \in gone THEN 0 ELSE expires[j]]
    /\ older' = older

\* entries.pop for each key of `gone`.
Pop(gone) ==
    /\ resident' = resident \ gone
    /\ slotOf' = [j \in SessionIds |-> IF j \in gone THEN NoSlot ELSE slotOf[j]]
    /\ expires' = [j \in SessionIds |-> IF j \in gone THEN 0 ELSE expires[j]]
    /\ older' = {p \in older : p[1] \notin gone /\ p[2] \notin gone}

\* touch_at: a fresh deadline and the MRU place for a usable entry, the removal
\* of an expired unleased one, nothing for an absent one.
Usable(k) == k \in resident /\ ~ExpiredAndUnleased(k, now)

\* Mutant: peek_mut in place of get_mut, the entry is not moved to MRU.
TouchInPlace(k) ==
    /\ resident' = IF Usable(k) THEN resident ELSE resident \ {k}
    /\ slotOf' = IF Usable(k) THEN slotOf ELSE [slotOf EXCEPT ![k] = NoSlot]
    /\ expires' = [expires EXCEPT ![k] = IF Usable(k) THEN now + TTL ELSE 0]
    /\ older' = IF Usable(k) THEN older ELSE Unlink(older, k)

Touch(k) ==
    /\ resident' = IF Usable(k) THEN resident ELSE resident \ {k}
    /\ slotOf' = IF Usable(k) THEN slotOf ELSE [slotOf EXCEPT ![k] = NoSlot]
    /\ expires' = [expires EXCEPT ![k] = IF Usable(k) THEN now + TTL ELSE 0]
    /\ older' = IF Usable(k) THEN Promote(older, resident, k) ELSE Unlink(older, k)

\* acquire_at: a lease (recency and deadline untouched), or None, an expired
\* unleased entry being dropped on the way.
CanAcquire(k) == Usable(k) /\ Cardinality(Leases(slotOf[k])) < LeaseLimit

Acquire(k, h) ==
    /\ handle' = IF CanAcquire(k)
                 THEN [handle EXCEPT ![h] = [st |-> "held", slot |-> slotOf[k]]]
                 ELSE handle
    /\ Pop({j \in {k} \intersect resident : ExpiredAndUnleased(j, now)})

-----------------------------------------------------------------------------
Tick == now < MaxTime /\ now' = now + 1 /\ UNCHANGED <<entries, handle, pc, sid, purge>>

\* key_exchange -> store_session_state -> insert_evicting.  A duplicate key, or
\* a full cache with every entry leased, is refused and changes nothing.
StoreSession(k) ==
    /\ k \notin resident
    /\ \E s \in Slots :
         \/ Cardinality(resident) < Capacity /\ InsertNew(k, s, {})
         \/ /\ Cardinality(resident) >= Capacity
            /\ \E v \in resident :
                 /\ IsOldest(older, {j \in resident : ~HasExternalLease(j)}, v)
                 /\ InsertNew(k, s, {v})
    /\ UNCHANGED <<now, handle, pc, sid, purge>>

\* decrypt_request: the session is pinned once the body has arrived (or at once
\* for a bodyless request).  An unknown session ends the request.
Admit(r, k) ==
    /\ pc[r] = "idle"
    /\ Acquire(k, <<r, "req">>)
    /\ pc' = [pc EXCEPT ![r] = IF CanAcquire(k) THEN "admitted" ELSE "idle"]
    /\ sid' = [sid EXCEPT ![r] = IF CanAcquire(k) THEN k ELSE @]
    /\ UNCHANGED <<now, purge>>

\* touch_session, after the ciphertext authenticated or for a bodyless request.
TouchSession(r) ==
    /\ pc[r] = "admitted"
    /\ Touch(sid[r])
    /\ pc' = [pc EXCEPT ![r] = IF Usable(sid[r]) THEN "running" ELSE "lost"]
    /\ UNCHANGED <<now, handle, sid, purge>>

\* encrypt_session_data for a response or one SSE event: a second lease ...
EncryptAcquire(r) ==
    /\ pc[r] = "running"
    /\ Acquire(sid[r], <<r, "enc">>)
    /\ pc' = [pc EXCEPT ![r] = IF CanAcquire(sid[r]) THEN "encrypting" ELSE "lost"]
    /\ UNCHANGED <<now, sid, purge>>

\* ... and a touch once the ciphertext exists.
EncryptTouch(r) ==
    /\ pc[r] = "encrypting"
    /\ Touch(sid[r])
    /\ pc' = [pc EXCEPT ![r] = IF Usable(sid[r]) THEN "encdrop" ELSE "lost"]
    /\ UNCHANGED <<now, handle, sid, purge>>

\* The response body ended, the ciphertext did not authenticate, or the
\* connection closed and the request's future was dropped at an await.
Finish(r) ==
    /\ pc[r] \in {"admitted", "running", "encrypting"}
    /\ pc' = [pc EXCEPT ![r] = "finishing"]
    /\ UNCHANGED <<now, entries, handle, sid, purge>>

\* The lease that goes out of scope next: the inner one first.
DropsNext(r, x) ==
    \/ x = "enc" /\ pc[r] \in {"encdrop", "finishing", "lost"}
    \/ x = "req" /\ pc[r] \in {"finishing", "lost"} /\ handle[<<r, "enc">>].st = "none"

\* Drop for CacheLease: fetch_sub on the counter ...
DropCount(r, x) ==
    /\ DropsNext(r, x)
    /\ handle[<<r, x>>].st = "held"
    /\ handle' = [handle EXCEPT ![<<r, x>>].st = "dropping"]
    /\ UNCHANGED <<now, entries, pc, sid, purge>>

\* ... then the field's Arc.
DropArc(r, x) ==
    /\ DropsNext(r, x)
    /\ handle[<<r, x>>].st = "dropping"
    /\ handle' = [handle EXCEPT ![<<r, x>>] = NoHandle]
    /\ pc' = [pc EXCEPT ![r] = IF x = "req" THEN "idle"
                               ELSE IF pc[r] = "encdrop" THEN "running" ELSE pc[r]]
    /\ UNCHANGED <<now, entries, sid, purge>>

\* run: the interval ticks and purge_expired_secret_state reads the clock.
PurgeTick ==
    /\ purge.pc = "idle"
    /\ purge' = [pc |-> "scan", at |-> now, cands |-> {}]
    /\ UNCHANGED <<now, entries, handle, pc, sid>>

\* One snapshot under the mutex.
PurgeScan ==
    /\ purge.pc = "scan"
    /\ purge' = IF ExpiredUnleasedKeys(purge.at) = {}
                THEN [pc |-> "idle", at |-> 0, cands |-> {}]
                ELSE [pc |-> "retire", at |-> purge.at, cands |-> ExpiredUnleasedKeys(purge.at)]
    /\ UNCHANGED <<now, entries, handle, pc, sid>>

\* Mutant: the batch is popped as it was snapshotted, without revalidation.
PurgeBatchUnchecked ==
    /\ purge.pc = "retire"
    /\ Pop(purge.cands \intersect resident)
    /\ purge' = [pc |-> "idle", at |-> 0, cands |-> {}]
    /\ UNCHANGED <<now, handle, pc, sid>>

\* retire_expired_candidates_at on one chunk, each key revalidated.  Which keys
\* share a chunk is left open: the chunks are walked in snapshot order, but no
\* step depends on it.
PurgeBatch ==
    /\ purge.pc = "retire"
    /\ \E batch \in SUBSET purge.cands :
         /\ batch # {}
         /\ batch = purge.cands \/ Cardinality(batch) = BatchSize
         /\ Cardinality(batch) <= BatchSize
         /\ Pop({k \in batch : k \in resident /\ ExpiredAndUnleased(k, purge.at)})
         /\ purge' = IF batch = purge.cands
                     THEN [pc |-> "idle", at |-> 0, cands |-> {}]
                     ELSE [purge EXCEPT !.cands = @ \ batch]
    /\ UNCHANGED <<now, handle, pc, sid>>

Purge == PurgeTick \/ PurgeScan \/ PurgeBatch

Next ==
    \/ Tick
    \/ \E k \in SessionIds : StoreSession(k)
    \/ \E r \in Requests, k \in SessionIds : Admit(r, k)
    \/ \E r \in Requests : TouchSession(r) \/ EncryptAcquire(r) \/ EncryptTouch(r) \/ Finish(r)
    \/ \E r \in Requests, x \in {"req", "enc"} : DropCount(r, x) \/ DropArc(r, x)
    \/ Purge

Spec == Init /\ [][Next]_vars

\* The maintenance task is a tokio interval loop: it keeps running.  Nothing is
\* assumed of requests, whose response bodies may stay open for ever.
FairSpec == Spec /\ WF_vars(Purge)
-----------------------------------------------------------------------------
TypeOK ==
    /\ now \in Nat
    /\ resident \subseteq SessionIds
    /\ slotOf \in [SessionIds -> Slots \union {NoSlot}]
    /\ expires \in [SessionIds -> Nat]
    /\ older \subseteq resident \X resident
    /\ handle \in [Handles -> HandleState]
    /\ pc \in [Requests -> PcStates]
    /\ sid \in [Requests -> SessionIds]
    /\ purge \in [pc : {"idle", "scan", "retire"}, at : Nat, cands : SUBSET SessionIds]

(* "An RAII lease that prevents its cached value from being expired or        *)
(* evicted" (lease_aware_cache.rs:75): from the moment a request pins its      *)
(* session until its last Arc is gone, its session id stays resident and still *)
(* maps to the very slot the lease points to, whatever other requests, key     *)
(* exchanges and the purge do meanwhile.                                       *)
LeasedStaysResident ==
    \A r \in Requests, x \in {"req", "enc"} :
        handle[<<r, x>>].st # "none" =>
            sid[r] \in resident /\ slotOf[sid[r]] = handle[<<r, x>>].slot

(* An admitted request never finds its own session gone: touch_session and    *)
(* encrypt_session_data cannot answer BadRequest after a side effect ran.     *)
AdmittedNeverLost == \A r \in Requests : pc[r] # "lost"

(* The deadline order is the recency order, the fact the maintenance scan's   *)
(* early stop relies on ("Expired entries therefore form an LRU suffix").     *)
RecencyOrdersExpiry ==
    /\ IsRecencyOrder(older, resident)
    /\ \A a, b \in resident : <<a, b>> \in older => expires[a] <= expires[b]

(* Stopping at the first live entry loses nothing: every expired unleased     *)
(* session is in the snapshot a scan at the current purge time would take.    *)
ScanMissesNothing ==
    \A k \in resident : ExpiredAndUnleased(k, purge.at) => k \in ExpiredUnleasedKeys(purge.at)

(* The cache never outgrows its fixed capacity, whichever order insertions,   *)
(* evictions and retirements take.                                            *)
WithinCapacity == Cardinality(resident) <= Capacity

(* The purge works from a clock reading and a key snapshot that are stale by   *)
(* the time a batch is retired: a session touched, leased or re-created since  *)
(* then is never retired, only one that is expired and unleased right now.     *)
PurgeTakesOnlyExpired ==
    [][purge.pc = "retire" /\ purge' # purge =>
         \A k \in resident \ resident' : ExpiredAndUnleased(k, now)]_vars

(* An idle session's key does not outlive its deadline for ever: an expired   *)
(* unleased session is retired, refreshed or leased again.                    *)
ExpiredIsRetired ==
    \A k \in SessionIds :
        (k \in resident /\ ExpiredAndUnleased(k, now)) ~>
            (k \notin resident \/ ~ExpiredAndUnleased(k, now))
=============================================================================
