------------------------ MODULE PendingAttestations ------------------------
(****************************************************************************)
(* The attestation handshake.  GET /attestation/:nonce draws an ephemeral   *)
(* X25519 secret and parks it under the nonce in a fixed-capacity TTL cache *)
(* (bounded_ttl_cache.rs); POST /key_exchange takes it out, at most once,   *)
(* derives the shared secret and stores a session.  The maintenance task    *)
(* retires the expired secrets with a clock reading it took before it       *)
(* waited for the write lock.                                               *)
(*                                                                          *)
(* A secret is named by the serial number of its draw.  The map from nonce  *)
(* to cache key is SHA-256, taken to be injective.                          *)
(****************************************************************************)
EXTENDS Naturals, FiniteSets, RecencyOrder

CONSTANTS
    Nonces,      \* nonces of at most MAX_ATTESTATION_NONCE_BYTES bytes
    Exchanges,   \* concurrent key_exchange requests
    Capacity,    \* MAX_PENDING_ATTESTATIONS
    TTL,         \* PENDING_ATTESTATION_TTL
    MaxSecrets,  \* bound: secrets drawn
    MaxTime      \* bound: the clock stops here

ASSUME PendingAssumption ==
    /\ Capacity \in Nat \ {0}
    /\ TTL \in Nat \ {0}
    /\ MaxSecrets \in Nat
    /\ MaxTime \in Nat
    /\ IsFiniteSet(Nonces)

VARIABLES
    now,       \* Instant::now()
    drawn,     \* number of secrets drawn so far
    drawAt,    \* drawAt[n]: when the secret parked under nonce n was inserted
    parked,    \* parked[n]: serial of the secret under n, 0 when there is none
    older,     \* recency order of the cache
    kx,        \* each key exchange: its place and the secret it took
    sessions,  \* bag of derived sessions: sessions[s] sessions came from secret s
    purge      \* the maintenance task: its place and its clock reading

cache == <<drawAt, parked, older>>
vars == <<now, drawn, drawAt, parked, older, kx, sessions, purge>>

Pending == { n \in Nonces : parked[n] # 0 }

Init ==
    /\ now = 0
    /\ drawn = 0
    /\ drawAt = [n \in Nonces |-> 0]
    /\ parked = [n \in Nonces |-> 0]
    /\ older = {}
    /\ kx = [x \in Exchanges |-> [pc |-> "idle", secret |-> 0]]
    /\ sessions = [s \in 1 .. MaxSecrets |-> 0]
    /\ purge = [pc |-> "idle", at |-> 0]
-----------------------------------------------------------------------------
Expired(n, t) == drawAt[n] + TTL <= t

\* Remove the nonces in `gone`.
Remove(gone) ==
    /\ parked' = [n \in Nonces |-> IF n \in gone THEN 0 ELSE parked[n]]
    /\ drawAt' = [n \in Nonces |-> IF n \in gone THEN 0 ELSE drawAt[n]]
    /\ older' = { p \in older : p[1] \notin gone /\ p[2] \notin gone }

\* The entry insert_evicting_at pops to make room: the nonce's own entry
\* (latest request wins), or the oldest one of a full cache.
Displaced(n) ==
    { v \in Pending :
        \/ v = n
        \/ parked[n] = 0 /\ Cardinality(Pending) >= Capacity /\ IsOldest(older, Pending, v) }

\* insert_evicting: displace, then put at the MRU end with a fresh deadline.
InsertEvicting(n, s) ==
    LET gone == Displaced(n) IN
    /\ parked' = [m \in Nonces |-> IF m = n THEN s ELSE IF m \in gone THEN 0 ELSE parked[m]]
    /\ drawAt' = [m \in Nonces |-> IF m = n THEN now ELSE IF m \in gone THEN 0 ELSE drawAt[m]]
    /\ older' = Promote({p \in older : p[1] \notin gone /\ p[2] \notin gone}, Pending \ gone, n)

\* Mutant: a lookup that leaves the entry in place.
PeekLive(n, x) ==
    /\ kx' = [kx EXCEPT ![x] = IF parked[n] # 0 /\ ~Expired(n, now)
                               THEN [pc |-> "taken", secret |-> parked[n]] ELSE @]
    /\ UNCHANGED cache

\* take_live_at: the entry leaves the cache even when it is too old to use.
TakeLive(n, x) ==
    /\ kx' = [kx EXCEPT ![x] = IF parked[n] # 0 /\ ~Expired(n, now)
                               THEN [pc |-> "taken", secret |-> parked[n]] ELSE @]
    /\ Remove({n})

\* Mutant: retires what the walk finds one entry too far.
RetireOneMore(t) ==
    Remove({ n \in Pending : \A j \in Pending : <<j, n>> \in older => Expired(j, t) })

\* retire_expired_at: from the LRU end up to the first live entry.
RetireExpired(t) ==
    Remove({ n \in Pending :
               /\ Expired(n, t)
               /\ \A j \in Pending : <<j, n>> \in older => Expired(j, t) })
-----------------------------------------------------------------------------
Tick == now < MaxTime /\ now' = now + 1 /\ UNCHANGED <<drawn, cache, kx, sessions, purge>>

\* get_attestation -> create_ephemeral_key; the attestation document itself
\* goes back to the client and leaves no state here.  A nonce that is too long
\* is refused before anything happens.
CreateEphemeralKey(n) ==
    /\ drawn < MaxSecrets
    /\ drawn' = drawn + 1
    /\ InsertEvicting(n, drawn + 1)
    /\ UNCHANGED <<now, kx, sessions, purge>>

\* key_exchange up to get_and_remove_ephemeral_secret.  A malformed client key
\* is refused before the secret is taken and changes nothing.
TakeSecret(x, n) ==
    /\ kx[x].pc = "idle"
    /\ TakeLive(n, x)
    /\ UNCHANGED <<now, drawn, sessions, purge>>

\* The rest of key_exchange: a non-contributory shared secret, a full session
\* cache or a closed connection ends it without a session; the secret is gone.
FinishExchange(x, ok) ==
    /\ kx[x].pc = "taken"
    /\ sessions' = [sessions EXCEPT ![kx[x].secret] = IF ok THEN @ + 1 ELSE @]
    /\ kx' = [kx EXCEPT ![x] = [pc |-> "idle", secret |-> 0]]
    /\ UNCHANGED <<now, drawn, cache, purge>>

\* run: purge_expired_secret_state reads the clock ...
PurgeTick ==
    /\ purge.pc = "idle"
    /\ purge' = [pc |-> "waiting", at |-> now]
    /\ UNCHANGED <<now, drawn, cache, kx, sessions>>

\* ... and retires once it holds the write lock.
PurgeRetire ==
    /\ purge.pc = "waiting"
    /\ RetireExpired(purge.at)
    /\ purge' = [pc |-> "idle", at |-> 0]
    /\ UNCHANGED <<now, drawn, kx, sessions>>

Next ==
    \/ Tick
    \/ \E n \in Nonces : CreateEphemeralKey(n)
    \/ \E x \in Exchanges, n \in Nonces : TakeSecret(x, n)
    \/ \E x \in Exchanges, ok \in BOOLEAN : FinishExchange(x, ok)
    \/ PurgeTick
    \/ PurgeRetire

Spec == Init /\ [][Next]_vars

\* Only the maintenance task is sure to keep going.
FairSpec == Spec /\ WF_vars(PurgeTick) /\ WF_vars(PurgeRetire)
-----------------------------------------------------------------------------
TypeOK ==
    /\ now \in 0 .. MaxTime
    /\ drawn \in 0 .. MaxSecrets
    /\ drawAt \in [Nonces -> 0 .. MaxTime]
    /\ parked \in [Nonces -> 0 .. MaxSecrets]
    /\ older \subseteq Pending \X Pending
    /\ kx \in [Exchanges -> [pc : {"idle", "taken"}, secret : 0 .. MaxSecrets]]
    /\ sessions \in [1 .. MaxSecrets -> Nat]
    /\ purge \in [pc : {"idle", "waiting"}, at : 0 .. MaxTime]

(* An ephemeral secret is in one place only: parked, in the hands of one key  *)
(* exchange, or used up.  So racing or replayed exchanges of one nonce derive  *)
(* at most one session from it (take_live: "Removes a value exactly once").    *)
SecretUsedOnce ==
    /\ \A s \in 1 .. drawn :
         sessions[s] + Cardinality({x \in Exchanges : kx[x].secret = s})
                     + Cardinality({n \in Nonces : parked[n] = s}) <= 1
    /\ \A s \in (drawn + 1) .. MaxSecrets : sessions[s] = 0

(* "expiry order matches LRU order" (bounded_ttl_cache.rs:117-118), and a      *)
(* parked secret is older in the list exactly when it was drawn earlier.       *)
ExpiryOrderMatchesLru ==
    /\ IsRecencyOrder(older, Pending)
    /\ \A a, b \in Pending :
         <<a, b>> \in older => drawAt[a] <= drawAt[b] /\ parked[a] < parked[b]

(* A client that got its attestation can finish the handshake within the TTL:  *)
(* its secret leaves the cache early only by being taken, by a later request   *)
(* for the same nonce, or when Capacity newer secrets are parked.  In          *)
(* particular the purge, with its stale clock, never takes a live secret.      *)
LiveSecretDisplacedOnlyByNewer ==
    [][\A n \in Nonces :
         parked[n] # 0 /\ parked'[n] # parked[n] /\ ~Expired(n, now) =>
             \/ parked'[n] > parked[n]
             \/ \E x \in Exchanges : kx'[x] # kx[x] /\ kx'[x].secret = parked[n]
             \/ Cardinality({m \in Nonces : parked'[m] > parked[n]}) = Capacity]_vars

(* The handshake never accumulates secrets beyond the fixed capacity.         *)
WithinCapacity == Cardinality(Pending) <= Capacity

(* What every step of the handshake keeps: types, capacity, the order of the  *)
(* list and that each secret is used once.                                    *)
PendingInv == TypeOK /\ WithinCapacity /\ ExpiryOrderMatchesLru /\ SecretUsedOnce

(* An abandoned handshake's secret does not stay in memory for ever.          *)
ExpiredIsRetired ==
    \A n \in Nonces : (parked[n] # 0 /\ Expired(n, now)) ~> (parked[n] = 0 \/ ~Expired(n, now))
=============================================================================
