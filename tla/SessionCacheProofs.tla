------------------------- MODULE SessionCacheProofs -------------------------
(*****************************************************************************)
(* What SessionCache promises, for every number of sessions, slots and       *)
(* requests, every capacity and every TTL.                                   *)
(*                                                                           *)
(* The lease invariant is not inductive alone: that an admitted request      *)
(* always finds its session needs to know which leases each program point    *)
(* holds (HandleDiscipline) and that the lease counter cannot saturate; the  *)
(* order of deadlines needs a bound on every deadline (Deadlines), because a *)
(* touched entry moves in front of all the others.                           *)
(*****************************************************************************)
EXTENDS SessionCache, FiniteSetTheorems, TLAPS

\* The entries are well formed, whatever the requests do.
EntriesType ==
    /\ now \in Nat
    /\ resident \subseteq SessionIds
    /\ slotOf \in [SessionIds -> Slots \union {NoSlot}]
    /\ expires \in [SessionIds -> Nat]

\* No deadline is further away than one TTL.
Deadlines == \A k \in resident : expires[k] <= now + TTL

EntriesOK == EntriesType /\ RecencyOrdersExpiry /\ Deadlines /\ WithinCapacity

RequestsType ==
    /\ handle \in [Handles -> HandleState]
    /\ pc \in [Requests -> PcStates]
    /\ sid \in [Requests -> SessionIds]

\* The leases a request holds at each of its program points.
HandleDiscipline ==
    \A r \in Requests :
        /\ pc[r] = "idle" => handle[<<r, "req">>].st = "none" /\ handle[<<r, "enc">>].st = "none"
        /\ pc[r] \in {"admitted", "running", "encrypting", "encdrop"} => handle[<<r, "req">>].st = "held"
        /\ pc[r] \in {"admitted", "running"} => handle[<<r, "enc">>].st = "none"

PurgeType ==
    /\ purge \in [pc : {"idle", "scan", "retire"}, at : Nat, cands : SUBSET SessionIds]
    /\ purge.at <= now

RequestsOK ==
    RequestsType /\ HandleDiscipline /\ LeasedStaysResident /\ AdmittedNeverLost

\* The inductive invariant.
CacheInv == EntriesOK /\ RequestsOK /\ PurgeType
-----------------------------------------------------------------------------
(* Popping any set of keys keeps the rest of the recency list in order        *)
(* (CLruCache::pop).                                                          *)
LEMMA PopOrder ==
    ASSUME NEW o, NEW R, NEW gone, IsRecencyOrder(o, R)
    PROVE  IsRecencyOrder({p \in o : p[1] \notin gone /\ p[2] \notin gone}, R \ gone)
BY DEF IsRecencyOrder

(* Moving a key to the front, present before or not, yields a recency list of  *)
(* the old keys and this one (CLruCache::put, get_mut).                        *)
LEMMA PromoteOrder ==
    ASSUME NEW o, NEW R, NEW k, IsRecencyOrder(o, R)
    PROVE  IsRecencyOrder(Promote(o, R, k), R \union {k})
<1> DEFINE P == Promote(o, R, k)
<1>1. P \subseteq (R \union {k}) \X (R \union {k})
  BY DEF IsRecencyOrder, Promote, Unlink
<1>2. ASSUME NEW a \in R \union {k}, NEW b \in R \union {k}
      PROVE  <<a, b>> \in P <=>
                 \/ <<a, b>> \in o /\ a # k /\ b # k
                 \/ b = k /\ a \in R /\ a # k
  BY DEF Promote, Unlink
<1>3. \A a, b \in R \union {k} : a # b => (<<a, b>> \in P \/ <<b, a>> \in P)
  BY <1>2 DEF IsRecencyOrder
<1>4. \A a, b \in R \union {k} : <<a, b>> \in P => <<b, a>> \notin P
  BY <1>2 DEF IsRecencyOrder
<1> QED BY <1>1, <1>3, <1>4 DEF IsRecencyOrder

-----------------------------------------------------------------------------
(* Removing entries, the effect of acquire_at on an expired entry and of one   *)
(* retirement batch, keeps the map well formed.                                *)
LEMMA PopPreserves ==
    ASSUME EntriesOK, NEW gone, Pop(gone), now' = now
    PROVE  EntriesOK'
<1>1. EntriesType'
  BY CacheAssumption DEF EntriesOK, EntriesType, Pop
<1>2. IsRecencyOrder(older, resident)'
  BY PopOrder DEF EntriesOK, RecencyOrdersExpiry, Pop
<1>3. \A a, b \in resident' : <<a, b>> \in older' => expires'[a] <= expires'[b]
  BY DEF EntriesOK, RecencyOrdersExpiry, EntriesType, Pop
<1>4. Deadlines'
  BY DEF EntriesOK, Deadlines, EntriesType, Pop
<1>5. WithinCapacity'
  <2>1. IsFiniteSet(resident)
    BY CacheAssumption, FS_Subset DEF EntriesOK, EntriesType
  <2>2. resident' \subseteq resident
    BY DEF Pop
  <2>3. Cardinality(resident') <= Cardinality(resident) /\ Cardinality(resident') \in Nat
        /\ Cardinality(resident) \in Nat
    BY <2>1, <2>2, FS_Subset, FS_CardinalityType
  <2> QED BY <2>3, CacheAssumption DEF EntriesOK, WithinCapacity
<1> QED BY <1>1, <1>2, <1>3, <1>4, <1>5 DEF EntriesOK, RecencyOrdersExpiry

(* touch_at: a refreshed entry gets the latest deadline together with the most  *)
(* recent place.                                                               *)
LEMMA TouchPreserves ==
    ASSUME EntriesOK, NEW k \in SessionIds, Touch(k), now' = now
    PROVE  EntriesOK'
<1>1. CASE ~Usable(k)
  <2>1. Pop({k})
    <3>1. Unlink(older, k) = {p \in older : p[1] \notin {k} /\ p[2] \notin {k}}
      BY DEF Unlink
    <3> QED BY <1>1, <3>1 DEF Pop, Touch, EntriesOK, EntriesType
  <2> QED BY <2>1, PopPreserves
<1>2. CASE Usable(k)
  <2>1. k \in resident /\ resident' = resident /\ slotOf' = slotOf
        /\ older' = Promote(older, resident, k)
        /\ expires' = [expires EXCEPT ![k] = now + TTL]
    BY <1>2 DEF Touch, Usable
  <2>2. EntriesType'
    BY <2>1, CacheAssumption DEF EntriesOK, EntriesType
  <2>3. IsRecencyOrder(older, resident)'
    <3>1. resident \union {k} = resident
      BY <2>1
    <3> QED BY <2>1, <3>1, PromoteOrder DEF EntriesOK, RecencyOrdersExpiry
  <2>4. \A a, b \in resident' : <<a, b>> \in older' => expires'[a] <= expires'[b]
    BY <2>1, CacheAssumption
       DEF EntriesOK, RecencyOrdersExpiry, EntriesType, Deadlines, Promote, Unlink
  <2>5. Deadlines'
    BY <2>1, CacheAssumption DEF EntriesOK, Deadlines, EntriesType
  <2>6. WithinCapacity'
    BY <2>1 DEF EntriesOK, WithinCapacity
  <2> QED BY <2>2, <2>3, <2>4, <2>5, <2>6 DEF EntriesOK, RecencyOrdersExpiry
<1> QED BY <1>1, <1>2

(* insert_new after an eviction that made room: the map stays well formed.      *)
LEMMA InsertPreserves ==
    ASSUME EntriesOK, NEW k \in SessionIds, NEW s, NEW gone,
           InsertNew(k, s, gone), now' = now, k \notin resident,
           Cardinality(resident \ gone) < Capacity
    PROVE  EntriesOK'
<1> DEFINE kept == {p \in older : p[1] \notin gone /\ p[2] \notin gone}
<1>1. EntriesType'
  BY CacheAssumption DEF EntriesOK, EntriesType, InsertNew
<1>2. IsRecencyOrder(kept, resident \ gone)
  BY PopOrder DEF EntriesOK, RecencyOrdersExpiry
<1>3. IsRecencyOrder(older, resident)'
  BY <1>2, PromoteOrder DEF InsertNew
<1>4. \A a, b \in resident' : <<a, b>> \in older' => expires'[a] <= expires'[b]
  BY CacheAssumption
     DEF EntriesOK, RecencyOrdersExpiry, EntriesType, Deadlines, InsertNew, Promote, Unlink
<1>5. Deadlines'
  BY CacheAssumption DEF EntriesOK, Deadlines, EntriesType, InsertNew
<1>6. WithinCapacity'
  <2>1. IsFiniteSet(resident \ gone)
    BY CacheAssumption, FS_Subset DEF EntriesOK, EntriesType
  <2>2. Cardinality((resident \ gone) \union {k}) = Cardinality(resident \ gone) + 1
    BY <2>1, FS_AddElement
  <2>3. Cardinality(resident \ gone) \in Nat
    BY <2>1, FS_CardinalityType
  <2> QED BY <2>2, <2>3, CacheAssumption DEF InsertNew, WithinCapacity
<1> QED BY <1>1, <1>3, <1>4, <1>5, <1>6 DEF EntriesOK, RecencyOrdersExpiry
-----------------------------------------------------------------------------
(* A leased session is one the cache will not expire or evict.                  *)
LEMMA LeasedIsProtected ==
    ASSUME RequestsOK, NEW r \in Requests, NEW x \in {"req", "enc"},
           handle[<<r, x>>].st # "none"
    PROVE  /\ sid[r] \in resident
           /\ HasExternalLease(sid[r])
           /\ \A t : ~ExpiredAndUnleased(sid[r], t)
           /\ Usable(sid[r])
<1>1. <<r, x>> \in Handles
  BY DEF Handles
<1>2. sid[r] \in resident /\ slotOf[sid[r]] = handle[<<r, x>>].slot
  BY DEF RequestsOK, LeasedStaysResident
<1>3. HasExternalLease(sid[r])
  BY <1>1, <1>2 DEF HasExternalLease
<1> QED BY <1>2, <1>3 DEF ExpiredAndUnleased, Usable

(* Leases protect their entries from any removal of unleased keys: the part of  *)
(* every action that touches entries but no request.                            *)
LEMMA RemovalKeepsLeased ==
    ASSUME RequestsOK, NEW gone,
           \A k \in gone \intersect resident : ~HasExternalLease(k),
           UNCHANGED <<handle, pc, sid>>,
           \A k \in resident \ gone : k \in resident' /\ slotOf'[k] = slotOf[k]
    PROVE  RequestsOK'
<1>1. RequestsType' /\ HandleDiscipline' /\ AdmittedNeverLost'
  BY DEF RequestsOK, RequestsType, HandleDiscipline, AdmittedNeverLost
<1>2. LeasedStaysResident'
  <2> SUFFICES ASSUME NEW r \in Requests, NEW x \in {"req", "enc"},
                      handle'[<<r, x>>].st # "none"
               PROVE  sid'[r] \in resident' /\ slotOf'[sid'[r]] = handle'[<<r, x>>].slot
    BY DEF LeasedStaysResident
  <2>1. sid[r] \in resident /\ HasExternalLease(sid[r])
    BY LeasedIsProtected
  <2>2. sid[r] \in resident \ gone
    BY <2>1
  <2> QED BY <2>2 DEF RequestsOK, LeasedStaysResident
<1> QED BY <1>1, <1>2 DEF RequestsOK

(* The lease counter cannot saturate: a request about to take its second lease  *)
(* leaves room for it, for no request holds more than two.                      *)
LEMMA LeaseAvailable ==
    ASSUME RequestsOK, NEW r \in Requests, NEW x \in {"req", "enc"},
           handle[<<r, x>>].st = "none", NEW s
    PROVE  Cardinality(Leases(s)) < LeaseLimit
<1>1. IsFiniteSet(Handles) /\ Cardinality(Handles) = 2 * Cardinality(Requests)
  <2>1. IsFiniteSet({"req", "enc"}) /\ Cardinality({"req", "enc"}) = 2
    <3>1. IsFiniteSet({"req"}) /\ Cardinality({"req"}) = 1
      BY FS_Singleton
    <3>2. {"req", "enc"} = {"req"} \cup {"enc"} /\ "enc" \notin {"req"}
      OBVIOUS
    <3>3. IsFiniteSet({"req"} \cup {"enc"}) /\ Cardinality({"req"} \cup {"enc"}) = 1 + 1
      BY <3>1, <3>2, FS_AddElement
    <3> QED BY <3>2, <3>3
  <2>2. IsFiniteSet(Requests) /\ Cardinality(Requests) \in Nat
    BY CacheAssumption, FS_CardinalityType
  <2>3. IsFiniteSet(Handles) /\ Cardinality(Handles) = Cardinality(Requests) * 2
    BY <2>1, <2>2, FS_Product DEF Handles
  <2> QED BY <2>2, <2>3
<1>2. Leases(s) \subseteq Handles /\ <<r, x>> \in Handles /\ <<r, x>> \notin Leases(s)
  BY DEF Leases, Handles
<1>3. /\ IsFiniteSet(Leases(s))
      /\ Cardinality(Leases(s)) <= Cardinality(Handles)
      /\ Cardinality(Handles) # Cardinality(Leases(s))
  BY <1>1, <1>2, FS_Subset
<1>4. Cardinality(Leases(s)) \in Nat /\ Cardinality(Handles) \in Nat
  BY <1>1, <1>3, FS_CardinalityType
<1> QED BY <1>1, <1>3, <1>4, CacheAssumption
-----------------------------------------------------------------------------
(* LeaseAwareTtlCache::new and no request: the invariant holds at the start.     *)
LEMMA InitCacheInv == Init => CacheInv
<1> SUFFICES ASSUME Init PROVE CacheInv
  OBVIOUS
<1>1. EntriesType /\ Deadlines /\ RecencyOrdersExpiry
  BY DEF Init, EntriesType, Deadlines, RecencyOrdersExpiry, IsRecencyOrder
<1>2. WithinCapacity
  BY FS_EmptySet, CacheAssumption DEF Init, WithinCapacity
<1>3. RequestsOK
  BY DEF Init, RequestsOK, RequestsType, HandleDiscipline, LeasedStaysResident,
         AdmittedNeverLost, Handles, HandleState, NoHandle, PcStates
<1>4. PurgeType
  BY DEF Init, PurgeType
<1> QED BY <1>1, <1>2, <1>3, <1>4 DEF CacheInv, EntriesOK

(* Steps that change no entry and only move the clock forward or the purge      *)
(* along.                                                                       *)
LEMMA QuietPreserves ==
    ASSUME CacheInv, UNCHANGED <<entries, handle, pc, sid>>, now' \in Nat, now <= now'
    PROVE  EntriesOK' /\ RequestsOK'
<1>1. EntriesOK'
  BY CacheAssumption DEF CacheInv, EntriesOK, EntriesType, RecencyOrdersExpiry, IsRecencyOrder, Deadlines,
         WithinCapacity, entries
<1>2. RequestsOK'
  BY DEF CacheInv, RequestsOK, RequestsType, HandleDiscipline, LeasedStaysResident,
         AdmittedNeverLost, entries
<1> QED BY <1>1, <1>2

(* key_exchange: eviction takes an unleased entry, and only when it must.       *)
LEMMA StoreSessionPreserves ==
    ASSUME CacheInv, NEW k \in SessionIds, StoreSession(k)
    PROVE  CacheInv'
<1>1. PICK s \in Slots, gone \in SUBSET resident :
        /\ InsertNew(k, s, gone)
        /\ \A j \in gone : ~HasExternalLease(j)
        /\ Cardinality(resident \ gone) < Capacity
  <2>1. PICK s \in Slots :
         \/ Cardinality(resident) < Capacity /\ InsertNew(k, s, {})
         \/ /\ Cardinality(resident) >= Capacity
            /\ \E v \in resident :
                 /\ IsOldest(older, {j \in resident : ~HasExternalLease(j)}, v)
                 /\ InsertNew(k, s, {v})
    BY DEF StoreSession
  <2>2. CASE Cardinality(resident) < Capacity /\ InsertNew(k, s, {})
    <3>1. resident \ {} = resident
      OBVIOUS
    <3> QED BY <2>2, <3>1
  <2>3. CASE /\ Cardinality(resident) >= Capacity
             /\ \E v \in resident :
                  /\ IsOldest(older, {j \in resident : ~HasExternalLease(j)}, v)
                  /\ InsertNew(k, s, {v})
    <3>1. PICK v \in resident :
            /\ IsOldest(older, {j \in resident : ~HasExternalLease(j)}, v)
            /\ InsertNew(k, s, {v})
      BY <2>3
    <3>2. ~HasExternalLease(v)
      BY <3>1 DEF IsOldest
    <3>3. IsFiniteSet(resident) /\ Cardinality(resident) \in Nat
      BY CacheAssumption, FS_Subset, FS_CardinalityType DEF CacheInv, EntriesOK, EntriesType
    <3>4. Cardinality(resident \ {v}) = Cardinality(resident) - 1
      BY <3>3, FS_RemoveElement
    <3>5. Cardinality(resident \ {v}) < Capacity
      BY <3>3, <3>4, CacheAssumption DEF CacheInv, EntriesOK, WithinCapacity
    <3> QED BY <3>1, <3>2, <3>5
  <2> QED BY <2>1, <2>2, <2>3
<1>2. k \notin resident /\ UNCHANGED <<now, handle, pc, sid, purge>>
  BY DEF StoreSession
<1>3. EntriesOK'
  BY <1>1, <1>2, InsertPreserves DEF CacheInv
<1>4. \A j \in resident \ gone : j \in resident' /\ slotOf'[j] = slotOf[j]
  BY <1>1, <1>2 DEF InsertNew, CacheInv, EntriesOK, EntriesType
<1>5. RequestsOK'
  BY <1>1, <1>2, <1>4, RemovalKeepsLeased DEF CacheInv
<1>6. PurgeType'
  BY <1>2 DEF CacheInv, PurgeType
<1> QED BY <1>3, <1>5, <1>6 DEF CacheInv

(* acquire_at only ever drops an entry nobody leases; whoever gets a lease finds *)
(* the map untouched.                                                           *)
LEMMA AcquireEffect ==
    ASSUME CacheInv, NEW k \in SessionIds, NEW h \in Handles, Acquire(k, h), now' = now
    PROVE  /\ EntriesOK'
           /\ CanAcquire(k) => UNCHANGED <<resident, slotOf>>
           /\ \E gone \in SUBSET resident :
                 /\ \A j \in gone : ~HasExternalLease(j)
                 /\ \A j \in resident \ gone : j \in resident' /\ slotOf'[j] = slotOf[j]
<1> DEFINE gone == {j \in {k} \intersect resident : ExpiredAndUnleased(j, now)}
<1>1. Pop(gone)
  BY DEF Acquire
<1>2. EntriesOK'
  BY <1>1, PopPreserves DEF CacheInv
<1>3. gone \in SUBSET resident /\ \A j \in gone : ~HasExternalLease(j)
  BY DEF ExpiredAndUnleased
<1>4. \A j \in resident \ gone : j \in resident' /\ slotOf'[j] = slotOf[j]
  BY <1>1 DEF Pop, CacheInv, EntriesOK, EntriesType
<1>5. ASSUME CanAcquire(k) PROVE UNCHANGED <<resident, slotOf>>
  <2>1. gone = {}
    BY <1>5 DEF CanAcquire, Usable
  <2> QED BY <1>1, <2>1 DEF Pop, CacheInv, EntriesOK, EntriesType
<1> QED BY <1>2, <1>3, <1>4, <1>5

(* decrypt_request pins the session it will use.                                 *)
LEMMA AdmitPreserves ==
    ASSUME CacheInv, NEW r \in Requests, NEW k \in SessionIds, Admit(r, k)
    PROVE  CacheInv'
<1>1. <<r, "req">> \in Handles /\ <<r, "enc">> \in Handles
  BY DEF Handles
<1>2. /\ pc[r] = "idle" /\ Acquire(k, <<r, "req">>) /\ UNCHANGED <<now, purge>>
      /\ pc' = [pc EXCEPT ![r] = IF CanAcquire(k) THEN "admitted" ELSE "idle"]
      /\ sid' = [sid EXCEPT ![r] = IF CanAcquire(k) THEN k ELSE @]
  BY DEF Admit
<1>3. EntriesOK'
  BY <1>1, <1>2, AcquireEffect
<1>4. PurgeType'
  BY <1>2 DEF CacheInv, PurgeType
<1>5. CASE ~CanAcquire(k)
  <2>1. UNCHANGED <<handle, pc, sid>>
    BY <1>2, <1>5 DEF Acquire, CacheInv, RequestsOK, RequestsType
  <2>2. PICK gone \in SUBSET resident :
          /\ \A j \in gone : ~HasExternalLease(j)
          /\ \A j \in resident \ gone : j \in resident' /\ slotOf'[j] = slotOf[j]
    BY <1>1, <1>2, AcquireEffect
  <2>3. RequestsOK'
    BY <2>1, <2>2, RemovalKeepsLeased DEF CacheInv
  <2> QED BY <1>3, <1>4, <2>3 DEF CacheInv
<1>6. CASE CanAcquire(k)
  <2>1. UNCHANGED <<resident, slotOf>>
    BY <1>1, <1>2, <1>6, AcquireEffect
  <2>2. handle' = [handle EXCEPT ![<<r, "req">>] = [st |-> "held", slot |-> slotOf[k]]]
    BY <1>2, <1>6 DEF Acquire
  <2>3. k \in resident /\ slotOf[k] \in Slots \union {NoSlot}
    BY <1>6 DEF CanAcquire, Usable, CacheInv, EntriesOK, EntriesType
  <2>4. RequestsType'
    BY <1>1, <1>2, <2>2, <2>3
       DEF CacheInv, RequestsOK, RequestsType, HandleState, PcStates
  <2>5. HandleDiscipline'
    BY <1>1, <1>2, <1>6, <2>2 DEF CacheInv, RequestsOK, RequestsType, HandleDiscipline, Handles
  <2>6. LeasedStaysResident'
    <3> SUFFICES ASSUME NEW q \in Requests, NEW x \in {"req", "enc"},
                        handle'[<<q, x>>].st # "none"
                 PROVE  sid'[q] \in resident' /\ slotOf'[sid'[q]] = handle'[<<q, x>>].slot
      BY DEF LeasedStaysResident
    <3>1. CASE q # r
      BY <1>1, <1>2, <2>1, <2>2, <3>1
         DEF CacheInv, RequestsOK, RequestsType, LeasedStaysResident, Handles
    <3>2. CASE q = r
      <4>1. handle'[<<r, "enc">>].st = "none"
        BY <1>1, <1>2, <2>2 DEF CacheInv, RequestsOK, RequestsType, HandleDiscipline
      <4>2. x = "req"
        BY <3>2, <4>1
      <4>3. handle'[<<r, "req">>].slot = slotOf[k] /\ sid'[r] = k
        BY <1>1, <1>2, <1>6, <2>2 DEF CacheInv, RequestsOK, RequestsType
      <4> QED BY <3>2, <4>2, <4>3, <2>1, <2>3
    <3> QED BY <3>1, <3>2
  <2>7. AdmittedNeverLost'
    BY <1>2 DEF CacheInv, RequestsOK, RequestsType, AdmittedNeverLost
  <2> QED BY <1>3, <1>4, <2>4, <2>5, <2>6, <2>7 DEF CacheInv, RequestsOK
<1> QED BY <1>5, <1>6

(* touch_session and the touch of encrypt_session_data find the session they    *)
(* lease.                                                                       *)
LEMMA TouchStepPreserves ==
    ASSUME CacheInv, NEW r \in Requests, TouchSession(r) \/ EncryptTouch(r)
    PROVE  CacheInv'
<1>1. /\ Touch(sid[r]) /\ UNCHANGED <<now, handle, sid, purge>>
      /\ pc[r] \in {"admitted", "encrypting"}
      /\ \/ pc[r] = "admitted" /\ pc' = [pc EXCEPT ![r] = IF Usable(sid[r]) THEN "running" ELSE "lost"]
         \/ pc[r] = "encrypting" /\ pc' = [pc EXCEPT ![r] = IF Usable(sid[r]) THEN "encdrop" ELSE "lost"]
  BY DEF TouchSession, EncryptTouch
<1>2. sid[r] \in SessionIds /\ handle[<<r, "req">>].st # "none"
  BY <1>1 DEF CacheInv, RequestsOK, RequestsType, HandleDiscipline
<1>3. Usable(sid[r])
  BY <1>2, LeasedIsProtected DEF CacheInv
<1>4. EntriesOK'
  BY <1>1, <1>2, TouchPreserves DEF CacheInv
<1>5. UNCHANGED <<resident, slotOf>>
  BY <1>1, <1>3 DEF Touch
<1>6. RequestsOK'
  BY <1>1, <1>3, <1>5
     DEF CacheInv, RequestsOK, RequestsType, HandleDiscipline, LeasedStaysResident,
         AdmittedNeverLost, PcStates
<1>7. PurgeType'
  BY <1>1 DEF CacheInv, PurgeType
<1> QED BY <1>4, <1>6, <1>7 DEF CacheInv

(* encrypt_session_data always gets its second lease.                            *)
LEMMA EncryptAcquirePreserves ==
    ASSUME CacheInv, NEW r \in Requests, EncryptAcquire(r)
    PROVE  CacheInv'
<1> DEFINE k == sid[r]
<1>1. <<r, "req">> \in Handles /\ <<r, "enc">> \in Handles
  BY DEF Handles
<1>2. /\ pc[r] = "running" /\ Acquire(k, <<r, "enc">>) /\ UNCHANGED <<now, sid, purge>>
      /\ pc' = [pc EXCEPT ![r] = IF CanAcquire(k) THEN "encrypting" ELSE "lost"]
  BY DEF EncryptAcquire
<1>3. /\ k \in SessionIds
      /\ handle[<<r, "req">>].st = "held" /\ handle[<<r, "enc">>].st = "none"
  BY <1>2 DEF CacheInv, RequestsOK, RequestsType, HandleDiscipline
<1>4. CanAcquire(k)
  <2>1. Usable(k) /\ Cardinality(Leases(slotOf[k])) < LeaseLimit
    BY <1>3, LeasedIsProtected, LeaseAvailable DEF CacheInv
  <2> QED BY <2>1 DEF CanAcquire
<1>5. EntriesOK' /\ UNCHANGED <<resident, slotOf>>
  BY <1>1, <1>2, <1>3, <1>4, AcquireEffect
<1>6. handle' = [handle EXCEPT ![<<r, "enc">>] = [st |-> "held", slot |-> slotOf[k]]]
  BY <1>2, <1>4 DEF Acquire
<1>7. k \in resident /\ slotOf[k] \in Slots \union {NoSlot}
  BY <1>4 DEF CanAcquire, Usable, CacheInv, EntriesOK, EntriesType
<1>8. RequestsType'
  BY <1>1, <1>2, <1>6, <1>7 DEF CacheInv, RequestsOK, RequestsType, HandleState, PcStates
<1>9. HandleDiscipline'
  BY <1>1, <1>2, <1>4, <1>6 DEF CacheInv, RequestsOK, RequestsType, HandleDiscipline, Handles
<1>10. LeasedStaysResident'
  BY <1>1, <1>2, <1>5, <1>6, <1>7
     DEF CacheInv, RequestsOK, RequestsType, LeasedStaysResident, Handles
<1>11. AdmittedNeverLost'
  BY <1>2, <1>4 DEF CacheInv, RequestsOK, RequestsType, AdmittedNeverLost
<1>12. PurgeType'
  BY <1>2 DEF CacheInv, PurgeType
<1> QED BY <1>5, <1>8, <1>9, <1>10, <1>11, <1>12 DEF CacheInv, RequestsOK

(* Leaving a handler and dropping its leases, the counter before the Arc.        *)
LEMMA LeavePreserves ==
    ASSUME CacheInv, NEW r \in Requests, NEW x \in {"req", "enc"},
           Finish(r) \/ DropCount(r, x) \/ DropArc(r, x)
    PROVE  CacheInv'
<1>1. UNCHANGED <<now, resident, slotOf, expires, older, sid, purge>> /\ <<r, x>> \in Handles
  BY DEF Finish, DropCount, DropArc, entries, Handles
<1>2. EntriesOK' /\ PurgeType'
  BY <1>1 DEF CacheInv, PurgeType, EntriesOK, EntriesType, RecencyOrdersExpiry, IsRecencyOrder,
              Deadlines, WithinCapacity
<1>3. CASE Finish(r)
  BY <1>1, <1>2, <1>3
     DEF CacheInv, RequestsOK, RequestsType, HandleDiscipline, LeasedStaysResident,
         AdmittedNeverLost, PcStates, Finish
<1>4. CASE DropCount(r, x)
  <2>1. /\ handle' = [handle EXCEPT ![<<r, x>>].st = "dropping"]
        /\ pc' = pc /\ handle[<<r, x>>].st = "held"
        /\ DropsNext(r, x)
    BY <1>4 DEF DropCount
  <2>2. RequestsType'
    BY <1>1, <2>1 DEF CacheInv, RequestsOK, RequestsType, HandleState
  <2>3. HandleDiscipline'
    BY <1>1, <2>1 DEF CacheInv, RequestsOK, RequestsType, HandleDiscipline, DropsNext, Handles
  <2>4. LeasedStaysResident'
    BY <1>1, <2>1 DEF CacheInv, RequestsOK, RequestsType, HandleState, LeasedStaysResident, Handles
  <2> QED BY <1>2, <2>1, <2>2, <2>3, <2>4 DEF CacheInv, RequestsOK, AdmittedNeverLost
<1>5. CASE DropArc(r, x)
  <2>1. /\ handle' = [handle EXCEPT ![<<r, x>>] = NoHandle]
        /\ pc' = [pc EXCEPT ![r] = IF x = "req" THEN "idle"
                                   ELSE IF pc[r] = "encdrop" THEN "running" ELSE pc[r]]
        /\ handle[<<r, x>>].st = "dropping"
        /\ DropsNext(r, x)
    BY <1>5 DEF DropArc
  <2>2. RequestsType'
    BY <1>1, <2>1 DEF CacheInv, RequestsOK, RequestsType, HandleState, NoHandle, PcStates
  <2>3. HandleDiscipline'
    BY <1>1, <2>1
       DEF CacheInv, RequestsOK, RequestsType, HandleDiscipline, DropsNext, Handles, NoHandle
  <2>4. LeasedStaysResident'
    BY <1>1, <2>1 DEF CacheInv, RequestsOK, RequestsType, LeasedStaysResident, Handles, NoHandle
  <2>5. AdmittedNeverLost'
    BY <2>1 DEF CacheInv, RequestsOK, RequestsType, AdmittedNeverLost
  <2> QED BY <1>2, <2>2, <2>3, <2>4, <2>5 DEF CacheInv, RequestsOK
<1> QED BY <1>3, <1>4, <1>5

(* One pass of the maintenance task.                                             *)
LEMMA PurgePreserves ==
    ASSUME CacheInv, Purge
    PROVE  CacheInv'
<1>1. CASE PurgeTick
  <2>1. EntriesOK' /\ RequestsOK'
    BY <1>1, QuietPreserves DEF PurgeTick, CacheInv, EntriesOK, EntriesType
  <2>2. PurgeType'
    BY <1>1 DEF PurgeTick, CacheInv, PurgeType, EntriesOK, EntriesType
  <2> QED BY <2>1, <2>2 DEF CacheInv
<1>2. CASE PurgeScan
  <2>1. EntriesOK' /\ RequestsOK'
    BY <1>2, QuietPreserves DEF PurgeScan, CacheInv, EntriesOK, EntriesType
  <2>2. ExpiredUnleasedKeys(purge.at) \subseteq SessionIds
    BY DEF ExpiredUnleasedKeys, CacheInv, EntriesOK, EntriesType
  <2>3. PurgeType'
    BY <1>2, <2>2 DEF PurgeScan, CacheInv, PurgeType, EntriesOK, EntriesType
  <2> QED BY <2>1, <2>3 DEF CacheInv
<1>3. CASE PurgeBatch
  <2>1. PICK batch \in SUBSET purge.cands :
          /\ Pop({k \in batch : k \in resident /\ ExpiredAndUnleased(k, purge.at)})
          /\ purge' = IF batch = purge.cands
                      THEN [pc |-> "idle", at |-> 0, cands |-> {}]
                      ELSE [purge EXCEPT !.cands = @ \ batch]
    BY <1>3 DEF PurgeBatch
  <2> DEFINE gone == {k \in batch : k \in resident /\ ExpiredAndUnleased(k, purge.at)}
  <2>2. UNCHANGED <<now, handle, pc, sid>>
    BY <1>3 DEF PurgeBatch
  <2>3. EntriesOK'
    BY <2>1, <2>2, PopPreserves DEF CacheInv
  <2>4. \A k \in gone \intersect resident : ~HasExternalLease(k)
    BY DEF ExpiredAndUnleased
  <2>5. \A k \in resident \ gone : k \in resident' /\ slotOf'[k] = slotOf[k]
    BY <2>1 DEF Pop, CacheInv, EntriesOK, EntriesType
  <2>6. RequestsOK'
    BY <2>2, <2>4, <2>5, RemovalKeepsLeased DEF CacheInv
  <2>7. PurgeType'
    BY <2>1, <2>2 DEF CacheInv, PurgeType, EntriesOK, EntriesType
  <2> QED BY <2>3, <2>6, <2>7 DEF CacheInv
<1> QED BY <1>1, <1>2, <1>3 DEF Purge

(* The invariant is inductive.                                                   *)
LEMMA NextCacheInv == CacheInv /\ [Next]_vars => CacheInv'
<1> SUFFICES ASSUME CacheInv, [Next]_vars PROVE CacheInv'
  OBVIOUS
<1>1. CASE Tick
  <2>1. EntriesOK' /\ RequestsOK'
    BY <1>1, QuietPreserves DEF Tick, CacheInv, EntriesOK, EntriesType
  <2> QED BY <1>1, <2>1 DEF Tick, CacheInv, PurgeType, EntriesOK, EntriesType
<1>2. CASE \E k \in SessionIds : StoreSession(k)
  BY <1>2, StoreSessionPreserves
<1>3. CASE \E r \in Requests, k \in SessionIds : Admit(r, k)
  BY <1>3, AdmitPreserves
<1>4. CASE \E r \in Requests : TouchSession(r) \/ EncryptAcquire(r) \/ EncryptTouch(r) \/ Finish(r)
  <2>1. PICK r \in Requests : TouchSession(r) \/ EncryptAcquire(r) \/ EncryptTouch(r) \/ Finish(r)
    BY <1>4
  <2>2. "req" \in {"req", "enc"}
    OBVIOUS
  <2> QED BY <2>1, <2>2, TouchStepPreserves, EncryptAcquirePreserves, LeavePreserves
<1>5. CASE \E r \in Requests, x \in {"req", "enc"} : DropCount(r, x) \/ DropArc(r, x)
  BY <1>5, LeavePreserves
<1>6. CASE Purge
  BY <1>6, PurgePreserves
<1>7. CASE UNCHANGED vars
  <2>1. EntriesOK' /\ RequestsOK'
    BY <1>7, QuietPreserves DEF vars, entries, CacheInv, EntriesOK, EntriesType
  <2> QED BY <1>7, <2>1 DEF vars, CacheInv, PurgeType
<1> QED BY <1>1, <1>2, <1>3, <1>4, <1>5, <1>6, <1>7 DEF Next
-----------------------------------------------------------------------------
(* Every behaviour keeps the inductive invariant.                                *)
THEOREM CacheInvariant == Spec => []CacheInv
BY InitCacheInv, NextCacheInv, PTL DEF Spec

(* Every variable of the session cache keeps its type.                           *)
THEOREM TypeCorrect == Spec => []TypeOK
<1>1. CacheInv => TypeOK
  BY DEF CacheInv, EntriesOK, EntriesType, RecencyOrdersExpiry, IsRecencyOrder, RequestsOK,
         RequestsType, PurgeType, TypeOK
<1> QED BY <1>1, CacheInvariant, PTL

(* A lease keeps its session resident, for any number of concurrent requests:    *)
(* CacheLease's promise (lease_aware_cache.rs:75).                               *)
THEOREM LeaseSafety == Spec => []LeasedStaysResident
<1>1. CacheInv => LeasedStaysResident
  BY DEF CacheInv, RequestsOK
<1> QED BY <1>1, CacheInvariant, PTL

(* touch_session and encrypt_session_data never fail for an admitted request.    *)
THEOREM AdmittedSafety == Spec => []AdmittedNeverLost
<1>1. CacheInv => AdmittedNeverLost
  BY DEF CacheInv, RequestsOK
<1> QED BY <1>1, CacheInvariant, PTL

(* The recency list is the deadline order (touch_at, insert_new).                *)
THEOREM OrderSafety == Spec => []RecencyOrdersExpiry
<1>1. CacheInv => RecencyOrdersExpiry
  BY DEF CacheInv, EntriesOK
<1> QED BY <1>1, CacheInvariant, PTL

(* expired_unleased_keys_at may stop at the first live entry.                    *)
THEOREM ScanSafety == Spec => []ScanMissesNothing
<1>1. CacheInv => ScanMissesNothing
  <2> SUFFICES ASSUME CacheInv, NEW k \in resident, ExpiredAndUnleased(k, purge.at)
               PROVE  k \in ExpiredUnleasedKeys(purge.at)
    BY DEF ScanMissesNothing
  <2>1. purge.at \in Nat /\ \A j \in resident : expires[j] \in Nat
    BY DEF CacheInv, PurgeType, EntriesOK, EntriesType
  <2>2. \A j \in resident : <<j, k>> \in older => expires[j] <= purge.at
    BY <2>1 DEF CacheInv, EntriesOK, RecencyOrdersExpiry, ExpiredAndUnleased
  <2> QED BY <2>2 DEF ExpiredAndUnleased, ExpiredUnleasedKeys
<1> QED BY <1>1, CacheInvariant, PTL

(* insert_evicting never lets the cache outgrow MAX_ENCRYPTION_SESSIONS.         *)
THEOREM CapacitySafety == Spec => []WithinCapacity
<1>1. CacheInv => WithinCapacity
  BY DEF CacheInv, EntriesOK
<1> QED BY <1>1, CacheInvariant, PTL

(* retire_expired_candidates_at revalidates: however stale its clock reading and *)
(* its snapshot, a batch only retires sessions that are expired and unleased.    *)
THEOREM PurgeSafety == Spec => PurgeTakesOnlyExpired
<1> DEFINE Good == purge.pc = "retire" /\ purge' # purge =>
                      \A k \in resident \ resident' : ExpiredAndUnleased(k, now)
<1>1. CacheInv /\ [Next]_vars => [Good]_vars
  <2> SUFFICES ASSUME CacheInv, Next, purge.pc = "retire", purge' # purge,
                      NEW k \in resident \ resident'
               PROVE  ExpiredAndUnleased(k, now)
    BY DEF vars
  <2>1. PurgeBatch
    BY DEF Next, Purge, Tick, StoreSession, Admit, TouchSession, EncryptAcquire, EncryptTouch,
           Finish, DropCount, DropArc, PurgeTick, PurgeScan
  <2>2. ExpiredAndUnleased(k, purge.at)
    BY <2>1 DEF PurgeBatch, Pop
  <2>3. purge.at \in Nat /\ now \in Nat /\ purge.at <= now /\ expires[k] \in Nat
    BY DEF CacheInv, PurgeType, EntriesOK, EntriesType
  <2> QED BY <2>2, <2>3 DEF ExpiredAndUnleased
<1> QED BY <1>1, CacheInvariant, PTL DEF Spec, PurgeTakesOnlyExpired
=============================================================================
