--------------------------- MODULE ProvidersProofs ---------------------------
(*****************************************************************************)
(* What the attested transport, the gates in front of the models and the     *)
(* relay of a completion promise, for any number of requests, tasks and      *)
(* frames, any buffers, lifetimes and timeouts.                              *)
(*                                                                           *)
(* Transport: that one discovery runs at a time needs to know where the      *)
(* gate's holder is (HeldWhere); that recovery always has an owner, that     *)
(* initialization_started is set only while some task holds the claim and    *)
(* goes on trying (ClaimIsHeld); that a refresh is of the installed client,  *)
(* that refresh tasks belong to requests past their snapshot                 *)
(* (TaskFollowsSnapshot) and that an installed client bears the number of    *)
(* the current attempt (ClientIsCurrent).                                    *)
(*                                                                           *)
(* Gates: what a request has passed (Passed) and how old what it read may be *)
(* (Recent) are kept by every step, its own and the others'. A revoked flag  *)
(* is followed from the service through the answer under way to the cached   *)
(* entry (CacheOK).                                                          *)
(*                                                                           *)
(* Relay: the accumulator is related to the frames through the latest value  *)
(* stated for each field (IsLatest), which one more frame replaces or keeps; *)
(* channel and client together hold the frames without a gap (Following),    *)
(* and the notes stand behind them in the order of the relay's stages        *)
(* (Trailing).                                                               *)
(*****************************************************************************)
EXTENDS MCProviders, Sequences, FiniteSetTheorems, TLAPS

(* ProviderTransport *)

\* Whoever is between taking refresh_gate and dropping it is its holder.
HeldWhere ==
    /\ \A i \in Tasks : ipc[i] \in {"discover", "return"} => gate = i
    /\ \A r \in Requests : tpc[r] \in {"decide", "discover"} => gate = r

\* An InitializationClaim is active only in a task that goes on trying, and
\* initialization_started is set only while there is one.
ClaimIsHeld ==
    /\ \A i \in Tasks : claimed[i] => ipc[i] \in {"gate", "discover", "sleep"}
    /\ claim => \E i \in Tasks : claimed[i]

\* refresh_attempt grows with every installation and every failed refresh.
ClientIsCurrent ==
    /\ client \in {NoClient, attempt}
    /\ \A r \in Requests : snap[r].client \in {NoClient, snap[r].attempt}

\* A request starts its refresh only after its snapshot, and takes no other.
TaskFollowsSnapshot ==
    \A r \in Requests : tpc[r] # "none" => pc[r] \in {"await", "retry", "done"}

\* Nothing is written before the attempt that ends the request.
UnsentBeforeDone == \A r \in Requests : sent[r] <= 1 /\ (pc[r] # "done" => sent[r] = 0)

\* The inductive invariant.
TransportIInv ==
    /\ TypeOK /\ HeldWhere /\ ClaimIsHeld /\ ClientIsCurrent /\ TaskFollowsSnapshot
    /\ UnsentBeforeDone /\ RefreshesTheInstalledClient /\ RecoveryHasAnOwner
------------------------------------------------------------------------------
(* retry_delay starts within its range and stays there. *)
LEMMA DelayRange ==
    /\ InitialDelay \in InitialDelay .. MaxDelay
    /\ \A d \in InitialDelay .. MaxDelay : NextRetryDelay(d) \in InitialDelay .. MaxDelay
BY TransportAssumption DEF InitialDelay, NextRetryDelay

(* start_background_initialization sets initialization_started only together  *)
(* with a task that holds the claim.                                          *)
LEMMA SpawnHoldsClaim ==
    ASSUME InitializerType, ClaimIsHeld, ClaimAndSpawn
    PROVE  /\ InitializerType' /\ ClaimIsHeld'
           /\ \E i \in Tasks : claimed'[i]
           /\ \A i \in Tasks : ipc[i] # "none" => ipc'[i] = ipc[i] /\ claimed'[i] = claimed[i]
           /\ \A i \in Tasks : ipc'[i] = ipc[i] \/ ipc'[i] = "gate"
<1>1. CASE claim
  BY <1>1 DEF ClaimAndSpawn, InitializerType, ClaimIsHeld, init
<1>2. CASE ~claim
  <2>1. PICK i \in Tasks : /\ ipc[i] = "none"
                          /\ ipc' = [ipc EXCEPT ![i] = "gate"]
                          /\ claimed' = [claimed EXCEPT ![i] = TRUE]
                          /\ delay' = [delay EXCEPT ![i] = InitialDelay]
    BY <1>2 DEF ClaimAndSpawn
  <2>2. claim' = TRUE
    BY <1>2 DEF ClaimAndSpawn
  <2>3. InitializerType'
    BY <2>1, <2>2, DelayRange DEF InitializerType
  <2>4. ClaimIsHeld'
    BY <2>1, <2>2 DEF InitializerType, ClaimIsHeld
  <2> QED BY <2>1, <2>3, <2>4 DEF InitializerType
<1> QED BY <1>1, <1>2 DEF InitializerType

(* initialize_until_ready keeps the invariant: the gate is held while discovery *)
(* runs, and the claim is given up only where a client is installed.            *)
LEMMA InitializerPreserves ==
    ASSUME TransportIInv, NEW i \in Tasks, InitializerStep(i)
    PROVE  TransportIInv'
<1> USE TransportAssumption DEF TransportIInv, TypeOK, Available, NoClient, slot, init, reqs,
       refresh
<1>1. CASE LockGate(i)
  <2>1. TypeOK'
    <3>1. InitializerType'
      BY <1>1 DEF LockGate, ReleaseClaim, InitializerType
    <3> QED
      BY <3>1, <1>1 DEF LockGate, SlotType, RequestType
  <2>2. HeldWhere'
    BY <1>1 DEF LockGate, ReleaseClaim, InitializerType, RequestType, HeldWhere
  <2>3. ClaimIsHeld'
    BY <1>1 DEF LockGate, ReleaseClaim, InitializerType, ClaimIsHeld
  <2>4. RecoveryHasAnOwner'
    BY <1>1 DEF LockGate, ReleaseClaim, SlotType, InitializerType, RequestType,
           RecoveryHasAnOwner, ClaimIsHeld
  <2>5. ClientIsCurrent' /\ TaskFollowsSnapshot' /\ UnsentBeforeDone'
        /\ RefreshesTheInstalledClient'
    BY <1>1 DEF LockGate, ClientIsCurrent, TaskFollowsSnapshot, UnsentBeforeDone,
           RefreshesTheInstalledClient
  <2> QED BY <2>1, <2>2, <2>3, <2>4, <2>5
<1>2. CASE DiscoverOk(i)
  <2>1. TypeOK'
    <3>1. SlotType'
      BY <1>2 DEF DiscoverOk, SlotType
    <3>2. InitializerType'
      BY <1>2 DEF DiscoverOk, ReleaseClaim, InitializerType
    <3> QED
      BY <3>1, <3>2, <1>2 DEF DiscoverOk, RequestType
  <2>2. HeldWhere'
    BY <1>2 DEF DiscoverOk, ReleaseClaim, InitializerType, RequestType, HeldWhere
  <2>3. ClaimIsHeld'
    BY <1>2 DEF DiscoverOk, ReleaseClaim, InitializerType, ClaimIsHeld
  <2>4. ClientIsCurrent'
    BY <1>2 DEF DiscoverOk, ReleaseClaim, SlotType, ClientIsCurrent
  <2>5. RefreshesTheInstalledClient'
    BY <1>2 DEF DiscoverOk, ReleaseClaim, SlotType, RequestType,
           RefreshesTheInstalledClient, HeldWhere, TaskFollowsSnapshot
  <2>6. RecoveryHasAnOwner'
    BY <1>2 DEF DiscoverOk, ReleaseClaim, SlotType, InitializerType, RequestType,
           RecoveryHasAnOwner, ClaimIsHeld
  <2>7. TaskFollowsSnapshot' /\ UnsentBeforeDone'
    BY <1>2 DEF DiscoverOk, TaskFollowsSnapshot, UnsentBeforeDone
  <2> QED BY <2>1, <2>2, <2>3, <2>4, <2>5, <2>6, <2>7
<1>3. CASE DiscoverFail(i)
  <2>1. TypeOK'
    <3>1. InitializerType'
      BY <1>3 DEF DiscoverFail, InitializerType
    <3> QED
      BY <3>1, <1>3 DEF DiscoverFail, SlotType, RequestType
  <2>2. HeldWhere'
    BY <1>3 DEF DiscoverFail, InitializerType, RequestType, HeldWhere
  <2>3. ClaimIsHeld'
    BY <1>3 DEF DiscoverFail, InitializerType, ClaimIsHeld
  <2>4. RecoveryHasAnOwner'
    BY <1>3 DEF DiscoverFail, SlotType, InitializerType, RequestType,
           RecoveryHasAnOwner, ClaimIsHeld
  <2>5. ClientIsCurrent' /\ TaskFollowsSnapshot' /\ UnsentBeforeDone'
        /\ RefreshesTheInstalledClient'
    BY <1>3 DEF DiscoverFail, ClientIsCurrent, TaskFollowsSnapshot, UnsentBeforeDone,
           RefreshesTheInstalledClient
  <2> QED BY <2>1, <2>2, <2>3, <2>4, <2>5
<1>4. CASE Wake(i)
  <2>1. TypeOK'
    <3>1. InitializerType'
      BY <1>4, DelayRange DEF Wake, InitializerType
    <3> QED
      BY <3>1, <1>4 DEF Wake, SlotType, RequestType
  <2>2. HeldWhere'
    BY <1>4 DEF Wake, InitializerType, RequestType, HeldWhere
  <2>3. ClaimIsHeld'
    BY <1>4 DEF Wake, InitializerType, ClaimIsHeld
  <2>4. RecoveryHasAnOwner'
    BY <1>4 DEF Wake, SlotType, InitializerType, RequestType, RecoveryHasAnOwner,
           ClaimIsHeld
  <2>5. ClientIsCurrent' /\ TaskFollowsSnapshot' /\ UnsentBeforeDone'
        /\ RefreshesTheInstalledClient'
    BY <1>4 DEF Wake, ClientIsCurrent, TaskFollowsSnapshot, UnsentBeforeDone,
           RefreshesTheInstalledClient
  <2> QED BY <2>1, <2>2, <2>3, <2>4, <2>5
<1>5. CASE Return(i)
  <2>1. TypeOK'
    <3>1. InitializerType'
      BY <1>5 DEF Return, InitializerType
    <3> QED
      BY <3>1, <1>5 DEF Return, SlotType, RequestType
  <2>2. HeldWhere'
    BY <1>5 DEF Return, InitializerType, RequestType, HeldWhere
  <2>3. ClaimIsHeld'
    BY <1>5 DEF Return, InitializerType, ClaimIsHeld
  <2>4. RecoveryHasAnOwner'
    BY <1>5 DEF Return, SlotType, InitializerType, RequestType, RecoveryHasAnOwner,
           ClaimIsHeld
  <2>5. ClientIsCurrent' /\ TaskFollowsSnapshot' /\ UnsentBeforeDone'
        /\ RefreshesTheInstalledClient'
    BY <1>5 DEF Return, ClientIsCurrent, TaskFollowsSnapshot, UnsentBeforeDone,
           RefreshesTheInstalledClient
  <2> QED BY <2>1, <2>2, <2>3, <2>4, <2>5
<1>6. CASE DropClaim(i)
  <2>1. TypeOK'
    <3>1. InitializerType'
      BY <1>6, DelayRange DEF DropClaim, InitializerType
    <3> QED
      BY <3>1, <1>6 DEF DropClaim, SlotType, RequestType
  <2>2. HeldWhere'
    BY <1>6 DEF DropClaim, InitializerType, RequestType, HeldWhere
  <2>3. ClaimIsHeld'
    BY <1>6 DEF DropClaim, InitializerType, ClaimIsHeld
  <2>4. RecoveryHasAnOwner'
    BY <1>6 DEF DropClaim, SlotType, InitializerType, RequestType, RecoveryHasAnOwner,
           ClaimIsHeld
  <2>5. ClientIsCurrent' /\ TaskFollowsSnapshot' /\ UnsentBeforeDone'
        /\ RefreshesTheInstalledClient'
    BY <1>6 DEF DropClaim, ClientIsCurrent, TaskFollowsSnapshot, UnsentBeforeDone,
           RefreshesTheInstalledClient
  <2> QED BY <2>1, <2>2, <2>3, <2>4, <2>5
<1> QED BY <1>1, <1>2, <1>3, <1>4, <1>5, <1>6 DEF InitializerStep

(* refresh_after_connect_failure keeps the invariant: it replaces the installed *)
(* client, or leaves none and then hands recovery over to an initializer.       *)
LEMMA RefreshPreserves ==
    ASSUME TransportIInv, NEW r \in Requests, RefreshStep(r)
    PROVE  TransportIInv'
<1> USE TransportAssumption DEF TransportIInv, TypeOK, Available, NoClient, slot, init, reqs,
       refresh
<1>1. CASE TryRefreshGate(r)
  <2>1. TypeOK'
    <3>1. SlotType'
      BY <1>1 DEF TryRefreshGate, EndRefresh, NoSnapshot, SlotType
    <3>2. RequestType'
      BY <1>1 DEF TryRefreshGate, EndRefresh, RequestType
    <3> QED
      BY <3>1, <3>2, <1>1 DEF TryRefreshGate, EndRefresh, InitializerType
  <2>2. HeldWhere'
    BY <1>1 DEF TryRefreshGate, EndRefresh, InitializerType, RequestType, HeldWhere
  <2>3. TaskFollowsSnapshot'
    BY <1>1 DEF TryRefreshGate, EndRefresh, RequestType, TaskFollowsSnapshot
  <2>4. RefreshesTheInstalledClient'
    BY <1>1 DEF TryRefreshGate, EndRefresh, SlotType, RequestType,
           RefreshesTheInstalledClient, HeldWhere, TaskFollowsSnapshot
  <2>5. RecoveryHasAnOwner'
    BY <1>1 DEF TryRefreshGate, EndRefresh, SlotType, InitializerType, RequestType,
           RecoveryHasAnOwner, ClaimIsHeld
  <2>6. ClaimIsHeld' /\ ClientIsCurrent' /\ UnsentBeforeDone'
    BY <1>1 DEF TryRefreshGate, ClaimIsHeld, ClientIsCurrent, UnsentBeforeDone
  <2> QED BY <2>1, <2>2, <2>3, <2>4, <2>5, <2>6
<1>2. CASE Decide(r)
  <2>1. TypeOK'
    <3>1. SlotType'
      BY <1>2 DEF Decide, EndRefresh, NoSnapshot, Snapshot, RefreshDecision, SlotType
    <3>2. RequestType'
      BY <1>2 DEF Decide, EndRefresh, RefreshDecision, RequestType
    <3> QED
      BY <3>1, <3>2, <1>2 DEF Decide, EndRefresh, InitializerType
  <2>2. HeldWhere'
    BY <1>2 DEF Decide, EndRefresh, RefreshDecision, InitializerType, RequestType,
           HeldWhere
  <2>3. TaskFollowsSnapshot'
    BY <1>2 DEF Decide, EndRefresh, RefreshDecision, RequestType, TaskFollowsSnapshot
  <2>4. RefreshesTheInstalledClient'
    BY <1>2 DEF Decide, EndRefresh, RefreshDecision, SlotType, RequestType,
           RefreshesTheInstalledClient, HeldWhere, TaskFollowsSnapshot
  <2>5. RecoveryHasAnOwner'
    BY <1>2 DEF Decide, EndRefresh, RefreshDecision, SlotType, InitializerType,
           RequestType, RecoveryHasAnOwner, ClaimIsHeld
  <2>6. ClaimIsHeld' /\ ClientIsCurrent' /\ UnsentBeforeDone'
    BY <1>2 DEF Decide, ClaimIsHeld, ClientIsCurrent, UnsentBeforeDone
  <2> QED BY <2>1, <2>2, <2>3, <2>4, <2>5, <2>6
<1>3. CASE RefreshOk(r)
  <2>1. TypeOK'
    <3>1. SlotType'
      BY <1>3 DEF RefreshOk, EndRefresh, SlotType
    <3>2. RequestType'
      BY <1>3 DEF RefreshOk, EndRefresh, RequestType
    <3> QED
      BY <3>1, <3>2, <1>3 DEF RefreshOk, EndRefresh, InitializerType
  <2>2. HeldWhere'
    BY <1>3 DEF RefreshOk, EndRefresh, InitializerType, RequestType, HeldWhere
  <2>3. ClientIsCurrent'
    BY <1>3 DEF RefreshOk, SlotType, ClientIsCurrent
  <2>4. TaskFollowsSnapshot'
    BY <1>3 DEF RefreshOk, EndRefresh, RequestType, TaskFollowsSnapshot
  <2>5. RefreshesTheInstalledClient'
    BY <1>3 DEF RefreshOk, EndRefresh, SlotType, RequestType,
           RefreshesTheInstalledClient, HeldWhere, TaskFollowsSnapshot
  <2>6. RecoveryHasAnOwner'
    BY <1>3 DEF RefreshOk, EndRefresh, SlotType, InitializerType, RequestType,
           RecoveryHasAnOwner, ClaimIsHeld
  <2>7. ClaimIsHeld' /\ UnsentBeforeDone'
    BY <1>3 DEF RefreshOk, ClaimIsHeld, UnsentBeforeDone
  <2> QED BY <2>1, <2>2, <2>3, <2>4, <2>5, <2>6, <2>7
<1>4. CASE RefreshFail(r)
  <2>1. TypeOK'
    <3>1. SlotType'
      BY <1>4 DEF RefreshFail, SlotType
    <3>2. RequestType'
      BY <1>4 DEF RefreshFail, RequestType
    <3> QED
      BY <3>1, <3>2, <1>4 DEF RefreshFail, InitializerType
  <2>2. HeldWhere'
    BY <1>4 DEF RefreshFail, InitializerType, RequestType, HeldWhere
  <2>3. ClientIsCurrent'
    BY <1>4 DEF RefreshFail, SlotType, ClientIsCurrent
  <2>4. TaskFollowsSnapshot'
    BY <1>4 DEF RefreshFail, RequestType, TaskFollowsSnapshot
  <2>5. RefreshesTheInstalledClient'
    BY <1>4 DEF RefreshFail, SlotType, RequestType, RefreshesTheInstalledClient,
           HeldWhere, TaskFollowsSnapshot
  <2>6. RecoveryHasAnOwner'
    BY <1>4 DEF RefreshFail, SlotType, InitializerType, RequestType, RecoveryHasAnOwner,
           ClaimIsHeld
  <2>7. ClaimIsHeld' /\ UnsentBeforeDone'
    BY <1>4 DEF RefreshFail, ClaimIsHeld, UnsentBeforeDone
  <2> QED BY <2>1, <2>2, <2>3, <2>4, <2>5, <2>6, <2>7
<1>5. CASE Restart(r)
  <2>1. TypeOK'
    <3>1. SlotType'
      BY <1>5 DEF Restart, EndRefresh, NoSnapshot, SlotType
    <3>2. RequestType'
      BY <1>5 DEF Restart, EndRefresh, RequestType
    <3> QED
      BY <3>1, <3>2, <1>5 DEF Restart, EndRefresh, InitializerType
  <2>2. HeldWhere'
    BY <1>5 DEF Restart, EndRefresh, InitializerType, RequestType, HeldWhere
  <2>3. TaskFollowsSnapshot'
    BY <1>5 DEF Restart, EndRefresh, RequestType, TaskFollowsSnapshot
  <2>4. RefreshesTheInstalledClient'
    BY <1>5 DEF Restart, EndRefresh, SlotType, RequestType, RefreshesTheInstalledClient,
           HeldWhere, TaskFollowsSnapshot
  <2>5. RecoveryHasAnOwner'
    BY <1>5 DEF Restart, EndRefresh, SlotType, InitializerType, RequestType,
           RecoveryHasAnOwner, ClaimIsHeld
  <2>6. ClaimIsHeld' /\ ClientIsCurrent' /\ UnsentBeforeDone'
    BY <1>5 DEF Restart, ClaimIsHeld, ClientIsCurrent, UnsentBeforeDone
  <2> QED BY <2>1, <2>2, <2>3, <2>4, <2>5, <2>6
<1>6. CASE RestartClaim(r)
  <2>1. ClaimAndSpawn
    BY <1>6 DEF RestartClaim
  <2>2. TypeOK'
    <3>1. SlotType'
      BY <1>6 DEF RestartClaim, EndRefresh, NoSnapshot, SlotType
    <3>2. RequestType'
      BY <1>6 DEF RestartClaim, EndRefresh, RequestType
    <3> QED
      BY <3>1, <3>2, <1>6, <2>1, SpawnHoldsClaim DEF RestartClaim
  <2>3. HeldWhere'
    BY <1>6, <2>1, SpawnHoldsClaim DEF RestartClaim, EndRefresh, RequestType, HeldWhere
  <2>4. ClaimIsHeld' /\ RecoveryHasAnOwner'
    BY <2>1, SpawnHoldsClaim DEF ClaimIsHeld, RecoveryHasAnOwner
  <2>5. TaskFollowsSnapshot' /\ RefreshesTheInstalledClient'
    BY <1>6 DEF RestartClaim, EndRefresh, RequestType, TaskFollowsSnapshot,
           RefreshesTheInstalledClient
  <2>6. ClientIsCurrent' /\ UnsentBeforeDone'
    BY <1>6 DEF RestartClaim, ClientIsCurrent, UnsentBeforeDone
  <2> QED BY <2>2, <2>3, <2>4, <2>5, <2>6
<1> QED BY <1>1, <1>2, <1>3, <1>4, <1>5, <1>6 DEF RefreshStep

(* ProviderClient::send keeps the invariant: it takes one snapshot, writes the  *)
(* body in the step that ends it, and starts at most one refresh.               *)
LEMMA RequestPreserves ==
    ASSUME TransportIInv, NEW r \in Requests, RequestStep(r)
    PROVE  TransportIInv'
<1> USE TransportAssumption DEF TransportIInv, TypeOK, Available, NoClient, slot, init, reqs,
       refresh
<1>1. CASE Begin(r)
  <2>1. TypeOK'
    <3>1. RequestType'
      BY <1>1 DEF Begin, At, Go, RequestType
    <3> QED
      BY <3>1, <1>1 DEF Begin, SlotType, InitializerType
  <2>2. TaskFollowsSnapshot'
    BY <1>1 DEF Begin, At, Go, RequestType, TaskFollowsSnapshot
  <2>3. UnsentBeforeDone'
    BY <1>1 DEF Begin, At, Go, RequestType, UnsentBeforeDone
  <2>4. HeldWhere' /\ ClaimIsHeld' /\ ClientIsCurrent'
        /\ RefreshesTheInstalledClient' /\ RecoveryHasAnOwner'
    BY <1>1 DEF Begin, HeldWhere, ClaimIsHeld, ClientIsCurrent,
           RefreshesTheInstalledClient, RecoveryHasAnOwner
  <2> QED BY <2>1, <2>2, <2>3, <2>4
<1>2. CASE StartInitialization(r)
  <2>1. ClaimAndSpawn
    BY <1>2 DEF StartInitialization
  <2>2. TypeOK'
    <3>1. RequestType'
      BY <1>2 DEF StartInitialization, Go, RequestType
    <3> QED
      BY <3>1, <1>2, <2>1, SpawnHoldsClaim DEF StartInitialization, SlotType
  <2>3. HeldWhere'
    BY <1>2, <2>1, SpawnHoldsClaim DEF StartInitialization, HeldWhere
  <2>4. ClaimIsHeld' /\ RecoveryHasAnOwner'
    BY <2>1, SpawnHoldsClaim DEF ClaimIsHeld, RecoveryHasAnOwner
  <2>5. TaskFollowsSnapshot' /\ UnsentBeforeDone'
    BY <1>2 DEF StartInitialization, At, Go, RequestType, TaskFollowsSnapshot, UnsentBeforeDone
  <2>6. ClientIsCurrent' /\ RefreshesTheInstalledClient'
    BY <1>2 DEF StartInitialization, ClientIsCurrent, RefreshesTheInstalledClient
  <2> QED BY <2>2, <2>3, <2>4, <2>5, <2>6
<1>3. CASE TakeSnapshot(r)
  <2>1. TypeOK'
    <3>1. SlotType'
      BY <1>3 DEF TakeSnapshot, At, Go, Snapshot, SlotType
    <3>2. RequestType'
      BY <1>3 DEF TakeSnapshot, At, Go, RequestType
    <3> QED
      BY <3>1, <3>2, <1>3 DEF TakeSnapshot, InitializerType
  <2>2. ClientIsCurrent'
    BY <1>3 DEF TakeSnapshot, At, Go, Snapshot, SlotType, ClientIsCurrent
  <2>3. TaskFollowsSnapshot'
    BY <1>3 DEF TakeSnapshot, At, Go, RequestType, TaskFollowsSnapshot
  <2>4. UnsentBeforeDone'
    BY <1>3 DEF TakeSnapshot, At, Go, RequestType, UnsentBeforeDone
  <2>5. RefreshesTheInstalledClient'
    BY <1>3 DEF TakeSnapshot, At, Go, SlotType, RequestType,
           RefreshesTheInstalledClient, HeldWhere, TaskFollowsSnapshot
  <2>6. HeldWhere' /\ ClaimIsHeld' /\ RecoveryHasAnOwner'
    BY <1>3 DEF TakeSnapshot, HeldWhere, ClaimIsHeld, RecoveryHasAnOwner
  <2> QED BY <2>1, <2>2, <2>3, <2>4, <2>5, <2>6
<1>4. CASE Execute(r)
  <2>1. TypeOK'
    <3>1. RequestType'
      BY <1>4 DEF Execute, Go, Write, RequestType
    <3> QED
      BY <3>1, <1>4 DEF Execute, SlotType, InitializerType
  <2>2. TaskFollowsSnapshot'
    BY <1>4 DEF Execute, Go, RequestType, TaskFollowsSnapshot
  <2>3. UnsentBeforeDone'
    BY <1>4 DEF Execute, Go, Write, RequestType, UnsentBeforeDone
  <2>4. HeldWhere' /\ ClaimIsHeld' /\ ClientIsCurrent'
        /\ RefreshesTheInstalledClient' /\ RecoveryHasAnOwner'
    BY <1>4 DEF Execute, HeldWhere, ClaimIsHeld, ClientIsCurrent,
           RefreshesTheInstalledClient, RecoveryHasAnOwner
  <2> QED BY <2>1, <2>2, <2>3, <2>4
<1>5. CASE ConnectError(r)
  <2>1. TypeOK'
    <3>1. RequestType'
      BY <1>5 DEF ConnectError, At, Go, SpawnRefresh, RequestType
    <3> QED
      BY <3>1, <1>5 DEF ConnectError, SlotType, InitializerType
  <2>2. HeldWhere'
    BY <1>5 DEF ConnectError, At, Go, SpawnRefresh, InitializerType, RequestType,
           HeldWhere
  <2>3. TaskFollowsSnapshot'
    BY <1>5 DEF ConnectError, At, Go, SpawnRefresh, RequestType, TaskFollowsSnapshot
  <2>4. UnsentBeforeDone'
    BY <1>5 DEF ConnectError, At, Go, SpawnRefresh, RequestType, UnsentBeforeDone
  <2>5. RefreshesTheInstalledClient'
    BY <1>5 DEF ConnectError, At, Go, SpawnRefresh, SlotType, RequestType,
           RefreshesTheInstalledClient, HeldWhere, TaskFollowsSnapshot
  <2>6. RecoveryHasAnOwner'
    BY <1>5 DEF ConnectError, Go, SpawnRefresh, At, RequestType, RecoveryHasAnOwner,
           TaskFollowsSnapshot
  <2>7. ClaimIsHeld' /\ ClientIsCurrent'
    BY <1>5 DEF ConnectError, ClaimIsHeld, ClientIsCurrent
  <2> QED BY <2>1, <2>2, <2>3, <2>4, <2>5, <2>6, <2>7
<1>6. CASE SendError(r)
  <2>1. TypeOK'
    <3>1. RequestType'
      BY <1>6 DEF SendError, Go, Write, MayWrite, RequestType
    <3> QED
      BY <3>1, <1>6 DEF SendError, SlotType, InitializerType
  <2>2. TaskFollowsSnapshot'
    BY <1>6 DEF SendError, Go, RequestType, TaskFollowsSnapshot
  <2>3. UnsentBeforeDone'
    BY <1>6 DEF SendError, Go, Write, MayWrite, RequestType, UnsentBeforeDone
  <2>4. HeldWhere' /\ ClaimIsHeld' /\ ClientIsCurrent'
        /\ RefreshesTheInstalledClient' /\ RecoveryHasAnOwner'
    BY <1>6 DEF SendError, HeldWhere, ClaimIsHeld, ClientIsCurrent,
           RefreshesTheInstalledClient, RecoveryHasAnOwner
  <2> QED BY <2>1, <2>2, <2>3, <2>4
<1>7. CASE ResponseStartTimeout(r)
  <2>1. TypeOK'
    <3>1. RequestType'
      BY <1>7 DEF ResponseStartTimeout, At, Go, Write, MayWrite, RequestType
    <3> QED
      BY <3>1, <1>7 DEF ResponseStartTimeout, SlotType, InitializerType
  <2>2. TaskFollowsSnapshot'
    BY <1>7 DEF ResponseStartTimeout, At, Go, RequestType, TaskFollowsSnapshot
  <2>3. UnsentBeforeDone'
    BY <1>7 DEF ResponseStartTimeout, At, Go, Write, MayWrite, RequestType,
           UnsentBeforeDone
  <2>4. HeldWhere' /\ ClaimIsHeld' /\ ClientIsCurrent'
        /\ RefreshesTheInstalledClient' /\ RecoveryHasAnOwner'
    BY <1>7 DEF ResponseStartTimeout, HeldWhere, ClaimIsHeld, ClientIsCurrent,
           RefreshesTheInstalledClient, RecoveryHasAnOwner
  <2> QED BY <2>1, <2>2, <2>3, <2>4
<1>8. CASE RefreshJoined(r)
  <2>1. TypeOK'
    <3>1. RequestType'
      BY <1>8 DEF RefreshJoined, At, Go, RequestType
    <3> QED
      BY <3>1, <1>8 DEF RefreshJoined, SlotType, InitializerType
  <2>2. TaskFollowsSnapshot'
    BY <1>8 DEF RefreshJoined, At, Go, RequestType, TaskFollowsSnapshot
  <2>3. UnsentBeforeDone'
    BY <1>8 DEF RefreshJoined, At, Go, RequestType, UnsentBeforeDone
  <2>4. HeldWhere' /\ ClaimIsHeld' /\ ClientIsCurrent'
        /\ RefreshesTheInstalledClient' /\ RecoveryHasAnOwner'
    BY <1>8 DEF RefreshJoined, HeldWhere, ClaimIsHeld, ClientIsCurrent,
           RefreshesTheInstalledClient, RecoveryHasAnOwner
  <2> QED BY <2>1, <2>2, <2>3, <2>4
<1> QED BY <1>1, <1>2, <1>3, <1>4, <1>5, <1>6, <1>7, <1>8 DEF RequestStep
-----------------------------------------------------------------------------
(* At most one discovery runs: both its places are under refresh_gate.          *)
LEMMA OneHolderDiscovers == HeldWhere => SingleFlight
<1> SUFFICES ASSUME HeldWhere PROVE Cardinality(Discovering) <= 1
  BY DEF SingleFlight
<1>1. Discovering \subseteq {gate}
  BY DEF HeldWhere, Discovering
<1>2. IsFiniteSet({gate}) /\ Cardinality({gate}) = 1
  BY FS_Singleton
<1> QED BY <1>1, <1>2, FS_Subset

(* The inductive invariant implies what the runs check.                         *)
LEMMA TransportIInvImplies == TransportIInv => TransportInv
<1> SUFFICES ASSUME TransportIInv PROVE TransportInv
  OBVIOUS
<1>1. SingleFlight
  BY OneHolderDiscovers DEF TransportIInv
<1>2. InstalledClientCanBeRefreshed
  BY DEF TransportIInv, TypeOK, SlotType, ClientIsCurrent, InstalledClientCanBeRefreshed,
         RefreshDecision, Available, NoClient
<1>3. BodyWrittenOnce
  BY DEF TransportIInv, UnsentBeforeDone, BodyWrittenOnce
<1> QED BY <1>1, <1>2, <1>3 DEF TransportIInv, TransportInv

(* ProviderClient::new leaves the transport in a state that satisfies it.       *)
LEMMA TransportInit == Init => TransportIInv
<1> SUFFICES ASSUME Init PROVE TransportIInv
  OBVIOUS
<1>1. PICK i \in Tasks : /\ ipc = [j \in Tasks |-> IF j = i THEN "gate" ELSE "none"]
                        /\ claimed = [j \in Tasks |-> j = i]
  BY DEF Init
<1>2. TypeOK
  BY <1>1, DelayRange DEF Init, TypeOK, SlotType, InitializerType, RequestType, NoClient, NoSnapshot
<1>3. HeldWhere /\ ClaimIsHeld /\ RecoveryHasAnOwner
  BY <1>1 DEF Init, HeldWhere, ClaimIsHeld, RecoveryHasAnOwner
<1>4. ClientIsCurrent /\ TaskFollowsSnapshot /\ UnsentBeforeDone /\ RefreshesTheInstalledClient
  BY DEF Init, ClientIsCurrent, TaskFollowsSnapshot, UnsentBeforeDone,
         RefreshesTheInstalledClient, NoClient, NoSnapshot
<1> QED BY <1>2, <1>3, <1>4 DEF TransportIInv

(* Every step of every task keeps the inductive invariant.                      *)
LEMMA TransportStep == TransportIInv /\ [Next]_vars => TransportIInv'
<1> SUFFICES ASSUME TransportIInv, [Next]_vars PROVE TransportIInv'
  OBVIOUS
<1>1. CASE UNCHANGED vars
  BY <1>1 DEF vars, slot, init, reqs, refresh, TransportIInv, TypeOK, SlotType, InitializerType,
         RequestType, HeldWhere, ClaimIsHeld, ClientIsCurrent, TaskFollowsSnapshot,
         UnsentBeforeDone, RefreshesTheInstalledClient, RecoveryHasAnOwner, Available
<1>2. CASE Next
  BY <1>2, InitializerPreserves, RefreshPreserves, RequestPreserves DEF Next
<1> QED BY <1>1, <1>2

(* However initializers, refreshes and requests interleave: one discovery at a  *)
(* time, no stretch without a client in which nobody is bound to make one, no   *)
(* discovery spent on a client already replaced, no failure of the installed    *)
(* client dismissed as already handled, and no request body written twice.      *)
THEOREM TransportSafety == Spec => []TransportInv
<1>1. Spec => []TransportIInv
  BY TransportInit, TransportStep, PTL DEF Spec
<1> QED BY <1>1, TransportIInvImplies, PTL
-----------------------------------------------------------------------------
(* ModelAccess *)

\* What a request at the gates may hold.
Answers == [answered : BOOLEAN, can : BOOLEAN, paid : BOOLEAN]
TargetTables == [quick : Gates!Models, powerful : Gates!Models]
FlagSets == [Gates!FlagKeys -> BOOLEAN]
AskForms ==
    [kind : Kinds \union {"none"}, guest : BOOLEAN, api : BOOLEAN,
     model : Asked \union Gates!Models \union {"none"}, bill : Answers, targets : TargetTables,
     key : {"none", "access", "alias"}, got : FlagSets, since : 0 .. MaxTime, kimiK3 : BOOLEAN]
CacheEntries == [flags : FlagSets, expires : Int]

Looking == {"purge", "fetch", "insert"}
Places == {"idle", "billing", "lookup", "gate", "sent", "refused"} \union Looking

\* What a request at place l has passed: a guest has a paid plan from the
\* billing gate on, an alias stands for a model of the table, and nothing has
\* set kimi_k3 before the access flags were read.
Passed(l, q) ==
    /\ l \in Places /\ q \in AskForms
    /\ q.bill.paid => q.bill.answered
    /\ l \in Looking \union {"lookup"} => q.key \in {"access", "alias"}
    /\ l \in Looking \union {"lookup", "gate"} => q.kind = "chat"
    /\ l \in Looking \union {"lookup", "gate", "sent"} /\ q.guest => q.bill.paid
    /\ l \notin {"gate", "sent", "refused"} => ~q.kimiK3
    /\ l = "sent" /\ ~q.bill.paid =>
         /\ q.kind # "tts"
         /\ q.kind = "chat" => Gates!ModelConfigs[q.model].tier = "free"

\* How old a lookup and its answer may be at time n, with the flag as it is and
\* when it was last turned off.
Recent(l, q, n, on, off) ==
    /\ q.since <= n
    /\ l \in Looking => n <= q.since + FlagsTimeout
    /\ l = "insert" /\ q.got["kimi_k3"] => on \/ off >= q.since

ServicesOK ==
    /\ now \in 0 .. MaxTime
    /\ flags \in FlagSets /\ offAt \in [Gates!FlagKeys -> Int]
    /\ account \in [{"can", "paid", "apiCan"} -> BOOLEAN]
    /\ place \in [Tasks -> Places] /\ ask \in [Tasks -> AskForms]

\* A cached flag that was turned off since is past its lifetime within Ttl and
\* one lookup timeout of that.
CacheOK ==
    /\ cache \in [{"access", "alias"} -> CacheEntries]
    /\ \A k \in {"access", "alias"} : cache[k].expires \in 0 .. now + Ttl
    /\ \A f \in Gates!FlagKeys : offAt[f] <= now
    /\ cache["access"].flags["kimi_k3"] =>
         flags["kimi_k3"] \/ cache["access"].expires <= offAt["kimi_k3"] + Ttl + FlagsTimeout

RequestsOK ==
    \A r \in Tasks : /\ Passed(place[r], ask[r])
                     /\ Recent(place[r], ask[r], now, flags["kimi_k3"], offAt["kimi_k3"])

\* The inductive invariant.
GatesIInv == ServicesOK /\ CacheOK /\ RequestsOK

(* The constants of ModelAccess, under the names the proofs use. *)
LEMMA GateConstants ==
    /\ Ttl \in Nat \ {0} /\ FlagsTimeout \in Nat \ {0} /\ MaxTime \in Nat
    /\ Flippable \subseteq Gates!FlagKeys
    /\ Kinds \subseteq {"chat", "tts", "embeddings", "transcription"}
    /\ Callers \subseteq [guest : BOOLEAN, api : BOOLEAN]
    /\ Changeable \subseteq {"can", "paid", "apiCan"}
BY PartsAssumption DEF PartsAssumption, Gates!ModelAccessAssumption, Gates!FlagKeys

(* A request that has not asked yet is one of the forms. *)
LEMMA FreshForm ==
    /\ Gates!NoFlags \in FlagSets /\ Gates!NoFlags["kimi_k3"] = FALSE
    /\ Gates!DefaultTargets \in TargetTables
    /\ Gates!NoAnswer \in Answers /\ ~Gates!NoAnswer.paid
    /\ Gates!Fresh \in AskForms /\ Gates!Fresh.bill = Gates!NoAnswer
    /\ Gates!Fresh.kimiK3 = FALSE /\ Gates!Fresh.since = 0 /\ Gates!Fresh.got = Gates!NoFlags
<1>1. Gates!NoFlags \in FlagSets /\ Gates!NoFlags["kimi_k3"] = FALSE
  BY DEF Gates!NoFlags, FlagSets, Gates!FlagKeys
<1>2. Gates!DefaultTargets \in TargetTables
  BY DEF Gates!DefaultTargets, TargetTables, Gates!Models
<1>3. Gates!NoAnswer \in Answers /\ ~Gates!NoAnswer.paid
  BY DEF Gates!NoAnswer, Answers
<1>4. 0 \in 0 .. MaxTime
  BY GateConstants
<1> QED
  BY <1>1, <1>2, <1>3, <1>4 DEF Gates!Fresh, AskForms

(* Only a model of the table has a route, and the names of the table are no *)
(* aliases.                                                                 *)
LEMMA RoutedIsServed ==
    ASSUME NEW targets \in TargetTables, NEW model,
           Gates!SelectRoute(Gates!Resolve(targets, model), Bucket) # Gates!NoRoute
    PROVE  /\ Gates!Resolve(targets, model) \in Gates!Models
           /\ Gates!Canonical(Gates!Resolve(targets, model)) = Gates!Resolve(targets, model)
<1>1. PICK m : m = Gates!Resolve(targets, model)
  OBVIOUS
<1>2. m \in Gates!Models \/ (m # "auto:quick" /\ m # "auto:powerful")
  BY <1>1 DEF Gates!Resolve, TargetTables
<1>3. Gates!Canonical(m) = m
  BY <1>2 DEF Gates!Canonical, Gates!Resolve, Gates!Models
<1>4. ASSUME m \notin Gates!Models PROVE FALSE
  <2>1. Gates!PublicModel(m) = "none"
    BY <1>3, <1>4 DEF Gates!PublicModel
  <2>2. "none" \notin DOMAIN Gates!ConfiguredRoutes
    BY DEF Gates!ConfiguredRoutes
  <2>3. Gates!SelectRoute(m, Bucket) = Gates!NoRoute
    BY <2>1, <2>2 DEF Gates!SelectRoute
  <2> QED BY <1>1, <2>3
<1> QED BY <1>1, <1>3, <1>4

(* A request whose aliases are resolved keeps what it has passed, on its way *)
(* to the access flags or to the gate.                                       *)
LEMMA AfterAliasForm ==
    ASSUME NEW r \in Tasks, NEW q \in AskForms, NEW n, NEW on, NEW off, q.since <= n,
           q.bill.paid => q.bill.answered, q.kind = "chat", q.guest => q.bill.paid, ~q.kimiK3,
           Gates!AfterAlias(r, q)
    PROVE  \E l \in {"lookup", "gate"}, p \in AskForms :
             /\ Gates!Go(r, l, p) /\ Passed(l, p) /\ Recent(l, p, n, on, off) /\ ~p.kimiK3
<1>1. PICK l \in {"lookup", "gate"}, k \in {"access", "none"} :
         /\ Gates!Go(r, l, [q EXCEPT !.key = k])
         /\ l = "lookup" => k = "access"
  BY DEF Gates!AfterAlias
<1>2. PICK p : p = [q EXCEPT !.key = k]
  OBVIOUS
<1>3. /\ p \in AskForms /\ p.key = k /\ p.bill = q.bill /\ p.kind = q.kind /\ p.guest = q.guest
      /\ p.kimiK3 = q.kimiK3 /\ p.since = q.since
  BY <1>2 DEF AskForms
<1>4. Passed(l, p)
  BY <1>1, <1>3 DEF Passed, Places, Looking
<1>5. Recent(l, p, n, on, off)
  BY <1>3 DEF Recent, Looking
<1> QED BY <1>1, <1>2, <1>3, <1>4, <1>5

(* A request that learns flags goes on with what it has passed; it enters the *)
(* gate with kimi_k3 set only if these flags set it.                          *)
LEMMA LearnForm ==
    ASSUME NEW r \in Tasks, NEW l0 \in Looking \union {"lookup"}, NEW q, Passed(l0, q),
           NEW f \in FlagSets, NEW n \in Nat, NEW on, NEW off, Gates!Learn(r, q, f)
    PROVE  \E l \in {"lookup", "gate"}, p \in AskForms :
             /\ Gates!Go(r, l, p) /\ Passed(l, p) /\ Recent(l, p, n, on, off)
             /\ p.kimiK3 => q.key = "access" /\ f["kimi_k3"]
<1>1. /\ q \in AskForms /\ (q.bill.paid => q.bill.answered)
      /\ q.key \in {"access", "alias"} /\ q.kind = "chat" /\ (q.guest => q.bill.paid)
      /\ ~q.kimiK3
  BY DEF Passed, Looking
<1>2. CASE q.key = "alias"
  <2>1. PICK p : p = [q EXCEPT !.targets = Gates!AliasTargets(TRUE, f), !.since = 0,
                               !.got = Gates!NoFlags]
    OBVIOUS
  <2>2. Gates!AliasTargets(TRUE, f) \in TargetTables
    BY DEF Gates!AliasTargets, TargetTables, Gates!Models, Gates!DefaultTargets
  <2>3. /\ p \in AskForms /\ p.bill = q.bill /\ p.kind = q.kind /\ p.guest = q.guest
        /\ p.kimiK3 = q.kimiK3 /\ p.since = 0
    BY <1>1, <2>1, <2>2, FreshForm, GateConstants DEF AskForms
  <2>4. Gates!AfterAlias(r, p)
    BY <1>2, <2>1 DEF Gates!Learn
  <2>5. p.since <= n
    BY <2>3
  <2>6. \E l \in {"lookup", "gate"}, p2 \in AskForms :
             /\ Gates!Go(r, l, p2) /\ Passed(l, p2) /\ Recent(l, p2, n, on, off) /\ ~p2.kimiK3
    BY <1>1, <2>3, <2>4, <2>5, AfterAliasForm
  <2> QED BY <2>6
<1>3. CASE q.key # "alias"
  <2>1. PICK p : p = [q EXCEPT !.kimiK3 = f["kimi_k3"], !.since = 0, !.got = Gates!NoFlags]
    OBVIOUS
  <2>2. f["kimi_k3"] \in BOOLEAN
    BY DEF FlagSets, Gates!FlagKeys
  <2>3. /\ p \in AskForms /\ p.bill = q.bill /\ p.kind = q.kind /\ p.guest = q.guest
        /\ p.kimiK3 = f["kimi_k3"] /\ p.since = 0
    BY <1>1, <2>1, <2>2, FreshForm, GateConstants DEF AskForms
  <2>4. Gates!Go(r, "gate", p)
    BY <1>3, <2>1 DEF Gates!Learn
  <2>5. Passed("gate", p)
    BY <1>1, <2>3 DEF Passed, Places, Looking
  <2>6. Recent("gate", p, n, on, off)
    BY <2>3 DEF Recent, Looking
  <2>7. p.kimiK3 => q.key = "access" /\ f["kimi_k3"]
    BY <1>1, <1>3, <2>3
  <2> QED BY <2>3, <2>4, <2>5, <2>6, <2>7
<1> QED BY <1>2, <1>3

(* One request's step keeps the others' places and forms. *)
LEMMA GoKeepsOthers ==
    ASSUME ServicesOK, RequestsOK, NEW r \in Tasks, NEW l, NEW q, Gates!Go(r, l, q),
           Passed(l, q), Recent(l, q, now, flags["kimi_k3"], offAt["kimi_k3"]),
           UNCHANGED <<now, Gates!service>>
    PROVE  /\ ServicesOK' /\ RequestsOK'
           /\ place'[r] = l /\ ask'[r] = q
           /\ \A s \in Tasks \ {r} : place'[s] = place[s] /\ ask'[s] = ask[s]
<1>1. /\ place' = [place EXCEPT ![r] = l] /\ ask' = [ask EXCEPT ![r] = q]
      /\ l \in Places /\ q \in AskForms
  BY DEF Gates!Go, Passed
<1>2. UNCHANGED <<now, flags, offAt, account>>
  BY DEF Gates!service
<1>3. ServicesOK'
  BY <1>1, <1>2 DEF ServicesOK
<1>4. /\ place'[r] = l /\ ask'[r] = q
      /\ \A s \in Tasks \ {r} : place'[s] = place[s] /\ ask'[s] = ask[s]
  BY <1>1 DEF ServicesOK
<1>5. RequestsOK'
  <2>1. SUFFICES ASSUME NEW s \in Tasks
                 PROVE  /\ Passed(place'[s], ask'[s])
                        /\ Recent(place'[s], ask'[s], now, flags["kimi_k3"], offAt["kimi_k3"])
    BY <1>2 DEF RequestsOK
  <2>2. CASE s = r
    BY <1>4, <2>2
  <2>3. CASE s # r
    BY <1>4, <2>3 DEF RequestsOK
  <2> QED BY <2>2, <2>3
<1> QED BY <1>3, <1>4, <1>5

\* A step of RevokedFlagExpires and one of PurgeKeepsRenewed.
EntersOnCurrentFlag ==
    \A r \in Tasks :
        place[r] # "gate" /\ place'[r] = "gate" /\ ask'[r].kimiK3
          => flags["kimi_k3"] \/ now - offAt["kimi_k3"] <= Ttl + FlagsTimeout
RenewedIsKept ==
    \A k \in DOMAIN cache : cache[k].expires > now => cache'[k].expires >= cache[k].expires

(* A request's step that leaves the cache alone. *)
LEMMA GoPreserves ==
    ASSUME GatesIInv, NEW r \in Tasks, NEW l, NEW q, Gates!Go(r, l, q),
           Passed(l, q), Recent(l, q, now, flags["kimi_k3"], offAt["kimi_k3"]),
           UNCHANGED <<now, Gates!service, cache>>,
           place[r] # "gate" /\ l = "gate" /\ q.kimiK3
             => flags["kimi_k3"] \/ now - offAt["kimi_k3"] <= Ttl + FlagsTimeout
    PROVE  GatesIInv' /\ EntersOnCurrentFlag /\ RenewedIsKept
<1>1. /\ ServicesOK' /\ RequestsOK'
      /\ place'[r] = l /\ ask'[r] = q
      /\ \A s \in Tasks \ {r} : place'[s] = place[s] /\ ask'[s] = ask[s]
  BY GoKeepsOthers DEF GatesIInv
<1>2. UNCHANGED <<now, flags, offAt, cache>>
  BY DEF Gates!service
<1>3. CacheOK'
  BY <1>2 DEF GatesIInv, CacheOK
<1>4. EntersOnCurrentFlag
  BY <1>1 DEF EntersOnCurrentFlag
<1>5. RenewedIsKept
  <2>1. SUFFICES ASSUME NEW k \in DOMAIN cache PROVE cache'[k].expires >= cache[k].expires
    BY DEF RenewedIsKept
  <2>2. cache[k].expires \in Int
    BY DEF GatesIInv, CacheOK, CacheEntries
  <2> QED BY <1>2, <2>2
<1> QED BY <1>1, <1>3, <1>4, <1>5 DEF GatesIInv

(* What a request at a place of GatesIInv has. *)
LEMMA AtPlace ==
    ASSUME GatesIInv, NEW r \in Tasks
    PROVE  /\ Passed(place[r], ask[r]) /\ ask[r] \in AskForms /\ place[r] \in Places
           /\ Recent(place[r], ask[r], now, flags["kimi_k3"], offAt["kimi_k3"])
           /\ now \in Nat
BY GateConstants DEF GatesIInv, RequestsOK, ServicesOK

(* A request's arrival and its end. *)
LEMMA AskPreserves ==
    ASSUME GatesIInv, NEW r \in Tasks, NEW kind \in Kinds, NEW by \in Callers,
           NEW model \in Asked \union {"none"}, Gates!Ask(r, kind, by, model)
    PROVE  GatesIInv' /\ EntersOnCurrentFlag /\ RenewedIsKept
<1>1. PICK q : q = [Gates!Fresh EXCEPT !.kind = kind, !.guest = by.guest, !.api = by.api,
                                       !.model = model]
  OBVIOUS
<1>2. Gates!Go(r, "billing", q) /\ UNCHANGED <<now, Gates!service, cache>>
  BY <1>1 DEF Gates!Ask
<1>3. by.guest \in BOOLEAN /\ by.api \in BOOLEAN
  BY GateConstants
<1>4. /\ q \in AskForms /\ q.bill = Gates!Fresh.bill /\ q.kimiK3 = Gates!Fresh.kimiK3
      /\ q.since = Gates!Fresh.since
  BY <1>1, <1>3, FreshForm DEF AskForms
<1>5. Passed("billing", q)
  BY <1>4, FreshForm DEF Passed, Places, Looking
<1>6. Recent("billing", q, now, flags["kimi_k3"], offAt["kimi_k3"])
  BY <1>4, FreshForm, AtPlace DEF Recent, Looking
<1> QED BY <1>2, <1>5, <1>6, GoPreserves

LEMMA FinishPreserves ==
    ASSUME GatesIInv, NEW r \in Tasks, Gates!Finish(r)
    PROVE  GatesIInv' /\ EntersOnCurrentFlag /\ RenewedIsKept
<1>1. Gates!Go(r, "idle", Gates!Fresh) /\ UNCHANGED <<now, Gates!service, cache>>
  BY DEF Gates!Finish
<1>2. Passed("idle", Gates!Fresh)
  BY FreshForm DEF Passed, Places, Looking
<1>3. Recent("idle", Gates!Fresh, now, flags["kimi_k3"], offAt["kimi_k3"])
  BY FreshForm, AtPlace DEF Recent, Looking
<1> QED BY <1>1, <1>2, <1>3, GoPreserves

(* A refused request keeps its form. *)
LEMMA RefusePreserves ==
    ASSUME GatesIInv, NEW r \in Tasks, Gates!Refuse(r), UNCHANGED <<now, Gates!service, cache>>
    PROVE  GatesIInv' /\ EntersOnCurrentFlag /\ RenewedIsKept
<1>1. PICK q : q = ask[r]
  OBVIOUS
<1>2. Gates!Go(r, "refused", q)
  BY <1>1 DEF Gates!Refuse
<1>3. Passed("refused", q)
  BY <1>1, AtPlace DEF Passed, Places, Looking
<1>4. Recent("refused", q, now, flags["kimi_k3"], offAt["kimi_k3"])
  BY <1>1, AtPlace DEF Recent, Looking
<1> QED BY <1>2, <1>3, <1>4, GoPreserves

(* Billing's answers, failures included, say paid only where it answered. *)
LEMMA SnapshotForm ==
    ASSUME ServicesOK, NEW api \in BOOLEAN, NEW b \in Gates!BillingSnapshots(api)
    PROVE  b \in Answers /\ (b.paid => b.answered)
<1>1. account.can \in BOOLEAN /\ account.paid \in BOOLEAN /\ account.apiCan \in BOOLEAN
  BY DEF ServicesOK
<1>2. CASE b = Gates!NoAnswer
  BY <1>2, FreshForm
<1>3. CASE b \in Gates!ChatAccess(api)
  <2>1. PICK can \in BOOLEAN, paid \in BOOLEAN :
           b = [answered |-> TRUE, can |-> can, paid |-> paid]
    BY <1>1, <1>3 DEF Gates!ChatAccess
  <2> QED BY <2>1 DEF Answers
<1> QED BY <1>2, <1>3 DEF Gates!BillingSnapshots

(* The guest gate and the quota of a chat request. *)
LEMMA ChatBillingPreserves ==
    ASSUME GatesIInv, NEW r \in Tasks, Gates!ChatBilling(r)
    PROVE  GatesIInv' /\ EntersOnCurrentFlag /\ RenewedIsKept
<1>1. place[r] = "billing" /\ ask[r].kind = "chat" /\ UNCHANGED <<now, Gates!service, cache>>
  BY DEF Gates!ChatBilling
<1>2. PICK b \in Gates!BillingSnapshots(ask[r].api) :
         LET q == [ask[r] EXCEPT !.bill = b]
         IN CASE q.guest /\ ~b.paid -> Gates!Refuse(r)
              [] ~(q.guest /\ ~b.paid) /\ ~b.can -> Gates!Refuse(r)
              [] OTHER -> IF q.model \in Gates!Aliases /\ b.paid
                          THEN Gates!Go(r, "lookup", [q EXCEPT !.key = "alias"])
                          ELSE Gates!AfterAlias(r, q)
  BY DEF Gates!ChatBilling
<1>3. PICK q : q = [ask[r] EXCEPT !.bill = b]
  OBVIOUS
<1>4. /\ ask[r] \in AskForms /\ ask[r].api \in BOOLEAN /\ ask[r].guest \in BOOLEAN
      /\ ~ask[r].kimiK3 /\ ask[r].since <= now /\ ask[r].since \in Nat
  BY <1>1, AtPlace, GateConstants DEF Passed, Recent, Looking, AskForms
<1>5. b \in Answers /\ (b.paid => b.answered) /\ b.paid \in BOOLEAN /\ b.can \in BOOLEAN
  <2>1. b \in Answers /\ (b.paid => b.answered)
    BY <1>4, SnapshotForm DEF GatesIInv
  <2> QED BY <2>1 DEF Answers
<1>6. /\ q \in AskForms /\ q.bill = b /\ q.kind = "chat" /\ q.guest = ask[r].guest
      /\ ~q.kimiK3 /\ q.since <= now
  BY <1>1, <1>3, <1>4, <1>5 DEF AskForms
<1>7. \/ Gates!Refuse(r)
      \/ (q.guest => b.paid) /\ Gates!Go(r, "lookup", [q EXCEPT !.key = "alias"])
      \/ (q.guest => b.paid) /\ Gates!AfterAlias(r, q)
  BY <1>2, <1>3, <1>4, <1>5, <1>6
<1>8. CASE Gates!Refuse(r)
  BY <1>1, <1>8, RefusePreserves
<1>9. CASE (q.guest => b.paid) /\ Gates!Go(r, "lookup", [q EXCEPT !.key = "alias"])
  <2>1. PICK p : p = [q EXCEPT !.key = "alias"]
    OBVIOUS
  <2>2. /\ p \in AskForms /\ p.bill = b /\ p.kind = "chat" /\ p.guest = q.guest
        /\ ~p.kimiK3 /\ p.since = q.since /\ p.key = "alias"
    BY <1>6, <2>1 DEF AskForms
  <2>3. Passed("lookup", p)
    BY <1>5, <1>9, <2>2 DEF Passed, Places, Looking
  <2>4. Recent("lookup", p, now, flags["kimi_k3"], offAt["kimi_k3"])
    BY <1>6, <2>2 DEF Recent, Looking
  <2> QED BY <1>1, <1>9, <2>1, <2>3, <2>4, GoPreserves
<1>10. CASE (q.guest => b.paid) /\ Gates!AfterAlias(r, q)
  <2>1. PICK l \in {"lookup", "gate"}, p \in AskForms :
             /\ Gates!Go(r, l, p) /\ Passed(l, p) /\ ~p.kimiK3
             /\ Recent(l, p, now, flags["kimi_k3"], offAt["kimi_k3"])
    BY <1>5, <1>6, <1>10, AfterAliasForm
  <2> QED BY <1>1, <2>1, GoPreserves
<1> QED BY <1>7, <1>8, <1>9, <1>10

(* The gates of speech, embeddings and transcription. *)
LEMMA OtherBillingPreserves ==
    ASSUME GatesIInv, NEW r \in Tasks, Gates!OtherBilling(r)
    PROVE  GatesIInv' /\ EntersOnCurrentFlag /\ RenewedIsKept
<1>1. /\ place[r] = "billing" /\ ask[r].kind \in {"tts", "embeddings", "transcription"}
      /\ UNCHANGED <<now, Gates!service, cache>>
  BY DEF Gates!OtherBilling
<1>2. PICK b \in Gates!BillingSnapshots(FALSE) :
         LET q == [ask[r] EXCEPT !.bill = b]
         IN IF (q.kind = "tts" => Gates!TtsAllowed(b))
               /\ (q.kind # "tts" /\ q.guest => b.answered /\ b.paid)
            THEN Gates!Go(r, "sent", q)
            ELSE Gates!Refuse(r)
  BY DEF Gates!OtherBilling
<1>3. PICK q : q = [ask[r] EXCEPT !.bill = b]
  OBVIOUS
<1>4. b \in Answers /\ (b.paid => b.answered)
  BY SnapshotForm DEF GatesIInv
<1>5. ask[r] \in AskForms /\ ~ask[r].kimiK3 /\ ask[r].since <= now
  BY <1>1, AtPlace DEF Passed, Recent, Looking
<1>6. /\ q \in AskForms /\ q.bill = b /\ q.kind = ask[r].kind
      /\ ~q.kimiK3 /\ q.since <= now
  BY <1>3, <1>4, <1>5 DEF AskForms
<1>7. CASE Gates!Refuse(r)
  BY <1>1, <1>7, RefusePreserves
<1>8. CASE ~Gates!Refuse(r)
  <2>1. /\ Gates!Go(r, "sent", q)
        /\ q.kind = "tts" => Gates!TtsAllowed(b)
        /\ q.kind # "tts" /\ q.guest => b.answered /\ b.paid
    BY <1>2, <1>3, <1>8
  <2>2. Passed("sent", q)
    BY <1>1, <1>4, <1>6, <2>1 DEF Passed, Places, Looking, Gates!TtsAllowed
  <2>3. Recent("sent", q, now, flags["kimi_k3"], offAt["kimi_k3"])
    BY <1>6 DEF Recent, Looking
  <2> QED BY <1>1, <2>1, <2>2, <2>3, GoPreserves
<1> QED BY <1>7, <1>8

(* UserFlagsCache::get: an entry that has not expired is recent enough. *)
LEMMA LookupPreserves ==
    ASSUME GatesIInv, NEW r \in Tasks, Gates!Lookup(r)
    PROVE  GatesIInv' /\ EntersOnCurrentFlag /\ RenewedIsKept
<1>1. place[r] = "lookup" /\ UNCHANGED <<now, Gates!service, cache>>
  BY DEF Gates!Lookup
<1>2. PICK q, k : q = ask[r] /\ k = q.key
  OBVIOUS
<1>3. /\ q \in AskForms /\ Passed("lookup", q) /\ k \in {"access", "alias"} /\ ~q.kimiK3
      /\ now \in 0 .. MaxTime
  BY <1>1, <1>2, AtPlace DEF Passed, Looking, GatesIInv, ServicesOK
<1>4. cache[k].flags \in FlagSets /\ cache[k].expires \in Int
  BY <1>3 DEF GatesIInv, CacheOK, CacheEntries
<1>5. \/ Gates!CacheHit(k) /\ Gates!Learn(r, q, cache[k].flags)
      \/ Gates!Go(r, "fetch", [q EXCEPT !.since = now])
      \/ Gates!Go(r, "purge", [q EXCEPT !.since = now])
  BY <1>2 DEF Gates!Lookup
<1>6. CASE Gates!CacheHit(k) /\ Gates!Learn(r, q, cache[k].flags)
  <2>1. PICK l \in {"lookup", "gate"}, p \in AskForms :
             /\ Gates!Go(r, l, p) /\ Passed(l, p)
             /\ Recent(l, p, now, flags["kimi_k3"], offAt["kimi_k3"])
             /\ p.kimiK3 => k = "access" /\ cache[k].flags["kimi_k3"]
    <3>1. now \in Nat
      BY <1>3, GateConstants
    <3> QED BY <1>2, <1>3, <1>4, <1>6, <3>1, LearnForm
  <2>2. p.kimiK3 => flags["kimi_k3"] \/ now - offAt["kimi_k3"] <= Ttl + FlagsTimeout
    <3>1. SUFFICES ASSUME p.kimiK3, ~flags["kimi_k3"]
                   PROVE  now - offAt["kimi_k3"] <= Ttl + FlagsTimeout
      OBVIOUS
    <3>2. cache["access"].expires <= offAt["kimi_k3"] + Ttl + FlagsTimeout
      BY <2>1, <3>1 DEF GatesIInv, CacheOK
    <3>3. cache["access"].expires > now /\ cache["access"].expires \in Int
      BY <1>4, <1>6, <2>1, <3>1 DEF Gates!CacheHit
    <3>4. offAt["kimi_k3"] \in Int
      BY DEF GatesIInv, ServicesOK, Gates!FlagKeys
    <3> QED BY <1>3, <3>2, <3>3, <3>4, GateConstants
  <2> QED BY <1>1, <2>1, <2>2, GoPreserves
<1>7. ASSUME NEW l \in {"fetch", "purge"}, Gates!Go(r, l, [q EXCEPT !.since = now])
      PROVE  GatesIInv' /\ EntersOnCurrentFlag /\ RenewedIsKept
  <2>1. PICK p : p = [q EXCEPT !.since = now]
    OBVIOUS
  <2>2. /\ p \in AskForms /\ p.bill = q.bill /\ p.kind = q.kind /\ p.guest = q.guest
        /\ p.key = q.key /\ p.kimiK3 = q.kimiK3 /\ p.since = now
    BY <1>3, <2>1 DEF AskForms
  <2>3. Passed(l, p)
    BY <1>3, <2>2 DEF Passed, Places, Looking
  <2>4. Recent(l, p, now, flags["kimi_k3"], offAt["kimi_k3"])
    BY <1>3, <2>2, GateConstants DEF Recent, Looking
  <2> QED BY <1>1, <1>7, <2>1, <2>3, <2>4, GoPreserves
<1> QED BY <1>5, <1>6, <1>7

(* The write-locked part of get: only an entry that had expired when the     *)
(* reader looked is dropped.                                                 *)
LEMMA PurgePreserves ==
    ASSUME GatesIInv, NEW r \in Tasks, Gates!PurgeExpired(r)
    PROVE  GatesIInv' /\ EntersOnCurrentFlag /\ RenewedIsKept
<1>1. /\ place[r] = "purge" /\ Gates!Go(r, "fetch", ask[r])
      /\ UNCHANGED <<now, Gates!service>>
  BY DEF Gates!PurgeExpired
<1>2. PICK q, k : q = ask[r] /\ k = q.key
  OBVIOUS
<1>3. /\ q \in AskForms /\ Passed("purge", q) /\ k \in {"access", "alias"} /\ q.since <= now
      /\ q.since \in Nat /\ Recent("purge", q, now, flags["kimi_k3"], offAt["kimi_k3"])
  BY <1>1, <1>2, AtPlace, GateConstants DEF Passed, Recent, Looking, AskForms
<1>4. Passed("fetch", q) /\ Recent("fetch", q, now, flags["kimi_k3"], offAt["kimi_k3"])
  BY <1>3 DEF Passed, Recent, Places, Looking
<1>5. /\ ServicesOK' /\ RequestsOK'
      /\ place'[r] = "fetch" /\ ask'[r] = q
      /\ \A s \in Tasks \ {r} : place'[s] = place[s] /\ ask'[s] = ask[s]
  BY <1>1, <1>2, <1>4, GoKeepsOthers DEF GatesIInv
<1>6. EntersOnCurrentFlag
  BY <1>5 DEF EntersOnCurrentFlag
<1>7. UNCHANGED <<now, flags, offAt>>
  BY <1>1 DEF Gates!service
<1>8. /\ cache \in [{"access", "alias"} -> CacheEntries] /\ now \in Nat
      /\ \A j \in {"access", "alias"} : cache[j] \in CacheEntries /\ cache[j].expires \in Int
  BY AtPlace DEF GatesIInv, CacheOK, CacheEntries
<1>9. CASE cache' = cache
  <2>1. CacheOK'
    BY <1>7, <1>9 DEF GatesIInv, CacheOK
  <2>2. RenewedIsKept
    BY <1>8, <1>9 DEF RenewedIsKept
  <2> QED BY <1>5, <1>6, <2>1, <2>2 DEF GatesIInv
<1>10. CASE cache' # cache
  <2>1. cache' = [cache EXCEPT ![k] = Gates!NoEntry] /\ cache[k].expires <= q.since
    BY <1>2, <1>10 DEF Gates!PurgeExpired, Gates!IsExpired
  <2>2. /\ Gates!NoEntry \in CacheEntries /\ Gates!NoEntry.expires = 0
        /\ Gates!NoEntry.flags["kimi_k3"] = FALSE
    BY FreshForm DEF Gates!NoEntry, CacheEntries
  <2>3. cache' \in [{"access", "alias"} -> CacheEntries]
    BY <1>3, <1>8, <2>1, <2>2
  <2>4. \A j \in {"access", "alias"} : cache'[j] = IF j = k THEN Gates!NoEntry ELSE cache[j]
    BY <1>3, <1>8, <2>1
  <2>5. \A j \in {"access", "alias"} : cache'[j].expires \in 0 .. now + Ttl
    BY <1>8, <2>2, <2>4, GateConstants DEF GatesIInv, CacheOK
  <2>6. cache'["access"].flags["kimi_k3"] =>
            flags["kimi_k3"] \/ cache'["access"].expires <= offAt["kimi_k3"] + Ttl + FlagsTimeout
    BY <2>2, <2>4 DEF GatesIInv, CacheOK
  <2>7. CacheOK'
    BY <1>7, <2>3, <2>5, <2>6 DEF GatesIInv, CacheOK
  <2>8. RenewedIsKept
    <3>1. SUFFICES ASSUME NEW j \in {"access", "alias"}, cache[j].expires > now
                   PROVE  cache'[j].expires >= cache[j].expires
      BY <1>8 DEF RenewedIsKept
    <3>2. j # k
      BY <1>3, <1>8, <2>1, <3>1
    <3> QED BY <1>8, <2>4, <3>2
  <2> QED BY <1>5, <1>6, <2>7, <2>8 DEF GatesIInv
<1> QED BY <1>9, <1>10

(* The flags service reads what holds now. *)
LEMMA ServicePreserves ==
    ASSUME GatesIInv, NEW r \in Tasks, Gates!ServiceAnswers(r)
    PROVE  GatesIInv' /\ EntersOnCurrentFlag /\ RenewedIsKept
<1>1. place[r] = "fetch" /\ UNCHANGED <<now, Gates!service, cache>>
  BY DEF Gates!ServiceAnswers
<1>2. PICK q, got, p : /\ q = ask[r]
                       /\ got = [f \in Gates!FlagKeys |-> f \in Gates!KeySets[q.key] /\ flags[f]]
                       /\ p = [q EXCEPT !.got = got]
  OBVIOUS
<1>3. Gates!Go(r, "insert", p)
  BY <1>2 DEF Gates!ServiceAnswers
<1>4. /\ q \in AskForms /\ Passed("fetch", q)
      /\ Recent("fetch", q, now, flags["kimi_k3"], offAt["kimi_k3"])
  BY <1>1, <1>2, AtPlace
<1>5. got \in FlagSets /\ (got["kimi_k3"] => flags["kimi_k3"])
  <2>1. flags \in FlagSets
    BY DEF GatesIInv, ServicesOK
  <2>2. \A f \in Gates!FlagKeys : (f \in Gates!KeySets[q.key] /\ flags[f]) \in BOOLEAN
    OBVIOUS
  <2> QED BY <1>2, <2>1, <2>2 DEF FlagSets, Gates!FlagKeys
<1>6. /\ p \in AskForms /\ p.bill = q.bill /\ p.kind = q.kind /\ p.guest = q.guest
      /\ p.key = q.key /\ p.kimiK3 = q.kimiK3 /\ p.since = q.since /\ p.got = got
  BY <1>2, <1>4, <1>5 DEF AskForms
<1>7. Passed("insert", p)
  BY <1>4, <1>6 DEF Passed, Places, Looking
<1>8. Recent("insert", p, now, flags["kimi_k3"], offAt["kimi_k3"])
  BY <1>4, <1>5, <1>6 DEF Recent, Looking
<1> QED BY <1>1, <1>3, <1>7, <1>8, GoPreserves

(* UserFlagsCache::insert: however stale the answer is, the entry it makes    *)
(* ends within a lifetime and a timeout of the flag's being turned off.       *)
LEMMA StorePreserves ==
    ASSUME GatesIInv, NEW r \in Tasks, Gates!StoreFlags(r)
    PROVE  GatesIInv' /\ EntersOnCurrentFlag /\ RenewedIsKept
<1>1. place[r] = "insert" /\ UNCHANGED <<now, Gates!service>>
  BY DEF Gates!StoreFlags
<1>2. PICK q, k : q = ask[r] /\ k = q.key
  OBVIOUS
<1>3. /\ q \in AskForms /\ Passed("insert", q) /\ k \in {"access", "alias"} /\ q.got \in FlagSets
      /\ Recent("insert", q, now, flags["kimi_k3"], offAt["kimi_k3"]) /\ now \in Nat
      /\ q.since \in Nat
  BY <1>1, <1>2, AtPlace, GateConstants DEF Passed, Looking, AskForms
<1>4. Gates!Learn(r, q, q.got)
  BY <1>2 DEF Gates!StoreFlags
<1>5. PICK l \in {"lookup", "gate"}, p \in AskForms :
             /\ Gates!Go(r, l, p) /\ Passed(l, p)
             /\ Recent(l, p, now, flags["kimi_k3"], offAt["kimi_k3"])
             /\ p.kimiK3 => q.key = "access" /\ q.got["kimi_k3"]
  BY <1>3, <1>4, LearnForm DEF Looking
<1>6. /\ ServicesOK' /\ RequestsOK'
      /\ place'[r] = l /\ ask'[r] = p
      /\ \A s \in Tasks \ {r} : place'[s] = place[s] /\ ask'[s] = ask[s]
  BY <1>1, <1>5, GoKeepsOthers DEF GatesIInv
<1>7. UNCHANGED <<now, flags, offAt>>
  BY <1>1 DEF Gates!service
<1>8. /\ cache \in [{"access", "alias"} -> CacheEntries]
      /\ \A j \in {"access", "alias"} : cache[j] \in CacheEntries /\ cache[j].expires \in Int
      /\ offAt["kimi_k3"] \in Int
  BY DEF GatesIInv, ServicesOK, CacheOK, CacheEntries, Gates!FlagKeys
<1>9. q.got["kimi_k3"] =>
          flags["kimi_k3"] \/ now + Ttl <= offAt["kimi_k3"] + Ttl + FlagsTimeout
  BY <1>3, <1>8, GateConstants DEF Recent, Looking
<1>10. EntersOnCurrentFlag
  <2>1. p.kimiK3 => flags["kimi_k3"] \/ now - offAt["kimi_k3"] <= Ttl + FlagsTimeout
    BY <1>3, <1>5, <1>8, <1>9, GateConstants
  <2> QED BY <1>6, <2>1 DEF EntersOnCurrentFlag
<1>11. PICK e : e = [flags |-> q.got, expires |-> now + Ttl]
  OBVIOUS
<1>12. e \in CacheEntries /\ e.flags = q.got /\ e.expires = now + Ttl
  BY <1>3, <1>11, GateConstants DEF CacheEntries
<1>13. /\ Gates!NoEntry \in CacheEntries /\ Gates!NoEntry.expires = 0
       /\ Gates!NoEntry.flags["kimi_k3"] = FALSE
  BY FreshForm DEF Gates!NoEntry, CacheEntries
<1>14. cache' = [j \in {"access", "alias"} |->
                   CASE j = k -> e
                     [] j # k /\ ~(cache[j].expires > now) -> Gates!NoEntry
                     [] OTHER -> cache[j]]
  BY <1>2, <1>8, <1>11 DEF Gates!StoreFlags, Gates!ExpiresAt, Gates!CacheHit
<1>15. \A j \in {"access", "alias"} :
           cache'[j] = IF j = k THEN e ELSE IF cache[j].expires > now THEN cache[j] ELSE Gates!NoEntry
  BY <1>14
<1>16. cache' \in [{"access", "alias"} -> CacheEntries]
  BY <1>8, <1>12, <1>13, <1>14
<1>17. \A j \in {"access", "alias"} : cache'[j].expires \in 0 .. now + Ttl
  BY <1>3, <1>12, <1>13, <1>15, GateConstants DEF GatesIInv, CacheOK
<1>18. cache'["access"].flags["kimi_k3"] =>
            flags["kimi_k3"] \/ cache'["access"].expires <= offAt["kimi_k3"] + Ttl + FlagsTimeout
  BY <1>9, <1>12, <1>13, <1>15 DEF GatesIInv, CacheOK
<1>19. CacheOK'
  BY <1>7, <1>16, <1>17, <1>18 DEF GatesIInv, CacheOK
<1>20. RenewedIsKept
  <2>1. SUFFICES ASSUME NEW j \in {"access", "alias"}, cache[j].expires > now
                 PROVE  cache'[j].expires >= cache[j].expires
    BY <1>8 DEF RenewedIsKept
  <2>2. cache[j].expires <= now + Ttl
    BY DEF GatesIInv, CacheOK
  <2> QED BY <1>8, <1>12, <1>15, <2>1, <2>2
<1> QED BY <1>6, <1>10, <1>19, <1>20 DEF GatesIInv

(* A failed or timed-out lookup is default-off. *)
LEMMA UnavailablePreserves ==
    ASSUME GatesIInv, NEW r \in Tasks, Gates!FlagsUnavailable(r)
    PROVE  GatesIInv' /\ EntersOnCurrentFlag /\ RenewedIsKept
<1>1. /\ place[r] \in Looking /\ Gates!Learn(r, ask[r], Gates!NoFlags)
      /\ UNCHANGED <<now, Gates!service, cache>>
  BY DEF Gates!FlagsUnavailable, Looking
<1>2. PICK l0, q, f, on, off : /\ l0 = place[r] /\ q = ask[r] /\ f = Gates!NoFlags
                                /\ on = flags["kimi_k3"] /\ off = offAt["kimi_k3"]
  OBVIOUS
<1>3. PICK l \in {"lookup", "gate"}, p \in AskForms :
             /\ Gates!Go(r, l, p) /\ Passed(l, p)
             /\ Recent(l, p, now, flags["kimi_k3"], offAt["kimi_k3"])
             /\ p.kimiK3 => Gates!NoFlags["kimi_k3"]
  <2>1. l0 \in Looking \union {"lookup"} /\ Passed(l0, q) /\ now \in Nat
    BY <1>1, <1>2, AtPlace
  <2>2. Gates!Learn(r, q, f) /\ f \in FlagSets
    BY <1>1, <1>2, FreshForm
  <2>3. \E l \in {"lookup", "gate"}, p \in AskForms :
             /\ Gates!Go(r, l, p) /\ Passed(l, p) /\ Recent(l, p, now, on, off)
             /\ p.kimiK3 => q.key = "access" /\ f["kimi_k3"]
    BY <2>1, <2>2, LearnForm, SMTT(30) DEF Looking
  <2> QED BY <1>2, <2>3
<1>4. ~p.kimiK3
  BY <1>3, FreshForm
<1> QED BY <1>1, <1>3, <1>4, GoPreserves

(* ensure_completion_model_access and the route: without a paid plan only a *)
(* free-tier model of the table goes out.                                   *)
LEMMA GatePreserves ==
    ASSUME GatesIInv, NEW r \in Tasks, Gates!Gate(r)
    PROVE  GatesIInv' /\ EntersOnCurrentFlag /\ RenewedIsKept
<1>1. place[r] = "gate" /\ UNCHANGED <<now, Gates!service, cache>>
  BY DEF Gates!Gate
<1>2. PICK q, m : q = ask[r] /\ m = Gates!Resolve(q.targets, q.model)
  OBVIOUS
<1>3. /\ q \in AskForms /\ Passed("gate", q) /\ q.targets \in TargetTables
      /\ Recent("gate", q, now, flags["kimi_k3"], offAt["kimi_k3"])
  BY <1>1, <1>2, AtPlace DEF AskForms
<1>4. \/ Gates!Refuse(r)
      \/ /\ Gates!PlanAllowsModel(q.bill.paid, m) /\ Gates!SelectRoute(m, Bucket) # Gates!NoRoute
         /\ Gates!Go(r, "sent", [q EXCEPT !.model = m])
  BY <1>2 DEF Gates!Gate
<1>5. CASE Gates!Refuse(r)
  BY <1>1, <1>5, RefusePreserves
<1>6. CASE /\ Gates!PlanAllowsModel(q.bill.paid, m) /\ Gates!SelectRoute(m, Bucket) # Gates!NoRoute
           /\ Gates!Go(r, "sent", [q EXCEPT !.model = m])
  <2>1. m \in Gates!Models /\ Gates!Canonical(m) = m
    BY <1>2, <1>3, <1>6, RoutedIsServed
  <2>2. PICK p : p = [q EXCEPT !.model = m]
    OBVIOUS
  <2>3. /\ p \in AskForms /\ p.bill = q.bill /\ p.kind = q.kind /\ p.guest = q.guest
        /\ p.since = q.since /\ p.model = m
    BY <1>3, <2>1, <2>2 DEF AskForms
  <2>4. q.bill.paid \/ Gates!ModelConfigs[m].tier = "free"
    BY <1>6, <2>1 DEF Gates!PlanAllowsModel
  <2>5. Passed("sent", p)
    BY <1>3, <2>3, <2>4 DEF Passed, Places, Looking
  <2>6. Recent("sent", p, now, flags["kimi_k3"], offAt["kimi_k3"])
    BY <1>3, <2>3 DEF Recent, Looking
  <2> QED BY <1>1, <1>6, <2>2, <2>5, <2>6, GoPreserves
<1> QED BY <1>4, <1>5, <1>6

(* The services' owners change what they like; a flag turned off now was on *)
(* for whoever read it before.                                              *)
LEMMA FlipPreserves ==
    ASSUME GatesIInv, NEW f \in Flippable, Gates!FlipFlag(f)
    PROVE  GatesIInv' /\ EntersOnCurrentFlag /\ RenewedIsKept
<1>1. /\ flags' = [flags EXCEPT ![f] = ~flags[f]]
      /\ offAt' = [offAt EXCEPT ![f] = IF flags[f] THEN now ELSE offAt[f]]
      /\ UNCHANGED <<now, account, cache, place, ask>>
  BY DEF Gates!FlipFlag
<1>2. /\ f \in Gates!FlagKeys /\ "kimi_k3" \in Gates!FlagKeys
      /\ flags \in [Gates!FlagKeys -> BOOLEAN] /\ offAt \in [Gates!FlagKeys -> Int]
      /\ now \in Nat /\ now \in 0 .. MaxTime
  BY GateConstants DEF GatesIInv, ServicesOK, FlagSets, Gates!FlagKeys
<1>3. flags' \in [Gates!FlagKeys -> BOOLEAN] /\ offAt' \in [Gates!FlagKeys -> Int]
  <2>1. (~flags[f]) \in BOOLEAN /\ (IF flags[f] THEN now ELSE offAt[f]) \in Int
    BY <1>2
  <2> QED BY <1>1, <1>2, <2>1
<1>4. ServicesOK'
  BY <1>1, <1>3 DEF GatesIInv, ServicesOK, FlagSets
<1>5. \A g \in Gates!FlagKeys : offAt[g] <= offAt'[g] /\ offAt'[g] <= now
  <2>1. \A g \in Gates!FlagKeys : offAt[g] \in Int /\ offAt[g] <= now
    BY <1>2 DEF GatesIInv, CacheOK
  <2> QED BY <1>1, <1>2, <2>1
<1>6. flags["kimi_k3"] => flags'["kimi_k3"] \/ offAt'["kimi_k3"] = now
  BY <1>1, <1>2
<1>7. CacheOK'
  <2>1. cache["access"].expires \in Int /\ cache["access"].expires <= now + Ttl
    BY <1>2, GateConstants DEF GatesIInv, CacheOK
  <2>2. cache["access"].flags["kimi_k3"] =>
            flags'["kimi_k3"] \/ cache["access"].expires <= offAt'["kimi_k3"] + Ttl + FlagsTimeout
    <3>1. CASE flags["kimi_k3"]
      BY <1>2, <1>6, <2>1, <3>1, GateConstants
    <3>2. CASE ~flags["kimi_k3"]
      <4>1. cache["access"].flags["kimi_k3"] =>
                cache["access"].expires <= offAt["kimi_k3"] + Ttl + FlagsTimeout
        BY <3>2 DEF GatesIInv, CacheOK
      <4>2. offAt["kimi_k3"] <= offAt'["kimi_k3"] /\ {offAt["kimi_k3"], offAt'["kimi_k3"]} \subseteq Int
        BY <1>2, <1>3, <1>5
      <4> QED BY <2>1, <4>1, <4>2, GateConstants
    <3> QED BY <3>1, <3>2
  <2> QED BY <1>1, <1>5, <2>2 DEF GatesIInv, CacheOK
<1>8. RequestsOK'
  <2>1. SUFFICES ASSUME NEW r \in Tasks
                 PROVE  /\ Passed(place[r], ask[r])
                        /\ Recent(place[r], ask[r], now, flags'["kimi_k3"], offAt'["kimi_k3"])
    BY <1>1 DEF RequestsOK
  <2>2. PICK q, l : q = ask[r] /\ l = place[r]
    OBVIOUS
  <2>3. Passed(l, q) /\ Recent(l, q, now, flags["kimi_k3"], offAt["kimi_k3"]) /\ q.since \in Nat
    BY <2>2, AtPlace, GateConstants DEF AskForms
  <2>4. offAt["kimi_k3"] <= offAt'["kimi_k3"] /\ {offAt["kimi_k3"], offAt'["kimi_k3"]} \subseteq Int
    BY <1>2, <1>3, <1>5
  <2>5. Recent(l, q, now, flags'["kimi_k3"], offAt'["kimi_k3"])
    BY <1>2, <1>6, <2>3, <2>4 DEF Recent
  <2> QED BY <2>2, <2>3, <2>5
<1>9. EntersOnCurrentFlag
  BY <1>1 DEF EntersOnCurrentFlag
<1>10. RenewedIsKept
  BY <1>1 DEF RenewedIsKept, GatesIInv, CacheOK, CacheEntries
<1> QED BY <1>4, <1>7, <1>8, <1>9, <1>10 DEF GatesIInv

LEMMA AccountPreserves ==
    ASSUME GatesIInv, NEW field \in Changeable, Gates!ChangeAccount(field)
    PROVE  GatesIInv' /\ EntersOnCurrentFlag /\ RenewedIsKept
<1>1. /\ account' = [account EXCEPT ![field] = ~account[field]]
      /\ UNCHANGED <<now, flags, offAt, cache, place, ask>>
  BY DEF Gates!ChangeAccount
<1>2. account' \in [{"can", "paid", "apiCan"} -> BOOLEAN]
  BY <1>1, GateConstants DEF GatesIInv, ServicesOK
<1>3. ServicesOK'
  BY <1>1, <1>2 DEF GatesIInv, ServicesOK
<1>4. CacheOK' /\ RequestsOK'
  BY <1>1 DEF GatesIInv, CacheOK, RequestsOK
<1>5. EntersOnCurrentFlag
  BY <1>1 DEF EntersOnCurrentFlag
<1>6. RenewedIsKept
  BY <1>1 DEF RenewedIsKept, GatesIInv, CacheOK, CacheEntries
<1> QED BY <1>3, <1>4, <1>5, <1>6 DEF GatesIInv

(* Time passes, but not the timeout of a lookup. *)
LEMMA TickPreserves ==
    ASSUME GatesIInv, Gates!Tick
    PROVE  GatesIInv' /\ EntersOnCurrentFlag /\ RenewedIsKept
<1>1. /\ now < MaxTime /\ now' = now + 1
      /\ UNCHANGED <<flags, offAt, account, cache, place, ask>>
      /\ \A r \in Tasks : place[r] \in Looking => now < ask[r].since + FlagsTimeout
  BY DEF Gates!Tick, Gates!service, Looking
<1>2. now \in Nat /\ now \in 0 .. MaxTime
  BY GateConstants DEF GatesIInv, ServicesOK
<1>3. ServicesOK'
  BY <1>1, <1>2, GateConstants DEF GatesIInv, ServicesOK
<1>4. CacheOK'
  <2>1. \A f \in Gates!FlagKeys : offAt[f] \in Int
    BY DEF GatesIInv, ServicesOK
  <2>2. \A f \in Gates!FlagKeys : offAt[f] <= now + 1
    BY <1>2, <2>1 DEF GatesIInv, CacheOK
  <2>3. \A k \in {"access", "alias"} : cache[k].expires \in 0 .. now + 1 + Ttl
    BY <1>2, GateConstants DEF GatesIInv, CacheOK
  <2> QED BY <1>1, <2>2, <2>3 DEF GatesIInv, CacheOK
<1>5. RequestsOK'
  <2>1. SUFFICES ASSUME NEW r \in Tasks
                 PROVE  /\ Passed(place[r], ask[r])
                        /\ Recent(place[r], ask[r], now + 1, flags["kimi_k3"], offAt["kimi_k3"])
    BY <1>1 DEF RequestsOK
  <2>2. PICK q, l : q = ask[r] /\ l = place[r]
    OBVIOUS
  <2>3. Passed(l, q) /\ Recent(l, q, now, flags["kimi_k3"], offAt["kimi_k3"]) /\ q.since \in Nat
    BY <2>2, AtPlace, GateConstants DEF AskForms
  <2>4. l \in Looking => now < q.since + FlagsTimeout
    BY <1>1, <2>2
  <2>5. Recent(l, q, now + 1, flags["kimi_k3"], offAt["kimi_k3"])
    BY <1>2, <2>3, <2>4, GateConstants DEF Recent
  <2> QED BY <2>2, <2>3, <2>5
<1>6. EntersOnCurrentFlag
  BY <1>1 DEF EntersOnCurrentFlag
<1>7. RenewedIsKept
  BY <1>1 DEF RenewedIsKept, GatesIInv, CacheOK, CacheEntries
<1> QED BY <1>3, <1>4, <1>5, <1>6, <1>7 DEF GatesIInv

(* The gates start with nothing asked and nothing cached. *)
LEMMA GatesInit == Gates!Init => GatesIInv
<1> SUFFICES ASSUME Gates!Init PROVE GatesIInv
  OBVIOUS
<1>1. /\ now = 0 /\ flags \in {Gates!NoFlags, [f \in Gates!FlagKeys |-> TRUE]}
      /\ offAt = [f \in Gates!FlagKeys |-> IF flags[f] THEN 0 ELSE -(Ttl + FlagsTimeout + 1)]
      /\ account = [field \in {"can", "paid", "apiCan"} |-> TRUE]
      /\ cache = [k \in DOMAIN Gates!KeySets |-> Gates!NoEntry]
      /\ place = [r \in Tasks |-> "idle"] /\ ask = [r \in Tasks |-> Gates!Fresh]
  BY DEF Gates!Init
<1>2. flags \in FlagSets
  BY <1>1, FreshForm DEF FlagSets
<1>3. offAt \in [Gates!FlagKeys -> Int] /\ \A f \in Gates!FlagKeys : offAt[f] <= 0
  BY <1>1, GateConstants
<1>4. account \in [{"can", "paid", "apiCan"} -> BOOLEAN]
  BY <1>1
<1>5. ServicesOK
  BY <1>1, <1>2, <1>3, <1>4, FreshForm, GateConstants DEF ServicesOK, Places
<1>6. DOMAIN Gates!KeySets = {"access", "alias"}
  BY DEF Gates!KeySets
<1>7. /\ Gates!NoEntry \in CacheEntries /\ Gates!NoEntry.expires = 0
      /\ Gates!NoEntry.flags["kimi_k3"] = FALSE
  BY FreshForm DEF Gates!NoEntry, CacheEntries
<1>8. /\ cache \in [{"access", "alias"} -> CacheEntries]
      /\ \A k \in {"access", "alias"} : cache[k] = Gates!NoEntry
  BY <1>1, <1>6, <1>7
<1>9. CacheOK
  BY <1>1, <1>3, <1>7, <1>8, GateConstants DEF CacheOK
<1>10. Passed("idle", Gates!Fresh) /\ Recent("idle", Gates!Fresh, 0, flags["kimi_k3"], offAt["kimi_k3"])
  BY FreshForm DEF Passed, Recent, Places, Looking
<1>11. RequestsOK
  BY <1>1, <1>10 DEF RequestsOK
<1> QED BY <1>5, <1>9, <1>11 DEF GatesIInv

(* Every step of a request, of the services' owners and of the clock keeps    *)
(* GatesIInv, and is as FlagsStayCurrent says.                                *)
LEMMA GatesStep ==
    ASSUME GatesIInv, [Gates!Next]_(Gates!vars)
    PROVE  GatesIInv' /\ ((EntersOnCurrentFlag /\ RenewedIsKept) \/ UNCHANGED Gates!vars)
<1>1. CASE UNCHANGED Gates!vars
  BY <1>1 DEF Gates!vars, GatesIInv, ServicesOK, CacheOK, RequestsOK
<1>2. ASSUME NEW r \in Tasks,
             \/ \E kind \in Kinds, by \in Callers, model \in Asked \union {"none"} :
                  Gates!Ask(r, kind, by, model)
             \/ Gates!ChatBilling(r) \/ Gates!OtherBilling(r)
             \/ Gates!Lookup(r) \/ Gates!PurgeExpired(r) \/ Gates!ServiceAnswers(r)
             \/ Gates!StoreFlags(r) \/ Gates!FlagsUnavailable(r)
             \/ Gates!Gate(r) \/ Gates!Finish(r)
      PROVE  GatesIInv' /\ EntersOnCurrentFlag /\ RenewedIsKept
  BY <1>2, AskPreserves, ChatBillingPreserves, OtherBillingPreserves, LookupPreserves,
     PurgePreserves, ServicePreserves, StorePreserves, UnavailablePreserves, GatePreserves,
     FinishPreserves
<1>3. ASSUME \/ \E f \in Flippable : Gates!FlipFlag(f)
             \/ \E field \in Changeable : Gates!ChangeAccount(field)
             \/ Gates!Tick
      PROVE  GatesIInv' /\ EntersOnCurrentFlag /\ RenewedIsKept
  BY <1>3, FlipPreserves, AccountPreserves, TickPreserves
<1> QED BY <1>1, <1>2, <1>3 DEF Gates!Next

(* GatesIInv contains what GatesHold says. *)
LEMMA GatesIInvImplies == GatesIInv => GatesHold
<1> SUFFICES ASSUME GatesIInv PROVE GatesHold
  OBVIOUS
<1>1. \A r \in Tasks : /\ Passed(place[r], ask[r]) /\ ask[r] \in AskForms
                       /\ ask[r].since \in 0 .. MaxTime /\ ask[r].kimiK3 \in BOOLEAN
  BY AtPlace DEF AskForms
<1>2. Gates!TypeOK
  <2>1. \A k \in DOMAIN cache : cache[k].expires \in 0 .. now + Ttl
    BY DEF GatesIInv, CacheOK
  <2> QED
    BY <1>1, <2>1 DEF GatesIInv, ServicesOK, FlagSets, Places, Looking, Gates!TypeOK
<1>3. Gates!GuestsPay
  BY <1>1 DEF Gates!GuestsPay, Passed
<1>4. Gates!OutageGrantsOnlyFree
  BY <1>1 DEF Gates!OutageGrantsOnlyFree, Passed
<1> QED BY <1>2, <1>3, <1>4 DEF GatesHold

(* GatesHold, for any number of requests, any callers, models asked for,      *)
(* changes of the account and of the flags, lifetimes and timeouts: whatever  *)
(* fails or changes between the gates, a guest reaches a provider only on     *)
(* billing's word that the plan is paid, and without that word nothing but a  *)
(* free-tier model is reached.                                                *)
THEOREM GateSafety == Gates!Spec => []GatesHold
<1>1. Gates!Init => GatesIInv
  BY GatesInit
<1>2. GatesIInv /\ [Gates!Next]_(Gates!vars) => GatesIInv'
  BY GatesStep
<1>3. GatesIInv => GatesHold
  BY GatesIInvImplies
<1> HIDE DEF GatesIInv, GatesHold
<1> QED BY <1>1, <1>2, <1>3, PTL DEF Gates!Spec

(* FlagsStayCurrent, likewise: a flag that was turned off lets no request in  *)
(* after one cache lifetime and one lookup timeout, in whatever order slow    *)
(* lookups store their answers, and no purge drops an entry that was renewed. *)
THEOREM FlagSafety == Gates!Spec => FlagsStayCurrent
<1>1. Gates!Init => GatesIInv
  BY GatesInit
<1>2. GatesIInv /\ [Gates!Next]_(Gates!vars) => GatesIInv'
  BY GatesStep
<1>3. GatesIInv /\ [Gates!Next]_(Gates!vars)
        => [\A r \in Tasks :
               place[r] # "gate" /\ place'[r] = "gate" /\ ask'[r].kimiK3
                 => flags["kimi_k3"] \/ now - offAt["kimi_k3"] <= Ttl + FlagsTimeout]_(Gates!vars)
  BY GatesStep DEF EntersOnCurrentFlag
<1>4. GatesIInv /\ [Gates!Next]_(Gates!vars)
        => [\A k \in DOMAIN cache : cache[k].expires > now
               => cache'[k].expires >= cache[k].expires]_(Gates!vars)
  BY GatesStep DEF RenewedIsKept
<1> HIDE DEF GatesIInv
<1> QED
  BY <1>1, <1>2, <1>3, <1>4, PTL
  DEF Gates!Spec, FlagsStayCurrent, Gates!RevokedFlagExpires, Gates!PurgeKeepsRenewed
-----------------------------------------------------------------------------
(* Completions *)

Counts == Nat \union {Relay!None}
Usages == [prompt : Counts, completion : Counts, cached : Counts]
Notes == {Relay!Note(k) : k \in {"Usage", "Done", "Error", "error", "full"}}
Events == Frames \union Notes
Jobs == [usage : Usages, pc : {"row", "sqs", "done"}, rows : 0 .. 1, tries : 0 .. MaxTries, sent : Nat]
Stages == {"call", "read", "chunk", "finalize", "usage", "terminal", "ended"}
Endings ==
    {"none", "plain", "ProviderDone", "EndOfStream", "TransportError", "Timeout", "ConsumerDropped",
     "InvalidData"}

\* v is what the frames s state last for a field; None if they state nothing.
IsLatest(s, field, v) ==
    \/ v = Relay!None /\ \A i \in DOMAIN s : s[i][field] = Relay!None
    \/ /\ v # Relay!None
       /\ \E i \in DOMAIN s : s[i][field] = v /\ \A j \in DOMAIN s : j > i => s[j][field] = Relay!None
OrZero(v) == IF v = Relay!None THEN 0 ELSE v
Totals(p, c, k) == [prompt |-> OrZero(p), completion |-> OrZero(c), cached |-> k]
Stating(s, p, c, k) ==
    /\ p \in Counts /\ c \in Counts /\ k \in Counts
    /\ IsLatest(s, "prompt", p) /\ IsLatest(s, "completion", c) /\ IsLatest(s, "cached", k)

\* The accumulator holds the latest statements field by field, and nothing
\* until there is one.
Accumulated(s, u) ==
    \E p, c, k \in Counts :
        /\ Stating(s, p, c, k)
        /\ u = IF p = Relay!None /\ c = Relay!None /\ k = Relay!None THEN Relay!NoUsage
               ELSE Totals(p, c, k)

\* StatedUsage and its parts, of any frames.
LastOf(s, field) ==
    LET at == { i \in DOMAIN s : s[i][field] # Relay!None }
    IN IF at = {} THEN 0 ELSE s[CHOOSE i \in at : \A j \in at : j <= i][field]
Stated(s) ==
    [prompt |-> LastOf(s, "prompt"), completion |-> LastOf(s, "completion"),
     cached |-> IF \A i \in DOMAIN s : s[i].cached = Relay!None THEN Relay!None
                ELSE Relay!Lesser(LastOf(s, "cached"), LastOf(s, "prompt"))]
Terminated(s) == \E i \in DOMAIN s : Relay!HasTerminalSignal(s[i])
Used(s) == Stated(s).prompt > 0 \/ Stated(s).completion > 0

(* The constants of Completions. *)
LEMMA RelayConstants ==
    /\ Buffer \in Nat \ {0} /\ MaxFrames \in Nat \ {0} /\ MaxTries \in Nat \ {0}
    /\ \A f \in Frames : /\ f.kind \in {"delta", "finish", "usage", "invalid", "done"}
                         /\ f.prompt \in Counts /\ f.completion \in Counts /\ f.cached \in Counts
BY PartsAssumption DEF PartsAssumption, Relay!CompletionsAssumption, Relay!FrameKinds, Counts

(* A note is no frame, and the notes differ. *)
LEMMA NotesAreNoFrames ==
    /\ \A f \in Frames : f \notin Relay!Closing /\ f # Relay!Note("Usage") /\ f \notin Notes
    /\ Relay!Note("Usage") \notin Relay!Closing
    /\ Relay!Note("Done") # Relay!Note("Error") /\ Relay!Note("Done") # Relay!Note("error")
    /\ Relay!Note("Done") # Relay!Note("Usage") /\ Relay!Note("Error") # Relay!Note("Usage")
    /\ Relay!Note("Done") \in Relay!Closing /\ Relay!Note("Error") \in Relay!Closing
    /\ Relay!Note("error") \in Relay!Closing /\ Relay!Closing \subseteq Notes
    /\ Relay!Note("Usage") \in Notes /\ Relay!Note("full") \in Notes
    /\ Relay!Note("full") \notin Relay!Closing
BY RelayConstants DEF Relay!Closing, Relay!Note, Notes

(* What IsLatest names is what LastStated computes. *)
LEMMA LatestIsLast ==
    ASSUME NEW s \in Seq(Frames), NEW field, NEW v, IsLatest(s, field, v)
    PROVE  LastOf(s, field) = OrZero(v)
<1> DEFINE at == { i \in DOMAIN s : s[i][field] # Relay!None }
           top == CHOOSE i \in at : \A j \in at : j <= i
<1>1. LastOf(s, field) = IF at = {} THEN 0 ELSE s[top][field]
  BY Zenon DEF LastOf
<1>2. CASE v = Relay!None
  <2>1. at = {}
    BY <1>2 DEF IsLatest
  <2> QED BY <1>1, <1>2, <2>1 DEF OrZero
<1>3. CASE v # Relay!None
  <2>1. PICK i \in DOMAIN s : s[i][field] = v /\ \A j \in DOMAIN s : j > i => s[j][field] = Relay!None
    BY <1>3 DEF IsLatest
  <2>2. DOMAIN s \subseteq Int
    OBVIOUS
  <2>3. i \in at /\ \A j \in at : j <= i
    BY <1>3, <2>1, <2>2
  <2>4. \A m \in at : (\A j \in at : j <= m) => m = i
    BY <2>2, <2>3
  <2>5. top = i
    <3> HIDE DEF at
    <3> QED BY <2>3, <2>4
  <2>6. at # {}
    BY <2>3
  <2> HIDE DEF at, top
  <2> QED BY <1>1, <1>3, <2>1, <2>5, <2>6 DEF OrZero
<1> QED BY <1>2, <1>3

(* One more frame replaces a field's value exactly if it states one. *)
LEMMA LatestOfAppend ==
    ASSUME NEW s \in Seq(Frames), NEW f \in Frames, NEW field, NEW v, IsLatest(s, field, v)
    PROVE  IsLatest(Append(s, f), field, IF f[field] # Relay!None THEN f[field] ELSE v)
<1>1. PICK t, n : t = Append(s, f) /\ n = Len(s)
  OBVIOUS
<1>2. /\ n \in Nat /\ DOMAIN s = 1 .. n /\ DOMAIN t = 1 .. n + 1 /\ t[n + 1] = f
      /\ \A i \in 1 .. n : t[i] = s[i]
  BY <1>1
<1>3. CASE f[field] # Relay!None
  <2>1. n + 1 \in DOMAIN t /\ \A j \in DOMAIN t : ~(j > n + 1)
    BY <1>2
  <2> QED BY <1>1, <1>2, <1>3, <2>1 DEF IsLatest
<1>4. CASE f[field] = Relay!None
  <2>1. CASE v = Relay!None
    <3>1. \A i \in DOMAIN t : t[i][field] = Relay!None
      BY <1>2, <1>4, <2>1 DEF IsLatest
    <3> QED BY <1>1, <1>4, <2>1, <3>1 DEF IsLatest
  <2>2. CASE v # Relay!None
    <3>1. PICK i \in DOMAIN s : s[i][field] = v /\ \A j \in DOMAIN s : j > i => s[j][field] = Relay!None
      BY <2>2 DEF IsLatest
    <3>2. i \in DOMAIN t /\ t[i][field] = v /\ \A j \in DOMAIN t : j > i => t[j][field] = Relay!None
      BY <1>2, <1>4, <3>1
    <3> QED BY <1>1, <1>4, <2>2, <3>2 DEF IsLatest
  <2> QED BY <2>1, <2>2
<1> QED BY <1>3, <1>4

(* The stated usage, from the latest statements. *)
LEMMA StatedValue ==
    ASSUME NEW s \in Seq(Frames), NEW p, NEW c, NEW k, Stating(s, p, c, k)
    PROVE  Stated(s) = [prompt |-> OrZero(p), completion |-> OrZero(c),
                        cached |-> IF k = Relay!None THEN Relay!None ELSE Relay!Lesser(k, OrZero(p))]
<1>1. /\ LastOf(s, "prompt") = OrZero(p) /\ LastOf(s, "completion") = OrZero(c)
      /\ LastOf(s, "cached") = OrZero(k)
  BY LatestIsLast DEF Stating
<1>2. (\A i \in DOMAIN s : s[i].cached = Relay!None) <=> k = Relay!None
  BY DEF Stating, IsLatest
<1> QED BY <1>1, <1>2 DEF Stated, OrZero

(* observe keeps the accumulator on the latest statements. *)
LEMMA ObserveAccumulates ==
    ASSUME NEW s \in Seq(Frames), NEW f \in Frames, NEW u, Accumulated(s, u)
    PROVE  Accumulated(Append(s, f), Relay!Observe(u, f))
<1>1. PICK p \in Counts, c \in Counts, k \in Counts :
         /\ Stating(s, p, c, k)
         /\ u = IF p = Relay!None /\ c = Relay!None /\ k = Relay!None THEN Relay!NoUsage
                ELSE Totals(p, c, k)
  BY DEF Accumulated
<1>2. f.prompt \in Counts /\ f.completion \in Counts /\ f.cached \in Counts
  BY RelayConstants
<1>3. PICK p2, c2, k2 : /\ p2 = IF f.prompt # Relay!None THEN f.prompt ELSE p
                        /\ c2 = IF f.completion # Relay!None THEN f.completion ELSE c
                        /\ k2 = IF f.cached # Relay!None THEN f.cached ELSE k
  OBVIOUS
<1>4. p2 \in Counts /\ c2 \in Counts /\ k2 \in Counts
  BY <1>1, <1>2, <1>3
<1>5. Stating(Append(s, f), p2, c2, k2)
  <2>1. /\ IsLatest(s, "prompt", p) /\ IsLatest(s, "completion", c) /\ IsLatest(s, "cached", k)
    BY <1>1 DEF Stating
  <2>2. IsLatest(Append(s, f), "prompt", p2)
    BY <1>3, <2>1, LatestOfAppend
  <2>3. IsLatest(Append(s, f), "completion", c2)
    BY <1>3, <2>1, LatestOfAppend
  <2>4. IsLatest(Append(s, f), "cached", k2)
    BY <1>3, <2>1, LatestOfAppend
  <2> QED BY <1>4, <2>2, <2>3, <2>4 DEF Stating
<1>6. CASE f.prompt = Relay!None /\ f.completion = Relay!None /\ f.cached = Relay!None
  <2>1. p2 = p /\ c2 = c /\ k2 = k
    BY <1>3, <1>6
  <2>2. Relay!Observe(u, f) = u
    BY <1>6 DEF Relay!Observe, Relay!NoUsage
  <2> QED BY <1>1, <1>5, <2>1, <2>2 DEF Accumulated
<1>7. CASE ~(f.prompt = Relay!None /\ f.completion = Relay!None /\ f.cached = Relay!None)
  <2>1. Relay!Observe(u, f) =
           [prompt |-> Relay!Explicit(f.prompt, u.prompt),
            completion |-> Relay!Explicit(f.completion, u.completion),
            cached |-> IF f.cached # Relay!None THEN f.cached ELSE u.cached]
    BY <1>7 DEF Relay!Observe, Relay!NoUsage
  <2>2. u.prompt \in {Relay!None, OrZero(p)} /\ (u.prompt = Relay!None => p = Relay!None)
    BY <1>1 DEF Totals, Relay!NoUsage, OrZero
  <2>3. u.completion \in {Relay!None, OrZero(c)} /\ (u.completion = Relay!None => c = Relay!None)
    BY <1>1 DEF Totals, Relay!NoUsage, OrZero
  <2>4. u.cached = k
    BY <1>1 DEF Totals, Relay!NoUsage
  <2>5. Relay!Explicit(f.prompt, u.prompt) = OrZero(p2)
    BY <1>3, <2>2 DEF Relay!Explicit, OrZero
  <2>6. Relay!Explicit(f.completion, u.completion) = OrZero(c2)
    BY <1>3, <2>3 DEF Relay!Explicit, OrZero
  <2>7. Relay!Observe(u, f) = Totals(p2, c2, k2)
    BY <1>3, <2>1, <2>4, <2>5, <2>6 DEF Totals
  <2>8. ~(p2 = Relay!None /\ c2 = Relay!None /\ k2 = Relay!None)
    BY <1>3, <1>7
  <2> QED BY <1>4, <1>5, <2>7, <2>8 DEF Accumulated
<1> QED BY <1>6, <1>7

RelayTypes ==
    /\ relay \in Stages /\ ending \in Endings
    /\ latest \in Usages /\ sawTerminal \in BOOLEAN /\ finalized \in BOOLEAN
    /\ seen \in Seq(Frames) /\ Len(seen) <= MaxFrames
    /\ consumer \in {"none", "open", "plain", "dropped", "finished"}
    /\ chan \in Seq(Events) /\ out \in Seq(Events)
    /\ Len(chan) <= IF consumer = "plain" THEN 2 ELSE Buffer
    /\ jobs \in Seq(Jobs)
    /\ \A j \in DOMAIN jobs : /\ jobs[j].sent <= jobs[j].tries
                              /\ jobs[j].pc # "done" => jobs[j].tries < MaxTries

\* What the relay knows of the usage at stage l: until the finalization the
\* accumulator has it and nothing is billed; from then on it is billed exactly
\* if the end was confirmed and tokens were used.
Accounted(l, end, u, t, fin, s, jb) ==
    /\ l \in {"call", "read", "chunk", "finalize"} => jb = <<>> /\ ~fin
    /\ l \in {"call", "read", "chunk"} => end = "none"
    /\ l \in {"finalize", "usage", "terminal"} => end \notin {"none", "plain"}
    /\ l = "call" => s = <<>>
    /\ ~fin /\ end # "plain" => Accumulated(s, u)
    /\ end # "plain" => (t <=> Terminated(s))
    /\ Len(jb) <= 1 /\ \A j \in DOMAIN jb : jb[j].usage = Stated(s)
    /\ l \in {"usage", "terminal", "ended"} /\ end \notin {"none", "plain"} =>
         (jb # <<>> <=> (end = "ProviderDone" \/ Terminated(s)) /\ Used(s))

\* The notes that may stand in the channel behind the frames.
Trailing(l, end, m) ==
    \/ m = Relay!Note("Usage") /\ l \in {"terminal", "ended"}
    \/ m = Relay!Note("Error") /\ l = "ended"
    \/ m = Relay!Note("Done") /\ l = "ended" /\ end \in {"ProviderDone", "EndOfStream"}

\* With the consumer at its channel: the client has the first frames, the
\* channel holds the n next ones up to the one being sent, and then the notes.
Following(l, end, s, ch, o) ==
    \E n \in 0 .. Len(ch) :
        /\ Len(o) + n = IF l = "chunk" THEN Len(s) - 1 ELSE Len(s)
        /\ \A i \in 1 .. Len(o) : o[i] = s[i]
        /\ \A i \in 1 .. n : ch[i] = s[Len(o) + i]
        /\ \A i \in n + 1 .. Len(ch) : Trailing(l, end, ch[i])

\* After it: the client has the first frames and at most one closing event.
LeftWith(l, end, s, o) ==
    \E n \in 0 .. Len(s) :
        /\ \A i \in 1 .. n : o[i] = s[i]
        /\ \/ Len(o) = n
           \/ /\ Len(o) = n + 1 /\ o[n + 1] \in Relay!Closing
              /\ o[n + 1] = Relay!Note("Done") =>
                   n = Len(s) /\ l = "ended" /\ end \in {"ProviderDone", "EndOfStream"}

Delivered(l, end, s, ch, con, o) ==
    /\ con = "none" <=> l = "call"
    /\ l = "call" => ch = <<>> /\ o = <<>>
    /\ end = "plain" => l = "ended"
    /\ con = "plain" => end = "plain"
    /\ con = "open" => end # "plain" /\ Following(l, end, s, ch, o)
    /\ con \in {"dropped", "finished"} => ch = <<>> /\ (end # "plain" => LeftWith(l, end, s, o))

\* The inductive invariant.
RelayIInv ==
    /\ RelayTypes
    /\ Accounted(relay, ending, latest, sawTerminal, finalized, seen, jobs)
    /\ Delivered(relay, ending, seen, chan, consumer, out)

(* The empty channel and the empty answer. *)
LEMMA EmptyAnswer ==
    /\ Relay!NoUsage \in Usages /\ Accumulated(<<>>, Relay!NoUsage) /\ ~Terminated(<<>>)
    /\ <<>> \in Seq(Frames) /\ <<>> \in Seq(Events) /\ <<>> \in Seq(Jobs)
<1>1. Relay!None \in Counts
  BY DEF Counts
<1>2. Relay!NoUsage \in Usages
  BY <1>1 DEF Relay!NoUsage, Usages
<1>3. Stating(<<>>, Relay!None, Relay!None, Relay!None)
  BY <1>1 DEF Stating, IsLatest
<1>4. Accumulated(<<>>, Relay!NoUsage)
  BY <1>1, <1>3 DEF Accumulated
<1>5. ~Terminated(<<>>)
  BY DEF Terminated
<1> QED BY <1>2, <1>4, <1>5

LEMMA RelayInit == Relay!Init => RelayIInv
<1> SUFFICES ASSUME Relay!Init PROVE RelayIInv
  OBVIOUS
<1> USE DEF Relay!Init
<1>1. RelayTypes
  <2>1. Len(seen) <= MaxFrames /\ Len(chan) <= Buffer /\ DOMAIN jobs = {}
    BY RelayConstants
  <2>2. seen \in Seq(Frames) /\ chan \in Seq(Events) /\ out \in Seq(Events) /\ jobs \in Seq(Jobs)
    OBVIOUS
  <2> QED BY <2>1, <2>2, EmptyAnswer DEF RelayTypes, Stages, Endings
<1>2. Accounted(relay, ending, latest, sawTerminal, finalized, seen, jobs)
  BY EmptyAnswer DEF Accounted
<1>3. Delivered(relay, ending, seen, chan, consumer, out)
  BY DEF Delivered
<1> QED BY <1>1, <1>2, <1>3 DEF RelayIInv

(* A call that fails or is left bills nothing and shows nothing but the error. *)
LEMMA CallEnds ==
    ASSUME RelayIInv, Relay!CallFails \/ Relay!LeaveDuringCall
    PROVE  RelayIInv'
<1>1. /\ relay = "call" /\ relay' = "ended" /\ consumer' \in {"dropped", "finished"}
      /\ out' = <<Relay!Note("error")>> \/ out' = out
      /\ UNCHANGED <<ending, latest, sawTerminal, finalized, seen, chan, jobs>>
  BY DEF Relay!CallFails, Relay!LeaveDuringCall, Relay!acc
<1>2. /\ ending = "none" /\ seen = <<>> /\ chan = <<>> /\ out = <<>>
  BY <1>1 DEF RelayIInv, Accounted, Delivered
<1>3. Relay!Note("error") \in Events /\ Relay!Note("error") \in Relay!Closing
      /\ Relay!Note("error") # Relay!Note("Done")
  BY NotesAreNoFrames DEF Events
<1>4. RelayTypes'
  <2>1. <<Relay!Note("error")>> \in Seq(Events)
    BY <1>3
  <2>2. Len(chan) = 0
    BY <1>2
  <2>3. out' \in Seq(Events)
    BY <1>1, <2>1 DEF RelayIInv, RelayTypes
  <2> QED BY <1>1, <2>2, <2>3, RelayConstants DEF RelayIInv, RelayTypes, Stages
<1>5. Accounted(relay', ending', latest', sawTerminal', finalized', seen', jobs')
  BY <1>1, <1>2 DEF RelayIInv, Accounted
<1>6. LeftWith("ended", "none", <<>>, out')
  <2>1. CASE out' = <<>>
    BY <2>1 DEF LeftWith
  <2>2. CASE out' = <<Relay!Note("error")>>
    <3>1. Len(out') = 0 + 1 /\ out'[0 + 1] = Relay!Note("error")
      BY <2>2
    <3> QED BY <1>3, <3>1 DEF LeftWith
  <2> QED BY <1>1, <1>2, <2>1, <2>2
<1>7. Delivered(relay', ending', seen', chan', consumer', out')
  BY <1>1, <1>2, <1>6 DEF Delivered
<1> QED BY <1>4, <1>5, <1>7 DEF RelayIInv

LEMMA StreamStartsPreserves ==
    ASSUME RelayIInv, Relay!StreamStarts
    PROVE  RelayIInv'
<1>1. /\ relay = "call" /\ relay' = "read" /\ consumer' = "open"
      /\ UNCHANGED <<ending, latest, sawTerminal, finalized, seen, chan, out, jobs>>
  BY DEF Relay!StreamStarts, Relay!acc
<1>2. ending = "none" /\ seen = <<>> /\ chan = <<>> /\ out = <<>>
  BY <1>1 DEF RelayIInv, Accounted, Delivered
<1>3. RelayTypes'
  BY <1>1, <1>2, RelayConstants DEF RelayIInv, RelayTypes, Stages
<1>4. Accounted(relay', ending', latest', sawTerminal', finalized', seen', jobs')
  BY <1>1, <1>2 DEF RelayIInv, Accounted
<1>5. Following("read", "none", <<>>, <<>>, <<>>)
  BY DEF Following
<1>6. Delivered(relay', ending', seen', chan', consumer', out')
  BY <1>1, <1>2, <1>5 DEF Delivered
<1> QED BY <1>3, <1>4, <1>6 DEF RelayIInv

(* The relay's moves that leave channel and client alone keep what the client *)
(* is shown.                                                                  *)
LEMMA StageMoves ==
    ASSUME RelayIInv, relay \in {"read", "finalize", "usage"}, relay' \notin {"call", "chunk"},
           ending' # "plain", UNCHANGED <<seen, chan, consumer, out>>
    PROVE  Delivered(relay', ending', seen', chan', consumer', out')
<1>1. /\ consumer \notin {"none", "plain"} /\ ending # "plain"
      /\ consumer = "open" => Following(relay, ending, seen, chan, out)
      /\ consumer # "open" => chan = <<>> /\ LeftWith(relay, ending, seen, out)
  BY DEF RelayIInv, Delivered, RelayTypes
<1>2. CASE consumer = "open"
  <2>1. PICK n \in 0 .. Len(chan) :
           /\ Len(out) + n = Len(seen)
           /\ \A i \in 1 .. Len(out) : out[i] = seen[i]
           /\ \A i \in 1 .. n : chan[i] = seen[Len(out) + i]
           /\ \A i \in n + 1 .. Len(chan) : FALSE
    BY <1>1, <1>2 DEF Following, Trailing
  <2>2. Following(relay', ending', seen, chan, out)
    BY <2>1 DEF Following
  <2> QED BY <1>1, <1>2, <2>2 DEF Delivered
<1>3. CASE consumer # "open"
  <2>1. LeftWith(relay', ending', seen, out)
    BY <1>1, <1>3 DEF LeftWith
  <2> QED BY <1>1, <1>3, <2>1 DEF Delivered, RelayIInv, RelayTypes
<1> QED BY <1>2, <1>3

LEMMA ReadEndsPreserves ==
    ASSUME RelayIInv, Relay!ReadEnds
    PROVE  RelayIInv'
<1>1. /\ relay = "read" /\ relay' = "finalize" /\ ending' \in {"EndOfStream", "TransportError", "Timeout"}
      /\ UNCHANGED <<latest, sawTerminal, finalized, seen, chan, consumer, out, jobs>>
  BY DEF Relay!ReadEnds, Relay!EndStream, Relay!acc
<1>2. RelayTypes'
  BY <1>1 DEF RelayIInv, RelayTypes, Stages, Endings
<1>3. Accounted(relay', ending', latest', sawTerminal', finalized', seen', jobs')
  BY <1>1 DEF RelayIInv, Accounted
<1>4. Delivered(relay', ending', seen', chan', consumer', out')
  BY <1>1, StageMoves
<1> QED BY <1>2, <1>3, <1>4 DEF RelayIInv

(* Usage is billed once, if it is of tokens. *)
LEMMA PublishBills ==
    ASSUME jobs = <<>>, NEW u \in Usages, Relay!Publish(u)
    PROVE  /\ jobs' \in Seq(Jobs) /\ Len(jobs') <= 1
           /\ \A j \in DOMAIN jobs' : /\ jobs'[j].usage = u /\ jobs'[j].sent <= jobs'[j].tries
                                      /\ jobs'[j].pc # "done" => jobs'[j].tries < MaxTries
           /\ jobs' # <<>> <=> Relay!Billable(u)
<1>1. CASE Relay!Billable(u)
  <2>1. PICK job : job = [usage |-> u, pc |-> "row", rows |-> 0, tries |-> 0, sent |-> 0]
    OBVIOUS
  <2>2. /\ job \in Jobs /\ job.usage = u /\ job.sent = 0 /\ job.tries = 0
    BY <2>1, RelayConstants DEF Jobs
  <2>3. jobs' = <<job>>
    BY <1>1, <2>1 DEF Relay!Publish
  <2>4. jobs' \in Seq(Jobs) /\ Len(jobs') = 1 /\ DOMAIN jobs' = {1} /\ jobs'[1] = job
    BY <2>2, <2>3
  <2>5. jobs' # <<>>
    <3>1. Len(jobs') # Len(<<>>)
      BY <2>4
    <3> QED BY <3>1, Zenon
  <2>6. \A j \in DOMAIN jobs' : jobs'[j] = job
    BY <2>4
  <2> QED BY <1>1, <2>2, <2>4, <2>5, <2>6, RelayConstants
<1>2. CASE ~Relay!Billable(u)
  <2>1. jobs' = <<>>
    BY <1>2 DEF Relay!Publish
  <2>2. jobs' \in Seq(Jobs) /\ Len(jobs') = 0 /\ DOMAIN jobs' = {}
    BY <2>1
  <2> QED BY <1>2, <2>1, <2>2
<1> QED BY <1>1, <1>2

(* take_final_usage and extract_usage: the latest statements, with the cached *)
(* tokens bounded by the prompt's, are the stated usage.                      *)
LEMMA ClampedIsStated ==
    ASSUME NEW s \in Seq(Frames), NEW p, NEW c, NEW k, Stating(s, p, c, k)
    PROVE  /\ Relay!ClampCached(Totals(p, c, k)) = Stated(s) /\ Stated(s) \in Usages
           /\ Stated(s).prompt \in Nat /\ Stated(s).completion \in Nat
           /\ Relay!Billable(Stated(s)) <=> Used(s)
<1>1. OrZero(p) \in Nat /\ OrZero(c) \in Nat /\ k \in Counts
  BY DEF Stating, Counts, OrZero
<1>2. Stated(s) = [prompt |-> OrZero(p), completion |-> OrZero(c),
                   cached |-> IF k = Relay!None THEN Relay!None ELSE Relay!Lesser(k, OrZero(p))]
  BY StatedValue
<1>3. Relay!ClampCached(Totals(p, c, k)) = Stated(s)
  BY <1>2 DEF Relay!ClampCached, Totals
<1>4. (IF k = Relay!None THEN Relay!None ELSE Relay!Lesser(k, OrZero(p))) \in Counts
  BY <1>1 DEF Counts, Relay!Lesser
<1>5. Stated(s) \in Usages
  BY <1>1, <1>2, <1>4 DEF Usages, Counts
<1>6. Stated(s).prompt = OrZero(p) /\ Stated(s).completion = OrZero(c)
  BY <1>2
<1>7. Stated(s) # Relay!NoUsage
  <2>1. Relay!NoUsage.prompt = 0 - 1
    BY DEF Relay!NoUsage, Relay!None
  <2> QED BY <1>1, <1>6, <2>1
<1> QED BY <1>1, <1>3, <1>5, <1>6, <1>7 DEF Relay!Billable, Used

(* A plain answer is billed as its one body states. *)
LEMMA PlainAnswerPreserves ==
    ASSUME RelayIInv, NEW f \in Frames, Relay!PlainAnswer(f)
    PROVE  RelayIInv'
<1>1. /\ relay = "call" /\ relay' = "ended" /\ ending' = "plain" /\ consumer' = "plain"
      /\ seen' = <<f>> /\ chan' = <<Relay!Note("full"), Relay!Note("Done")>>
      /\ UNCHANGED <<latest, sawTerminal, finalized, out>>
  BY DEF Relay!PlainAnswer, Relay!acc
<1>2. jobs = <<>>
  BY <1>1 DEF RelayIInv, Accounted
<1>3. PICK u : u = IF Relay!NoUsage = [prompt |-> f.prompt, completion |-> f.completion,
                                       cached |-> f.cached]
                   THEN Relay!NoUsage ELSE Relay!ExtractUsage(f)
  OBVIOUS
<1>4. Relay!Publish(u)
  BY <1>3 DEF Relay!PlainAnswer
<1>5. PICK s, p, c, k : s = <<f>> /\ p = f.prompt /\ c = f.completion /\ k = f.cached
  OBVIOUS
<1>6. s \in Seq(Frames) /\ s = Append(<<>>, f) /\ Len(s) = 1
  BY <1>5
<1>7. p \in Counts /\ c \in Counts /\ k \in Counts
  BY <1>5, RelayConstants
<1>8. Stating(s, p, c, k)
  <2>1. ASSUME NEW field \in {"prompt", "completion", "cached"}
        PROVE  IsLatest(Append(<<>>, f), field, f[field])
    <3>1. IsLatest(<<>>, field, Relay!None)
      BY DEF IsLatest
    <3>2. IsLatest(Append(<<>>, f), field, IF f[field] # Relay!None THEN f[field] ELSE Relay!None)
      BY <3>1, EmptyAnswer, LatestOfAppend
    <3> QED BY <3>2
  <2> QED BY <1>5, <1>6, <1>7, <2>1 DEF Stating
<1>9. u \in Usages /\ (Relay!Billable(u) => u = Stated(s))
  <2>1. CASE u = Relay!NoUsage
    BY <2>1, EmptyAnswer DEF Relay!Billable
  <2>2. CASE u = Relay!ExtractUsage(f)
    <3>1. Relay!ExtractUsage(f) = Relay!ClampCached(Totals(p, c, k))
      BY <1>5 DEF Relay!ExtractUsage, Relay!Explicit, Totals, OrZero
    <3> QED BY <1>6, <1>8, <2>2, <3>1, ClampedIsStated
  <2> QED BY <1>3, <2>1, <2>2
<1>10. /\ jobs' \in Seq(Jobs) /\ Len(jobs') <= 1
       /\ \A j \in DOMAIN jobs' : /\ jobs'[j].usage = u /\ jobs'[j].sent <= jobs'[j].tries
                                  /\ jobs'[j].pc # "done" => jobs'[j].tries < MaxTries
       /\ jobs' # <<>> <=> Relay!Billable(u)
  BY <1>2, <1>4, <1>9, PublishBills
<1>11. RelayTypes'
  <2>1. Relay!Note("full") \in Events /\ Relay!Note("Done") \in Events
    BY NotesAreNoFrames DEF Events
  <2>2. chan' \in Seq(Events) /\ Len(chan') = 2
    BY <1>1, <2>1
  <2>3. seen' \in Seq(Frames) /\ Len(seen') <= MaxFrames
    BY <1>1, <1>5, <1>6, RelayConstants
  <2> QED BY <1>1, <1>10, <2>2, <2>3 DEF RelayIInv, RelayTypes, Stages, Endings
<1>12. Accounted(relay', ending', latest', sawTerminal', finalized', seen', jobs')
  <2>1. \A j \in DOMAIN jobs' : jobs'[j].usage = Stated(seen')
    <3>1. SUFFICES ASSUME NEW j \in DOMAIN jobs' PROVE jobs'[j].usage = Stated(seen')
      OBVIOUS
    <3>2. jobs' # <<>>
      BY <3>1
    <3> QED BY <1>1, <1>5, <1>9, <1>10, <3>2
  <2> QED BY <1>1, <1>10, <2>1 DEF Accounted
<1>13. Delivered(relay', ending', seen', chan', consumer', out')
  BY <1>1 DEF Delivered
<1> QED BY <1>11, <1>12, <1>13 DEF RelayIInv

LEMMA PlainConsumePreserves ==
    ASSUME RelayIInv, Relay!PlainConsume
    PROVE  RelayIInv'
<1>1. /\ consumer = "plain" /\ consumer' \in {"finished", "dropped"} /\ chan' = <<>>
      /\ out' = <<Relay!Note("full")>> \/ out' = <<Relay!Note("error")>> \/ out' = out
      /\ UNCHANGED <<relay, ending, latest, sawTerminal, finalized, seen, jobs>>
  BY DEF Relay!PlainConsume, Relay!acc
<1>2. ending = "plain" /\ relay = "ended"
  BY <1>1 DEF RelayIInv, Delivered
<1>3. out' \in Seq(Events)
  <2>1. Relay!Note("full") \in Events /\ Relay!Note("error") \in Events
    BY NotesAreNoFrames DEF Events
  <2>2. <<Relay!Note("full")>> \in Seq(Events) /\ <<Relay!Note("error")>> \in Seq(Events)
    BY <2>1
  <2> QED BY <1>1, <2>2 DEF RelayIInv, RelayTypes
<1>4. RelayTypes'
  <2>1. chan' \in Seq(Events) /\ Len(chan') = 0
    BY <1>1
  <2> QED BY <1>1, <1>3, <2>1, RelayConstants DEF RelayIInv, RelayTypes
<1>5. Accounted(relay', ending', latest', sawTerminal', finalized', seen', jobs')
  BY <1>1 DEF RelayIInv
<1>6. Delivered(relay', ending', seen', chan', consumer', out')
  BY <1>1, <1>2 DEF Delivered
<1> QED BY <1>4, <1>5, <1>6 DEF RelayIInv

(* A frame is observed before it is sent; an end marker or garbage ends the  *)
(* stream.                                                                   *)
LEMMA ReadFramePreserves ==
    ASSUME RelayIInv, NEW f \in Frames, Relay!ReadFrame(f)
    PROVE  RelayIInv'
<1>1. /\ relay = "read" /\ Len(seen) < MaxFrames /\ UNCHANGED <<chan, consumer, out, jobs>>
      /\ \/ /\ relay' = "finalize" /\ ending' \in {"ProviderDone", "InvalidData"}
            /\ UNCHANGED <<latest, sawTerminal, finalized, seen>>
         \/ /\ latest' = Relay!Observe(latest, f) /\ seen' = Append(seen, f) /\ relay' = "chunk"
            /\ sawTerminal' = (sawTerminal \/ Relay!HasTerminalSignal(f))
            /\ UNCHANGED <<ending, finalized>>
  BY DEF Relay!ReadFrame, Relay!EndStream, Relay!acc
<1>2. ending = "none" /\ jobs = <<>> /\ ~finalized
  BY <1>1 DEF RelayIInv, Accounted
<1>3. CASE /\ relay' = "finalize" /\ ending' \in {"ProviderDone", "InvalidData"}
           /\ UNCHANGED <<latest, sawTerminal, finalized, seen>>
  <2>1. RelayTypes'
    BY <1>1, <1>3 DEF RelayIInv, RelayTypes, Stages, Endings
  <2>2. Accounted(relay', ending', latest', sawTerminal', finalized', seen', jobs')
    BY <1>1, <1>2, <1>3 DEF RelayIInv, Accounted
  <2>3. Delivered(relay', ending', seen', chan', consumer', out')
    BY <1>1, <1>3, StageMoves
  <2> QED BY <2>1, <2>2, <2>3 DEF RelayIInv
<1>4. CASE /\ latest' = Relay!Observe(latest, f) /\ seen' = Append(seen, f) /\ relay' = "chunk"
           /\ sawTerminal' = (sawTerminal \/ Relay!HasTerminalSignal(f))
           /\ UNCHANGED <<ending, finalized>>
  <2>1. seen \in Seq(Frames) /\ latest \in Usages /\ sawTerminal \in BOOLEAN
    BY DEF RelayIInv, RelayTypes
  <2>2. /\ seen' \in Seq(Frames) /\ Len(seen') = Len(seen) + 1 /\ Len(seen) \in Nat
        /\ seen'[Len(seen) + 1] = f /\ \A i \in 1 .. Len(seen) : seen'[i] = seen[i]
        /\ DOMAIN seen' = 1 .. Len(seen) + 1 /\ DOMAIN seen = 1 .. Len(seen)
    BY <1>4, <2>1
  <2>3. latest' \in Usages
    <3>1. f.prompt \in Counts /\ f.completion \in Counts /\ f.cached \in Counts
      BY RelayConstants
    <3>2. /\ latest.prompt \in Counts /\ latest.completion \in Counts /\ latest.cached \in Counts
      BY <2>1 DEF Usages
    <3>3. /\ Relay!Explicit(f.prompt, latest.prompt) \in Counts
          /\ Relay!Explicit(f.completion, latest.completion) \in Counts
      BY <3>1, <3>2 DEF Relay!Explicit, Counts
    <3> QED BY <1>4, <2>1, <3>1, <3>2, <3>3 DEF Relay!Observe, Usages
  <2>4. sawTerminal' \in BOOLEAN
    BY <1>4, <2>1 DEF Relay!HasTerminalSignal
  <2>5. RelayTypes'
    <3>1. Len(seen') <= MaxFrames
      BY <1>1, <2>2, RelayConstants
    <3> QED BY <1>1, <1>4, <2>2, <2>3, <2>4, <3>1 DEF RelayIInv, RelayTypes, Stages
  <2>6. Accumulated(seen', latest')
    <3>1. PICK s, u : s = seen /\ u = latest
      OBVIOUS
    <3>2. Accumulated(s, u) /\ s \in Seq(Frames)
      BY <1>2, <2>1, <3>1 DEF RelayIInv, Accounted
    <3>3. Accumulated(Append(s, f), Relay!Observe(u, f))
      BY <3>2, ObserveAccumulates
    <3> QED BY <1>4, <3>1, <3>3
  <2>7. sawTerminal' <=> Terminated(seen')
    <3>1. sawTerminal <=> Terminated(seen)
      BY <1>2 DEF RelayIInv, Accounted
    <3>2. Terminated(seen') <=> Terminated(seen) \/ Relay!HasTerminalSignal(f)
      <4>1. ASSUME Terminated(seen') PROVE Terminated(seen) \/ Relay!HasTerminalSignal(f)
        <5>1. PICK i \in 1 .. Len(seen) + 1 : Relay!HasTerminalSignal(seen'[i])
          BY <2>2, <4>1 DEF Terminated
        <5>2. CASE i = Len(seen) + 1
          BY <2>2, <5>1, <5>2
        <5>3. CASE i # Len(seen) + 1
          <6>1. i \in DOMAIN seen /\ seen'[i] = seen[i]
            BY <2>2, <5>3
          <6> QED BY <5>1, <6>1 DEF Terminated
        <5> QED BY <5>2, <5>3
      <4>2. ASSUME Terminated(seen) PROVE Terminated(seen')
        <5>1. PICK i \in DOMAIN seen : Relay!HasTerminalSignal(seen[i])
          BY <4>2 DEF Terminated
        <5>2. i \in DOMAIN seen' /\ seen'[i] = seen[i]
          BY <2>2
        <5> QED BY <5>1, <5>2 DEF Terminated
      <4>3. ASSUME Relay!HasTerminalSignal(f) PROVE Terminated(seen')
        <5>1. Len(seen) + 1 \in DOMAIN seen'
          BY <2>2
        <5> QED BY <2>2, <4>3, <5>1 DEF Terminated
      <4> QED BY <4>1, <4>2, <4>3
    <3> QED BY <1>4, <3>1, <3>2
  <2>8. Accounted(relay', ending', latest', sawTerminal', finalized', seen', jobs')
    <3>1. Len(jobs') <= 1 /\ DOMAIN jobs' = {}
      BY <1>1, <1>2
    <3> QED BY <1>1, <1>2, <1>4, <2>6, <2>7, <3>1 DEF Accounted
  <2>9. Delivered(relay', ending', seen', chan', consumer', out')
    <3>1. consumer \notin {"none", "plain"}
      BY <1>1, <1>2 DEF RelayIInv, Delivered
    <3>2. CASE consumer = "open"
      <4>1. PICK n \in 0 .. Len(chan) :
               /\ Len(out) + n = Len(seen)
               /\ \A i \in 1 .. Len(out) : out[i] = seen[i]
               /\ \A i \in 1 .. n : chan[i] = seen[Len(out) + i]
               /\ \A i \in n + 1 .. Len(chan) : FALSE
        BY <1>1, <3>2 DEF RelayIInv, Delivered, Following, Trailing
      <4>2. Len(out) \in Nat /\ n \in Nat
        BY DEF RelayIInv, RelayTypes
      <4>3. Len(out) + n = Len(seen') - 1
        BY <2>2, <4>1
      <4>4. \A i \in 1 .. Len(out) : out[i] = seen'[i]
        BY <2>2, <4>1, <4>2
      <4>5. \A i \in 1 .. n : chan[i] = seen'[Len(out) + i]
        BY <2>2, <4>1, <4>2
      <4>6. Following("chunk", ending', seen', chan, out)
        BY <4>1, <4>3, <4>4, <4>5 DEF Following
      <4> QED BY <1>1, <1>2, <1>4, <3>2, <4>6 DEF Delivered
    <3>3. CASE consumer # "open"
      <4>1. chan = <<>> /\ LeftWith(relay, ending, seen, out)
        BY <1>2, <3>1, <3>3 DEF RelayIInv, RelayTypes, Delivered
      <4>2. PICK n \in 0 .. Len(seen) :
               /\ \A i \in 1 .. n : out[i] = seen[i]
               /\ \/ Len(out) = n
                  \/ /\ Len(out) = n + 1 /\ out[n + 1] \in Relay!Closing
                     /\ out[n + 1] # Relay!Note("Done")
        BY <1>1, <4>1 DEF LeftWith
      <4>3. n \in 0 .. Len(seen') /\ \A i \in 1 .. n : out[i] = seen'[i]
        BY <2>2, <4>2, SMTT(30)
      <4>4. LeftWith("chunk", ending', seen', out)
        BY <4>2, <4>3 DEF LeftWith
      <4> QED BY <1>1, <1>2, <1>4, <3>1, <3>3, <4>1, <4>4 DEF Delivered, RelayIInv, RelayTypes
    <3> QED BY <3>2, <3>3
  <2> QED BY <2>5, <2>8, <2>9 DEF RelayIInv
<1> QED BY <1>1, <1>3, <1>4

(* One event more at the end of a channel whose consumer reads. *)
LEMMA AppendEvent ==
    ASSUME RelayIInv, consumer = "open", NEW m \in Events, Len(chan) < Buffer,
           chan' = Append(chan, m), UNCHANGED <<consumer, out>>
    PROVE  /\ chan' \in Seq(Events) /\ Len(chan') = Len(chan) + 1 /\ Len(chan) \in Nat
           /\ Len(chan') <= Buffer
           /\ chan'[Len(chan) + 1] = m /\ \A i \in 1 .. Len(chan) : chan'[i] = chan[i]
<1>1. chan \in Seq(Events)
  BY DEF RelayIInv, RelayTypes
<1>2. /\ chan' \in Seq(Events) /\ Len(chan') = Len(chan) + 1 /\ Len(chan) \in Nat
      /\ chan'[Len(chan) + 1] = m /\ \A i \in 1 .. Len(chan) : chan'[i] = chan[i]
  BY <1>1
<1> QED BY <1>2, RelayConstants

LEMMA SendChunkPreserves ==
    ASSUME RelayIInv, Relay!SendChunk
    PROVE  RelayIInv'
<1>1. /\ relay = "chunk" /\ UNCHANGED <<latest, sawTerminal, finalized, seen, consumer, out, jobs>>
      /\ \/ /\ consumer # "open" /\ relay' = "finalize" /\ ending' = "ConsumerDropped"
            /\ UNCHANGED chan
         \/ /\ consumer = "open" /\ Len(chan) < Buffer /\ chan' = Append(chan, seen[Len(seen)])
            /\ relay' = "read" /\ UNCHANGED ending
  BY DEF Relay!SendChunk, Relay!EndStream, Relay!Room, Relay!acc
<1>2. ending = "none" /\ jobs = <<>> /\ ~finalized
  BY <1>1 DEF RelayIInv, Accounted
<1>3. Accounted(relay', ending', latest', sawTerminal', finalized', seen', jobs')
  BY <1>1, <1>2 DEF RelayIInv, Accounted
<1>4. CASE consumer # "open"
  <2>1. relay' = "finalize" /\ ending' = "ConsumerDropped" /\ UNCHANGED chan
    BY <1>1, <1>4
  <2>2. RelayTypes'
    BY <1>1, <2>1 DEF RelayIInv, RelayTypes, Stages, Endings
  <2>3. chan = <<>> /\ LeftWith(relay, ending, seen, out) /\ consumer \notin {"none", "plain"}
    BY <1>1, <1>2, <1>4 DEF RelayIInv, RelayTypes, Delivered
  <2>4. LeftWith(relay', ending', seen, out)
    BY <1>1, <2>3 DEF LeftWith
  <2>5. Delivered(relay', ending', seen', chan', consumer', out')
    BY <1>1, <1>4, <2>1, <2>3, <2>4 DEF Delivered, RelayIInv, RelayTypes
  <2> QED BY <1>3, <2>2, <2>5 DEF RelayIInv
<1>5. CASE consumer = "open"
  <2>1. PICK f : f = seen[Len(seen)]
    OBVIOUS
  <2>2. /\ Len(chan) < Buffer /\ chan' = Append(chan, f) /\ relay' = "read" /\ UNCHANGED ending
    BY <1>1, <1>5, <2>1
  <2>3. PICK n \in 0 .. Len(chan) :
           /\ Len(out) + n = Len(seen) - 1
           /\ \A i \in 1 .. Len(out) : out[i] = seen[i]
           /\ \A i \in 1 .. n : chan[i] = seen[Len(out) + i]
           /\ \A i \in n + 1 .. Len(chan) : FALSE
    BY <1>1, <1>5 DEF RelayIInv, Delivered, Following, Trailing
  <2>4. /\ Len(out) \in Nat /\ Len(chan) \in Nat /\ Len(seen) \in Nat /\ seen \in Seq(Frames)
        /\ n = Len(chan)
    <3>1. Len(out) \in Nat /\ Len(chan) \in Nat /\ Len(seen) \in Nat /\ seen \in Seq(Frames)
      BY DEF RelayIInv, RelayTypes
    <3> QED BY <2>3, <3>1
  <2>5. f \in Events /\ Len(seen) = Len(out) + n + 1
    BY <2>1, <2>3, <2>4 DEF Events
  <2>6. /\ chan' \in Seq(Events) /\ Len(chan') = n + 1 /\ Len(chan') <= Buffer
        /\ chan'[n + 1] = f /\ \A i \in 1 .. n : chan'[i] = chan[i]
    BY <1>1, <1>5, <2>2, <2>4, <2>5, AppendEvent
  <2>7. RelayTypes'
    BY <1>1, <1>5, <2>2, <2>6 DEF RelayIInv, RelayTypes, Stages
  <2>8. \A i \in 1 .. n + 1 : chan'[i] = seen[Len(out) + i]
    <3>1. SUFFICES ASSUME NEW i \in 1 .. n + 1 PROVE chan'[i] = seen[Len(out) + i]
      OBVIOUS
    <3>2. CASE i = n + 1
      <4>1. Len(out) + i = Len(seen)
        BY <2>4, <2>5, <3>2
      <4> QED BY <2>1, <2>6, <3>2, <4>1
    <3>3. CASE i # n + 1
      <4>1. i \in 1 .. n
        BY <2>4, <3>3
      <4> QED BY <2>3, <2>6, <4>1
    <3> QED BY <3>2, <3>3
  <2>9. Following("read", ending, seen, chan', out)
    <3>1. /\ n + 1 \in 0 .. Len(chan') /\ Len(out) + (n + 1) = Len(seen)
          /\ \A i \in (n + 1) + 1 .. Len(chan') : FALSE
      BY <2>4, <2>5, <2>6
    <3> QED BY <2>3, <2>8, <3>1 DEF Following
  <2>10. Delivered(relay', ending', seen', chan', consumer', out')
    BY <1>1, <1>2, <1>5, <2>2, <2>9 DEF Delivered
  <2> QED BY <1>3, <2>7, <2>10 DEF RelayIInv
<1> QED BY <1>4, <1>5

(* finalize_stream_usage: a confirmed end is billed as stated, any other not. *)
LEMMA FinalizePreserves ==
    ASSUME RelayIInv, Relay!Finalize
    PROVE  RelayIInv'
<1>1. /\ relay = "finalize" /\ relay' \in {"usage", "terminal"}
      /\ UNCHANGED <<ending, sawTerminal, seen, chan, consumer, out>>
  BY DEF Relay!Finalize
<1>2. /\ ending \notin {"none", "plain"} /\ jobs = <<>> /\ ~finalized /\ Accumulated(seen, latest)
      /\ sawTerminal <=> Terminated(seen)
  BY <1>1 DEF RelayIInv, Accounted
<1>3. seen \in Seq(Frames)
  BY DEF RelayIInv, RelayTypes
<1>4. PICK s, u : s = seen /\ u = Relay!TakeFinalUsage
  OBVIOUS
<1>5. PICK p \in Counts, c \in Counts, k \in Counts :
         /\ Stating(s, p, c, k)
         /\ latest = IF p = Relay!None /\ c = Relay!None /\ k = Relay!None THEN Relay!NoUsage
                     ELSE Totals(p, c, k)
  BY <1>2, <1>4 DEF Accumulated
<1>6. /\ Relay!ClampCached(Totals(p, c, k)) = Stated(s) /\ Stated(s) \in Usages
      /\ Stated(s).prompt \in Nat /\ Stated(s).completion \in Nat
      /\ Relay!Billable(Stated(s)) <=> Used(s)
  BY <1>3, <1>4, <1>5, ClampedIsStated
<1>7. u \in Usages /\ (Relay!Billable(u) <=> Used(s)) /\ (Relay!Billable(u) => u = Stated(s))
  <2>1. CASE latest = Relay!NoUsage
    <3>1. u = Relay!NoUsage
      BY <1>4, <2>1 DEF Relay!TakeFinalUsage
    <3>2. Totals(p, c, k).prompt = OrZero(p) /\ OrZero(p) # Relay!None
      BY <1>5 DEF Totals, OrZero, Relay!None, Counts
    <3>3. Relay!NoUsage.prompt = Relay!None
      BY DEF Relay!NoUsage
    <3>4. p = Relay!None /\ c = Relay!None
      BY <1>5, <2>1, <3>2, <3>3
    <3>5. Stated(s).prompt = 0 /\ Stated(s).completion = 0
      BY <1>3, <1>4, <1>5, <3>4, StatedValue DEF OrZero
    <3> QED BY <3>1, <3>5, EmptyAnswer DEF Relay!Billable, Used
  <2>2. CASE latest # Relay!NoUsage
    <3>1. u = Stated(s)
      BY <1>4, <1>5, <1>6, <2>2 DEF Relay!TakeFinalUsage
    <3> QED BY <1>6, <3>1
  <2> QED BY <2>1, <2>2
<1>8. CASE Relay!CanFinalize
  <2>1. /\ finalized' = TRUE /\ latest' = Relay!NoUsage /\ Relay!Publish(u)
    BY <1>4, <1>8 DEF Relay!Finalize
  <2>2. /\ jobs' \in Seq(Jobs) /\ Len(jobs') <= 1
        /\ \A j \in DOMAIN jobs' : /\ jobs'[j].usage = u /\ jobs'[j].sent <= jobs'[j].tries
                                   /\ jobs'[j].pc # "done" => jobs'[j].tries < MaxTries
        /\ jobs' # <<>> <=> Relay!Billable(u)
    BY <1>2, <1>7, <2>1, PublishBills
  <2>3. RelayTypes'
    BY <1>1, <2>1, <2>2, EmptyAnswer DEF RelayIInv, RelayTypes, Stages
  <2>4. \A j \in DOMAIN jobs' : jobs'[j].usage = Stated(seen')
    <3>1. SUFFICES ASSUME NEW j \in DOMAIN jobs' PROVE jobs'[j].usage = Stated(seen')
      OBVIOUS
    <3>2. jobs' # <<>>
      BY <3>1
    <3> QED BY <1>1, <1>4, <1>7, <2>2, <3>2
  <2>5. ending = "ProviderDone" \/ Terminated(seen)
    BY <1>2, <1>8 DEF Relay!CanFinalize
  <2>6. jobs' # <<>> <=> (ending = "ProviderDone" \/ Terminated(seen)) /\ Used(seen)
    BY <1>4, <1>7, <2>2, <2>5
  <2>7. Accounted(relay', ending', latest', sawTerminal', finalized', seen', jobs')
    BY <1>1, <1>2, <2>1, <2>2, <2>4, <2>6 DEF Accounted
  <2>8. Delivered(relay', ending', seen', chan', consumer', out')
    BY <1>1, <1>2, StageMoves
  <2> QED BY <2>3, <2>7, <2>8 DEF RelayIInv
<1>9. CASE ~Relay!CanFinalize
  <2>1. relay' = "terminal" /\ UNCHANGED <<finalized, latest, jobs>>
    BY <1>9 DEF Relay!Finalize
  <2>2. RelayTypes'
    BY <1>1, <2>1 DEF RelayIInv, RelayTypes, Stages
  <2>3. ~(ending = "ProviderDone" \/ Terminated(seen))
    BY <1>2, <1>9 DEF Relay!CanFinalize
  <2>4. Accounted(relay', ending', latest', sawTerminal', finalized', seen', jobs')
    BY <1>1, <1>2, <2>1, <2>3 DEF RelayIInv, Accounted
  <2>5. Delivered(relay', ending', seen', chan', consumer', out')
    BY <1>1, <1>2, <2>1, StageMoves
  <2> QED BY <2>2, <2>4, <2>5 DEF RelayIInv
<1> QED BY <1>8, <1>9

(* What follows the frames: the usage for the server, then Done or Error. *)
LEMMA TellPreserves ==
    ASSUME RelayIInv, NEW m \in Notes, Relay!Tell(m) \/ UNCHANGED chan,
           \/ relay = "usage" /\ relay' = "terminal"
           \/ relay = "terminal" /\ relay' = "ended",
           Trailing(relay', ending, m),
           UNCHANGED <<ending, latest, sawTerminal, finalized, seen, consumer, out, jobs>>
    PROVE  RelayIInv'
<1>1. Accounted(relay', ending', latest', sawTerminal', finalized', seen', jobs')
  BY DEF RelayIInv, Accounted
<1>2. /\ ending # "plain" /\ consumer \notin {"none", "plain"}
      /\ consumer = "open" => Following(relay, ending, seen, chan, out)
      /\ consumer # "open" => chan = <<>> /\ LeftWith(relay, ending, seen, out)
  BY DEF RelayIInv, RelayTypes, Accounted, Delivered
<1>3. CASE consumer # "open"
  <2>1. UNCHANGED chan
    BY <1>3 DEF Relay!Tell
  <2>2. RelayTypes'
    BY <2>1 DEF RelayIInv, RelayTypes, Stages
  <2>3. LeftWith(relay', ending', seen, out)
    BY <1>2, <1>3 DEF LeftWith
  <2>4. Delivered(relay', ending', seen', chan', consumer', out')
    BY <1>2, <1>3, <2>1, <2>3 DEF Delivered
  <2> QED BY <1>1, <2>2, <2>4 DEF RelayIInv
<1>4. CASE consumer = "open"
  <2>1. PICK n \in 0 .. Len(chan) :
           /\ Len(out) + n = Len(seen)
           /\ \A i \in 1 .. Len(out) : out[i] = seen[i]
           /\ \A i \in 1 .. n : chan[i] = seen[Len(out) + i]
           /\ \A i \in n + 1 .. Len(chan) : Trailing(relay', ending, chan[i])
    BY <1>2, <1>4 DEF Following, Trailing
  <2>2. CASE UNCHANGED chan
    <3>1. RelayTypes'
      BY <2>2 DEF RelayIInv, RelayTypes, Stages
    <3>2. Following(relay', ending', seen, chan, out)
      BY <2>1 DEF Following
    <3>3. Delivered(relay', ending', seen', chan', consumer', out')
      BY <1>2, <1>4, <2>2, <3>2 DEF Delivered
    <3> QED BY <1>1, <3>1, <3>3 DEF RelayIInv
  <2>3. CASE Relay!Tell(m)
    <3>1. Len(chan) < Buffer /\ chan' = Append(chan, m) /\ m \in Events
      BY <1>4, <2>3 DEF Relay!Tell, Relay!Room, Events
    <3>2. /\ chan' \in Seq(Events) /\ Len(chan') = Len(chan) + 1 /\ Len(chan) \in Nat
          /\ Len(chan') <= Buffer
          /\ chan'[Len(chan) + 1] = m /\ \A i \in 1 .. Len(chan) : chan'[i] = chan[i]
      BY <1>4, <3>1, AppendEvent
    <3>3. RelayTypes'
      BY <1>4, <3>2 DEF RelayIInv, RelayTypes, Stages
    <3>4. n \in 0 .. Len(chan') /\ \A i \in 1 .. n : chan'[i] = seen[Len(out) + i]
      BY <2>1, <3>2
    <3>5. \A i \in n + 1 .. Len(chan') : Trailing(relay', ending, chan'[i])
      <4>1. SUFFICES ASSUME NEW i \in n + 1 .. Len(chan') PROVE Trailing(relay', ending, chan'[i])
        OBVIOUS
      <4>2. CASE i = Len(chan) + 1
        BY <3>2, <4>2
      <4>3. CASE i # Len(chan) + 1
        <5>1. i \in n + 1 .. Len(chan) /\ chan'[i] = chan[i]
          BY <3>2, <4>3
        <5> QED BY <2>1, <5>1
      <4> QED BY <4>2, <4>3
    <3>6. Following(relay', ending', seen, chan', out)
      BY <2>1, <3>4, <3>5 DEF Following
    <3>7. Delivered(relay', ending', seen', chan', consumer', out')
      BY <1>2, <1>4, <3>6 DEF Delivered
    <3> QED BY <1>1, <3>3, <3>7 DEF RelayIInv
  <2> QED BY <2>2, <2>3
<1> QED BY <1>3, <1>4

LEMMA SendNotesPreserves ==
    ASSUME RelayIInv, Relay!SendUsage \/ Relay!SendTerminal
    PROVE  RelayIInv'
<1>1. UNCHANGED <<ending, latest, sawTerminal, finalized, seen, consumer, out, jobs>>
  BY DEF Relay!SendUsage, Relay!SendTerminal, Relay!acc
<1>2. /\ Relay!Note("Usage") \in Notes /\ Relay!Note("Done") \in Notes /\ Relay!Note("Error") \in Notes
  BY DEF Notes
<1>3. CASE Relay!SendUsage
  <2>1. Trailing("terminal", ending, Relay!Note("Usage"))
    BY DEF Trailing
  <2> QED BY <1>1, <1>2, <1>3, <2>1, TellPreserves DEF Relay!SendUsage
<1>4. CASE Relay!SendTerminal
  <2>1. relay = "terminal" /\ relay' = "ended"
    BY <1>4 DEF Relay!SendTerminal
  <2>2. CASE ending \in {"ProviderDone", "EndOfStream"}
    <3>1. Relay!Tell(Relay!Note("Done")) /\ Trailing("ended", ending, Relay!Note("Done"))
      BY <1>4, <2>2 DEF Relay!SendTerminal, Trailing
    <3> QED BY <1>1, <1>2, <2>1, <3>1, TellPreserves
  <2>3. CASE ending \notin {"ProviderDone", "EndOfStream"}
    <3>1. /\ Relay!Tell(Relay!Note("Error")) \/ UNCHANGED chan
          /\ Trailing("ended", ending, Relay!Note("Error"))
      BY <1>4, <2>3 DEF Relay!SendTerminal, Trailing
    <3> QED BY <1>1, <1>2, <2>1, <3>1, TellPreserves
  <2> QED BY <2>2, <2>3
<1> QED BY <1>3, <1>4

(* The head of the channel is the client's next frame, or a note behind all *)
(* of them.                                                                 *)
LEMMA HeadOfChannel ==
    ASSUME RelayIInv, consumer = "open", chan # <<>>
    PROVE  /\ chan[1] = Head(chan) /\ Head(chan) \in Events
           /\ Len(chan) \in Nat \ {0} /\ Len(out) \in Nat
           /\ \/ /\ Head(chan) \in Frames /\ Len(out) < Len(seen)
                 /\ Head(chan) = seen[Len(out) + 1]
              \/ /\ Trailing(relay, ending, Head(chan)) /\ Len(out) = Len(seen)
<1>1. chan \in Seq(Events) /\ out \in Seq(Events) /\ seen \in Seq(Frames)
  BY DEF RelayIInv, RelayTypes
<1>2. chan[1] = Head(chan) /\ Head(chan) \in Events /\ Len(chan) \in Nat \ {0} /\ Len(out) \in Nat
  BY <1>1
<1>3. PICK n \in 0 .. Len(chan) :
         /\ Len(out) + n = IF relay = "chunk" THEN Len(seen) - 1 ELSE Len(seen)
         /\ \A i \in 1 .. Len(out) : out[i] = seen[i]
         /\ \A i \in 1 .. n : chan[i] = seen[Len(out) + i]
         /\ \A i \in n + 1 .. Len(chan) : Trailing(relay, ending, chan[i])
  BY DEF RelayIInv, Delivered, Following
<1>4. CASE n = 0
  <2>1. 1 \in n + 1 .. Len(chan)
    BY <1>2, <1>4
  <2>2. Trailing(relay, ending, Head(chan))
    BY <1>2, <1>3, <2>1
  <2>3. relay # "chunk"
    BY <2>2 DEF Trailing
  <2> QED BY <1>1, <1>2, <1>3, <1>4, <2>2, <2>3
<1>5. CASE n # 0
  <2>1. 1 \in 1 .. n
    BY <1>2, <1>5
  <2>2. Head(chan) = seen[Len(out) + 1]
    BY <1>2, <1>3, <2>1
  <2>3. Len(seen) \in Nat /\ Len(out) < Len(seen)
    BY <1>1, <1>2, <1>3, <1>5
  <2>4. seen[Len(out) + 1] \in Frames
    BY <1>1, <1>2, <2>3
  <2> QED BY <1>2, <2>2, <2>3, <2>4
<1> QED BY <1>4, <1>5

(* The frames the client has stay its first ones when it stops reading, with *)
(* or without a closing event.                                               *)
LEMMA StopsReading ==
    ASSUME RelayIInv, consumer = "open", consumer' \in {"dropped", "finished"}, chan' = <<>>,
           \/ out' = out
           \/ \E m \in Relay!Closing :
                /\ out' = Append(out, m)
                /\ m = Relay!Note("Done") =>
                     Len(out) = Len(seen) /\ relay = "ended" /\ ending \in {"ProviderDone", "EndOfStream"},
           UNCHANGED <<relay, ending, latest, sawTerminal, finalized, seen, jobs>>
    PROVE  RelayIInv'
<1>1. chan \in Seq(Events) /\ out \in Seq(Events) /\ seen \in Seq(Frames)
  BY DEF RelayIInv, RelayTypes
<1>2. PICK n \in 0 .. Len(chan) :
         /\ Len(out) + n = IF relay = "chunk" THEN Len(seen) - 1 ELSE Len(seen)
         /\ \A i \in 1 .. Len(out) : out[i] = seen[i]
  BY DEF RelayIInv, Delivered, Following
<1>3. Len(out) \in 0 .. Len(seen)
  BY <1>1, <1>2
<1>4. ending # "plain" /\ relay # "call"
  BY DEF RelayIInv, Delivered
<1>5. out' \in Seq(Events) /\ LeftWith(relay, ending, seen, out')
  <2>1. CASE out' = out
    BY <1>1, <1>2, <1>3, <2>1 DEF LeftWith
  <2>2. CASE out' # out
    <3>1. PICK m \in Relay!Closing :
                /\ out' = Append(out, m)
                /\ m = Relay!Note("Done") =>
                     Len(out) = Len(seen) /\ relay = "ended" /\ ending \in {"ProviderDone", "EndOfStream"}
      BY <2>2
    <3>2. m \in Events
      BY NotesAreNoFrames DEF Events
    <3>3. /\ out' \in Seq(Events) /\ Len(out') = Len(out) + 1 /\ out'[Len(out) + 1] = m
          /\ \A i \in 1 .. Len(out) : out'[i] = out[i]
      BY <1>1, <3>1, <3>2
    <3> QED BY <1>2, <1>3, <3>1, <3>3 DEF LeftWith
  <2> QED BY <2>1, <2>2
<1>6. RelayTypes'
  <2>1. chan' \in Seq(Events) /\ Len(chan') = 0
    OBVIOUS
  <2> QED BY <1>5, <2>1, RelayConstants DEF RelayIInv, RelayTypes
<1>7. Accounted(relay', ending', latest', sawTerminal', finalized', seen', jobs')
  BY DEF RelayIInv
<1>8. Delivered(relay', ending', seen', chan', consumer', out')
  BY <1>4, <1>5 DEF Delivered
<1> QED BY <1>6, <1>7, <1>8 DEF RelayIInv

(* The generator hands on a frame, drops the usage, and stops at Done or Error. *)
LEMMA ConsumePreserves ==
    ASSUME RelayIInv, Relay!Consume
    PROVE  RelayIInv'
<1>1. PICK m : m = Head(chan)
  OBVIOUS
<1>2. /\ consumer = "open" /\ chan # <<>>
      /\ out' = IF m # Relay!Note("Usage") THEN Append(out, m) ELSE out
      /\ consumer' = IF m \in Relay!Closing THEN "finished" ELSE "open"
      /\ chan' = IF m \in Relay!Closing THEN <<>> ELSE Tail(chan)
      /\ UNCHANGED <<relay, ending, latest, sawTerminal, finalized, seen, jobs>>
  BY <1>1 DEF Relay!Consume, Relay!Relayed, Relay!acc
<1>3. /\ chan[1] = m /\ m \in Events /\ Len(chan) \in Nat \ {0} /\ Len(out) \in Nat
      /\ \/ m \in Frames /\ Len(out) < Len(seen) /\ m = seen[Len(out) + 1]
         \/ Trailing(relay, ending, m) /\ Len(out) = Len(seen)
  BY <1>1, <1>2, HeadOfChannel
<1>4. CASE m \in Relay!Closing
  <2>1. m # Relay!Note("Usage") /\ m \notin Frames
    BY <1>4, NotesAreNoFrames
  <2>2. m = Relay!Note("Done") =>
          Len(out) = Len(seen) /\ relay = "ended" /\ ending \in {"ProviderDone", "EndOfStream"}
    BY <1>3, <2>1, NotesAreNoFrames DEF Trailing
  <2> QED BY <1>2, <1>4, <2>1, <2>2, StopsReading
<1>5. CASE m \notin Relay!Closing
  <2>1. chan \in Seq(Events) /\ out \in Seq(Events) /\ seen \in Seq(Frames) /\ ending # "plain"
        /\ relay # "call"
    BY <1>2 DEF RelayIInv, RelayTypes, Delivered
  <2>2. /\ chan' \in Seq(Events) /\ Len(chan') = Len(chan) - 1
        /\ \A i \in 1 .. Len(chan) - 1 : chan'[i] = chan[i + 1]
    BY <1>2, <1>5, <2>1
  <2>3. PICK n \in 0 .. Len(chan) :
           /\ Len(out) + n = IF relay = "chunk" THEN Len(seen) - 1 ELSE Len(seen)
           /\ \A i \in 1 .. Len(out) : out[i] = seen[i]
           /\ \A i \in 1 .. n : chan[i] = seen[Len(out) + i]
           /\ \A i \in n + 1 .. Len(chan) : Trailing(relay, ending, chan[i])
    BY <1>2 DEF RelayIInv, Delivered, Following
  <2>4. CASE m \in Frames
    <3>1. out' = Append(out, m)
      BY <1>2, <2>4, NotesAreNoFrames
    <3>2. /\ out' \in Seq(Events) /\ Len(out') = Len(out) + 1 /\ out'[Len(out) + 1] = m
          /\ \A i \in 1 .. Len(out) : out'[i] = out[i]
      BY <1>3, <2>1, <3>1
    <3>3. m = seen[Len(out) + 1] /\ n # 0
      <4>1. ~Trailing(relay, ending, m)
        BY <2>4, NotesAreNoFrames DEF Trailing
      <4>2. m = seen[Len(out) + 1]
        BY <1>3, <4>1
      <4>3. ASSUME n = 0 PROVE FALSE
        <5>1. 1 \in n + 1 .. Len(chan)
          BY <1>3, <4>3
        <5> QED BY <1>3, <2>3, <4>1, <5>1
      <4> QED BY <4>2, <4>3
    <3>4. n - 1 \in 0 .. Len(chan') /\ Len(out') + (n - 1) = Len(out) + n
      BY <1>3, <2>2, <3>2, <3>3
    <3>5. \A i \in 1 .. Len(out') : out'[i] = seen[i]
      <4>1. SUFFICES ASSUME NEW i \in 1 .. Len(out') PROVE out'[i] = seen[i]
        OBVIOUS
      <4>2. CASE i = Len(out) + 1
        BY <3>2, <3>3, <4>2
      <4>3. CASE i # Len(out) + 1
        <5>1. i \in 1 .. Len(out)
          BY <1>3, <3>2, <4>3
        <5> QED BY <2>3, <3>2, <5>1
      <4> QED BY <4>2, <4>3
    <3>6. \A i \in 1 .. n - 1 : chan'[i] = seen[Len(out') + i]
      <4>1. SUFFICES ASSUME NEW i \in 1 .. n - 1 PROVE chan'[i] = seen[Len(out') + i]
        OBVIOUS
      <4>2. i \in 1 .. Len(chan) - 1 /\ i + 1 \in 1 .. n /\ Len(out') + i = Len(out) + (i + 1)
        BY <1>3, <3>2, <3>3
      <4> QED BY <2>2, <2>3, <4>2
    <3>7. \A i \in (n - 1) + 1 .. Len(chan') : Trailing(relay, ending, chan'[i])
      <4>1. SUFFICES ASSUME NEW i \in (n - 1) + 1 .. Len(chan') PROVE Trailing(relay, ending, chan'[i])
        OBVIOUS
      <4>2. i \in 1 .. Len(chan) - 1 /\ i + 1 \in n + 1 .. Len(chan)
        BY <1>3, <2>2, <3>3
      <4> QED BY <2>2, <2>3, <4>2
    <3>8. Following(relay, ending, seen, chan', out')
      BY <2>3, <3>4, <3>5, <3>6, <3>7 DEF Following
    <3>9. RelayTypes'
      BY <1>2, <1>3, <1>5, <2>2, <3>2, RelayConstants DEF RelayIInv, RelayTypes
    <3>10. Delivered(relay', ending', seen', chan', consumer', out')
      BY <1>2, <1>5, <2>1, <3>8 DEF Delivered
    <3> QED BY <1>2, <3>9, <3>10 DEF RelayIInv
  <2>5. CASE m \notin Frames
    <3>1. m = Relay!Note("Usage") /\ Len(out) = Len(seen)
      BY <1>3, <1>5, <2>5, NotesAreNoFrames DEF Trailing
    <3>2. out' = out
      BY <1>2, <3>1
    <3>3. n = 0 /\ relay # "chunk"
      <4>1. Len(seen) \in Nat
        BY <2>1
      <4>2. relay # "chunk"
        BY <1>3, <2>5 DEF Trailing
      <4> QED BY <1>3, <2>3, <3>1, <4>1, <4>2
    <3>4. \A i \in 0 + 1 .. Len(chan') : Trailing(relay, ending, chan'[i])
      <4>1. SUFFICES ASSUME NEW i \in 0 + 1 .. Len(chan') PROVE Trailing(relay, ending, chan'[i])
        OBVIOUS
      <4>2. i \in 1 .. Len(chan) - 1 /\ i + 1 \in n + 1 .. Len(chan)
        BY <1>3, <2>2, <3>3
      <4> QED BY <2>2, <2>3, <4>2
    <3>5. 0 \in 0 .. Len(chan') /\ Len(out) + 0 = Len(seen)
      BY <1>3, <2>2, <3>1
    <3>6. Following(relay, ending, seen, chan', out)
      BY <2>3, <3>3, <3>4, <3>5 DEF Following
    <3>7. RelayTypes'
      BY <1>2, <1>3, <1>5, <2>2, <3>2, RelayConstants DEF RelayIInv, RelayTypes
    <3>8. Delivered(relay', ending', seen', chan', consumer', out')
      BY <1>2, <1>5, <2>1, <3>2, <3>6 DEF Delivered
    <3> QED BY <1>2, <3>7, <3>8 DEF RelayIInv
  <2> QED BY <2>4, <2>5
<1> QED BY <1>4, <1>5

LEMMA ConsumerLeaves ==
    ASSUME RelayIInv, Relay!EncryptionFails \/ Relay!ClientLeaves
    PROVE  RelayIInv'
<1>1. /\ consumer = "open" /\ consumer' = "dropped" /\ chan' = <<>>
      /\ out' = out \/ out' = Append(out, Relay!Note("Error"))
      /\ UNCHANGED <<relay, ending, latest, sawTerminal, finalized, seen, jobs>>
  BY DEF Relay!EncryptionFails, Relay!ClientLeaves, Relay!acc
<1>2. Relay!Note("Error") \in Relay!Closing /\ Relay!Note("Error") # Relay!Note("Done")
  BY NotesAreNoFrames
<1> QED BY <1>1, <1>2, StopsReading

(* Recording and publishing a usage changes neither its amount nor the number *)
(* of its jobs.                                                               *)
LEMMA RecordingPreserves ==
    ASSUME RelayIInv, NEW j \in DOMAIN jobs,
           Relay!StoreRow(j) \/ Relay!PublishEvent(j) \/ Relay!NoPublisher(j)
    PROVE  RelayIInv'
<1>1. PICK job : job = jobs[j]
  OBVIOUS
<1>2. /\ jobs \in Seq(Jobs) /\ job \in Jobs /\ job.tries \in Nat /\ job.sent \in Nat /\ job.rows \in 0 .. 1
      /\ job.sent <= job.tries /\ (job.pc # "done" => job.tries < MaxTries)
  <2>1. jobs \in Seq(Jobs) /\ job \in Jobs
    BY <1>1 DEF RelayIInv, RelayTypes
  <2> QED BY <1>1, <2>1, RelayConstants DEF RelayIInv, RelayTypes, Jobs
<1>3. \E new \in Jobs : /\ Relay!Job(j, new) /\ new.usage = job.usage /\ new.sent <= new.tries
                        /\ new.pc # "done" => new.tries < MaxTries
  <2>1. CASE Relay!StoreRow(j)
    <3>1. PICK n \in {0, 1} : Relay!Job(j, [job EXCEPT !.rows = n, !.pc = "sqs"]) /\ job.pc = "row"
      BY <1>1, <2>1 DEF Relay!StoreRow
    <3>2. PICK new : new = [job EXCEPT !.rows = n, !.pc = "sqs"]
      OBVIOUS
    <3>3. n \in 0 .. 1
      BY <3>1
    <3>4. new \in Jobs
      BY <1>2, <3>2, <3>3 DEF Jobs
    <3>5. new.usage = job.usage /\ new.sent = job.sent /\ new.tries = job.tries
      BY <1>2, <3>2 DEF Jobs
    <3> QED BY <1>2, <3>1, <3>2, <3>4, <3>5
  <2>2. CASE Relay!PublishEvent(j)
    <3>1. PICK n \in {0, 1}, l \in {"sqs", "done"} :
             /\ Relay!Job(j, [job EXCEPT !.sent = job.sent + n, !.tries = job.tries + 1, !.pc = l])
             /\ job.pc = "sqs" /\ (l = "sqs" => job.tries + 1 # MaxTries)
      BY <1>1, <2>2 DEF Relay!PublishEvent
    <3>2. PICK new : new = [job EXCEPT !.sent = job.sent + n, !.tries = job.tries + 1, !.pc = l]
      OBVIOUS
    <3>3. job.tries + 1 \in 0 .. MaxTries /\ job.sent + n \in Nat /\ job.sent + n <= job.tries + 1
          /\ (l = "sqs" => job.tries + 1 < MaxTries)
      BY <1>2, <3>1, RelayConstants
    <3>4. new \in Jobs /\ new.usage = job.usage /\ new.sent = job.sent + n /\ new.tries = job.tries + 1
          /\ new.pc = l
      BY <1>2, <3>2, <3>3 DEF Jobs
    <3> QED BY <3>1, <3>2, <3>3, <3>4
  <2>3. CASE Relay!NoPublisher(j)
    <3>1. PICK new : new = [job EXCEPT !.pc = "done"]
      OBVIOUS
    <3>2. new \in Jobs /\ new.usage = job.usage /\ new.sent = job.sent /\ new.tries = job.tries
          /\ new.pc = "done"
      BY <1>2, <3>1 DEF Jobs
    <3>3. Relay!Job(j, new)
      BY <1>1, <2>3, <3>1 DEF Relay!NoPublisher
    <3> QED BY <1>2, <3>2, <3>3
  <2> QED BY <2>1, <2>2, <2>3
<1>4. PICK new \in Jobs : /\ Relay!Job(j, new) /\ new.usage = job.usage /\ new.sent <= new.tries
                          /\ new.pc # "done" => new.tries < MaxTries
  BY <1>3
<1>5. /\ jobs' = [jobs EXCEPT ![j] = new]
      /\ UNCHANGED <<relay, ending, latest, sawTerminal, finalized, seen, chan, consumer, out>>
  BY <1>4 DEF Relay!Job, Relay!acc
<1>6. /\ jobs' \in Seq(Jobs) /\ Len(jobs') = Len(jobs) /\ DOMAIN jobs' = DOMAIN jobs
      /\ \A i \in DOMAIN jobs : jobs'[i] = IF i = j THEN new ELSE jobs[i]
  BY <1>2, <1>5
<1>7. RelayTypes'
  <2>1. \A i \in DOMAIN jobs' : /\ jobs'[i].sent <= jobs'[i].tries
                                /\ jobs'[i].pc # "done" => jobs'[i].tries < MaxTries
    BY <1>4, <1>6 DEF RelayIInv, RelayTypes
  <2> QED BY <1>5, <1>6, <2>1 DEF RelayIInv, RelayTypes
<1>8. jobs # <<>> /\ jobs' # <<>>
  BY <1>6
<1>9. Accounted(relay', ending', latest', sawTerminal', finalized', seen', jobs')
  <2>1. \A i \in DOMAIN jobs' : jobs'[i].usage = Stated(seen)
    BY <1>1, <1>4, <1>6 DEF RelayIInv, Accounted
  <2> QED BY <1>5, <1>6, <1>8, <2>1 DEF RelayIInv, Accounted
<1>10. Delivered(relay', ending', seen', chan', consumer', out')
  BY <1>5 DEF RelayIInv
<1> QED BY <1>7, <1>9, <1>10 DEF RelayIInv

(* Every step of the call, the relay, the consumer and the recording keeps it. *)
LEMMA RelayStep == RelayIInv /\ [Relay!Next]_(Relay!vars) => RelayIInv'
<1> SUFFICES ASSUME RelayIInv, [Relay!Next]_(Relay!vars) PROVE RelayIInv'
  OBVIOUS
<1>1. CASE UNCHANGED Relay!vars
  BY <1>1 DEF Relay!vars, Relay!acc, RelayIInv, RelayTypes
<1>2. CASE Relay!Call
  BY <1>2, CallEnds, PlainAnswerPreserves, StreamStartsPreserves DEF Relay!Call
<1>3. CASE Relay!Relay
  BY <1>3, ReadFramePreserves, ReadEndsPreserves, SendChunkPreserves, FinalizePreserves,
     SendNotesPreserves DEF Relay!Relay
<1>4. CASE Relay!Consumer
  BY <1>4, ConsumePreserves, ConsumerLeaves, PlainConsumePreserves DEF Relay!Consumer
<1>5. CASE Relay!Recording
  BY <1>5, RecordingPreserves DEF Relay!Recording
<1> QED BY <1>1, <1>2, <1>3, <1>4, <1>5 DEF Relay!Next

(* RelayIInv contains what RelayIsExact says. *)
LEMMA RelayIInvImplies == RelayIInv => RelayIsExact
<1> SUFFICES ASSUME RelayIInv PROVE RelayIsExact
  OBVIOUS
<1>1. Relay!StatedUsage = Stated(seen)
  BY DEF Relay!StatedUsage, Relay!LastStated, Stated, LastOf
<1>2. Relay!TypeOK
  <2>1. \A j \in DOMAIN jobs : /\ jobs[j].rows \in 0 .. 1 /\ jobs[j].tries \in 0 .. MaxTries
                               /\ jobs[j].sent \in 0 .. jobs[j].tries
    <3>1. SUFFICES ASSUME NEW j \in DOMAIN jobs
                   PROVE  /\ jobs[j].rows \in 0 .. 1 /\ jobs[j].tries \in 0 .. MaxTries
                          /\ jobs[j].sent \in 0 .. jobs[j].tries
      OBVIOUS
    <3>2. jobs[j] \in Jobs /\ jobs[j].sent <= jobs[j].tries
      BY DEF RelayIInv, RelayTypes
    <3> QED BY <3>2, RelayConstants DEF Jobs
  <2> QED BY <2>1 DEF RelayIInv, RelayTypes, Relay!TypeOK, Stages, Endings, Usages, Counts
<1>3. Relay!BilledOnceAsStated
  BY <1>1 DEF RelayIInv, Accounted, Relay!BilledOnceAsStated
<1>4. Relay!ConfirmedIsBilled
  BY <1>1 DEF RelayIInv, Accounted, Relay!ConfirmedIsBilled, Terminated, Used
<1>5. Relay!ClientSeesPrefix
  <2>1. SUFFICES ASSUME ending # "plain", consumer # "none"
                 PROVE  Relay!ClientSeesPrefix
    BY DEF Relay!ClientSeesPrefix
  <2>2. seen \in Seq(Frames) /\ out \in Seq(Events) /\ Len(out) \in Nat /\ DOMAIN out = 1 .. Len(out)
        /\ \A i \in 1 .. Len(seen) : seen[i] \in Frames
    BY DEF RelayIInv, RelayTypes
  <2>3. \/ consumer = "open" /\ Following(relay, ending, seen, chan, out)
        \/ LeftWith(relay, ending, seen, out)
    BY <2>1 DEF RelayIInv, RelayTypes, Delivered
  <2>4. CASE Len(out) <= Len(seen) /\ \A i \in 1 .. Len(out) : out[i] = seen[i]
    <3>1. \A i \in DOMAIN out : out[i] \notin Relay!Closing /\ out[i] # Relay!Note("Done")
      BY <2>2, <2>4, NotesAreNoFrames
    <3> QED BY <2>2, <2>4, <3>1 DEF Relay!ClientSeesPrefix
  <2>5. ASSUME NEW n \in 0 .. Len(seen), \A i \in 1 .. n : out[i] = seen[i],
               Len(out) = n + 1, out[n + 1] \in Relay!Closing,
               out[n + 1] = Relay!Note("Done") =>
                 n = Len(seen) /\ relay = "ended" /\ ending \in {"ProviderDone", "EndOfStream"}
        PROVE  Relay!ClientSeesPrefix
    <3>1. \A i \in 1 .. n : out[i] \notin Relay!Closing /\ out[i] # Relay!Note("Done")
      BY <2>2, <2>5, NotesAreNoFrames
    <3>2. \A i \in DOMAIN out : i \in 1 .. n \/ i = Len(out)
      BY <2>2, <2>5
    <3>3. \E i \in DOMAIN out : out[i] \in Relay!Closing
      BY <2>2, <2>5
    <3>4. Len(out) - 1 = n
      BY <2>2, <2>5
    <3> QED BY <2>2, <2>5, <3>1, <3>2, <3>3, <3>4 DEF Relay!ClientSeesPrefix
  <2>6. CASE consumer = "open" /\ Following(relay, ending, seen, chan, out)
    <3>1. Len(out) <= Len(seen) /\ \A i \in 1 .. Len(out) : out[i] = seen[i]
      BY <2>2, <2>6 DEF Following
    <3> QED BY <2>4, <3>1
  <2>7. CASE LeftWith(relay, ending, seen, out)
    <3>1. PICK n \in 0 .. Len(seen) :
             /\ \A i \in 1 .. n : out[i] = seen[i]
             /\ \/ Len(out) = n
                \/ /\ Len(out) = n + 1 /\ out[n + 1] \in Relay!Closing
                   /\ out[n + 1] = Relay!Note("Done") =>
                        n = Len(seen) /\ relay = "ended" /\ ending \in {"ProviderDone", "EndOfStream"}
      BY <2>7 DEF LeftWith
    <3>2. CASE Len(out) = n
      BY <2>2, <2>4, <3>1, <3>2
    <3>3. CASE Len(out) # n
      BY <2>5, <3>1, <3>3
    <3> QED BY <3>2, <3>3
  <2> QED BY <2>3, <2>6, <2>7
<1> QED BY <1>2, <1>3, <1>4, <1>5 DEF RelayIsExact

(* RelayIsExact, for any frames, any number of them, any capacity of the     *)
(* channel and any number of attempts to publish: however the provider ends, *)
(* the client leaves and the publication fails, a completion is billed at    *)
(* most once and as stated, a stream exactly if its end was confirmed, and   *)
(* the client gets a prefix of the frames that looks complete only if it is. *)
THEOREM RelaySafety == Relay!Spec => []RelayIsExact
<1>1. Relay!Init => RelayIInv
  BY RelayInit
<1>2. RelayIInv /\ [Relay!Next]_(Relay!vars) => RelayIInv'
  BY RelayStep
<1>3. RelayIInv => RelayIsExact
  BY RelayIInvImplies
<1> HIDE DEF RelayIInv, RelayIsExact
<1> QED BY <1>1, <1>2, <1>3, PTL DEF Relay!Spec
=============================================================================
