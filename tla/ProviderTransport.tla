------------------------- MODULE ProviderTransport -------------------------
(*****************************************************************************)
(* The outbound provider transport (provider_client.rs): one attested        *)
(* Tinfoil client shared by all requests, the background task that discovers *)
(* and attests it, the refresh a request starts when that client no longer   *)
(* connects (its pinned certificate was rotated), and the ordinary client    *)
(* for the other providers.                                                  *)
(*                                                                           *)
(* Two kinds of task may run discovery, the initializer and a refresh; both  *)
(* hold refresh_gate while they do.  A refresh is a task of its own: it goes *)
(* on when the request that started it has timed out.  A step ends at every  *)
(* await and between the two reads of start_background_initialization, which *)
(* run without a common lock.                                                *)
(*                                                                           *)
(* A client is named by the refresh_attempt that installed it; 0 is None.    *)
(* Requests serve once.  Headers and bodies are abstracted to how often a    *)
(* request's body may have reached a provider.                               *)
(*****************************************************************************)
EXTENDS Naturals, FiniteSets

CONSTANTS
    Requests,    \* requests to a provider
    Tasks,       \* bound: initializer tasks alive at once
    MaxDelay     \* TINFOIL_MAX_RETRY_DELAY, in seconds: 30

\* The gate's holder is a task or a request, each known by its own name.
ASSUME TransportAssumption ==
    /\ IsFiniteSet(Requests) /\ Tasks # {} /\ MaxDelay \in Nat \ {0}
    /\ Tasks \intersect Requests = {} /\ "free" \notin Tasks \union Requests

VARIABLES
    client, attempt,   \* SecureClientSlot: the installed client, refresh_attempt
    gate,              \* refresh_gate: its holder, or "free"
    claim,             \* initialization_started
    ipc, claimed,      \* each initializer: its place; InitializationClaim.active
    delay,             \* each initializer's retry_delay
    pc, snap, sent,    \* each request: its place, its snapshot, bodies written
    tpc, res           \* its refresh task: place and result

slot == <<client, attempt>>
init == <<ipc, claimed, delay>>
reqs == <<pc, snap, sent>>
refresh == <<tpc, res>>
vars == <<slot, gate, claim, init, reqs, refresh>>

NoClient == 0
InitialDelay == 1     \* TINFOIL_INITIAL_RETRY_DELAY, in seconds
NoSnapshot == [client |-> NoClient, attempt |-> 0]

Snapshot == [client |-> client, attempt |-> attempt]
Available == client # NoClient

NextRetryDelay(d) == IF 2 * d < MaxDelay THEN 2 * d ELSE MaxDelay

\* ProviderClient::new has called start_background_initialization.
Init ==
    /\ client = NoClient /\ attempt = 0
    /\ gate = "free" /\ claim = TRUE
    /\ \E i \in Tasks :
         /\ ipc = [j \in Tasks |-> IF j = i THEN "gate" ELSE "none"]
         /\ claimed = [j \in Tasks |-> j = i]
    /\ delay = [i \in Tasks |-> InitialDelay]
    /\ pc = [r \in Requests |-> "idle"]
    /\ snap = [r \in Requests |-> NoSnapshot]
    /\ sent = [r \in Requests |-> 0]
    /\ tpc = [r \in Requests |-> "none"]
    /\ res = [r \in Requests |-> NoSnapshot]
-----------------------------------------------------------------------------
(* initialize_until_ready *)

\* start_background_initialization from the compare_exchange on: only who sets
\* initialization_started spawns the loop.
ClaimAndSpawn ==
    IF claim
    THEN UNCHANGED <<claim, init>>
    ELSE /\ claim' = TRUE
         /\ \E i \in Tasks :
              /\ ipc[i] = "none"
              /\ ipc' = [ipc EXCEPT ![i] = "gate"]
              /\ claimed' = [claimed EXCEPT ![i] = TRUE]
              /\ delay' = [delay EXCEPT ![i] = InitialDelay]

ReleaseClaim(i) ==
    IF claimed[i]
    THEN claim' = FALSE /\ claimed' = [claimed EXCEPT ![i] = FALSE]
    ELSE UNCHANGED <<claim, claimed>>

\* Mutant: the initializer does not wait for the gate.
PassGate(i) ==
    /\ ipc[i] = "gate"
    /\ IF Available
       THEN ReleaseClaim(i) /\ ipc' = [ipc EXCEPT ![i] = "end"]
       ELSE ipc' = [ipc EXCEPT ![i] = "discover"] /\ UNCHANGED <<claim, claimed>>
    /\ UNCHANGED <<slot, gate, delay, reqs, refresh>>

\* The gate is taken and the slot read again: another task may have installed
\* a client while this one waited.
LockGate(i) ==
    /\ ipc[i] = "gate" /\ gate = "free"
    /\ IF Available
       THEN ReleaseClaim(i) /\ ipc' = [ipc EXCEPT ![i] = "end"] /\ UNCHANGED gate
       ELSE /\ gate' = i /\ ipc' = [ipc EXCEPT ![i] = "discover"]
            /\ UNCHANGED <<claim, claimed>>
    /\ UNCHANGED <<slot, delay, reqs, refresh>>

\* Discovery succeeded: the client is installed and the claim released while
\* the slot is write-locked.
DiscoverOk(i) ==
    /\ ipc[i] = "discover"
    /\ client' = attempt + 1 /\ attempt' = attempt + 1
    /\ ReleaseClaim(i)
    /\ ipc' = [ipc EXCEPT ![i] = "return"]
    /\ UNCHANGED <<gate, delay, reqs, refresh>>

\* It failed or timed out: the gate is dropped before the sleep.
DiscoverFail(i) ==
    /\ ipc[i] = "discover"
    /\ gate' = "free"
    /\ ipc' = [ipc EXCEPT ![i] = "sleep"]
    /\ UNCHANGED <<slot, claim, claimed, delay, reqs, refresh>>

Wake(i) ==
    /\ ipc[i] = "sleep"
    /\ ipc' = [ipc EXCEPT ![i] = "gate"]
    /\ delay' = [delay EXCEPT ![i] = NextRetryDelay(@)]
    /\ UNCHANGED <<slot, gate, claim, claimed, reqs, refresh>>

\* The loop returns and drops its guard ...
Return(i) ==
    /\ ipc[i] = "return"
    /\ gate' = "free"
    /\ ipc' = [ipc EXCEPT ![i] = "end"]
    /\ UNCHANGED <<slot, claim, claimed, delay, reqs, refresh>>

\* ... and the task ends: Drop for InitializationClaim.
DropClaim(i) ==
    /\ ipc[i] = "end"
    /\ IF claimed[i] THEN claim' = FALSE ELSE UNCHANGED claim
    /\ claimed' = [claimed EXCEPT ![i] = FALSE]
    /\ ipc' = [ipc EXCEPT ![i] = "none"]
    /\ delay' = [delay EXCEPT ![i] = InitialDelay]
    /\ UNCHANGED <<slot, gate, reqs, refresh>>
-----------------------------------------------------------------------------
(* ProviderClient::send *)

At(r, label) == pc[r] = label
Go(r, label) == pc' = [pc EXCEPT ![r] = label]
Write(r) == sent' = [sent EXCEPT ![r] = @ + 1]
MayWrite(r) == Write(r) \/ UNCHANGED sent

\* send: another provider's request goes to send_standard; a Tinfoil request
\* first makes sure that someone is initializing.
Begin(r) ==
    /\ At(r, "idle")
    /\ \/ Go(r, "standard")
       \/ Go(r, IF Available THEN "snapshot" ELSE "claim")
    /\ UNCHANGED <<slot, gate, claim, init, snap, sent, refresh>>

StartInitialization(r) ==
    /\ At(r, "claim")
    /\ ClaimAndSpawn
    /\ Go(r, "snapshot")
    /\ UNCHANGED <<slot, gate, snap, sent, refresh>>

\* Without a client the request is answered 503; nothing queues.
TakeSnapshot(r) ==
    /\ At(r, "snapshot")
    /\ IF Available
       THEN snap' = [snap EXCEPT ![r] = Snapshot] /\ Go(r, "execute")
       ELSE Go(r, "done") /\ UNCHANGED snap
    /\ UNCHANGED <<slot, gate, claim, init, sent, refresh>>

Execute(r) ==
    /\ pc[r] \in {"execute", "retry", "standard"}
    /\ Write(r) /\ Go(r, "done")
    /\ UNCHANGED <<slot, gate, claim, init, snap, refresh>>

SpawnRefresh(r) == tpc' = [tpc EXCEPT ![r] = "gate"] /\ Go(r, "await")

\* A connect error: no byte of the request was written.  The retry is final.
ConnectError(r) ==
    /\ pc[r] \in {"execute", "retry", "standard"}
    /\ IF At(r, "execute")
       THEN SpawnRefresh(r)
       ELSE Go(r, "done") /\ UNCHANGED tpc
    /\ UNCHANGED <<slot, gate, claim, init, snap, sent, res>>

\* Any other error: the provider may have the request, which is not replayed.
SendError(r) ==
    /\ pc[r] \in {"execute", "retry", "standard"}
    /\ MayWrite(r) /\ Go(r, "done")
    /\ UNCHANGED <<slot, gate, claim, init, snap, refresh>>

\* response_start_timeout: the request's future is dropped, its refresh is not.
ResponseStartTimeout(r) ==
    /\ pc[r] \in {"execute", "await", "retry", "standard"}
    /\ IF At(r, "await") THEN UNCHANGED sent ELSE MayWrite(r)
    /\ Go(r, "done")
    /\ UNCHANGED <<slot, gate, claim, init, snap, refresh>>

\* The JoinHandle: a snapshot to retry with, or 503.
RefreshJoined(r) ==
    /\ At(r, "await") /\ tpc[r] = "ended"
    /\ Go(r, IF res[r] = NoSnapshot THEN "done" ELSE "retry")
    /\ UNCHANGED <<slot, gate, claim, init, snap, sent, refresh>>
-----------------------------------------------------------------------------
(* refresh_after_connect_failure, in the task of request r *)

EndRefresh(r, s) == tpc' = [tpc EXCEPT ![r] = "ended"] /\ res' = [res EXCEPT ![r] = s]

RefreshDecision(s) ==
    CASE s.client # client -> "UseCurrent"
      [] s.client = client /\ s.attempt = attempt -> "Refresh"
      [] OTHER -> "PreviousAttemptFailed"

\* try_refresh_gate: a refresh never queues.
TryRefreshGate(r) ==
    /\ tpc[r] = "gate"
    /\ IF gate = "free"
       THEN gate' = r /\ tpc' = [tpc EXCEPT ![r] = "decide"] /\ UNCHANGED res
       ELSE EndRefresh(r, NoSnapshot) /\ UNCHANGED gate
    /\ UNCHANGED <<slot, claim, init, reqs>>

Decide(r) ==
    /\ tpc[r] = "decide"
    /\ IF RefreshDecision(snap[r]) = "Refresh"
       THEN tpc' = [tpc EXCEPT ![r] = "discover"] /\ UNCHANGED <<gate, res>>
       ELSE /\ gate' = "free"
            /\ EndRefresh(r, IF RefreshDecision(snap[r]) = "UseCurrent" /\ Available
                             THEN Snapshot ELSE NoSnapshot)
    /\ UNCHANGED <<slot, claim, init, reqs>>

RefreshOk(r) ==
    /\ tpc[r] = "discover"
    /\ client' = attempt + 1 /\ attempt' = attempt + 1
    /\ EndRefresh(r, [client |-> attempt + 1, attempt |-> attempt + 1])
    /\ gate' = "free"
    /\ UNCHANGED <<claim, init, reqs>>

\* Failed or timed out: the transport becomes unavailable.
RefreshFail(r) ==
    /\ tpc[r] = "discover"
    /\ client' = NoClient /\ attempt' = attempt + 1
    /\ gate' = "free"
    /\ tpc' = [tpc EXCEPT ![r] = "restart"]
    /\ UNCHANGED <<claim, init, reqs, res>>

\* Mutant: recovery is left to the next request.
NoRestart(r) ==
    /\ tpc[r] = "restart"
    /\ EndRefresh(r, NoSnapshot)
    /\ UNCHANGED <<slot, gate, claim, init, reqs>>

\* start_background_initialization reads the slot, then claims.
Restart(r) ==
    /\ tpc[r] = "restart"
    /\ IF Available
       THEN EndRefresh(r, NoSnapshot)
       ELSE tpc' = [tpc EXCEPT ![r] = "claim"] /\ UNCHANGED res
    /\ UNCHANGED <<slot, gate, claim, init, reqs>>

RestartClaim(r) ==
    /\ tpc[r] = "claim"
    /\ ClaimAndSpawn
    /\ EndRefresh(r, NoSnapshot)
    /\ UNCHANGED <<slot, gate, reqs>>
-----------------------------------------------------------------------------
InitializerStep(i) ==
    \/ LockGate(i) \/ DiscoverOk(i) \/ DiscoverFail(i) \/ Wake(i) \/ Return(i) \/ DropClaim(i)
RefreshStep(r) ==
    \/ TryRefreshGate(r) \/ Decide(r) \/ RefreshOk(r) \/ RefreshFail(r) \/ Restart(r)
    \/ RestartClaim(r)
RequestStep(r) ==
    \/ Begin(r) \/ StartInitialization(r) \/ TakeSnapshot(r) \/ Execute(r) \/ ConnectError(r)
    \/ SendError(r) \/ ResponseStartTimeout(r) \/ RefreshJoined(r)

Next == \/ \E i \in Tasks : InitializerStep(i)
        \/ \E r \in Requests : RefreshStep(r) \/ RequestStep(r)

Spec == Init /\ [][Next]_vars

\* Spawned tasks are scheduled; discovery is bounded by its timeout, and one
\* that is tried for ever succeeds in the end.  The gate is a fair mutex.
\* Requests owe nothing.
FairSpec ==
    /\ Spec
    /\ \A i \in Tasks : SF_vars(LockGate(i)) /\ SF_vars(DiscoverOk(i))
                        /\ WF_vars(InitializerStep(i))
    /\ \A r \in Requests : WF_vars(RefreshStep(r))
-----------------------------------------------------------------------------
SlotType ==
    /\ client \in 0 .. attempt /\ attempt \in Nat
    /\ snap \in [Requests -> [client : 0 .. attempt, attempt : 0 .. attempt]]
    /\ res \in [Requests -> [client : 0 .. attempt, attempt : 0 .. attempt]]

InitializerType ==
    /\ claim \in BOOLEAN /\ claimed \in [Tasks -> BOOLEAN]
    /\ ipc \in [Tasks -> {"none", "gate", "discover", "sleep", "return", "end"}]
    /\ delay \in [Tasks -> InitialDelay .. MaxDelay]

RequestType ==
    /\ pc \in [Requests -> {"idle", "standard", "claim", "snapshot", "execute", "await", "retry",
                            "done"}]
    /\ sent \in [Requests -> Nat]
    /\ tpc \in [Requests -> {"none", "gate", "decide", "discover", "restart", "claim", "ended"}]

TypeOK ==
    /\ SlotType /\ InitializerType /\ RequestType
    /\ gate \in {"free"} \union Tasks \union Requests

Discovering == { i \in Tasks : ipc[i] = "discover" }
               \union { r \in Requests : tpc[r] = "discover" }

\* Discovery and attestation are single-flight, whichever of the initializer
\* and the refreshes of a failure wave start them.
SingleFlight == Cardinality(Discovering) <= 1

\* A request's body reaches a provider at most once: the certificate-rotation
\* retry never replays what a provider may have received.
BodyWrittenOnce == \A r \in Requests : sent[r] <= 1

\* While a refresh runs, the client it replaces is still the installed one: no
\* discovery is spent on a client that another task has already replaced.
RefreshesTheInstalledClient ==
    \A r \in Requests : tpc[r] = "discover" => client = snap[r].client /\ attempt = snap[r].attempt

\* A snapshot of the installed client is of the current attempt, so that a
\* failure of the installed client is never taken for one already handled
\* (RefreshDecision::PreviousAttemptFailed) and left without a refresh.
InstalledClientCanBeRefreshed ==
    \A r \in Requests :
        Available /\ snap[r].client = client => RefreshDecision(snap[r]) = "Refresh"

\* Whenever there is no client some task is bound to make one, without waiting
\* for a request: an initializer that holds the claim, or a refresh about to
\* start one.  This is what releasing the claim under the slot's lock is for.
RecoveryHasAnOwner ==
    ~Available => \/ \E i \in Tasks : claimed[i] /\ ipc[i] \notin {"none", "return", "end"}
                  \/ \E r \in Requests : tpc[r] \in {"restart", "claim"}

(* At any moment at most one discovery runs and, while there is no client,     *)
(* some task is bound to make one; a refresh is of the client that is          *)
(* installed, and a request's body has reached a provider once at most.        *)
TransportInv ==
    /\ TypeOK /\ SingleFlight /\ RecoveryHasAnOwner
    /\ RefreshesTheInstalledClient /\ InstalledClientCanBeRefreshed
    /\ BodyWrittenOnce

\* The transport recovers from every failed refresh if discovery can succeed.
Recovers == ~Available ~> Available

\* A refresh that started replaces the failed client, also when the request
\* that started it has timed out.
FailedClientIsReplaced ==
    \A r \in Requests : tpc[r] = "discover" ~> client # snap[r].client
=============================================================================
