------------------------------- MODULE MCLive -------------------------------
(***************************************************************************)
(* The attestation handshake, and what must happen in the end, for TLC:    *)
(* the maintenance of the two caches of secrets, the recovery of the       *)
(* transport, the relay of a completion, the transcription of a file, and  *)
(* the start of the program. A behaviour exercises one part, chosen at the *)
(* start, and is fair to that part as the FairSpec of its module is. The   *)
(* program is given none, one or all of the third-party secrets, and at    *)
(* first all but one of the required ones at least.                        *)
(***************************************************************************)
EXTENDS PendingAttestations, Integers, Sequences, TLC

CONSTANTS MaxRetries, MaxFaults, MaxExpiries     \* of Startup

VARIABLES
    part,
    clock, resident, slotOf, expires, seniority, handle, pc, sid, sweep,               \* SessionCache
    client, attempt, gate, claim, ipc, claimed, delay, call, snap, sent, tpc, res,     \* ProviderTransport
    relay, ending, latest, sawTerminal, finalized, seen, chan, consumer, out, jobs,    \* Completions
    file, step, chunks, task, finished, text,                                          \* Transcription
    keyRow, jwtRow, needed, given, maple, settings, secrets, written, main, key, jwt,  \* Startup
    creds, attempts, fresh, faults, expiries

leased == <<clock, resident, slotOf, expires, seniority, handle, pc, sid, sweep>>
transport == <<client, attempt, gate, claim, ipc, claimed, delay, call, snap, sent, tpc, res>>
answer == <<relay, ending, latest, sawTerminal, finalized, seen, chan, consumer, out, jobs>>
audio == <<file, step, chunks, task, finished, text>>
program == <<keyRow, jwtRow, needed, given, maple, settings, secrets, written, main, key, jwt, creds,
             attempts, fresh, faults, expiries>>

Cache == INSTANCE SessionCache WITH
    SessionIds <- {"k1", "k2"}, Slots <- {"s1", "s2"}, Requests <- {"r1"}, Capacity <- 2, TTL <- 1,
    LeaseLimit <- 8, BatchSize <- 1, MaxTime <- 3, NoSlot <- "no slot",
    now <- clock, older <- seniority, purge <- sweep

Tasks == {"i1", "i2"}
Callers == {"r1", "r2"}
Transport == INSTANCE ProviderTransport WITH
    Requests <- Callers, MaxDelay <- 2, pc <- call

Frame(kind, p, c) == [kind |-> kind, prompt |-> p, completion |-> c, cached |-> 0 - 1]
Relay == INSTANCE Completions WITH
    Frames <- {Frame("delta", 1, 1), Frame("finish", 0 - 1, 2), Frame("done", 0 - 1, 0 - 1)},
    MaxFrames <- 3, Buffer <- 1, MaxTries <- 2, pc <- relay

\* Every provider tried for a few files.
Retries == INSTANCE Transcription WITH
    MaxFile <- 16, MaxChunk <- 8, TinfoilMax <- 6, MaxCycles <- 2, Samples <- {3, 4, 10},
    Tails <- {0}, Aligns <- {2}, Seconds <- {2}, pc <- step

Program == INSTANCE Startup WITH pc <- main

ASSUME PartsAssumption ==
    /\ Relay!CompletionsAssumption
    /\ Retries!TranscriptionAssumption /\ Program!StartupAssumption

PartInit ==
    /\ part \in {"sessions", "attestations", "transport", "relay", "retries", "program"}
    /\ Cache!Init /\ (part # "sessions" => sid = [r \in {"r1"} |-> "k1"])
    /\ Init
    /\ Transport!Init /\ (part # "transport" => claimed["i1"])
    /\ Relay!Init
    /\ Retries!Init
    /\ part # "retries" => file = CHOOSE f \in Retries!Files : TRUE
    /\ Program!Init
    /\ IF part = "program"
       THEN /\ Program!Names \intersect given \in {{}, {"github"}, Program!Names}
            /\ \E n \in needed : needed \ given \subseteq {n}
       ELSE given = {} /\ secrets = {} /\ "openai" \in needed

PartNext ==
    \/ part = "sessions" /\ Cache!Next
       /\ UNCHANGED <<part, vars, transport, answer, audio, program>>
    \/ part = "attestations" /\ Next
       /\ UNCHANGED <<part, leased, transport, answer, audio, program>>
    \/ part = "transport" /\ Transport!Next
       /\ UNCHANGED <<part, leased, vars, answer, audio, program>>
    \/ part = "relay" /\ Relay!Next
       /\ UNCHANGED <<part, leased, vars, transport, audio, program>>
    \/ part = "retries" /\ Retries!Next
       /\ UNCHANGED <<part, leased, vars, transport, answer, program>>
    \/ part = "program" /\ Program!Next
       /\ UNCHANGED <<part, leased, vars, transport, answer, audio>>

\* The conditions of each module's FairSpec, on the part that moves.
Fairness ==
    /\ WF_leased(part = "sessions" /\ Cache!Purge)
    /\ WF_vars(part = "attestations" /\ PurgeTick)
    /\ WF_vars(part = "attestations" /\ PurgeRetire)
    /\ \A i \in Tasks :
         /\ SF_transport(part = "transport" /\ Transport!LockGate(i))
         /\ SF_transport(part = "transport" /\ Transport!DiscoverOk(i))
         /\ WF_transport(part = "transport" /\ Transport!InitializerStep(i))
    /\ \A r \in Callers : WF_transport(part = "transport" /\ Transport!RefreshStep(r))
    /\ WF_answer(part = "relay" /\ Relay!Call) /\ WF_answer(part = "relay" /\ Relay!Relay)
    /\ WF_answer(part = "relay" /\ Relay!Consumer) /\ WF_answer(part = "relay" /\ Relay!Recording)
    /\ WF_audio(part = "retries" /\ Retries!Accept) /\ WF_audio(part = "retries" /\ Retries!KeepWhole)
    /\ WF_audio(part = "retries" /\ Retries!Split) /\ WF_audio(part = "retries" /\ Retries!Join)
    /\ WF_audio(part = "retries" /\ \E i \in DOMAIN task : Retries!Attempt(i))
    /\ WF_program(part = "program" /\ Program!Main) /\ WF_program(part = "program" /\ Program!Refresh)

PartSpec ==
    PartInit /\ [][PartNext]_<<part, leased, vars, transport, answer, audio, program>> /\ Fairness
-----------------------------------------------------------------------------
(* An expired session that is not leased is retired, refreshed or leased, and *)
(* the secret of an abandoned handshake does not stay in memory for ever.     *)
SecretsAreRetired == Cache!ExpiredIsRetired /\ ExpiredIsRetired

(* The transport recovers from every failed refresh if discovery can succeed, *)
(* and a refresh that started replaces the failed client.                     *)
TransportRecovers ==
    /\ part = "transport" => Transport!Recovers
    /\ Transport!FailedClientIsReplaced

(* The relay of a completion comes to an end, and so does a client that reads *)
(* or leaves, as any is assumed to do; a stored or failed usage row is        *)
(* followed by its publication being tried; every transcription ends.         *)
AnswersEnd ==
    /\ part = "relay" => Relay!RelayEnds
    /\ Relay!RecordingEnds
    /\ part = "retries" => Retries!Ends

(* A launch of the program ends; launched again whenever it is down, with all *)
(* it needs, the program comes up and stays up after any sequence of crashes  *)
(* and failures, with the enclave key and JWT secret that were stored first;  *)
(* and expired AWS credentials are replaced while the process runs.           *)
ProgramComesUp ==
    /\ Program!LaunchEnds
    /\ part = "program" => Program!ComesUpAgain
    /\ Program!StoredSecretsAreForever
    /\ Program!CredentialsAreRenewed

(* Nothing is encrypted under a key that a later process could not find, and  *)
(* tokens are signed only with the stored JWT secret.                         *)
DataSurvivesRestart == Program!TypeOK /\ Program!DataSurvivesRestart
=============================================================================
