---------------------------- MODULE MCProviders ----------------------------
(***************************************************************************)
(* The way to the model providers, for TLC: the attested transport, the    *)
(* gates and routes of a request, the relay of a completion, and the       *)
(* cutting of its frames. A behaviour exercises one part, chosen at the    *)
(* start.                                                                  *)
(***************************************************************************)
EXTENDS ProviderTransport, TLC

CONSTANTS
    i1,
    Kinds, Callers, Asked, Flippable, Changeable, Splits, Bucket,    \* of ModelAccess
    Ttl, FlagsTimeout, MaxTime, DefaultProxy,
    Frames, MaxFrames, Buffer, MaxTries                              \* of Completions

VARIABLES
    part,
    split, now, flags, offAt, account, cache, place, ask,                                \* ModelAccess
    relay, ending, latest, sawTerminal, finalized, seen, chan, consumer, out, jobs,      \* Completions
    whole, buffer, frames,                                                               \* SseFrames
    file, step, chunks, task, finished, text                                             \* Transcription

gates == <<split, now, flags, offAt, account, cache, place, ask>>
answer == <<relay, ending, latest, sawTerminal, finalized, seen, chan, consumer, out, jobs>>
bytes == <<whole, buffer, frames>>
audio == <<file, step, chunks, task, finished, text>>

AnyCaller == [guest : {TRUE, FALSE}, api : {TRUE, FALSE}]
PlainCaller == {[guest |-> FALSE, api |-> FALSE]}
Weights ==
    {<<1>>} \union {<<a, b>> : a, b \in {30, 70, 1}} \union {<<a, b, c>> : a, b, c \in {1, 3, 7, 50}}

\* Every caller at every gate; many weights of routes; many lookups at once.
Gates == INSTANCE ModelAccess WITH Requests <- Tasks, pc <- place, req <- ask
Access == INSTANCE ModelAccess WITH
    Requests <- {i1}, Flippable <- {}, MaxTime <- 1, pc <- place, req <- ask
Split == INSTANCE ModelAccess WITH
    Requests <- Tasks, Kinds <- {"embeddings"}, Callers <- PlainCaller, Asked <- {},
    Flippable <- {}, Changeable <- {}, MaxTime <- 0, pc <- place, req <- ask
Flags == INSTANCE ModelAccess WITH
    Requests <- Tasks, Kinds <- {"chat"}, Callers <- PlainCaller, Asked <- {"kimi-k3"},
    Changeable <- {}, pc <- place, req <- ask

\* Cumulative usage on a delta, a finish with and without usage, usage-only
\* frames that correct the prompt, add excessive cache details, or say zero.
Frame(kind, p, c, k) == [kind |-> kind, prompt |-> p, completion |-> c, cached |-> k]
Unstated == 0 - 1
SomeFrames ==
    { Frame("delta", Unstated, Unstated, Unstated), Frame("delta", 1, 1, Unstated),
      Frame("finish", Unstated, 2, Unstated), Frame("finish", Unstated, Unstated, Unstated),
      Frame("usage", 2, 2, 3), Frame("usage", Unstated, Unstated, 1), Frame("usage", 0, 0, Unstated),
      Frame("invalid", Unstated, Unstated, Unstated), Frame("done", Unstated, Unstated, Unstated) }
Relay == INSTANCE Completions WITH pc <- relay

Sse == INSTANCE SseFrames WITH MaxBytes <- 7, MaxChunk <- 2

\* Every shape of a file, each provider tried once.
Windows == INSTANCE Transcription WITH
    MaxFile <- 16, MaxChunk <- 8, TinfoilMax <- 6, MaxCycles <- 1,
    Samples <- {0, 4, 5, 6, 10, 11, 14}, Tails <- {0, 8}, Aligns <- {0, 1, 2, 3},
    Seconds <- {0, 1, 2, 6}, pc <- step

\* Every provider tried in all three cycles, for files of one chunk to four.
Retries == INSTANCE Transcription WITH
    MaxFile <- 16, MaxChunk <- 8, TinfoilMax <- 6, MaxCycles <- 3, Samples <- {3, 4, 10},
    Tails <- {0}, Aligns <- {2}, Seconds <- {2}, pc <- step

ASSUME PartsAssumption ==
    /\ Gates!ModelAccessAssumption
    /\ Relay!CompletionsAssumption /\ Sse!FramesAssumption
    /\ Windows!TranscriptionAssumption /\ Retries!TranscriptionAssumption

PartInit ==
    /\ part \in {"transport", "access", "split", "flags", "relay", "frames", "windows", "retries"}
    /\ Init /\ Relay!Init /\ Sse!Init
    /\ Gates!Init
    /\ part # "split" => split = <<1>>
    /\ part \notin {"access", "flags"} => flags = Gates!NoFlags
    /\ IF part = "retries" THEN Retries!Init
       ELSE Windows!Init /\ (part # "windows" => file = CHOOSE f \in Windows!Files : TRUE)

PartNext ==
    \/ part = "transport" /\ Next /\ UNCHANGED <<part, gates, answer, bytes, audio>>
    \/ part = "access" /\ Access!Next /\ UNCHANGED <<part, vars, answer, bytes, audio>>
    \/ part = "split" /\ Split!Next /\ UNCHANGED <<part, vars, answer, bytes, audio>>
    \/ part = "flags" /\ Flags!Next /\ UNCHANGED <<part, vars, answer, bytes, audio>>
    \/ part = "relay" /\ Relay!Next /\ UNCHANGED <<part, vars, gates, bytes, audio>>
    \/ part = "frames" /\ Sse!Next /\ UNCHANGED <<part, vars, gates, answer, audio>>
    \/ part = "windows" /\ Windows!Next /\ UNCHANGED <<part, vars, gates, answer, bytes>>
    \/ part = "retries" /\ Retries!Next /\ UNCHANGED <<part, vars, gates, answer, bytes>>

PartSpec == PartInit /\ [][PartNext]_<<part, vars, gates, answer, bytes, audio>>

\* The model values of the initializer tasks are also the requests at the gates.
Perms == Permutations(Requests) \union Permutations(Tasks)
-----------------------------------------------------------------------------
(* A guest reaches a provider only on billing's word that the plan is paid;   *)
(* without that word only free-tier models are reached, and no speech.        *)
GatesHold == Gates!TypeOK /\ Gates!GuestsPay /\ Gates!OutageGrantsOnlyFree

(* A flag turned off stops letting requests in within one cache lifetime and  *)
(* one lookup timeout, and a purge does not drop an entry that another        *)
(* request has renewed.                                                       *)
FlagsStayCurrent == Gates!RevokedFlagExpires /\ Gates!PurgeKeepsRenewed

(* A completion is billed at most once, with what its provider stated last,   *)
(* and a stream exactly if it used tokens and its end was confirmed: billed   *)
(* means that a job to record it is spawned. The client gets the frames in    *)
(* order, with one Done or Error at the end.                                  *)
RelayIsExact ==
    Relay!TypeOK /\ Relay!BilledOnceAsStated /\ Relay!ConfirmedIsBilled /\ Relay!ClientSeesPrefix

(* What is divided stays whole. The events are the same however the network   *)
(* splits the bytes. A model that is offered has a provider, and a route's    *)
(* share of the buckets is its weight's (both depend on the tables only). The *)
(* chunks of a file cover all of its audio, from whole frame to whole frame,  *)
(* and fit the largest chunk a provider is sent; no file is refused for want  *)
(* of progress; the text is that of every chunk in order, whichever tasks     *)
(* ended first, and a chunk fails only after each of its providers failed in  *)
(* every cycle.                                                               *)
DivisionsAreExact ==
    /\ Sse!ChunkingDoesNotMatter
    /\ part = "split" => Gates!ListedIsServed /\ Gates!SharesMatchWeights
    /\ Windows!ChunksCoverTheAudio /\ Windows!SplitMakesProgress
    /\ Windows!TextIsWhole /\ Windows!FailsAfterEveryTry
    /\ part = "retries" => Retries!FailsAfterEveryTry
=============================================================================
