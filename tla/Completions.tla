---------------------------- MODULE Completions ----------------------------
(*****************************************************************************)
(* A chat completion after its gates (openai.rs): the provider call, the     *)
(* spawned task that relays a streamed answer and accumulates its usage, the *)
(* consumer of the channel between them (proxy_openai), and the background   *)
(* task that records the usage (token_usage.rs) and publishes it (sqs.rs).   *)
(*                                                                           *)
(* The provider answers with any frames, ends cleanly or not, or goes        *)
(* silent; the client may leave at any time.  Every await is a step.  A      *)
(* frame is its kind and the token counts it states; the rest of it, and the *)
(* bytes it arrives in, are abstracted.                                      *)
(*****************************************************************************)
EXTENDS Integers, Sequences

CONSTANTS
    Frames,       \* bound: the frames a provider may send
    MaxFrames,    \* bound: frames of one answer
    Buffer,       \* capacity of the consumer channel (100)
    MaxTries      \* bound: attempts to publish one event

None == -1
FrameKinds == {"delta", "finish", "usage", "invalid", "done"}

CompletionsAssumption ==
    /\ \A f \in Frames : f.kind \in FrameKinds /\ {f.prompt, f.completion, f.cached} \subseteq Nat \union {None}
    /\ Buffer \in Nat \ {0} /\ MaxFrames \in Nat \ {0} /\ MaxTries \in Nat \ {0}

VARIABLES
    pc,          \* the relay task, or the handler of a plain answer
    ending,      \* how the stream ended: a StreamUsageFinalization
    latest, sawTerminal, finalized,   \* StreamUsageAccumulator
    seen,        \* the JSON frames observed so far
    chan,        \* the consumer channel
    consumer,    \* "none", "open", "dropped" or "finished"
    out,         \* what the client was sent
    jobs         \* usage publications: usage, place, rows stored, tries, deliveries

acc == <<latest, sawTerminal, finalized>>
vars == <<pc, ending, acc, seen, chan, consumer, out, jobs>>

\* A CompletionChunk other than a frame, or an answer that is not a stream.
Note(kind) == [kind |-> kind, prompt |-> None, completion |-> None, cached |-> None]
Closing == {Note("Done"), Note("Error"), Note("error")}

NoUsage == [prompt |-> None, completion |-> None, cached |-> None]

Init ==
    /\ pc = "call" /\ ending = "none"
    /\ latest = NoUsage /\ sawTerminal = FALSE /\ finalized = FALSE
    /\ seen = <<>> /\ chan = <<>> /\ consumer = "none" /\ out = <<>>
    /\ jobs = <<>>
-----------------------------------------------------------------------------
(* Usage *)

Explicit(observed, previous) ==
    IF observed # None THEN observed ELSE IF previous # None THEN previous ELSE 0

Lesser(a, b) == IF a < b THEN a ELSE b

\* Mutant: the first observation is kept.
KeepFirst(previous, f) ==
    IF previous # NoUsage THEN previous
    ELSE [prompt |-> Explicit(f.prompt, None), completion |-> Explicit(f.completion, None),
          cached |-> f.cached]

\* observe: totals are replaced by the latest explicit values, field by field.
Observe(previous, f) ==
    IF NoUsage = [prompt |-> f.prompt, completion |-> f.completion, cached |-> f.cached]
    THEN previous
    ELSE [prompt |-> Explicit(f.prompt, previous.prompt),
          completion |-> Explicit(f.completion, previous.completion),
          cached |-> IF f.cached # None THEN f.cached ELSE previous.cached]

\* A finish reason, or the empty choices of a usage-only frame.
HasTerminalSignal(f) == f.kind \in {"finish", "usage"}

ClampCached(u) ==
    [u EXCEPT !.cached = IF u.cached = None THEN None ELSE Lesser(u.cached, u.prompt)]

Billable(u) == u # NoUsage /\ (u.prompt > 0 \/ u.completion > 0)

\* extract_usage of a plain answer.
ExtractUsage(f) ==
    ClampCached([prompt |-> Explicit(f.prompt, None), completion |-> Explicit(f.completion, None),
                 cached |-> f.cached])

\* publish_usage_event_internal spawns the recording; zero usage is not billed.
Publish(u) ==
    IF Billable(u)
    THEN jobs' = Append(jobs, [usage |-> u, pc |-> "row", rows |-> 0, tries |-> 0, sent |-> 0])
    ELSE UNCHANGED jobs
-----------------------------------------------------------------------------
(* The provider call *)

\* try_provider fails or answers with an error status, or a plain answer cannot
\* be read or parsed.
CallFails ==
    /\ pc = "call"
    /\ pc' = "ended" /\ out' = <<Note("error")>> /\ consumer' = "finished"
    /\ UNCHANGED <<ending, acc, seen, chan, jobs>>

\* The handler is dropped with its connection: nothing was spawned yet.
LeaveDuringCall ==
    /\ pc = "call"
    /\ pc' = "ended" /\ consumer' = "dropped"
    /\ UNCHANGED <<ending, acc, seen, chan, out, jobs>>

\* A plain answer: billed, then handed over as FullResponse and Done.
PlainAnswer(f) ==
    /\ pc = "call" /\ f.kind \notin {"invalid", "done"}
    /\ seen' = <<f>>
    /\ Publish(IF NoUsage = [prompt |-> f.prompt, completion |-> f.completion, cached |-> f.cached]
               THEN NoUsage ELSE ExtractUsage(f))
    /\ chan' = <<Note("full"), Note("Done")>> /\ consumer' = "plain" /\ pc' = "ended" /\ ending' = "plain"
    /\ UNCHANGED <<acc, out>>

\* proxy_openai takes the full response and encrypts it, which may fail; the
\* client may be gone.
PlainConsume ==
    /\ consumer = "plain"
    /\ \/ consumer' = "finished" /\ out' \in {<<Note("full")>>, <<Note("error")>>}
       \/ consumer' = "dropped" /\ UNCHANGED out
    /\ chan' = <<>>
    /\ UNCHANGED <<pc, ending, acc, seen, jobs>>

StreamStarts ==
    /\ pc = "call"
    /\ pc' = "read" /\ consumer' = "open"
    /\ UNCHANGED <<ending, acc, seen, chan, out, jobs>>
-----------------------------------------------------------------------------
(* The relay task *)

EndStream(how) == pc' = "finalize" /\ ending' = how

\* One frame of the stream; what is observed is observed before it is sent.
ReadFrame(f) ==
    /\ pc = "read" /\ Len(seen) < MaxFrames
    /\ CASE f.kind = "done" -> EndStream("ProviderDone") /\ UNCHANGED <<acc, seen>>
         [] f.kind = "invalid" -> EndStream("InvalidData") /\ UNCHANGED <<acc, seen>>
         [] OTHER -> /\ latest' = Observe(latest, f)
                     /\ sawTerminal' = (sawTerminal \/ HasTerminalSignal(f))
                     /\ seen' = Append(seen, f)
                     /\ pc' = "chunk"
                     /\ UNCHANGED <<ending, finalized>>
    /\ UNCHANGED <<chan, consumer, out, jobs>>

\* The stream ends without [DONE], breaks, or is silent for
\* STREAM_CHUNK_TIMEOUT_SECS.
ReadEnds ==
    /\ pc = "read"
    /\ \E how \in {"EndOfStream", "TransportError", "Timeout"} : EndStream(how)
    /\ UNCHANGED <<acc, seen, chan, consumer, out, jobs>>

Room == Len(chan) < Buffer

\* Mutant: the dropped receiver is not noticed.
SendChunkBlindly ==
    /\ pc = "chunk"
    /\ Room /\ chan' = Append(chan, seen[Len(seen)]) /\ pc' = "read"
    /\ UNCHANGED <<ending, acc, seen, consumer, out, jobs>>

\* A dropped receiver fails the send; a full channel blocks it.
SendChunk ==
    /\ pc = "chunk"
    /\ IF consumer # "open"
       THEN EndStream("ConsumerDropped") /\ UNCHANGED chan
       ELSE Room /\ chan' = Append(chan, seen[Len(seen)]) /\ pc' = "read" /\ UNCHANGED ending
    /\ UNCHANGED <<acc, seen, consumer, out, jobs>>

\* Only the provider's [DONE] or terminal evidence seen before bills a stream.
CanFinalize == ~finalized /\ (ending = "ProviderDone" \/ sawTerminal)

TakeFinalUsage == IF latest = NoUsage THEN NoUsage ELSE ClampCached(latest)

\* finalize_stream_usage: publish, then tell the consumer.
Finalize ==
    /\ pc = "finalize"
    /\ IF CanFinalize
       THEN /\ finalized' = TRUE /\ latest' = NoUsage
            /\ Publish(TakeFinalUsage)
            /\ pc' = IF Billable(TakeFinalUsage) THEN "usage" ELSE "terminal"
       ELSE pc' = "terminal" /\ UNCHANGED <<finalized, latest, jobs>>
    /\ UNCHANGED <<ending, sawTerminal, seen, chan, consumer, out>>

Tell(m) == IF consumer = "open" THEN Room /\ chan' = Append(chan, m) ELSE UNCHANGED chan

SendUsage ==
    /\ pc = "usage"
    /\ Tell(Note("Usage")) /\ pc' = "terminal"
    /\ UNCHANGED <<ending, acc, seen, consumer, out, jobs>>

\* Done or Error; nothing after a dropped consumer.
SendTerminal ==
    /\ pc = "terminal"
    /\ CASE ending = "ConsumerDropped" -> UNCHANGED chan
         [] ending \in {"ProviderDone", "EndOfStream"} -> Tell(Note("Done"))
         [] OTHER -> Tell(Note("Error"))
    /\ pc' = "ended"
    /\ UNCHANGED <<ending, acc, seen, consumer, out, jobs>>
-----------------------------------------------------------------------------
(* The consumer *)

\* Usage is for the server only.
Relayed(m) == m # Note("Usage")

\* The SSE generator: a chunk is encrypted and sent, usage is dropped, Done and
\* Error end the stream.
Consume ==
    /\ consumer = "open" /\ chan # <<>>
    /\ LET m == Head(chan) IN
         /\ out' = IF Relayed(m) THEN Append(out, m) ELSE out
         /\ consumer' = IF m \in Closing THEN "finished" ELSE "open"
         /\ chan' = IF m \in Closing THEN <<>> ELSE Tail(chan)
    /\ UNCHANGED <<pc, ending, acc, seen, jobs>>

\* A chunk that cannot be encrypted (the session is gone) ends the stream.
EncryptionFails ==
    /\ consumer = "open" /\ chan # <<>> /\ Head(chan) \notin Closing \union {Note("Usage")}
    /\ out' = Append(out, Note("Error")) /\ consumer' = "dropped" /\ chan' = <<>>
    /\ UNCHANGED <<pc, ending, acc, seen, jobs>>

ClientLeaves ==
    /\ consumer = "open"
    /\ consumer' = "dropped" /\ chan' = <<>>
    /\ UNCHANGED <<pc, ending, acc, seen, out, jobs>>
-----------------------------------------------------------------------------
(* Recording and publication *)

Job(j, r) == jobs' = [jobs EXCEPT ![j] = r] /\ UNCHANGED <<pc, ending, acc, seen, chan, consumer, out>>

\* create_token_usage; a failure is logged and the event still goes out.
StoreRow(j) ==
    /\ jobs[j].pc = "row"
    /\ \E n \in {0, 1} : Job(j, [jobs[j] EXCEPT !.rows = n, !.pc = "sqs"])

\* publish_event retries every failure, also one whose message was delivered,
\* until the back-off gives up.
PublishEvent(j) ==
    /\ jobs[j].pc = "sqs"
    /\ \/ Job(j, [jobs[j] EXCEPT !.sent = @ + 1, !.tries = @ + 1, !.pc = "done"])
       \/ \E n \in {0, 1} :
            Job(j, [jobs[j] EXCEPT !.sent = @ + n, !.tries = @ + 1,
                                   !.pc = IF jobs[j].tries + 1 = MaxTries THEN "done" ELSE "sqs"])

\* No queue is configured: nothing is published.
NoPublisher(j) ==
    /\ jobs[j].pc = "sqs" /\ jobs[j].tries = 0
    /\ Job(j, [jobs[j] EXCEPT !.pc = "done"])
-----------------------------------------------------------------------------
Relay ==
    \/ \E f \in Frames : ReadFrame(f)
    \/ ReadEnds \/ SendChunk \/ Finalize \/ SendUsage \/ SendTerminal
Consumer == Consume \/ EncryptionFails \/ ClientLeaves \/ PlainConsume
Recording == \E j \in DOMAIN jobs : StoreRow(j) \/ PublishEvent(j) \/ NoPublisher(j)

Call == CallFails \/ LeaveDuringCall \/ (\E f \in Frames : PlainAnswer(f)) \/ StreamStarts

Next == Call \/ Relay \/ Consumer \/ Recording

Spec == Init /\ [][Next]_vars

\* The call has a timeout.  The relay runs while it can: a silent provider runs into the chunk timeout,
\* and a client that neither reads nor leaves is dropped by its connection.
FairSpec == Spec /\ WF_vars(Call) /\ WF_vars(Relay) /\ WF_vars(Consumer) /\ WF_vars(Recording)
-----------------------------------------------------------------------------
TypeOK ==
    /\ pc \in {"call", "read", "chunk", "finalize", "usage", "terminal", "ended"}
    /\ ending \in {"none", "plain", "ProviderDone", "EndOfStream", "TransportError", "Timeout",
                   "ConsumerDropped", "InvalidData"}
    /\ latest \in [prompt : Nat \union {None}, completion : Nat \union {None}, cached : Nat \union {None}]
    /\ sawTerminal \in BOOLEAN /\ finalized \in BOOLEAN
    /\ Len(seen) <= MaxFrames /\ Len(chan) <= IF consumer = "plain" THEN 2 ELSE Buffer
    /\ consumer \in {"none", "open", "plain", "dropped", "finished"}
    /\ \A j \in DOMAIN jobs : jobs[j].rows \in 0 .. 1 /\ jobs[j].tries \in 0 .. MaxTries
                              /\ jobs[j].sent \in 0 .. jobs[j].tries

\* The last value that the observed frames state for a field, or 0.
LastStated(field) ==
    LET at == { i \in DOMAIN seen : seen[i][field] # None }
    IN IF at = {} THEN 0 ELSE seen[CHOOSE i \in at : \A j \in at : j <= i][field]

\* What the provider's own statement of the usage amounts to.
StatedUsage ==
    [prompt |-> LastStated("prompt"), completion |-> LastStated("completion"),
     cached |-> IF \A i \in DOMAIN seen : seen[i].cached = None THEN None
                ELSE Lesser(LastStated("cached"), LastStated("prompt"))]

\* A completion is billed at most once, with the totals its provider stated
\* last; cumulative usage on every delta is not added up, a partial later frame
\* does not erase a count, and cached tokens never exceed the prompt.
BilledOnceAsStated ==
    /\ Len(jobs) <= 1
    /\ \A j \in DOMAIN jobs : jobs[j].usage = StatedUsage

\* When the relay has ended, the stream was billed exactly if it used tokens
\* and its provider had confirmed the end, although the client had left, the
\* connection broke or garbage followed.
ConfirmedIsBilled ==
    pc = "ended" /\ ending \notin {"none", "plain"} =>
        LET confirmed == ending = "ProviderDone" \/ \E i \in DOMAIN seen : HasTerminalSignal(seen[i])
            used == StatedUsage.prompt > 0 \/ StatedUsage.completion > 0
        IN (jobs # <<>>) = (confirmed /\ used)

\* The client gets the provider's frames in order without a gap, then one Done
\* or Error and nothing after it.  Done means that it has every frame and that
\* the provider ended the stream; a stream cut short never looks complete.
ClientSeesPrefix ==
    ending # "plain" /\ consumer # "none" =>
        LET closed == \E i \in DOMAIN out : out[i] \in Closing
            got == IF closed THEN Len(out) - 1 ELSE Len(out)
        IN /\ got <= Len(seen) /\ \A i \in 1 .. got : out[i] = seen[i]
           /\ \A i \in DOMAIN out : out[i] \in Closing => i = Len(out)
           /\ \A i \in DOMAIN out : out[i] = Note("Done") =>
                  got = Len(seen) /\ ending \in {"ProviderDone", "EndOfStream"}

\* The relay always comes to an end, and so does a client that stays.
RelayEnds == <>(pc = "ended" /\ consumer \in {"dropped", "finished"})

\* A stored or failed row is followed by the publication being tried.
RecordingEnds == \A j \in {1} : (Len(jobs) >= j) ~> (Len(jobs) >= j /\ jobs[j].pc = "done")
=============================================================================
