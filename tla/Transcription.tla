---------------------------- MODULE Transcription ---------------------------
(****************************************************************************)
(* Speech to text: a large WAV file is split into overlapping chunks, each  *)
(* chunk is sent by its own task, in cycles over a primary and a fallback   *)
(* provider, and the texts are merged once every task has ended             *)
(* (audio_utils.rs, openai.rs).  Lengths are in units small enough for TLC; *)
(* a chunk's text is known by the chunk it was made from.                   *)
(****************************************************************************)
EXTENDS Naturals, Sequences, FiniteSets, SequencesExt, TLC

CONSTANTS
    MaxFile,        \* MAX_AUDIO_SIZE
    MaxChunk,       \* MAX_CHUNK_SIZE
    TinfoilMax,     \* TINFOIL_MAX_SIZE
    MaxCycles,      \* max_cycles of send_transcription_with_retries
    Samples,        \* lengths of the audio data of a file
    Tails,          \* lengths of what follows the data in a file
    Aligns,         \* block_align of a file
    Seconds         \* bytes of one second of audio

TranscriptionAssumption ==
    /\ {MaxFile, MaxChunk, TinfoilMax, MaxCycles} \subseteq Nat \ {0}
    /\ Samples \union Tails \union Aligns \union Seconds \subseteq Nat

VARIABLES
    file,       \* the uploaded file
    pc,         \* the request: "new", "split", "sending", "done", "refused",
                \* or "stuck": refused because a window made no progress
    chunks,     \* the windows of audio_samples, in order
    task,       \* task[i]: cycle, the provider to try next, how it ended
    finished,   \* the chunks in the order their tasks ended
    text        \* the merged text: the chunks it is made of
vars == <<file, pc, chunks, task, finished, text>>

-----------------------------------------------------------------------------
(* Files.  RIFF, fmt and data take one unit each for their headers.        *)

Files == [wav : BOOLEAN, fmtFirst : BOOLEAN, broken : BOOLEAN,
          samples : Samples, tail : Tails, align : Aligns, second : Seconds]

\* The parts that stand before the data chunk.
Header(f) == IF f.fmtFirst THEN <<"RIFF", "fmt">> ELSE <<"RIFF">>
FileLen(f) == 3 + f.samples + f.tail

ShouldSplit(f) == FileLen(f) > MaxChunk

-----------------------------------------------------------------------------
(* split_wav.                                                              *)

Aligned(f, n) == (n \div f.align) * f.align
Overhead(f) == Len(Header(f)) + 1

\* Bytes of audio in a chunk.
Window(f) == Aligned(f, MaxChunk - Overhead(f))

\* One second, whole frames; none if it would fill the chunk.
Overlap(f) == IF Aligned(f, f.second) >= Window(f) THEN 0 ELSE Aligned(f, f.second)

\* No chunk, no fmt or data chunk, sizes beyond the file, a zero divisor, a header that leaves
\* no room for one frame.
Unsplittable(f) ==
    \/ f.broken \/ f.align = 0 \/ f.second = 0
    \/ Overhead(f) > MaxChunk
    \/ Window(f) < f.align

Whole(f) == <<[from |-> 0, to |-> f.samples, size |-> FileLen(f)]>>

\* create_wav_from_samples: the header and a data chunk of its own.
CreateWav(f, from, to) ==
    [from |-> from, to |-> to, size |-> Overhead(f) + to - from]

\* offset of the loop.
Offset(windows) == IF windows = <<>> THEN 0 ELSE Last(windows).to

\* Mutant: the window is counted from the offset, as if there were no overlap before it.
NextWindowPastOverlap(f, done) ==
    LET offset == Offset(done)
        from == IF done = <<>> THEN 0 ELSE offset + Overlap(f)
        end == IF from + Window(f) < f.samples THEN from + Window(f) ELSE f.samples
    IN  CreateWav(f, from, end)

\* The window after those already made: it starts one overlap before the last one's end.
NextWindow(f, done) ==
    LET offset == Offset(done)
        from == IF done # <<>> /\ offset >= Overlap(f) THEN offset - Overlap(f) ELSE offset
        end == IF from + Window(f) < f.samples THEN from + Window(f) ELSE f.samples
    IN  CreateWav(f, from, end)

-----------------------------------------------------------------------------
NewTask == [cycle |-> 1, at |-> "primary", end |-> "no", tried |-> {}]

Init ==
    /\ file \in Files
    /\ pc = "new" /\ chunks = <<>> /\ task = <<>> /\ finished = <<>> /\ text = <<>>

\* A guest needs a paid plan and an answer from billing; the size has its limits.
Accept ==
    /\ pc = "new"
    /\ \E admitted \in BOOLEAN :
         pc' = IF admitted /\ FileLen(file) <= MaxFile THEN "split" ELSE "refused"
    /\ UNCHANGED <<file, chunks, task, finished, text>>

\* The tasks of the chunks, one future each.
Start(windows) ==
    /\ pc' = "sending"
    /\ task' = [i \in DOMAIN windows |-> NewTask]

\* split_audio of a file that is small enough or not WAV: one chunk, the file itself.
KeepWhole ==
    /\ pc = "split" /\ ~ (ShouldSplit(file) /\ file.wav)
    /\ chunks' = Whole(file) /\ Start(Whole(file))
    /\ UNCHANGED <<file, finished, text>>

\* The loop of split_wav, one window a step.
Split ==
    /\ pc = "split" /\ ShouldSplit(file) /\ file.wav
    /\ IF Unsplittable(file) THEN pc' = "refused" /\ UNCHANGED <<chunks, task>>
       ELSE IF Offset(chunks) >= file.samples THEN Start(chunks) /\ UNCHANGED chunks
       ELSE IF NextWindow(file, chunks).to <= Offset(chunks) THEN pc' = "stuck" /\ UNCHANGED <<chunks, task>>
       ELSE chunks' = Append(chunks, NextWindow(file, chunks)) /\ UNCHANGED <<pc, task>>
    /\ UNCHANGED <<file, finished, text>>

\* Tinfoil first; a chunk that is too large for it goes to the default provider alone.
Providers(i) ==
    IF chunks[i].size > TinfoilMax THEN [primary |-> "default", fallback |-> "none"]
    ELSE [primary |-> "tinfoil", fallback |-> "default"]

\* After a failure: the fallback of this cycle, the next cycle, or the end.
AfterFailure(t, fallback) ==
    IF t.at = "primary" /\ fallback # "none" THEN [t EXCEPT !.at = "fallback"]
    ELSE IF t.cycle < MaxCycles THEN [t EXCEPT !.cycle = @ + 1, !.at = "primary"]
    ELSE [t EXCEPT !.end = "failed"]

Sending(i) == pc = "sending" /\ i \in DOMAIN task /\ task[i].end = "no"

\* One request: it succeeds, or fails (an error status, a bad body, a timeout).
Attempt(i) ==
    \E ok \in BOOLEAN :
        LET t == [task[i] EXCEPT !.tried = @ \union {<<Providers(i)[task[i].at], task[i].cycle>>}]
            after == IF ok THEN [t EXCEPT !.end = "ok"] ELSE AfterFailure(t, Providers(i).fallback)
        IN  /\ Sending(i)
            /\ task' = [task EXCEPT ![i] = after]
            /\ finished' = IF after.end = "no" THEN finished ELSE Append(finished, i)
            /\ UNCHANGED <<file, pc, chunks, text>>

AllEnded == \A i \in DOMAIN task : task[i].end # "no"

\* merge_transcriptions: the results sorted by chunk index. They are taken to come in the
\* order the tasks ended in, which join_all hides, so that the order rests on the sort alone.
Merged == SortSeq(finished, <)

AnyFailed == \E i \in DOMAIN task : task[i].end = "failed"

\* join_all waits for every task; one failure fails the request, and so does a file without
\* any chunk.
Join ==
    /\ pc = "sending" /\ AllEnded
    /\ IF AnyFailed \/ task = <<>> THEN pc' = "refused" /\ UNCHANGED text
       ELSE pc' = "done" /\ text' = Merged
    /\ UNCHANGED <<file, chunks, task, finished>>

Next == Accept \/ KeepWhole \/ Split \/ (\E i \in DOMAIN task : Attempt(i)) \/ Join

Spec == Init /\ [][Next]_vars

\* The handler runs; a provider answers or the request's timeout fires.
FairSpec ==
    /\ Spec
    /\ WF_vars(Accept) /\ WF_vars(KeepWhole) /\ WF_vars(Split) /\ WF_vars(Join)
    /\ WF_vars(\E i \in DOMAIN task : Attempt(i))

-----------------------------------------------------------------------------
(* Properties.                                                             *)

\* The chunks of a file are windows that cover all of its audio without a gap, begin at whole
\* frames, go on past one another, and fit the largest chunk a provider is sent.
ChunksCoverTheAudio ==
    pc \in {"sending", "done"} =>
        /\ \A i \in DOMAIN chunks :
             /\ chunks[i].from <= (IF i = 1 THEN 0 ELSE chunks[i - 1].to)
             /\ file.wav /\ ShouldSplit(file) =>
                  chunks[i].from % file.align = 0 /\ chunks[i].size <= MaxChunk
        /\ chunks # <<>> => Last(chunks).to = file.samples

\* The check against a window that makes no progress never refuses a file: whatever the frame
\* size, the length of a second and the chunk limit are, the overlap leaves room to go on.
SplitMakesProgress == pc # "stuck"

\* A transcription holds the text of every chunk, in the order of the audio, whatever order
\* the providers answered in.
TextIsWhole == pc = "done" => text = [i \in DOMAIN chunks |-> i] /\ \A i \in DOMAIN task : task[i].end = "ok"

\* A request fails for a chunk only after each of the chunk's providers failed in every
\* cycle; and a chunk is never sent to Tinfoil if it is larger than Tinfoil takes.
FailsAfterEveryTry ==
    \A i \in DOMAIN task :
        /\ task[i].end = "failed" =>
             \A c \in 1 .. MaxCycles :
                 /\ <<"default", c>> \in task[i].tried
                 /\ chunks[i].size <= TinfoilMax => <<"tinfoil", c>> \in task[i].tried
        /\ chunks[i].size > TinfoilMax => \A c \in 1 .. MaxCycles : <<"tinfoil", c>> \notin task[i].tried

\* Every request ends.
Ends == <>(pc \in {"done", "refused", "stuck"})
=============================================================================
