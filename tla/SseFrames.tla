----------------------------- MODULE SseFrames -----------------------------
(***************************************************************************)
(* Cutting a provider's byte stream into server-sent events                *)
(* (extract_sse_frame of openai.rs).  The network may split the bytes      *)
(* anywhere, inside a delimiter or a code point too.  Bytes are abstracted *)
(* to the five kinds the parser tells apart: CR, LF, a space, the token    *)
(* "data:" that opens a data line, and any other byte.                     *)
(***************************************************************************)
EXTENDS Integers, Sequences, SequencesExt

CONSTANTS
    MaxBytes,    \* bound: bytes of one stream
    MaxChunk     \* bound: bytes of one network chunk

FramesAssumption == MaxBytes \in Nat /\ MaxChunk \in Nat \ {0}

Bytes == {"CR", "LF", "space", "data:", "x"}
Whitespace == {"CR", "LF", "space"}

VARIABLES
    whole,    \* everything the provider sent
    buffer,   \* bytes not yet cut
    frames    \* the data payloads handed on

vars == <<whole, buffer, frames>>

Matches(s, i, pattern) == i + Len(pattern) - 1 <= Len(s) /\ SubSeq(s, i, i + Len(pattern) - 1) = pattern

\* Where a delimiter starts first; 0 for nowhere.
Position(s, pattern) ==
    LET at == { i \in DOMAIN s : Matches(s, i, pattern) }
    IN IF at = {} THEN 0 ELSE CHOOSE i \in at : \A j \in at : i <= j

LfLf == <<"LF", "LF">>
CrlfCrlf == <<"CR", "LF", "CR", "LF">>

\* find_sse_frame_boundary: the earlier of the two delimiters; at 0 is none.
Boundary(s) ==
    LET lf == Position(s, LfLf) crlf == Position(s, CrlfCrlf)
    IN IF lf # 0 /\ (crlf = 0 \/ lf < crlf) THEN [at |-> lf, len |-> 2] ELSE [at |-> crlf, len |-> 4]

From(s, i) == SubSeq(s, i, Len(s))

Split(s, sep) ==
    LET pieces[i \in 1 .. Len(s) + 1] ==
            LET at == Position(From(s, i), sep)
            IN IF at = 0 THEN <<From(s, i)>>
               ELSE <<SubSeq(s, i, i + at - 2)>> \o pieces[i + at - 1 + Len(sep)]
    IN pieces[1]

StripSuffix(s, b) == IF s # <<>> /\ Last(s) = b THEN Front(s) ELSE s
StripPrefix(s, b) == IF s # <<>> /\ Head(s) = b THEN Tail(s) ELSE s

\* The data lines of a frame, joined by line feeds.
Payload(frame) ==
    FoldLeft(LAMBDA data, raw :
                 LET line == StripSuffix(raw, "CR") IN
                 IF line = <<>> \/ Head(line) # "data:" THEN data
                 ELSE (IF data = <<>> THEN data ELSE Append(data, "LF")) \o StripPrefix(Tail(line), "space"),
             <<>>, Split(frame, <<"LF">>))

\* What a frame hands on: blank frames and frames without data are skipped.
Payloads(frame) ==
    IF (\A i \in DOMAIN frame : frame[i] \in Whitespace) \/ Payload(frame) = <<>> THEN <<>>
    ELSE <<Payload(frame)>>

\* Every payload the bytes hold, and what is left of them.
ExtractAll(bytes) ==
    LET cut[i \in 1 .. Len(bytes) + 1] ==
            LET b == Boundary(From(bytes, i))
                later == cut[i + b.at - 1 + b.len]
            IN IF b.at = 0 THEN [frames |-> <<>>, rest |-> From(bytes, i)]
               ELSE [later EXCEPT !.frames = Payloads(SubSeq(bytes, i, i + b.at - 2)) \o @]
    IN cut[1]

Init == whole = <<>> /\ buffer = <<>> /\ frames = <<>>

Chunks == UNION { [1 .. n -> Bytes] : n \in 1 .. MaxChunk }

\* A network chunk is appended to the buffer and every whole frame is cut.
Receive(bytes) ==
    /\ Len(whole) + Len(bytes) <= MaxBytes
    /\ whole' = whole \o bytes
    /\ LET e == ExtractAll(buffer \o bytes)
       IN buffer' = e.rest /\ frames' = frames \o e.frames

Next == \E bytes \in Chunks : Receive(bytes)

Spec == Init /\ [][Next]_vars

\* However the network splits the stream, the frames handed on, and the bytes
\* waiting for the rest of a frame, are those of the unsplit stream.
ChunkingDoesNotMatter ==
    [frames |-> frames, rest |-> buffer] = ExtractAll(whole)
=============================================================================
