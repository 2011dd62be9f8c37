------------------------- MODULE ResponseStreamProofs -------------------------
(*****************************************************************************)
(* What is stored of a response, for any number of items, chunks and tool    *)
(* turns, any size of the two channels and any number of database faults:    *)
(* retrieval order is stream order, tool outputs are durable, the stream     *)
(* implements ResponseRecord, and a transcript is whole.                     *)
(*                                                                           *)
(* None of these is inductive alone: an item is on its way through the       *)
(* messages the loop has yet to send, the storage channel and the storage    *)
(* task, and on its way to the client through the other channel. The first   *)
(* invariant orders all of them: what is stored is older than what is        *)
(* queued, and that older than what is yet to be sent (OrderInv); a delta or *)
(* an end follows its start, unless the start is stored (BegunInv). The      *)
(* others are stacked on it: acknowledgements agree with the rows of their   *)
(* call (ToolInv), nothing follows the end of an item (RecordInv), and what  *)
(* is owed, sent and stored adds up (WholeInv).                              *)
(*****************************************************************************)
EXTENDS ResponseStream, SequenceTheorems, TLAPS

Starting == {"MessageStarted", "ReasoningStarted"}
Tooling == {"ToolCall", "ToolOutput"}
Opening == Starting \union Tooling
Deltas == {"ContentDelta", "ReasoningDelta"}
Ending == {"MessageDone", "ReasoningDone"}
Following == Deltas \union Ending
Bare == {"Usage", "ResponseDone", "Error", "Cancelled"}

\* The messages that are sent: those about an item name one.
Sent == { m \in Messages : m.t \in Bare \/ m.i \in Items }

ProcPcs == {"none", "turn", "stream", "fail", "tool", "exec", "ack", "send", "tellClient", "over"}
Thens == {"none", "stream", "tool", "fail", "exec", "ack", "done"}

RowType == [st : {"none", "in_progress", "completed", "incomplete"}, at : Nat, text : Nat]
ProcType == [pc : ProcPcs, out : Seq(Sent), then : Thens, msg : 0 .. MaxItems, rsn : 0 .. MaxItems,
             rsnDone : BOOLEAN, saw : BOOLEAN, tools : BOOLEAN, turns : Nat, call : 0 .. MaxItems]
StoreType == [pc : {"none", "recv", "settle", "status", "over"}, pend : SUBSET Items,
              at : [Items -> Nat], text : [Items -> Nat], nextAt : Nat \ {0},
              end : Terminal \union {"none"}]
ClientType == [pc : {"request", "persist", "created", "reading", "ended", "gone"},
               seen : Seq(Items), end : {"none", "ResponseDone", "Cancelled", "Error"}]

TableType ==
    /\ status \in Terminal \union {"none", "in_progress", "deleted"}
    /\ row \in [Items -> RowType]
    /\ store \in StoreType
    /\ faults \in Nat
ChannelType ==
    /\ storageQ \in Seq(Sent) /\ Len(storageQ) <= StorageBuffer
    /\ clientQ \in Seq(Sent) /\ Len(clientQ) <= ClientBuffer
    /\ acks \in Seq(BOOLEAN)
LoopType ==
    /\ proc \in ProcType
    /\ next \in 1 .. MaxItems + 1
    /\ emitted \in [Items -> Nat]
PeerType ==
    /\ client \in ClientType
    /\ listen \in {"none", "listening", "signalled", "toClient"}
-----------------------------------------------------------------------------
\* Where the loop is: a tool call is under way, or nothing will be sent again.
Calling == proc.pc \in {"exec", "ack"} \/ (proc.pc = "send" /\ proc.then \in {"exec", "ack"})
Stopped == proc.pc \in {"fail", "tellClient", "over"}
BetweenTurns ==
    \/ proc.pc \in {"none", "turn", "tool", "exec", "ack"}
    \/ proc.pc = "send" /\ proc.then \in {"tool", "exec", "ack"}

\* Items the loop has drawn in this turn.
DrawnThisTurn == (IF proc.rsn # 0 THEN 1 ELSE 0) + (IF proc.msg # 0 \/ proc.saw THEN 1 ELSE 0)

LoopInv ==
    /\ proc.pc # "send" => proc.out = <<>>
    /\ proc.pc = "send" => proc.then # "none"
    /\ proc.then = "done" => proc.pc \in {"send", "over", "fail"}
    /\ BetweenTurns => proc.msg = 0 /\ (proc.rsn = 0 \/ proc.rsnDone)
    /\ proc.saw => proc.msg = 0
    /\ proc.rsn = 0 => ~proc.rsnDone
    /\ proc.msg < next /\ proc.rsn < next
    /\ proc.msg = proc.rsn => proc.msg = 0

\* How many items a response can draw: four in a tool turn, two in the last.
DrawInv ==
    /\ proc.turns <= ToolTurns
    /\ proc.tools /\ ~Calling /\ ~Stopped => proc.turns < ToolTurns
    /\ proc.saw /\ ~Calling /\ ~Stopped /\ proc.pc # "turn" => proc.tools
    /\ proc.pc = "tool" \/ (proc.pc = "send" /\ proc.then = "tool") => proc.tools
    /\ proc.pc \in {"none", "turn"} \/ Calling => next <= 4 * proc.turns + 1
    /\ next <= 4 * proc.turns + 1 + DrawnThisTurn
    /\ Calling => proc.call = next - 2
    /\ proc.call # 0 => proc.call + 1 < next
    /\ proc.turns > 0 <=> proc.call # 0

\* The tasks start in order: the row, the storage task and the orchestrator.
StartInv ==
    /\ client.pc \in {"request", "persist", "created"} => orch = "none" /\ store.pc = "none"
    /\ orch \in {"none", "spawned"} => proc.pc = "none" /\ listen = "none"
    /\ client.pc = "request" => status = "none"
    /\ status = "none" => client.pc \in {"request", "gone"} /\ store.pc = "none"
    /\ store.end = "none" <=> store.pc \in {"none", "recv"}

\* Every item below the fence has been sent or is about to be: the loop draws a
\* call and its output together, and sends the output once the call has run.
Fence == IF proc.pc = "exec" \/ (proc.pc = "send" /\ proc.then = "exec")
         THEN proc.call + 1 ELSE next

Opens(q, i) == \E k \in 1 .. Len(q) : q[k].t \in Opening /\ q[k].i = i
Starts(q, i) == \E k \in 1 .. Len(q) : q[k].t \in Starting /\ q[k].i = i
Ends(q, i) == \E k \in 1 .. Len(q) : q[k].t \in Ending /\ q[k].i = i
StartsBefore(q, k, i) == \E j \in 1 .. Len(q) : j < k /\ q[j].t \in Starting /\ q[j].i = i
EndsAfter(q, j, i) == \E k \in 1 .. Len(q) : k > j /\ q[k].t \in Ending /\ q[k].i = i
HasType(q, T) == \E k \in 1 .. Len(q) : q[k].t \in T

\* The loop has started item i and not ended it.
Live(p, i) == p.then # "done" /\ (i = p.msg \/ (i = p.rsn /\ ~p.rsnDone))

\* What holds of the messages `out` the loop puts together in a step.
DraftOpens(out, lo, hi) ==
    /\ \A k \in 1 .. Len(out) : out[k].t \in Opening =>
         /\ lo <= out[k].i /\ out[k].i < hi
         /\ \A j \in 1 .. Len(out) : out[j].t \in Opening => j = k
    /\ \A i \in Items : lo <= i /\ i < hi => Opens(out, i)
DraftFollows(out) ==
    /\ \A k \in 1 .. Len(out) : out[k].t \in Following => Live(proc, out[k].i) \/ StartsBefore(out, k, out[k].i)
    /\ \A i \in Items : Live(proc', i) => Live(proc, i) \/ Starts(out, i)
DraftEnds(out) ==
    /\ \A j \in 1 .. Len(out) : out[j].t \in Ending =>
         /\ ~Live(proc', out[j].i)
         /\ \A k \in 1 .. Len(out) : k > j /\ out[k].i = out[j].i => out[k].t \notin Following
    /\ \A i \in Items : Live(proc, i) => Live(proc', i) \/ Ends(out, i)
    /\ \A j \in 1 .. Len(out) : out[j].t \in Starting \union Deltas =>
         EndsAfter(out, j, out[j].i) \/ Live(proc', out[j].i)
DraftDone(out) ==
    /\ \A k \in 1 .. Len(out) : out[k].t = "ResponseDone" => k = Len(out) /\ proc'.then = "done"
    /\ proc'.pc = "send" /\ proc'.then = "done" => HasType(out, {"ResponseDone"})

Drafts ==
    /\ ~Stopped /\ ~Stopped' /\ proc.out = <<>>
    /\ Fence <= Fence'
    /\ DraftOpens(proc'.out, Fence, Fence')
    /\ DraftFollows(proc'.out) /\ DraftEnds(proc'.out) /\ DraftDone(proc'.out)
-----------------------------------------------------------------------------
(* What is at a place of three sequences put end to end.                        *)
LEMMA ThreeParts ==
    ASSUME NEW S, NEW a \in Seq(S), NEW b \in Seq(S), NEW c \in Seq(S)
    PROVE  /\ a \o b \o c \in Seq(S)
           /\ Len(a \o b \o c) = Len(a) + Len(b) + Len(c)
           /\ \A k \in 1 .. Len(a) + Len(b) + Len(c) :
                (a \o b \o c)[k] = IF k <= Len(a) THEN a[k]
                                   ELSE IF k <= Len(a) + Len(b) THEN b[k - Len(a)]
                                   ELSE c[k - (Len(a) + Len(b))]
<1>1. /\ a \o b \in Seq(S) /\ Len(a \o b) = Len(a) + Len(b)
      /\ \A k \in 1 .. Len(a) + Len(b) : (a \o b)[k] = IF k <= Len(a) THEN a[k] ELSE b[k - Len(a)]
  BY ConcatProperties
<1> DEFINE ab == a \o b
<1> HIDE DEF ab
<1>2. /\ ab \o c \in Seq(S) /\ Len(ab \o c) = Len(ab) + Len(c)
      /\ \A k \in 1 .. Len(ab) + Len(c) :
            (ab \o c)[k] = IF k <= Len(ab) THEN ab[k] ELSE c[k - Len(ab)]
  BY <1>1, ConcatProperties DEF ab
<1>3. /\ ab \in Seq(S) /\ Len(ab) = Len(a) + Len(b)
      /\ \A k \in 1 .. Len(a) + Len(b) : ab[k] = IF k <= Len(a) THEN a[k] ELSE b[k - Len(a)]
  BY <1>1 DEF ab
<1>4. /\ ab \o c \in Seq(S) /\ Len(ab \o c) = Len(a) + Len(b) + Len(c)
      /\ \A k \in 1 .. Len(a) + Len(b) + Len(c) :
            (ab \o c)[k] = IF k <= Len(a) THEN a[k]
                           ELSE IF k <= Len(a) + Len(b) THEN b[k - Len(a)]
                           ELSE c[k - (Len(a) + Len(b))]
  <2>1. Len(a) \in Nat /\ Len(b) \in Nat /\ Len(c) \in Nat
    OBVIOUS
  <2> QED BY <1>2, <1>3, <2>1
<1> QED BY <1>4 DEF ab

(* The messages the loop makes are of the kinds that are sent.                  *)
LEMMA SentMessages ==
    /\ \A t \in Opening \union Following, i \in Items : Msg(t, i) \in Sent
    /\ \A t \in Bare : Msg(t, 0) \in Sent
    /\ \A t, i : Msg(t, i).t = t /\ Msg(t, i).i = i
BY StreamAssumption
   DEF Msg, Sent, Messages, Items, Opening, Starting, Tooling, Following, Deltas, Ending, Bare
-----------------------------------------------------------------------------
LoopFacts == LoopType /\ LoopInv /\ DrawInv
Base == TableType /\ ChannelType /\ PeerType /\ StartInv /\ LoopFacts

(* The fence is a number up to the next item, and items are below it.           *)
LEMMA FenceType == LoopFacts => Fence \in 1 .. next /\ Fence \in Nat /\ next \in Nat
<1> SUFFICES ASSUME LoopFacts PROVE Fence \in 1 .. next /\ Fence \in Nat /\ next \in Nat
  OBVIOUS
<1>1. next \in 1 .. MaxItems + 1 /\ proc.call \in 0 .. MaxItems /\ MaxItems \in Nat
  BY StreamAssumption DEF LoopFacts, LoopType, ProcType
<1>2. CASE proc.pc = "exec" \/ (proc.pc = "send" /\ proc.then = "exec")
  <2>1. proc.call = next - 2 /\ Fence = proc.call + 1
    BY <1>2 DEF LoopFacts, DrawInv, Calling, Fence
  <2> QED BY <1>1, <2>1
<1>3. CASE ~(proc.pc = "exec" \/ (proc.pc = "send" /\ proc.then = "exec"))
  BY <1>1, <1>3 DEF Fence
<1> QED BY <1>2, <1>3

(* A step of the loop that makes no message.                                    *)
LEMMA QuietDraft ==
    ASSUME LoopFacts, ~Stopped, ~Stopped', proc.out = <<>>, proc'.out = <<>>, Fence' = Fence,
           \A i \in Items : Live(proc', i) <=> Live(proc, i),
           ~(proc'.pc = "send" /\ proc'.then = "done")
    PROVE  Drafts
<1>1. Len(proc'.out) = 0
  OBVIOUS
<1>2. Fence \in Nat
  BY FenceType
<1>3. DraftOpens(proc'.out, Fence, Fence')
  BY <1>1, <1>2 DEF DraftOpens, Items
<1>4. DraftFollows(proc'.out) /\ DraftEnds(proc'.out) /\ DraftDone(proc'.out)
  BY <1>1 DEF DraftFollows, DraftEnds, DraftDone
<1> QED BY <1>2, <1>3, <1>4 DEF Drafts

(* While a turn's stream is read, a further item of it can be drawn.            *)
LEMMA RoomToDraw ==
    ASSUME LoopFacts, proc.pc = "stream"
    PROVE  /\ proc.rsn = 0 \/ (proc.msg = 0 /\ ~proc.saw) => next \in Items
           /\ Fence = next /\ ~Stopped /\ ~Calling /\ ~BetweenTurns /\ proc.out = <<>>
           /\ proc.then # "done"
           /\ proc.tools => proc.turns < ToolTurns
<1>1. Fence = next /\ ~Stopped /\ ~Calling /\ ~BetweenTurns
  BY DEF Fence, Calling, Stopped, BetweenTurns
<1>2. proc.out = <<>> /\ proc.then # "done" /\ (proc.tools => proc.turns < ToolTurns)
  BY <1>1 DEF LoopFacts, LoopInv, DrawInv
<1>3. /\ next \in 1 .. MaxItems + 1 /\ proc.turns \in Nat /\ proc.turns <= ToolTurns
      /\ MaxItems \in Nat /\ ToolTurns \in Nat /\ MaxItems >= 4 * ToolTurns + 2
      /\ next <= 4 * proc.turns + 1 + DrawnThisTurn
  BY StreamAssumption DEF LoopFacts, LoopType, DrawInv, ProcType
<1>4. proc.rsn = 0 \/ (proc.msg = 0 /\ ~proc.saw) => DrawnThisTurn \in {0, 1}
  BY DEF DrawnThisTurn
<1>5. proc.rsn = 0 \/ (proc.msg = 0 /\ ~proc.saw) => next \in Items
  BY <1>3, <1>4 DEF Items
<1> QED BY <1>1, <1>2, <1>5

(* Messages about the items of the turn leave its bookkeeping alone.            *)
LEMMA SameTurn ==
    ASSUME LoopFacts, proc.pc = "stream", next' = next, emitted' = emitted,
           NEW out \in Seq(Sent),
           proc' = [proc EXCEPT !.pc = "send", !.out = out, !.then = "stream"]
    PROVE  /\ LoopFacts' /\ Fence' = Fence /\ ~Stopped' /\ proc'.out = out /\ proc'.then = "stream"
           /\ \A i \in Items : Live(proc', i) <=> Live(proc, i)
<1>1. proc' \in ProcType
  BY DEF LoopFacts, LoopType, ProcType, ProcPcs, Thens
<1>2. /\ proc'.pc = "send" /\ proc'.out = out /\ proc'.then = "stream" /\ proc'.rsn = proc.rsn
      /\ proc'.msg = proc.msg /\ proc'.rsnDone = proc.rsnDone /\ proc'.saw = proc.saw
      /\ proc'.tools = proc.tools /\ proc'.turns = proc.turns /\ proc'.call = proc.call
  BY DEF LoopFacts, LoopType, ProcType
<1>3. LoopType'
  BY <1>1 DEF LoopFacts, LoopType
<1>4. LoopInv' /\ DrawInv'
  BY <1>2, RoomToDraw
     DEF LoopFacts, LoopInv, DrawInv, Calling, Stopped, BetweenTurns, DrawnThisTurn
<1>5. Fence' = Fence /\ ~Stopped'
  BY <1>2, RoomToDraw DEF Fence, Stopped
<1> QED BY <1>2, <1>3, <1>4, <1>5, RoomToDraw DEF LoopFacts, Live

(* A reasoning delta opens its item or follows in it.                           *)
LEMMA DraftReasoning ==
    ASSUME LoopFacts, ReasoningChunk
    PROVE  LoopFacts' /\ Drafts
<1>1. proc.pc = "stream" /\ emitted' = emitted /\ proc \in ProcType
  BY DEF ReasoningChunk, Quiet, LoopFacts, LoopType
<1>2. CASE proc' = proc /\ next' = next
  <2>1. LoopFacts'
    BY <1>1, <1>2 DEF LoopFacts, LoopType, LoopInv, DrawInv, Calling, Stopped, BetweenTurns, DrawnThisTurn
  <2>2. Drafts
    BY <1>1, <1>2, RoomToDraw, QuietDraft DEF Stopped, Fence, Live
  <2> QED BY <2>1, <2>2
<1>3. CASE /\ proc.rsn = 0 /\ ~proc.rsnDone /\ next' = next + 1
           /\ proc' = Sending([proc EXCEPT !.rsn = next],
                             <<Msg("ReasoningStarted", next), Msg("ReasoningDelta", next)>>, "stream")
  <2> DEFINE a == Msg("ReasoningStarted", next)
             b == Msg("ReasoningDelta", next)
  <2>1. next \in Items
    BY <1>1, <1>3, RoomToDraw
  <2>2. /\ a \in Sent /\ a.t = "ReasoningStarted" /\ a.i = next
        /\ b \in Sent /\ b.t = "ReasoningDelta" /\ b.i = next
    BY <2>1, SentMessages DEF Opening, Starting, Following, Deltas
  <2> HIDE DEF a, b
  <2>3. proc' = [proc EXCEPT !.rsn = next, !.pc = "send", !.out = <<a, b>>, !.then = "stream"]
    BY <1>3 DEF Sending, a, b
  <2>4. <<a, b>> \in Seq(Sent) /\ Len(<<a, b>>) = 2 /\ <<a, b>>[1] = a /\ <<a, b>>[2] = b
    BY <2>2
  <2>5. LoopType'
    <3>1. next' \in 1 .. MaxItems + 1 /\ next \in 0 .. MaxItems
      BY <1>3, <2>1, StreamAssumption DEF Items
    <3>2. proc' \in ProcType
      BY <1>1, <2>3, <2>4, <3>1 DEF ProcType, ProcPcs, Thens
    <3> QED BY <1>1, <3>1, <3>2 DEF LoopFacts, LoopType
  <2>6. /\ proc'.pc = "send" /\ proc'.out = <<a, b>> /\ proc'.then = "stream" /\ proc'.rsn = next
        /\ proc'.msg = proc.msg /\ proc'.rsnDone = proc.rsnDone /\ proc'.saw = proc.saw
        /\ proc'.tools = proc.tools /\ proc'.turns = proc.turns /\ proc'.call = proc.call
    BY <1>1, <2>3 DEF ProcType
  <2>7. LoopInv' /\ DrawInv'
    BY <1>1, <1>3, <2>1, <2>6, RoomToDraw, SMTT(30)
       DEF LoopFacts, LoopType, LoopInv, DrawInv, Calling, Stopped, BetweenTurns, DrawnThisTurn, Items, ProcType
  <2>8. Fence = next /\ Fence' = next + 1
    BY <1>1, <1>3, <2>6, RoomToDraw DEF Fence
  <2>9. Live(proc', next) /\ \A i \in Items : Live(proc', i) <=> Live(proc, i) \/ i = next
    BY <1>1, <1>3, <2>1, <2>6, RoomToDraw DEF Live, Items
  <2>10. DraftOpens(proc'.out, Fence, Fence')
    BY <2>1, <2>2, <2>4, <2>6, <2>8 DEF DraftOpens, Opens, Opening, Starting, Tooling, Deltas, Items
  <2>11. DraftFollows(proc'.out)
    BY <2>1, <2>2, <2>4, <2>6, <2>9
       DEF DraftFollows, Starts, StartsBefore, Following, Starting, Deltas, Ending
  <2>12. DraftEnds(proc'.out) /\ DraftDone(proc'.out)
    BY <2>2, <2>4, <2>6, <2>9 DEF DraftEnds, DraftDone, Ending, Starting, Deltas
  <2>13. Drafts
    BY <1>1, <2>1, <2>6, <2>8, <2>10, <2>11, <2>12, RoomToDraw DEF Drafts, Stopped, Items
  <2> QED BY <2>5, <2>7, <2>13 DEF LoopFacts
<1>4. CASE /\ proc.rsn # 0 /\ ~proc.rsnDone /\ next' = next
           /\ proc' = Sending(proc, <<Msg("ReasoningDelta", proc.rsn)>>, "stream")
  <2> DEFINE b == Msg("ReasoningDelta", proc.rsn)
  <2>1. proc.rsn \in Items
    BY <1>1, <1>4 DEF ProcType, Items
  <2>2. b \in Sent /\ b.t = "ReasoningDelta" /\ b.i = proc.rsn
    BY <2>1, SentMessages DEF Following, Deltas
  <2> HIDE DEF b
  <2>3. proc' = [proc EXCEPT !.pc = "send", !.out = <<b>>, !.then = "stream"]
    BY <1>4 DEF Sending, b
  <2>4. <<b>> \in Seq(Sent) /\ Len(<<b>>) = 1 /\ <<b>>[1] = b
    BY <2>2
  <2>5. LoopFacts' /\ Fence' = Fence /\ ~Stopped' /\ proc'.out = <<b>> /\ proc'.then = "stream"
        /\ \A i \in Items : Live(proc', i) <=> Live(proc, i)
    BY <1>1, <1>4, <2>3, <2>4, SameTurn
  <2>6. DraftOpens(proc'.out, Fence, Fence')
    BY <2>2, <2>4, <2>5, FenceType DEF DraftOpens, Opening, Starting, Tooling, Items
  <2>7. Live(proc, proc.rsn)
    BY <1>1, <1>4, RoomToDraw DEF Live
  <2>8. DraftFollows(proc'.out) /\ DraftEnds(proc'.out) /\ DraftDone(proc'.out)
    BY <2>1, <2>2, <2>4, <2>5, <2>7 DEF DraftFollows, DraftEnds, DraftDone, Ending
  <2> QED BY <1>1, <2>5, <2>6, <2>8, RoomToDraw, FenceType DEF Drafts
<1> QED BY <1>2, <1>3, <1>4 DEF ReasoningChunk

(* Usage is sent on.                                                            *)
LEMMA DraftUsage ==
    ASSUME LoopFacts, UsageChunk
    PROVE  LoopFacts' /\ Drafts
<1> DEFINE b == Msg("Usage", 0)
<1>1. /\ proc.pc = "stream" /\ emitted' = emitted /\ next' = next
      /\ proc' = [proc EXCEPT !.pc = "send", !.out = <<b>>, !.then = "stream"]
  BY DEF UsageChunk, Quiet, Sending
<1>2. b \in Sent /\ b.t = "Usage"
  BY SentMessages DEF Bare
<1> HIDE DEF b
<1>3. <<b>> \in Seq(Sent) /\ Len(<<b>>) = 1 /\ <<b>>[1] = b
  BY <1>2
<1>4. LoopFacts' /\ Fence' = Fence /\ ~Stopped' /\ proc'.out = <<b>> /\ proc'.then = "stream"
      /\ \A i \in Items : Live(proc', i) <=> Live(proc, i)
  BY <1>1, <1>3, SameTurn
<1>5. DraftOpens(proc'.out, Fence, Fence')
  BY <1>2, <1>3, <1>4, FenceType DEF DraftOpens, Opening, Starting, Tooling, Items
<1>6. DraftFollows(proc'.out) /\ DraftEnds(proc'.out) /\ DraftDone(proc'.out)
  BY <1>2, <1>3, <1>4
     DEF DraftFollows, DraftEnds, DraftDone, Following, Deltas, Ending, Starting
<1> QED BY <1>1, <1>4, <1>5, <1>6, RoomToDraw, FenceType DEF Drafts

(* close_reasoning_if_active makes one message if the reasoning item is open.   *)
LEMMA CloseReasoningIs ==
    ASSUME proc \in ProcType
    PROVE  /\ CloseReasoning(proc) \in Seq(Sent)
           /\ proc.rsn # 0 /\ ~proc.rsnDone =>
                /\ Len(CloseReasoning(proc)) = 1
                /\ CloseReasoning(proc)[1].t = "ReasoningDone" /\ CloseReasoning(proc)[1].i = proc.rsn
           /\ ~(proc.rsn # 0 /\ ~proc.rsnDone) => Len(CloseReasoning(proc)) = 0
<1> DEFINE b == Msg("ReasoningDone", proc.rsn)
<1>1. CASE proc.rsn # 0 /\ ~proc.rsnDone
  <2>1. proc.rsn \in Items
    BY <1>1 DEF ProcType, Items
  <2>2. b \in Sent /\ b.t = "ReasoningDone" /\ b.i = proc.rsn
    BY <2>1, SentMessages DEF Following, Ending
  <2>3. CloseReasoning(proc) = <<b>>
    BY <1>1 DEF CloseReasoning
  <2> HIDE DEF b
  <2> QED BY <1>1, <2>2, <2>3
<1>2. CASE ~(proc.rsn # 0 /\ ~proc.rsnDone)
  <2>1. CloseReasoning(proc) = <<>>
    BY <1>2 DEF CloseReasoning
  <2> QED BY <1>2, <2>1
<1> QED BY <1>1, <1>2

(* ensure_message_started makes one message if the turn has none yet.           *)
LEMMA StartMessageIs ==
    ASSUME proc \in ProcType, proc.msg = 0 => next \in Items
    PROVE  /\ StartMessage(proc, next) \in Seq(Sent)
           /\ proc.msg = 0 => /\ Len(StartMessage(proc, next)) = 1
                              /\ StartMessage(proc, next)[1].t = "MessageStarted"
                              /\ StartMessage(proc, next)[1].i = next
           /\ proc.msg # 0 => Len(StartMessage(proc, next)) = 0
           /\ Current(proc, next) \in Items
           /\ Current(proc, next) = IF proc.msg = 0 THEN next ELSE proc.msg
<1> DEFINE b == Msg("MessageStarted", next)
<1>0. Current(proc, next) \in Items /\ Current(proc, next) = IF proc.msg = 0 THEN next ELSE proc.msg
  BY DEF Current, ProcType, Items
<1>1. CASE proc.msg = 0
  <2>1. b \in Sent /\ b.t = "MessageStarted" /\ b.i = next
    BY <1>1, SentMessages DEF Opening, Starting
  <2>2. StartMessage(proc, next) = <<b>>
    BY <1>1 DEF StartMessage
  <2> HIDE DEF b
  <2> QED BY <1>0, <1>1, <2>1, <2>2
<1>2. CASE proc.msg # 0
  <2>1. StartMessage(proc, next) = <<>>
    BY <1>2 DEF StartMessage
  <2> QED BY <1>0, <1>2, <2>1
<1> QED BY <1>1, <1>2

(* Tool-call entries end the message and the reasoning item.                    *)
LEMMA DraftTool ==
    ASSUME LoopFacts, ToolChunk
    PROVE  LoopFacts' /\ Drafts
<1>1. proc.pc = "stream" /\ emitted' = emitted /\ next' = next /\ proc \in ProcType
  BY DEF ToolChunk, Quiet, LoopFacts, LoopType
<1>2. CASE ~proc.tools
  <2>0. proc' = proc
    BY <1>2 DEF ToolChunk
  <2>1. LoopFacts'
    BY <1>1, <2>0 DEF LoopFacts, LoopType, LoopInv, DrawInv, Calling, Stopped, BetweenTurns, DrawnThisTurn
  <2>2. Drafts
    BY <1>1, <2>0, RoomToDraw, QuietDraft DEF Stopped, Fence, Live
  <2> QED BY <2>1, <2>2
<1>3. CASE proc.tools
  <2> DEFINE a == IF proc.msg = 0 THEN <<>> ELSE <<Msg("MessageDone", proc.msg)>>
             b == CloseReasoning(proc)
             out == a \o b
  <2>1. proc' = [proc EXCEPT !.msg = 0, !.saw = TRUE, !.rsnDone = proc.rsnDone \/ proc.rsn # 0,
                             !.pc = "send", !.out = out, !.then = "stream"]
    BY <1>1, <1>3 DEF ToolChunk, Sending, ProcType
  <2>2. /\ a \in Seq(Sent) /\ (proc.msg = 0 => Len(a) = 0)
        /\ proc.msg # 0 => Len(a) = 1 /\ a[1].t = "MessageDone" /\ a[1].i = proc.msg
    <3>1. CASE proc.msg = 0
      BY <3>1
    <3>2. CASE proc.msg # 0
      <4> DEFINE m == Msg("MessageDone", proc.msg)
      <4>1. proc.msg \in Items
        BY <1>1, <3>2 DEF ProcType, Items
      <4>2. m \in Sent /\ m.t = "MessageDone" /\ m.i = proc.msg
        BY <4>1, SentMessages DEF Following, Ending
      <4>3. a = <<m>>
        BY <3>2
      <4> HIDE DEF m, a
      <4> QED BY <3>2, <4>2, <4>3
    <3> QED BY <3>1, <3>2
  <2>3. /\ b \in Seq(Sent) /\ (~(proc.rsn # 0 /\ ~proc.rsnDone) => Len(b) = 0)
        /\ proc.rsn # 0 /\ ~proc.rsnDone =>
             Len(b) = 1 /\ b[1].t = "ReasoningDone" /\ b[1].i = proc.rsn
    BY <1>1, CloseReasoningIs
  <2> HIDE DEF a, b
  <2>4. /\ out \in Seq(Sent) /\ Len(out) = Len(a) + Len(b)
        /\ \A k \in 1 .. Len(a) + Len(b) : out[k] = IF k <= Len(a) THEN a[k] ELSE b[k - Len(a)]
    BY <2>2, <2>3, ConcatProperties
  <2> HIDE DEF out
  <2>5. 0 \in 0 .. MaxItems
    BY StreamAssumption
  <2>6. proc' \in ProcType
    BY <1>1, <2>1, <2>4, <2>5 DEF ProcType, ProcPcs, Thens
  <2>7. /\ proc'.pc = "send" /\ proc'.out = out /\ proc'.then = "stream" /\ proc'.rsn = proc.rsn
        /\ proc'.msg = 0 /\ proc'.saw /\ (proc'.rsnDone <=> proc.rsnDone \/ proc.rsn # 0)
        /\ proc'.tools = proc.tools /\ proc'.turns = proc.turns /\ proc'.call = proc.call
    BY <1>1, <2>1 DEF ProcType
  <2>8. LoopType'
    BY <1>1, <2>6 DEF LoopFacts, LoopType
  <2>9. LoopInv'
    BY <1>1, <2>7, RoomToDraw DEF LoopFacts, LoopType, LoopInv, BetweenTurns, ProcType
  <2>10. DrawInv'
    <3>1. next <= 4 * proc.turns + 1 + (IF proc.rsn # 0 THEN 1 ELSE 0) + 1
      BY <1>1 DEF LoopFacts, LoopType, DrawInv, DrawnThisTurn, ProcType
    <3>2. DrawnThisTurn' = (IF proc.rsn # 0 THEN 1 ELSE 0) + 1
      BY <2>7 DEF DrawnThisTurn
    <3>3. ~Calling' /\ ~Stopped'
      BY <2>7 DEF Calling, Stopped
    <3> QED BY <1>1, <1>3, <2>7, <3>1, <3>2, <3>3, RoomToDraw DEF LoopFacts, DrawInv, ProcType
  <2>11. Fence' = Fence /\ ~Stopped' /\ \A i \in Items : ~Live(proc', i)
    BY <1>1, <2>7, RoomToDraw DEF Fence, Stopped, Live, Items
  <2>12. \A k \in 1 .. Len(out) : out[k].t \in Ending /\ Live(proc, out[k].i) /\ out[k].i \in Items
    BY <1>1, <2>2, <2>3, <2>4, RoomToDraw, SMTT(30) DEF Live, Ending, Items, ProcType
  <2>13. \A j, k \in 1 .. Len(out) : j # k => out[j].i # out[k].i
    <3>1. Len(a) \in {0, 1} /\ Len(b) \in {0, 1}
      BY <2>2, <2>3
    <3>2. proc.msg = proc.rsn => proc.msg = 0 \/ proc.rsnDone
      BY DEF LoopFacts, LoopInv
    <3> QED BY <2>2, <2>3, <2>4, <3>1, <3>2
  <2>14. \A i \in Items : Live(proc, i) => Ends(out, i)
    <3>1. Len(a) \in {0, 1} /\ Len(b) \in {0, 1}
      BY <2>2, <2>3
    <3> QED BY <2>2, <2>3, <2>4, <3>1 DEF Live, Ends, Ending, Items
  <2>15. DraftOpens(proc'.out, Fence, Fence')
    BY <2>7, <2>11, <2>12, FenceType DEF DraftOpens, Opening, Starting, Tooling, Ending, Items
  <2>16. DraftFollows(proc'.out)
    BY <2>7, <2>11, <2>12 DEF DraftFollows
  <2>17. DraftEnds(proc'.out) /\ DraftDone(proc'.out)
    <3>1. \A k \in 1 .. Len(out) : out[k].t \notin Starting \union Deltas /\ out[k].t # "ResponseDone"
      BY <2>12 DEF Ending, Starting, Deltas
    <3>2. \A j \in 1 .. Len(out) : ~Live(proc', out[j].i)
      BY <2>11, <2>12
    <3>3. \A j, k \in 1 .. Len(out) : k > j => out[k].i # out[j].i
      BY <2>4, <2>13
    <3> QED BY <2>7, <2>11, <2>14, <3>1, <3>2, <3>3 DEF DraftEnds, DraftDone
  <2> QED BY <1>1, <2>8, <2>9, <2>10, <2>11, <2>15, <2>16, <2>17, RoomToDraw, FenceType DEF Drafts, LoopFacts
<1> QED BY <1>2, <1>3

\* `out` ends an open reasoning item, starts a missing message and goes on with `c`.
MessageShape(out, c, la, lb) ==
    /\ out \in Seq(Sent) /\ Len(out) = la + lb + Len(c)
    /\ la = 1 <=> proc.rsn # 0 /\ ~proc.rsnDone
    /\ lb = 1 <=> proc.msg = 0
    /\ \A k \in 1 .. Len(out) :
         /\ k <= la => out[k].t = "ReasoningDone" /\ out[k].i = proc.rsn
         /\ la < k /\ k <= la + lb => out[k].t = "MessageStarted" /\ out[k].i = next
         /\ la + lb < k => out[k] = c[k - (la + lb)]

(* The messages that end a reasoning item, start the message and go on with `c`. *)
LEMMA MessageDraft ==
    ASSUME LoopFacts, proc.pc = "stream", ~proc.saw, NEW c \in Seq(Sent), NEW out,
           out = CloseReasoning(proc) \o StartMessage(proc, next) \o c
    PROVE  \E la, lb \in {0, 1} : MessageShape(out, c, la, lb)
<1> DEFINE a == CloseReasoning(proc)
           b == StartMessage(proc, next)
<1>1. proc \in ProcType /\ (proc.msg = 0 => next \in Items)
  BY RoomToDraw DEF LoopFacts, LoopType
<1>2. /\ a \in Seq(Sent)
      /\ proc.rsn # 0 /\ ~proc.rsnDone =>
           Len(a) = 1 /\ a[1].t = "ReasoningDone" /\ a[1].i = proc.rsn
      /\ ~(proc.rsn # 0 /\ ~proc.rsnDone) => Len(a) = 0
  BY <1>1, CloseReasoningIs
<1>3. /\ b \in Seq(Sent)
      /\ proc.msg = 0 => Len(b) = 1 /\ b[1].t = "MessageStarted" /\ b[1].i = next
      /\ proc.msg # 0 => Len(b) = 0
  BY <1>1, StartMessageIs
<1>4. out = a \o b \o c
  OBVIOUS
<1> HIDE DEF a, b
<1>5. Len(a) \in {0, 1} /\ Len(b) \in {0, 1} /\ Len(c) \in Nat
  BY <1>2, <1>3
<1>6. /\ out \in Seq(Sent) /\ Len(out) = Len(a) + Len(b) + Len(c)
      /\ \A k \in 1 .. Len(a) + Len(b) + Len(c) :
                out[k] = IF k <= Len(a) THEN a[k]
                         ELSE IF k <= Len(a) + Len(b) THEN b[k - Len(a)]
                         ELSE c[k - (Len(a) + Len(b))]
  BY <1>2, <1>3, <1>4, ThreeParts
<1>7. ASSUME NEW k \in 1 .. Len(out)
      PROVE  /\ k <= Len(a) => out[k].t = "ReasoningDone" /\ out[k].i = proc.rsn
             /\ Len(a) < k /\ k <= Len(a) + Len(b) => out[k].t = "MessageStarted" /\ out[k].i = next
             /\ Len(a) + Len(b) < k => out[k] = c[k - (Len(a) + Len(b))]
  <2>1. k <= Len(a) => k = 1 /\ out[k] = a[1] /\ Len(a) = 1
    BY <1>5, <1>6
  <2>2. Len(a) < k /\ k <= Len(a) + Len(b) => k - Len(a) = 1 /\ out[k] = b[1] /\ Len(b) = 1
    BY <1>5, <1>6, SMTT(30)
  <2>3. Len(a) + Len(b) < k => out[k] = c[k - (Len(a) + Len(b))]
    BY <1>5, <1>6
  <2> QED BY <1>2, <1>3, <2>1, <2>2, <2>3, SMTT(30)
<1>8. (Len(a) = 1 <=> proc.rsn # 0 /\ ~proc.rsnDone) /\ (Len(b) = 1 <=> proc.msg = 0)
  <2>1. CASE proc.rsn # 0 /\ ~proc.rsnDone
    BY <1>2, <1>3, <2>1
  <2>2. CASE ~(proc.rsn # 0 /\ ~proc.rsnDone)
    <3>1. Len(a) = 0
      BY <1>2, <2>2, Zenon
    <3>2. Len(a) # 1 /\ (Len(b) = 1 <=> proc.msg = 0)
      BY <1>3, <3>1, SMTT(30)
    <3> QED BY <2>2, <3>2, Zenon
  <2> QED BY <2>1, <2>2
<1> QED BY <1>5, <1>6, <1>7, <1>8 DEF MessageShape

(* The bookkeeping of such a draft.                                             *)
LEMMA MessageTurn ==
    ASSUME LoopFacts, proc.pc = "stream", ~proc.saw, NEW out \in Seq(Sent),
           NEW then \in {"stream", "done"}, emitted' = emitted,
           proc' = Sending([proc EXCEPT !.rsnDone = @ \/ proc.rsn # 0, !.msg = Current(proc, next)],
                           out, then),
           next' = IF proc.msg = 0 THEN next + 1 ELSE next
    PROVE  /\ LoopFacts' /\ Fence = next /\ Fence' = next' /\ ~Stopped /\ ~Stopped' /\ proc.out = <<>>
           /\ proc'.pc = "send" /\ proc'.out = out /\ proc'.then = then
           /\ next \in Nat /\ (proc.msg = 0 => next \in Items)
           /\ Current(proc, next) \in Items /\ Current(proc, next) = IF proc.msg = 0 THEN next ELSE proc.msg
           /\ Current(proc, next) # proc.rsn
           /\ \A i \in Items : Live(proc', i) <=> then # "done" /\ i = Current(proc, next)
           /\ \A i \in Items : Live(proc, i) <=> i = proc.msg \/ (i = proc.rsn /\ ~proc.rsnDone)
<1> DEFINE cur == Current(proc, next)
<1>1. proc \in ProcType /\ (proc.msg = 0 => next \in Items)
  BY RoomToDraw DEF LoopFacts, LoopType
<1>2. cur \in Items /\ cur = IF proc.msg = 0 THEN next ELSE proc.msg
  BY <1>1, StartMessageIs
<1>3. proc' = [proc EXCEPT !.rsnDone = proc.rsnDone \/ proc.rsn # 0, !.msg = cur,
                           !.pc = "send", !.out = out, !.then = then]
  BY <1>1 DEF Sending, ProcType
<1> HIDE DEF cur
<1>4. /\ proc'.pc = "send" /\ proc'.out = out /\ proc'.then = then /\ proc'.rsn = proc.rsn
      /\ proc'.msg = cur /\ proc'.saw = proc.saw /\ (proc'.rsnDone <=> proc.rsnDone \/ proc.rsn # 0)
      /\ proc'.tools = proc.tools /\ proc'.turns = proc.turns /\ proc'.call = proc.call
  BY <1>1, <1>3 DEF ProcType
<1>5. /\ next \in 1 .. MaxItems + 1 /\ next' \in 1 .. MaxItems + 1 /\ MaxItems \in Nat
      /\ cur \in 1 .. MaxItems /\ cur < next' /\ next \in Nat /\ next' \in Nat /\ next <= next'
      /\ cur \in 0 .. MaxItems
  <2>1. /\ next \in 1 .. MaxItems + 1 /\ MaxItems \in Nat /\ proc.msg \in 0 .. MaxItems /\ proc.msg < next
        /\ cur \in 1 .. MaxItems /\ (proc.msg = 0 => next \in 1 .. MaxItems)
    BY <1>1, <1>2, StreamAssumption DEF LoopFacts, LoopType, LoopInv, Items, ProcType
  <2>2. CASE proc.msg = 0
    BY <1>2, <2>1, <2>2
  <2>3. CASE proc.msg # 0
    BY <1>2, <2>1, <2>3
  <2> QED BY <2>2, <2>3
<1>6. LoopType'
  <2>1. proc' \in ProcType
    BY <1>1, <1>3, <1>5 DEF ProcType, ProcPcs, Thens
  <2> QED BY <1>5, <2>1 DEF LoopFacts, LoopType
<1>7. cur # proc.rsn
  BY <1>1, <1>2, <1>5 DEF LoopFacts, LoopInv, ProcType, Items
<1>8. LoopInv'
  BY <1>1, <1>4, <1>5, <1>7, RoomToDraw, SMTT(30) DEF LoopFacts, LoopInv, BetweenTurns, ProcType
<1>9. DrawInv'
  <2>1. next' <= 4 * proc.turns + 1 + (IF proc.rsn # 0 THEN 1 ELSE 0) + 1
    <3> DEFINE r == IF proc.rsn # 0 THEN 1 ELSE 0
    <3>1. r \in {0, 1} /\ proc.turns \in Nat
      BY <1>1 DEF ProcType
    <3>2. next <= 4 * proc.turns + 1 + DrawnThisTurn
      BY DEF LoopFacts, DrawInv
    <3>3. DrawnThisTurn = r + (IF proc.msg # 0 THEN 1 ELSE 0)
      BY DEF DrawnThisTurn
    <3> HIDE DEF r
    <3>4. next' <= 4 * proc.turns + 1 + r + 1
      BY <1>5, <3>1, <3>2, <3>3, SMTT(30)
    <3> QED BY <3>4 DEF r
  <2>2. DrawnThisTurn' = (IF proc.rsn # 0 THEN 1 ELSE 0) + 1
    BY <1>4, <1>5 DEF DrawnThisTurn
  <2>3. ~Calling' /\ ~Stopped'
    BY <1>4 DEF Calling, Stopped
  <2>4. next' <= 4 * proc.turns + 1 + DrawnThisTurn'
    BY <1>1, <1>5, <2>1, <2>2 DEF ProcType
  <2>5. proc.call # 0 => proc.call + 1 < next'
    BY <1>1, <1>5, SMTT(30) DEF LoopFacts, DrawInv, ProcType
  <2> QED BY <1>4, <2>3, <2>4, <2>5, RoomToDraw DEF LoopFacts, DrawInv
<1>10. Fence' = next' /\ ~Stopped'
  BY <1>4 DEF Fence, Stopped
<1>11. \A i \in Items : Live(proc', i) <=> then # "done" /\ i = cur
  BY <1>1, <1>4, <1>5 DEF Live, Items, ProcType
<1>12. \A i \in Items : Live(proc, i) <=> i = proc.msg \/ (i = proc.rsn /\ ~proc.rsnDone)
  BY RoomToDraw DEF Live
<1> QED BY <1>1, <1>2, <1>4, <1>5, <1>6, <1>7, <1>8, <1>9, <1>10, <1>11, <1>12, RoomToDraw
     DEF LoopFacts, cur

(* Assistant text closes the reasoning item and starts its message first.       *)
LEMMA DraftContent ==
    ASSUME LoopFacts, ContentChunk
    PROVE  LoopFacts' /\ Drafts
<1>1. proc.pc = "stream" /\ emitted' = emitted /\ proc \in ProcType
  BY DEF ContentChunk, Quiet, LoopFacts, LoopType
<1>2. CASE proc' = proc /\ next' = next
  <2>1. LoopFacts'
    BY <1>1, <1>2 DEF LoopFacts, LoopType, LoopInv, DrawInv, Calling, Stopped, BetweenTurns, DrawnThisTurn
  <2>2. Drafts
    BY <1>1, <1>2, RoomToDraw, QuietDraft DEF Stopped, Fence, Live
  <2> QED BY <2>1, <2>2
<1>3. CASE /\ ~proc.saw
           /\ proc' = Sending([proc EXCEPT !.rsnDone = @ \/ proc.rsn # 0, !.msg = Current(proc, next)],
                             CloseReasoning(proc) \o StartMessage(proc, next)
                                 \o <<Msg("ContentDelta", Current(proc, next))>>,
                             "stream")
           /\ next' = IF proc.msg = 0 THEN next + 1 ELSE next
  <2> DEFINE cur == Current(proc, next)
             m == Msg("ContentDelta", cur)
             out == CloseReasoning(proc) \o StartMessage(proc, next) \o <<m>>
  <2>1. cur \in Items
    BY <1>1, <1>3, StartMessageIs, RoomToDraw
  <2>2. m \in Sent /\ m.t = "ContentDelta" /\ m.i = cur
    BY <2>1, SentMessages DEF Following, Deltas
  <2> HIDE DEF m
  <2>3. <<m>> \in Seq(Sent) /\ Len(<<m>>) = 1 /\ <<m>>[1] = m
    BY <2>2
  <2>40. PICK la, lb \in {0, 1} : MessageShape(out, <<m>>, la, lb)
    BY <1>1, <1>3, <2>3, MessageDraft
  <2>4. /\ out \in Seq(Sent) /\ Len(out) = la + lb + Len(<<m>>)
        /\ la = 1 <=> proc.rsn # 0 /\ ~proc.rsnDone
        /\ lb = 1 <=> proc.msg = 0
        /\ \A k \in 1 .. Len(out) :
             /\ k <= la => out[k].t = "ReasoningDone" /\ out[k].i = proc.rsn
             /\ la < k /\ k <= la + lb => out[k].t = "MessageStarted" /\ out[k].i = next
             /\ la + lb < k => out[k] = <<m>>[k - (la + lb)]
    BY <2>40 DEF MessageShape
  <2>5. proc' = Sending([proc EXCEPT !.rsnDone = @ \/ proc.rsn # 0, !.msg = Current(proc, next)],
                        out, "stream")
    BY <1>3 DEF m
  <2> HIDE DEF out
  <2>6. /\ LoopFacts' /\ Fence = next /\ Fence' = next' /\ ~Stopped /\ ~Stopped' /\ proc.out = <<>>
        /\ proc'.pc = "send" /\ proc'.out = out /\ proc'.then = "stream"
        /\ next \in Nat /\ (proc.msg = 0 => next \in Items)
        /\ cur \in Items /\ cur = IF proc.msg = 0 THEN next ELSE proc.msg
        /\ cur # proc.rsn
        /\ \A i \in Items : Live(proc', i) <=> i = cur
        /\ \A i \in Items : Live(proc, i) <=> i = proc.msg \/ (i = proc.rsn /\ ~proc.rsnDone)
    <3>1. out \in Seq(Sent) /\ "stream" \in {"stream", "done"} /\ "stream" # "done"
      BY <2>4
    <3> QED BY <1>1, <1>3, <2>5, <3>1, MessageTurn
  <2> HIDE DEF cur
  <2>7. \A k \in 1 .. Len(out) :
          /\ k <= la => out[k].t = "ReasoningDone" /\ out[k].i = proc.rsn /\ proc.rsn \in Items /\ ~proc.rsnDone
          /\ la < k /\ k <= la + lb => out[k].t = "MessageStarted" /\ out[k].i = cur /\ proc.msg = 0
          /\ la + lb < k => out[k].t = "ContentDelta" /\ out[k].i = cur /\ k = Len(out)
    BY <1>1, <2>2, <2>3, <2>4, <2>6 DEF ProcType, Items
  <2>8. Len(out) = la + lb + 1
    BY <2>3, <2>4
  <2>9. next' = next + lb /\ (lb = 1 => cur = next)
    BY <1>3, <2>4, <2>6
  <2>10. DraftOpens(out, next, next')
    <3>1. \A k \in 1 .. Len(out) : out[k].t \in Opening => k = la + 1 /\ lb = 1 /\ out[k].i = next
      BY <2>7, <2>8, <2>9 DEF Opening, Starting, Tooling
    <3>2. lb = 1 => la + 1 \in 1 .. Len(out) /\ out[la + 1].t \in Opening /\ out[la + 1].i = next
      BY <2>7, <2>8, <2>9 DEF Opening, Starting
    <3> QED BY <2>6, <2>9, <3>1, <3>2 DEF DraftOpens, Opens, Items
  <2>11. lb = 1 => la + 1 \in 1 .. Len(out) /\ out[la + 1].t \in Starting /\ out[la + 1].i = cur /\ la + 1 < Len(out)
    BY <2>7, <2>8 DEF Starting
  <2>12. la = 1 => 1 \in 1 .. Len(out) /\ out[1].t \in Ending /\ out[1].i = proc.rsn
    BY <2>7, <2>8 DEF Ending
  <2>13. lb = 0 => proc.msg = cur
    BY <2>4, <2>6
  <2>14. DraftFollows(out)
    <3>1. ASSUME NEW k \in 1 .. Len(out), out[k].t \in Following
          PROVE  Live(proc, out[k].i) \/ StartsBefore(out, k, out[k].i)
      <4>1. CASE k <= la
        BY <2>6, <2>7, <4>1
      <4>2. CASE la < k /\ k <= la + lb
        BY <2>7, <3>1, <4>2 DEF Following, Deltas, Ending
      <4>3. CASE la + lb < k
        BY <2>6, <2>7, <2>11, <2>13, <4>3 DEF StartsBefore
      <4> QED BY <4>1, <4>2, <4>3
    <3>2. \A i \in Items : Live(proc', i) => Live(proc, i) \/ Starts(out, i)
      BY <2>6, <2>11, <2>13 DEF Starts
    <3> QED BY <3>1, <3>2 DEF DraftFollows
  <2>15. DraftEnds(out)
    <3>1. ASSUME NEW j \in 1 .. Len(out), out[j].t \in Ending
          PROVE  /\ ~Live(proc', out[j].i)
                 /\ \A k \in 1 .. Len(out) : k > j /\ out[k].i = out[j].i => out[k].t \notin Following
      <4>1. j <= la
        BY <2>7, <3>1 DEF Ending
      <4>2. out[j].i = proc.rsn /\ proc.rsn \in Items /\ proc.rsn # cur
        BY <2>6, <2>7, <4>1
      <4>3. \A k \in 1 .. Len(out) : k > j => out[k].i = cur
        BY <2>7, <4>1
      <4> QED BY <2>6, <4>2, <4>3
    <3>2. \A i \in Items : Live(proc, i) => Live(proc', i) \/ Ends(out, i)
      <4>1. proc.msg \in Items => proc.msg = cur
        BY <2>6 DEF Items
      <4>2. proc.rsn \in Items /\ ~proc.rsnDone => Ends(out, proc.rsn)
        BY <2>4, <2>12 DEF Ends, Items
      <4> QED BY <2>6, <4>1, <4>2
    <3>3. \A j \in 1 .. Len(out) : out[j].t \in Starting \union Deltas =>
             EndsAfter(out, j, out[j].i) \/ Live(proc', out[j].i)
      BY <2>6, <2>7 DEF Starting, Deltas
    <3> QED BY <3>1, <3>2, <3>3 DEF DraftEnds
  <2>16. DraftDone(out)
    BY <2>6, <2>7 DEF DraftDone
  <2> QED BY <2>6, <2>9, <2>10, <2>14, <2>15, <2>16 DEF Drafts
<1> QED BY <1>2, <1>3 DEF ContentChunk

(* The end of a tool turn closes the reasoning item.                            *)
LEMMA DraftToolTurn ==
    ASSUME LoopFacts, NEW toolReason \in BOOLEAN, NEW named \in BOOLEAN,
           DoneChunk(toolReason, named), proc.saw \/ (proc.tools /\ toolReason)
    PROVE  LoopFacts' /\ Drafts
<1> DEFINE out == CloseReasoning(proc)
           then == IF proc.saw /\ named THEN "tool" ELSE "fail"
<1>1. /\ proc.pc = "stream" /\ emitted' = emitted /\ next' = next /\ proc \in ProcType
      /\ proc' = Sending([proc EXCEPT !.rsnDone = @ \/ proc.rsn # 0], out, then)
  BY DEF DoneChunk, Quiet, LoopFacts, LoopType
<1>2. /\ out \in Seq(Sent)
      /\ proc.rsn # 0 /\ ~proc.rsnDone =>
           Len(out) = 1 /\ out[1].t = "ReasoningDone" /\ out[1].i = proc.rsn
      /\ ~(proc.rsn # 0 /\ ~proc.rsnDone) => Len(out) = 0
  BY <1>1, CloseReasoningIs
<1>3. then \in {"tool", "fail"} /\ (then = "tool" => proc.saw)
  OBVIOUS
<1> HIDE DEF out, then
<1>4. proc' = [proc EXCEPT !.rsnDone = proc.rsnDone \/ proc.rsn # 0,
                           !.pc = "send", !.out = out, !.then = then]
  BY <1>1 DEF Sending, ProcType
<1>5. proc' \in ProcType
  BY <1>1, <1>2, <1>3, <1>4 DEF ProcType, ProcPcs, Thens
<1>6. /\ proc'.pc = "send" /\ proc'.out = out /\ proc'.then = then /\ proc'.rsn = proc.rsn
      /\ proc'.msg = proc.msg /\ proc'.saw = proc.saw /\ (proc'.rsnDone <=> proc.rsnDone \/ proc.rsn # 0)
      /\ proc'.tools = proc.tools /\ proc'.turns = proc.turns /\ proc'.call = proc.call
  BY <1>1, <1>4 DEF ProcType
<1>7. LoopType'
  BY <1>1, <1>5 DEF LoopFacts, LoopType
<1>8. LoopInv'
  BY <1>1, <1>3, <1>6, RoomToDraw DEF LoopFacts, LoopInv, BetweenTurns
<1>9. DrawInv'
  <2>1. DrawnThisTurn' = DrawnThisTurn
    BY <1>6 DEF DrawnThisTurn
  <2>2. ~Calling' /\ ~Stopped'
    BY <1>3, <1>6 DEF Calling, Stopped
  <2> QED BY <1>1, <1>3, <1>6, <2>1, <2>2, RoomToDraw DEF LoopFacts, DrawInv
<1>10. Fence' = Fence /\ ~Stopped'
  BY <1>1, <1>3, <1>6, RoomToDraw DEF Fence, Stopped
<1>11. \A i \in Items : Live(proc', i) <=> i = proc.msg
  BY <1>1, <1>3, <1>6 DEF Live, Items, ProcType
<1>12. \A i \in Items : Live(proc, i) <=> i = proc.msg \/ (i = proc.rsn /\ ~proc.rsnDone)
  BY <1>1, RoomToDraw DEF Live
<1>13. \A k \in 1 .. Len(out) :
         /\ k = 1 /\ Len(out) = 1 /\ out[k].t = "ReasoningDone" /\ out[k].i = proc.rsn
         /\ proc.rsn \in Items /\ ~proc.rsnDone /\ proc.rsn # proc.msg
  <2>1. CASE proc.rsn # 0 /\ ~proc.rsnDone
    <3>1. proc.rsn \in Items
      BY <1>1, <2>1 DEF Items, ProcType
    <3>2. proc.rsn # proc.msg
      BY <2>1 DEF LoopFacts, LoopInv
    <3>3. Len(out) = 1 /\ out[1].t = "ReasoningDone" /\ out[1].i = proc.rsn
      BY <1>2, <2>1, Zenon
    <3> QED BY <2>1, <3>1, <3>2, <3>3
  <2>2. CASE ~(proc.rsn # 0 /\ ~proc.rsnDone)
    BY <1>2, <2>2
  <2> QED BY <2>1, <2>2
<1>14. DraftOpens(out, Fence, Fence')
  BY <1>10, <1>13, FenceType DEF DraftOpens, Opening, Starting, Tooling, Items
<1>15. DraftFollows(out)
  BY <1>11, <1>12, <1>13 DEF DraftFollows
<1>16. DraftEnds(out)
  <2>1. \A i \in Items : Live(proc, i) => Live(proc', i) \/ Ends(out, i)
    BY <1>2, <1>11, <1>12 DEF Ends, Ending, Items
  <2> QED BY <1>11, <1>13, <2>1 DEF DraftEnds, Starting, Deltas
<1>17. DraftDone(out)
  BY <1>3, <1>6, <1>13 DEF DraftDone
<1> QED BY <1>1, <1>6, <1>7, <1>8, <1>9, <1>10, <1>14, <1>15, <1>16, <1>17, RoomToDraw, FenceType
     DEF Drafts, LoopFacts

(* The end of the last turn closes both items and completes the response.       *)
LEMMA DraftLastTurn ==
    ASSUME LoopFacts, NEW toolReason \in BOOLEAN, NEW named \in BOOLEAN,
           DoneChunk(toolReason, named), ~(proc.saw \/ (proc.tools /\ toolReason))
    PROVE  LoopFacts' /\ Drafts
<1> DEFINE cur == Current(proc, next)
           m == Msg("MessageDone", cur)
           d == Msg("ResponseDone", 0)
           out == CloseReasoning(proc) \o StartMessage(proc, next) \o <<m, d>>
<1>1. /\ proc.pc = "stream" /\ emitted' = emitted /\ proc \in ProcType /\ ~proc.saw
      /\ proc' = Sending([proc EXCEPT !.rsnDone = @ \/ proc.rsn # 0, !.msg = Current(proc, next)], out, "done")
      /\ next' = IF proc.msg = 0 THEN next + 1 ELSE next
  BY DEF DoneChunk, Quiet, LoopFacts, LoopType
<1>2. cur \in Items
  BY <1>1, StartMessageIs, RoomToDraw
<1>3. /\ m \in Sent /\ m.t = "MessageDone" /\ m.i = cur
      /\ d \in Sent /\ d.t = "ResponseDone" /\ d.i = 0
  BY <1>2, SentMessages DEF Following, Ending, Bare
<1> HIDE DEF m, d
<1>4. <<m, d>> \in Seq(Sent) /\ Len(<<m, d>>) = 2 /\ <<m, d>>[1] = m /\ <<m, d>>[2] = d
  BY <1>3
<1>50. PICK la, lb \in {0, 1} : MessageShape(out, <<m, d>>, la, lb)
  <2> DEFINE c == <<m, d>>
  <2>1. c \in Seq(Sent) /\ out = CloseReasoning(proc) \o StartMessage(proc, next) \o c
    BY <1>4
  <2> HIDE DEF c, out
  <2>2. \E la, lb \in {0, 1} : MessageShape(out, c, la, lb)
    BY <1>1, <2>1, MessageDraft
  <2> QED BY <2>2 DEF c
<1>5. /\ out \in Seq(Sent) /\ Len(out) = la + lb + Len(<<m, d>>)
      /\ la = 1 <=> proc.rsn # 0 /\ ~proc.rsnDone
      /\ lb = 1 <=> proc.msg = 0
      /\ \A k \in 1 .. Len(out) :
           /\ k <= la => out[k].t = "ReasoningDone" /\ out[k].i = proc.rsn
           /\ la < k /\ k <= la + lb => out[k].t = "MessageStarted" /\ out[k].i = next
           /\ la + lb < k => out[k] = <<m, d>>[k - (la + lb)]
  BY <1>50 DEF MessageShape
<1> HIDE DEF out
<1>6. /\ LoopFacts' /\ Fence = next /\ Fence' = next' /\ ~Stopped /\ ~Stopped' /\ proc.out = <<>>
      /\ proc'.pc = "send" /\ proc'.out = out /\ proc'.then = "done"
      /\ next \in Nat /\ (proc.msg = 0 => next \in Items)
      /\ cur \in Items /\ cur = IF proc.msg = 0 THEN next ELSE proc.msg
      /\ cur # proc.rsn
      /\ \A i \in Items : Live(proc', i) <=> "done" # "done" /\ i = cur
      /\ \A i \in Items : Live(proc, i) <=> i = proc.msg \/ (i = proc.rsn /\ ~proc.rsnDone)
  BY <1>1, <1>5, MessageTurn
<1> HIDE DEF cur
<1>7. Len(out) = la + lb + 2
  BY <1>4, <1>5
<1>8. \A k \in 1 .. Len(out) :
        /\ k <= la => out[k].t = "ReasoningDone" /\ out[k].i = proc.rsn /\ proc.rsn \in Items /\ ~proc.rsnDone
        /\ la < k /\ k <= la + lb => out[k].t = "MessageStarted" /\ out[k].i = cur /\ proc.msg = 0
        /\ k = la + lb + 1 => out[k].t = "MessageDone" /\ out[k].i = cur
        /\ k = la + lb + 2 => out[k].t = "ResponseDone" /\ out[k].i = 0
  <2> SUFFICES ASSUME NEW k \in 1 .. Len(out)
               PROVE  /\ k <= la => out[k].t = "ReasoningDone" /\ out[k].i = proc.rsn /\ proc.rsn \in Items /\ ~proc.rsnDone
                      /\ la < k /\ k <= la + lb => out[k].t = "MessageStarted" /\ out[k].i = cur /\ proc.msg = 0
                      /\ k = la + lb + 1 => out[k].t = "MessageDone" /\ out[k].i = cur
                      /\ k = la + lb + 2 => out[k].t = "ResponseDone" /\ out[k].i = 0
    OBVIOUS
  <2>1. k <= la => out[k].t = "ReasoningDone" /\ out[k].i = proc.rsn /\ proc.rsn \in Items /\ ~proc.rsnDone
    BY <1>1, <1>5 DEF ProcType, Items
  <2>2. la < k /\ k <= la + lb => out[k].t = "MessageStarted" /\ out[k].i = cur /\ proc.msg = 0
    BY <1>5, <1>6
  <2>3. k = la + lb + 1 => out[k] = m
    BY <1>4, <1>5
  <2>4. k = la + lb + 2 => out[k] = d
    BY <1>4, <1>5
  <2> QED BY <1>3, <2>1, <2>2, <2>3, <2>4
<1>9. next' = next + lb /\ (lb = 1 => cur = next)
  BY <1>1, <1>5, <1>6
<1>10. DraftOpens(out, next, next')
  <2>1. \A k \in 1 .. Len(out) : out[k].t \in Opening => k = la + 1 /\ lb = 1 /\ out[k].i = next
    BY <1>7, <1>8, <1>9 DEF Opening, Starting, Tooling
  <2>2. lb = 1 => la + 1 \in 1 .. Len(out) /\ out[la + 1].t \in Opening /\ out[la + 1].i = next
    BY <1>7, <1>8, <1>9 DEF Opening, Starting
  <2> QED BY <1>6, <1>9, <2>1, <2>2 DEF DraftOpens, Opens, Items
<1>11. lb = 1 => la + 1 \in 1 .. Len(out) /\ out[la + 1].t \in Starting /\ out[la + 1].i = cur
  BY <1>7, <1>8 DEF Starting
<1>12. la = 1 => 1 \in 1 .. Len(out) /\ out[1].t \in Ending /\ out[1].i = proc.rsn
  BY <1>7, <1>8 DEF Ending
<1>13. lb = 0 => proc.msg = cur
  BY <1>5, <1>6
<1>14. la + lb + 1 \in 1 .. Len(out) /\ out[la + lb + 1].t \in Ending /\ out[la + lb + 1].i = cur
  BY <1>7, <1>8 DEF Ending
<1>15. DraftFollows(out)
  <2>1. ASSUME NEW k \in 1 .. Len(out), out[k].t \in Following
        PROVE  Live(proc, out[k].i) \/ StartsBefore(out, k, out[k].i)
    <3>1. CASE k <= la
      BY <1>6, <1>8, <3>1
    <3>2. CASE la < k /\ k <= la + lb
      BY <1>8, <2>1, <3>2 DEF Following, Deltas, Ending
    <3>3. CASE k = la + lb + 1
      BY <1>6, <1>8, <1>11, <1>13, <3>3 DEF StartsBefore
    <3>4. CASE k = la + lb + 2
      BY <1>8, <2>1, <3>4 DEF Following, Deltas, Ending
    <3> QED BY <1>7, <3>1, <3>2, <3>3, <3>4
  <2> QED BY <1>6, <2>1 DEF DraftFollows
<1>16. DraftEnds(out)
  <2>1. ASSUME NEW j \in 1 .. Len(out), out[j].t \in Ending
        PROVE  \A k \in 1 .. Len(out) : k > j /\ out[k].i = out[j].i => out[k].t \notin Following
    <3>1. CASE j <= la
      <4>1. out[j].i = proc.rsn /\ proc.rsn \in Items /\ proc.rsn # cur
        BY <1>6, <1>8, <3>1
      <4>2. \A k \in 1 .. Len(out) : k > j => out[k].i \in {cur, 0}
        BY <1>7, <1>8, <3>1
      <4> QED BY <4>1, <4>2 DEF Items
    <3>2. CASE j > la
      <4>1. \A k \in 1 .. Len(out) : k > j => out[k].t \in {"MessageDone", "ResponseDone"} /\ k >= la + lb + 1
        BY <1>7, <1>8, <3>2
      <4>2. j # la + lb + 2 /\ ~(la < j /\ j <= la + lb)
        BY <1>8, <2>1 DEF Ending
      <4>3. \A k \in 1 .. Len(out) : k > j => out[k].t = "ResponseDone"
        BY <1>7, <1>8, <3>2, <4>2
      <4> QED BY <4>3 DEF Following, Deltas, Ending
    <3> QED BY <3>1, <3>2
  <2>2. \A i \in Items : Live(proc, i) => Ends(out, i)
    <3>1. proc.msg \in Items => proc.msg = cur
      BY <1>6 DEF Items
    <3>2. proc.rsn \in Items /\ ~proc.rsnDone => Ends(out, proc.rsn)
      BY <1>5, <1>12 DEF Ends, Items
    <3>3. Ends(out, cur)
      BY <1>14 DEF Ends
    <3> QED BY <1>6, <3>1, <3>2, <3>3
  <2>3. \A j \in 1 .. Len(out) : out[j].t \in Starting \union Deltas => EndsAfter(out, j, out[j].i)
    <3>1. \A j \in 1 .. Len(out) : out[j].t \in Starting \union Deltas =>
             la < j /\ j <= la + lb /\ out[j].i = cur
      BY <1>7, <1>8 DEF Starting, Deltas
    <3> QED BY <1>14, <3>1 DEF EndsAfter
  <2>4. \A i : ~Live(proc', i)
    BY <1>6 DEF Live
  <2> QED BY <2>1, <2>2, <2>3, <2>4 DEF DraftEnds
<1>17. DraftDone(out)
  <2>1. Len(out) \in 1 .. Len(out) /\ out[Len(out)].t = "ResponseDone"
    BY <1>7, <1>8
  <2>2. \A k \in 1 .. Len(out) : out[k].t = "ResponseDone" => k = Len(out)
    BY <1>7, <1>8
  <2> QED BY <1>6, <2>1, <2>2 DEF DraftDone, HasType
<1> QED BY <1>6, <1>9, <1>10, <1>15, <1>16, <1>17 DEF Drafts

(* Between turns nothing of the loop's is open.                                 *)
LEMMA NothingLive ==
    ASSUME proc \in ProcType, proc.msg = 0, proc.rsn = 0 \/ proc.rsnDone
    PROVE  \A i \in Items : ~Live(proc, i)
BY DEF Live, Items, ProcType

(* A tool call draws two items, of which the first is sent at once ...          *)
LEMMA DraftToolStart ==
    ASSUME LoopFacts, ToolStart
    PROVE  LoopFacts' /\ Drafts
<1> DEFINE m == Msg("ToolCall", next)
<1>1. /\ proc.pc = "tool" /\ emitted' = emitted /\ proc \in ProcType /\ next' = next + 2
      /\ proc' = [proc EXCEPT !.turns = proc.turns + 1, !.call = next, !.pc = "send",
                              !.out = <<m>>, !.then = "exec"]
  BY DEF ToolStart, Quiet, LoopFacts, LoopType, Sending, ProcType
<1>2. /\ proc.msg = 0 /\ (proc.rsn = 0 \/ proc.rsnDone) /\ proc.out = <<>> /\ proc.then # "done"
      /\ ~Calling /\ ~Stopped /\ Fence = next
  BY <1>1 DEF LoopFacts, LoopInv, BetweenTurns, Calling, Stopped, Fence
<1>3. proc.tools /\ proc.turns < ToolTurns
  BY <1>1, <1>2 DEF LoopFacts, DrawInv
<1>4. /\ next \in Items /\ next + 1 \in Items /\ next \in Nat /\ next \in 0 .. MaxItems /\ proc.turns \in Nat /\ proc.turns + 1 \in Nat
      /\ next + 2 <= 4 * (proc.turns + 1) + 1 /\ next + 2 \in 1 .. MaxItems + 1 /\ next > 0
  <2>1. DrawnThisTurn \in 0 .. 2
    BY DEF DrawnThisTurn
  <2>2. /\ next \in 1 .. MaxItems + 1 /\ next <= 4 * proc.turns + 1 + DrawnThisTurn /\ proc.turns \in Nat
        /\ MaxItems \in Nat /\ ToolTurns \in Nat /\ MaxItems >= 4 * ToolTurns + 2
    BY StreamAssumption DEF LoopFacts, LoopType, DrawInv, ProcType
  <2> QED BY <1>3, <2>1, <2>2 DEF Items
<1>5. m \in Sent /\ m.t = "ToolCall" /\ m.i = next
  BY <1>4, SentMessages DEF Opening, Tooling
<1> HIDE DEF m
<1>6. <<m>> \in Seq(Sent) /\ Len(<<m>>) = 1 /\ <<m>>[1] = m
  BY <1>5
<1>7. /\ proc'.pc = "send" /\ proc'.out = <<m>> /\ proc'.then = "exec" /\ proc'.rsn = proc.rsn
      /\ proc'.msg = proc.msg /\ proc'.rsnDone = proc.rsnDone /\ proc'.saw = proc.saw
      /\ proc'.tools = proc.tools /\ proc'.turns = proc.turns + 1 /\ proc'.call = next
  BY <1>1 DEF ProcType
<1>8. LoopType' /\ proc' \in ProcType
  <2>1. proc' \in ProcType
    BY <1>1, <1>4, <1>6 DEF ProcType, ProcPcs, Thens
  <2> QED BY <1>1, <1>4, <2>1 DEF LoopFacts, LoopType
<1>9. LoopInv'
  BY <1>1, <1>2, <1>4, <1>7 DEF LoopFacts, LoopInv, ProcType
<1>10. DrawInv'
  <2>1. Calling' /\ ~Stopped'
    BY <1>7 DEF Calling, Stopped
  <2>2. DrawnThisTurn' \in 0 .. 2
    BY DEF DrawnThisTurn
  <2>3. proc.turns + 1 <= ToolTurns
    BY <1>3, <1>4, StreamAssumption
  <2> QED BY <1>1, <1>4, <1>7, <2>1, <2>2, <2>3 DEF DrawInv
<1>11. Fence' = next + 1 /\ ~Stopped' /\ \A i \in Items : ~Live(proc', i) /\ ~Live(proc, i)
  <2>1. \A i \in Items : ~Live(proc', i)
    BY <1>2, <1>7 DEF Live, Items
  <2> QED BY <1>1, <1>2, <1>7, <2>1, NothingLive DEF Fence, Stopped
<1>12. DraftOpens(<<m>>, next, next + 1)
  BY <1>4, <1>5, <1>6 DEF DraftOpens, Opens, Opening, Tooling, Items
<1>13. DraftFollows(<<m>>) /\ DraftEnds(<<m>>) /\ DraftDone(<<m>>)
  BY <1>5, <1>6, <1>7, <1>11 DEF DraftFollows, DraftEnds, DraftDone, Following, Deltas, Ending, Starting
<1> QED BY <1>2, <1>4, <1>7, <1>8, <1>9, <1>10, <1>11, <1>12, <1>13 DEF Drafts, LoopFacts

(* ... and the other, its output, once it has run.                              *)
LEMMA DraftToolRan ==
    ASSUME LoopFacts, ToolRan
    PROVE  LoopFacts' /\ Drafts
<1> DEFINE m == Msg("ToolOutput", proc.call + 1)
<1>1. /\ proc.pc = "exec" /\ emitted' = emitted /\ proc \in ProcType /\ next' = next
      /\ proc' = [proc EXCEPT !.pc = "send", !.out = <<m>>, !.then = "ack"]
  BY DEF ToolRan, Quiet, LoopFacts, LoopType, Sending, ProcType
<1>2. /\ proc.msg = 0 /\ (proc.rsn = 0 \/ proc.rsnDone) /\ proc.out = <<>> /\ proc.then # "done"
      /\ Calling /\ ~Stopped /\ Fence = proc.call + 1 /\ proc.call = next - 2
  BY <1>1 DEF LoopFacts, LoopInv, DrawInv, BetweenTurns, Calling, Stopped, Fence
<1>3. proc.call + 1 \in Items /\ next \in Nat /\ proc.call + 1 = next - 1
  BY <1>1, <1>2, StreamAssumption, SMTT(30) DEF LoopFacts, LoopType, ProcType, Items
<1>4. m \in Sent /\ m.t = "ToolOutput" /\ m.i = proc.call + 1
  BY <1>3, SentMessages DEF Opening, Tooling
<1> HIDE DEF m
<1>5. <<m>> \in Seq(Sent) /\ Len(<<m>>) = 1 /\ <<m>>[1] = m
  BY <1>4
<1>6. /\ proc'.pc = "send" /\ proc'.out = <<m>> /\ proc'.then = "ack" /\ proc'.rsn = proc.rsn
      /\ proc'.msg = proc.msg /\ proc'.rsnDone = proc.rsnDone /\ proc'.saw = proc.saw
      /\ proc'.tools = proc.tools /\ proc'.turns = proc.turns /\ proc'.call = proc.call
  BY <1>1 DEF ProcType
<1>7. LoopType' /\ proc' \in ProcType
  <2>1. proc' \in ProcType
    BY <1>1, <1>5 DEF ProcType, ProcPcs, Thens
  <2> QED BY <1>1, <2>1 DEF LoopFacts, LoopType
<1>8. LoopInv'
  BY <1>1, <1>2, <1>6 DEF LoopFacts, LoopInv
<1>9. DrawInv'
  <2>1. Calling' /\ ~Stopped' /\ DrawnThisTurn' = DrawnThisTurn
    BY <1>6 DEF Calling, Stopped, DrawnThisTurn
  <2> QED BY <1>1, <1>2, <1>6, <2>1 DEF LoopFacts, DrawInv
<1>10. Fence' = next /\ ~Stopped' /\ \A i \in Items : ~Live(proc', i) /\ ~Live(proc, i)
  <2>1. \A i \in Items : ~Live(proc', i)
    BY <1>2, <1>6 DEF Live, Items
  <2> QED BY <1>1, <1>2, <1>6, <2>1, NothingLive DEF Fence, Stopped
<1>11. DraftOpens(<<m>>, Fence, Fence')
  BY <1>2, <1>3, <1>4, <1>5, <1>10 DEF DraftOpens, Opens, Opening, Tooling, Items
<1>12. DraftFollows(<<m>>) /\ DraftEnds(<<m>>) /\ DraftDone(<<m>>)
  BY <1>4, <1>5, <1>6, <1>10 DEF DraftFollows, DraftEnds, DraftDone, Following, Deltas, Ending, Starting
<1> QED BY <1>2, <1>3, <1>6, <1>7, <1>8, <1>9, <1>10, <1>11, <1>12 DEF Drafts, LoopFacts

\* The loop stops: nothing of what it drafted is sent any more.
Drops == Stopped' /\ proc'.out = <<>> /\ Fence <= Fence' /\ next' = next /\ emitted' = emitted
         /\ proc'.call = proc.call /\ proc'.turns = proc.turns /\ proc'.then = proc.then

(* The moves that make no message: the first turn starts, the provider answers, *)
(* an acknowledged output starts the next turn, a finished send goes on.        *)
LEMMA QuietMoves ==
    ASSUME LoopFacts, proc.out = <<>>, ~Stopped, next' = next, emitted' = emitted,
           \/ /\ proc.pc = "none"
              /\ proc' = [proc EXCEPT !.pc = "turn"]
           \/ /\ proc.pc = "turn"
              /\ proc' = [proc EXCEPT !.pc = "stream", !.msg = 0, !.rsn = 0, !.rsnDone = FALSE, !.saw = FALSE]
           \/ /\ proc.pc = "ack"
              /\ proc' = [proc EXCEPT !.pc = "turn", !.tools = proc.turns < ToolTurns]
           \/ /\ proc.pc = "send" /\ proc.then \notin {"done", "fail"}
              /\ proc' = [proc EXCEPT !.pc = proc.then]
    PROVE  LoopFacts' /\ Drafts
<1>0. proc \in ProcType /\ 0 \in 0 .. MaxItems
  BY StreamAssumption DEF LoopFacts, LoopType
<1>1. CASE proc.pc = "none" /\ proc' = [proc EXCEPT !.pc = "turn"]
  <2>1. proc' \in ProcType
    BY <1>0, <1>1 DEF ProcType, ProcPcs
  <2>2. /\ proc'.pc = "turn" /\ proc'.out = proc.out /\ proc'.then = proc.then /\ proc'.rsn = proc.rsn
        /\ proc'.msg = proc.msg /\ proc'.rsnDone = proc.rsnDone /\ proc'.saw = proc.saw
        /\ proc'.tools = proc.tools /\ proc'.turns = proc.turns /\ proc'.call = proc.call
    BY <1>0, <1>1 DEF ProcType
  <2>3. LoopFacts'
    BY <1>1, <2>1, <2>2
       DEF LoopFacts, LoopType, LoopInv, DrawInv, Calling, Stopped, BetweenTurns, DrawnThisTurn
  <2>4. Fence' = Fence /\ ~Stopped' /\ \A i \in Items : Live(proc', i) <=> Live(proc, i)
    BY <1>1, <2>2 DEF Fence, Stopped, Live
  <2> QED BY <2>2, <2>3, <2>4, QuietDraft
<1>2. CASE proc.pc = "turn" /\ proc' = [proc EXCEPT !.pc = "stream", !.msg = 0, !.rsn = 0,
                                                    !.rsnDone = FALSE, !.saw = FALSE]
  <2>1. proc' \in ProcType
    BY <1>0, <1>2 DEF ProcType, ProcPcs
  <2>2. /\ proc'.pc = "stream" /\ proc'.out = proc.out /\ proc'.then = proc.then /\ proc'.rsn = 0
        /\ proc'.msg = 0 /\ ~proc'.rsnDone /\ ~proc'.saw
        /\ proc'.tools = proc.tools /\ proc'.turns = proc.turns /\ proc'.call = proc.call
    BY <1>0, <1>2 DEF ProcType
  <2>3. proc.msg = 0 /\ (proc.rsn = 0 \/ proc.rsnDone) /\ proc.then # "done" /\ next <= 4 * proc.turns + 1
    BY <1>2 DEF LoopFacts, LoopInv, DrawInv, BetweenTurns
  <2>4. LoopType' /\ LoopInv'
    BY <1>2, <2>1, <2>2, <2>3 DEF LoopFacts, LoopType, LoopInv, BetweenTurns
  <2>5. DrawInv'
    <3>1. ~Calling /\ ~Stopped /\ ~Calling' /\ ~Stopped'
      BY <1>2, <2>2 DEF Calling, Stopped
    <3>2. DrawnThisTurn' = 0
      BY <2>2 DEF DrawnThisTurn
    <3>3. next <= 4 * proc.turns + 1 + 0
      BY <1>0, <2>3 DEF LoopFacts, LoopType, ProcType
    <3> QED BY <1>2, <2>2, <3>1, <3>2, <3>3 DEF LoopFacts, DrawInv
  <2>6. Fence' = Fence /\ ~Stopped' /\ \A i \in Items : ~Live(proc', i) /\ ~Live(proc, i)
    BY <1>0, <1>2, <2>2, <2>3, NothingLive DEF Fence, Stopped, Live, Items
  <2> QED BY <2>2, <2>4, <2>5, <2>6, QuietDraft DEF LoopFacts
<1>3. CASE proc.pc = "ack" /\ proc' = [proc EXCEPT !.pc = "turn", !.tools = proc.turns < ToolTurns]
  <2>1. proc' \in ProcType
    <3>1. (proc.turns < ToolTurns) \in BOOLEAN
      OBVIOUS
    <3> QED BY <1>0, <1>3, <3>1 DEF ProcType, ProcPcs
  <2>2. /\ proc'.pc = "turn" /\ proc'.out = proc.out /\ proc'.then = proc.then /\ proc'.rsn = proc.rsn
        /\ proc'.msg = proc.msg /\ proc'.rsnDone = proc.rsnDone /\ proc'.saw = proc.saw
        /\ (proc'.tools <=> proc.turns < ToolTurns) /\ proc'.turns = proc.turns /\ proc'.call = proc.call
    BY <1>0, <1>3 DEF ProcType
  <2>3. proc.msg = 0 /\ (proc.rsn = 0 \/ proc.rsnDone) /\ proc.then # "done" /\ Calling
    BY <1>3 DEF LoopFacts, LoopInv, BetweenTurns, Calling
  <2>4. LoopType' /\ LoopInv'
    BY <1>3, <2>1, <2>2, <2>3 DEF LoopFacts, LoopType, LoopInv, BetweenTurns
  <2>5. DrawInv'
    <3>1. ~Calling' /\ ~Stopped' /\ DrawnThisTurn' = DrawnThisTurn
      BY <1>3, <2>2 DEF Calling, Stopped, DrawnThisTurn
    <3> QED BY <1>3, <2>2, <2>3, <3>1 DEF LoopFacts, DrawInv
  <2>6. Fence' = Fence /\ ~Stopped' /\ \A i \in Items : Live(proc', i) <=> Live(proc, i)
    BY <1>3, <2>2 DEF Fence, Stopped, Live
  <2> QED BY <2>2, <2>4, <2>5, <2>6, QuietDraft DEF LoopFacts
<1>4. CASE /\ proc.pc = "send" /\ proc.then \notin {"done", "fail"}
           /\ proc' = [proc EXCEPT !.pc = proc.then]
  <2>0. proc.then \in {"stream", "tool", "exec", "ack"}
    BY <1>0, <1>4 DEF LoopFacts, LoopInv, ProcType, Thens
  <2>1. proc' \in ProcType
    BY <1>0, <1>4, <2>0 DEF ProcType, ProcPcs
  <2>2. /\ proc'.pc = proc.then /\ proc'.out = proc.out /\ proc'.then = proc.then /\ proc'.rsn = proc.rsn
        /\ proc'.msg = proc.msg /\ proc'.rsnDone = proc.rsnDone /\ proc'.saw = proc.saw
        /\ proc'.tools = proc.tools /\ proc'.turns = proc.turns /\ proc'.call = proc.call
    BY <1>0, <1>4 DEF ProcType
  <2>3. /\ Calling' <=> Calling
        /\ BetweenTurns' <=> BetweenTurns
        /\ ~Stopped' /\ DrawnThisTurn' = DrawnThisTurn /\ Fence' = Fence
    BY <1>4, <2>0, <2>2 DEF Calling, BetweenTurns, Stopped, DrawnThisTurn, Fence
  <2>4. LoopType' /\ LoopInv'
    BY <1>4, <2>0, <2>1, <2>2, <2>3 DEF LoopFacts, LoopType, LoopInv
  <2>5. DrawInv'
    BY <1>4, <2>0, <2>2, <2>3 DEF LoopFacts, DrawInv
  <2>6. \A i \in Items : Live(proc', i) <=> Live(proc, i)
    BY <2>2 DEF Live
  <2> QED BY <1>4, <2>0, <2>2, <2>3, <2>4, <2>5, <2>6, QuietDraft DEF LoopFacts
<1> QED BY <1>1, <1>2, <1>3, <1>4

(* A loop that stops, wherever it is.                                           *)
LEMMA StopMoves ==
    ASSUME LoopFacts, next' = next, emitted' = emitted, NEW p \in {"fail", "tellClient", "over"},
           p = "tellClient" => proc.then # "done",
           proc' = [proc EXCEPT !.pc = p, !.out = <<>>]
    PROVE  LoopFacts' /\ Drops
<1>1. proc \in ProcType /\ next \in 1 .. MaxItems + 1 /\ MaxItems \in Nat
  BY StreamAssumption DEF LoopFacts, LoopType
<1>2. proc' \in ProcType
  <2>1. <<>> \in Seq(Sent) /\ p \in ProcPcs
    BY DEF ProcPcs
  <2> QED BY <1>1, <2>1 DEF ProcType
<1>3. /\ proc'.pc = p /\ proc'.out = <<>> /\ proc'.then = proc.then /\ proc'.rsn = proc.rsn
      /\ proc'.msg = proc.msg /\ proc'.rsnDone = proc.rsnDone /\ proc'.saw = proc.saw
      /\ proc'.tools = proc.tools /\ proc'.turns = proc.turns /\ proc'.call = proc.call
  BY <1>1 DEF ProcType
<1>4. Stopped' /\ ~Calling' /\ ~BetweenTurns' /\ DrawnThisTurn' = DrawnThisTurn /\ Fence' = next
  BY <1>3 DEF Stopped, Calling, BetweenTurns, DrawnThisTurn, Fence
<1>5. LoopType' /\ LoopInv'
  BY <1>2, <1>3, <1>4 DEF LoopFacts, LoopType, LoopInv
<1>6. DrawInv'
  BY <1>3, <1>4 DEF LoopFacts, DrawInv
<1>7. Fence <= Fence'
  BY <1>1, <1>4, FenceType
<1> QED BY <1>3, <1>4, <1>5, <1>6, <1>7 DEF LoopFacts, Drops

\* What a step of the loop is to the rest of the system: it makes messages,
\* stops, or sends one.
TablesSame == UNCHANGED <<status, row, store, client, faults>>
DraftStep == Drafts /\ TablesSame /\ UNCHANGED <<storageQ, clientQ>>
DropStep ==
    /\ Drops /\ TablesSame
    /\ proc'.pc # "over" => proc.pc \notin {"over", "fail"} /\ ~(proc.out = <<>> /\ proc.then = "done")
    /\ \/ storageQ' = storageQ
       \/ proc.pc = "fail" /\ storageQ' = Append(storageQ, Msg("Error", 0)) /\ Len(storageQ) < StorageBuffer
    /\ \/ clientQ' = clientQ
       \/ clientQ' = TrySend(clientQ, Msg("Error", 0))
       \/ clientQ' = TrySend(clientQ, Msg("Cancelled", 0))
SendStep ==
    /\ TablesSame /\ UNCHANGED <<acks, next>>
    /\ proc.pc = "send" /\ proc.out # <<>> /\ StorageOpen /\ Len(storageQ) < StorageBuffer
    /\ proc' = [proc EXCEPT !.out = Tail(@)]
    /\ storageQ' = Append(storageQ, Head(proc.out))
    /\ clientQ' = TrySend(clientQ, Head(proc.out))
    /\ emitted' = IF Head(proc.out).t \in {"ContentDelta", "ReasoningDelta"}
                  THEN [emitted EXCEPT ![Head(proc.out).i] = @ + 1] ELSE emitted

(* A send changes nothing of the loop but what is left to send.                 *)
LEMMA SendKeeps ==
    ASSUME LoopFacts, SendStep
    PROVE  /\ LoopFacts' /\ Fence' = Fence /\ ~Stopped /\ ~Stopped'
           /\ proc'.pc = "send" /\ proc'.out = Tail(proc.out) /\ proc'.then = proc.then
           /\ proc'.call = proc.call /\ proc'.turns = proc.turns
           /\ \A i : Live(proc', i) <=> Live(proc, i)
           /\ Head(proc.out) \in Sent /\ Head(proc.out) = proc.out[1]
           /\ Tail(proc.out) \in Seq(Sent) /\ Len(Tail(proc.out)) = Len(proc.out) - 1
           /\ \A k \in 1 .. Len(proc.out) - 1 : Tail(proc.out)[k] = proc.out[k + 1]
           /\ Len(proc.out) \in Nat /\ Len(proc.out) > 0
<1>1. proc \in ProcType /\ proc.pc = "send" /\ proc.out \in Seq(Sent) /\ proc.out # <<>>
  BY DEF LoopFacts, LoopType, ProcType, SendStep
<1> DEFINE out == proc.out
<1>2. /\ Head(out) \in Sent /\ Head(out) = out[1] /\ Tail(out) \in Seq(Sent) /\ Len(Tail(out)) = Len(out) - 1
      /\ \A k \in 1 .. Len(out) - 1 : Tail(out)[k] = out[k + 1]
      /\ Len(out) \in Nat /\ Len(out) > 0
  <2>1. out \in Seq(Sent) /\ out # <<>>
    BY <1>1
  <2> HIDE DEF out
  <2>2. Len(out) \in Nat /\ Len(out) > 0 /\ Tail(out) \in Seq(Sent) /\ Len(Tail(out)) = Len(out) - 1
    BY <2>1, HeadTailProperties
  <2>3. \A k \in 1 .. Len(Tail(out)) : Tail(out)[k] = out[k + 1]
    BY <2>1, HeadTailProperties
  <2>4. Head(out) = out[1] /\ Head(out) \in Sent
    BY <2>1
  <2> QED BY <2>2, <2>3, <2>4
<1>3. proc' = [proc EXCEPT !.out = Tail(out)] /\ proc' \in ProcType
  <2>1. proc' = [proc EXCEPT !.out = Tail(out)]
    BY DEF SendStep
  <2> HIDE DEF out
  <2> QED BY <1>1, <1>2, <2>1 DEF ProcType
<1>4. /\ proc'.pc = "send" /\ proc'.out = Tail(out) /\ proc'.then = proc.then /\ proc'.rsn = proc.rsn
      /\ proc'.msg = proc.msg /\ proc'.rsnDone = proc.rsnDone /\ proc'.saw = proc.saw
      /\ proc'.tools = proc.tools /\ proc'.turns = proc.turns /\ proc'.call = proc.call
  <2> HIDE DEF out
  <2> QED BY <1>1, <1>3 DEF ProcType
<1>5. next' = next /\ emitted' \in [Items -> Nat]
  <2>1. emitted \in [Items -> Nat] /\ \A i \in Items : emitted[i] + 1 \in Nat
    BY DEF LoopFacts, LoopType
  <2>2. CASE Head(out).t \in {"ContentDelta", "ReasoningDelta"}
    BY <2>1, <2>2 DEF SendStep
  <2>3. CASE Head(out).t \notin {"ContentDelta", "ReasoningDelta"}
    BY <2>1, <2>3 DEF SendStep
  <2> QED BY <2>2, <2>3 DEF SendStep
<1>6. LoopFacts'
  <2> HIDE DEF out
  <2>1. LoopType'
    BY <1>3, <1>5 DEF LoopFacts, LoopType
  <2>2. LoopInv' /\ DrawInv'
    BY <1>1, <1>4, <1>5 DEF LoopFacts, LoopInv, DrawInv, Calling, Stopped, BetweenTurns, DrawnThisTurn
  <2> QED BY <2>1, <2>2 DEF LoopFacts
<1>7. Fence' = Fence /\ ~Stopped /\ ~Stopped' /\ \A i : Live(proc', i) <=> Live(proc, i)
  <2> HIDE DEF out
  <2> QED BY <1>1, <1>4, <1>5 DEF Fence, Stopped, Live
<1> QED BY <1>2, <1>4, <1>6, <1>7

(* Every step of the loop, and the listener's last, is one of the three.        *)
LEMMA LoopStep ==
    ASSUME LoopFacts, orch \in {"none", "spawned"} => proc.pc = "none", Loop \/ CancelClient
    PROVE  LoopFacts' /\ (DraftStep \/ DropStep \/ SendStep)
<1>0. proc \in ProcType /\ (proc.pc # "send" => proc.out = <<>>)
  BY DEF LoopFacts, LoopType, LoopInv
<1>1. CASE OrchestratorStart
  <2>1. proc.pc = "none" /\ proc' = [proc EXCEPT !.pc = "turn"] /\ next' = next /\ emitted' = emitted
    BY <1>1 DEF OrchestratorStart
  <2>2. LoopFacts' /\ Drafts
    BY <1>0, <2>1, QuietMoves DEF Stopped
  <2> QED BY <1>1, <2>2 DEF OrchestratorStart, DraftStep, TablesSame
<1>2. CASE StartTurn
  <2>1. proc.pc = "turn" /\ next' = next /\ emitted' = emitted /\ TablesSame /\ UNCHANGED <<storageQ, clientQ>>
    BY <1>2 DEF StartTurn, LoopUnchanged, Quiet, TablesSame
  <2>2. CASE proc' = [proc EXCEPT !.pc = "stream", !.msg = 0, !.rsn = 0, !.rsnDone = FALSE, !.saw = FALSE]
    <3>1. LoopFacts' /\ Drafts
      BY <1>0, <2>1, <2>2, QuietMoves DEF Stopped
    <3> QED BY <2>1, <3>1 DEF DraftStep
  <2>3. CASE proc' = [proc EXCEPT !.pc = "fail"]
    <3>1. proc' = [proc EXCEPT !.pc = "fail", !.out = <<>>] /\ proc.then # "done"
      BY <1>0, <2>1, <2>3 DEF ProcType, LoopFacts, LoopInv
    <3>2. LoopFacts' /\ Drops
      BY <2>1, <3>1, StopMoves
    <3> QED BY <2>1, <3>1, <3>2 DEF DropStep
  <2> QED BY <1>2, <2>2, <2>3 DEF StartTurn
<1>3. CASE ReasoningChunk
  BY <1>3, DraftReasoning DEF ReasoningChunk, LoopUnchanged, Quiet, TablesSame, DraftStep
<1>4. CASE ToolChunk
  BY <1>4, DraftTool DEF ToolChunk, LoopUnchanged, Quiet, TablesSame, DraftStep
<1>5. CASE ContentChunk
  BY <1>5, DraftContent DEF ContentChunk, LoopUnchanged, Quiet, TablesSame, DraftStep
<1>6. CASE UsageChunk
  BY <1>6, DraftUsage DEF UsageChunk, LoopUnchanged, Quiet, TablesSame, DraftStep
<1>7. CASE StreamFails
  <2>1. /\ proc.pc = "stream" /\ next' = next /\ emitted' = emitted /\ TablesSame /\ UNCHANGED <<storageQ, clientQ>>
        /\ proc' = [proc EXCEPT !.pc = "fail"]
    BY <1>7 DEF StreamFails, LoopUnchanged, Quiet, TablesSame
  <2>2. proc' = [proc EXCEPT !.pc = "fail", !.out = <<>>] /\ proc.then # "done"
    BY <1>0, <2>1 DEF ProcType, LoopFacts, LoopInv
  <2>3. LoopFacts' /\ Drops
    BY <2>1, <2>2, StopMoves
  <2> QED BY <2>1, <2>2, <2>3 DEF DropStep
<1>8. ASSUME NEW toolReason \in BOOLEAN, NEW named \in BOOLEAN, DoneChunk(toolReason, named)
      PROVE  LoopFacts' /\ (DraftStep \/ DropStep \/ SendStep)
  <2>1. LoopFacts' /\ Drafts
    BY <1>8, DraftToolTurn, DraftLastTurn
  <2> QED BY <1>8, <2>1 DEF DoneChunk, LoopUnchanged, Quiet, TablesSame, DraftStep
<1>9. CASE ToolStart
  BY <1>9, DraftToolStart DEF ToolStart, LoopUnchanged, Quiet, TablesSame, DraftStep
<1>10. CASE ToolRan
  BY <1>10, DraftToolRan DEF ToolRan, LoopUnchanged, Quiet, TablesSame, DraftStep
<1>11. CASE ToolAck
  <2>1. proc.pc = "ack" /\ next' = next /\ emitted' = emitted /\ TablesSame /\ UNCHANGED <<storageQ, clientQ>>
    BY <1>11 DEF ToolAck, Quiet, TablesSame
  <2>2. CASE proc' = [proc EXCEPT !.pc = "turn", !.tools = proc.turns < ToolTurns]
    <3>1. LoopFacts' /\ Drafts
      BY <1>0, <2>1, <2>2, QuietMoves DEF Stopped
    <3> QED BY <2>1, <3>1 DEF DraftStep
  <2>3. CASE proc' = [proc EXCEPT !.pc = "fail"]
    <3>1. proc' = [proc EXCEPT !.pc = "fail", !.out = <<>>] /\ proc.then # "done"
      BY <1>0, <2>1, <2>3 DEF ProcType, LoopFacts, LoopInv
    <3>2. LoopFacts' /\ Drops
      BY <2>1, <3>1, StopMoves
    <3> QED BY <2>1, <3>1, <3>2 DEF DropStep
  <2> QED BY <1>11, <2>2, <2>3 DEF ToolAck
<1>12. CASE Send
  <2>1. proc.pc = "send" /\ TablesSame /\ UNCHANGED <<acks, next>>
    BY <1>12 DEF Send, TablesSame
  <2>2. CASE proc.out = <<>> /\ proc.then # "done" /\ proc' = [proc EXCEPT !.pc = proc.then] /\ Quiet
    <3>1. CASE proc.then # "fail"
      <4>1. LoopFacts' /\ Drafts
        BY <2>1, <2>2, <3>1, QuietMoves DEF Quiet, Stopped
      <4> QED BY <2>1, <2>2, <4>1 DEF Quiet, DraftStep
    <3>2. CASE proc.then = "fail"
      <4>1. proc' = [proc EXCEPT !.pc = "fail", !.out = <<>>]
        BY <1>0, <2>2, <3>2 DEF ProcType
      <4>2. LoopFacts' /\ Drops
        BY <2>1, <2>2, <4>1, StopMoves DEF Quiet
      <4> QED BY <2>1, <2>2, <4>2 DEF Quiet, DropStep
    <3> QED BY <3>1, <3>2
  <2>3. CASE /\ proc.out = <<>> /\ proc.then = "done" /\ proc' = [proc EXCEPT !.pc = "over"]
             /\ UNCHANGED <<storageQ, clientQ, emitted>>
    <3>1. proc' = [proc EXCEPT !.pc = "over", !.out = <<>>]
      BY <1>0, <2>3 DEF ProcType
    <3>2. LoopFacts' /\ Drops
      BY <2>1, <2>3, <3>1, StopMoves
    <3>3. proc'.pc = "over"
      BY <1>0, <2>3 DEF ProcType
    <3> QED BY <2>1, <2>3, <3>2, <3>3 DEF DropStep
  <2>4. CASE /\ proc.out # <<>> /\ StorageOpen /\ Len(storageQ) < StorageBuffer
             /\ LET m == Head(proc.out) IN
                /\ storageQ' = Append(storageQ, m)
                /\ clientQ' = TrySend(clientQ, m)
                /\ emitted' = IF m.t \in {"ContentDelta", "ReasoningDelta"}
                              THEN [emitted EXCEPT ![m.i] = @ + 1] ELSE emitted
             /\ proc' = [proc EXCEPT !.out = Tail(@)]
    <3>1. SendStep
      BY <2>1, <2>4 DEF SendStep
    <3> QED BY <3>1, SendKeeps
  <2>5. CASE /\ proc.out # <<>> /\ Quiet
             /\ proc' = [proc EXCEPT !.out = <<>>,
                                  !.pc = IF proc.then \in {"exec", "ack"} THEN "tellClient" ELSE "fail"]
    <3> DEFINE p == IF proc.then \in {"exec", "ack"} THEN "tellClient" ELSE "fail"
    <3>1. p \in {"fail", "tellClient", "over"} /\ (p = "tellClient" => proc.then # "done")
      OBVIOUS
    <3>2. proc' = [proc EXCEPT !.pc = p, !.out = <<>>]
      BY <1>0, <2>5 DEF ProcType
    <3> HIDE DEF p
    <3>3. LoopFacts' /\ Drops
      BY <2>1, <2>5, <3>1, <3>2, StopMoves DEF Quiet
    <3> QED BY <2>1, <2>5, <3>3 DEF Quiet, DropStep
  <2> QED BY <1>12, <2>2, <2>3, <2>4, <2>5 DEF Send, Quiet
<1>13. CASE TellClient
  <2>1. /\ proc.pc = "tellClient" /\ next' = next /\ emitted' = emitted /\ TablesSame /\ storageQ' = storageQ
        /\ proc' = [proc EXCEPT !.pc = "fail"] /\ clientQ' = TrySend(clientQ, Msg("Error", 0))
    BY <1>13 DEF TellClient, LoopUnchanged, TablesSame
  <2>2. proc' = [proc EXCEPT !.pc = "fail", !.out = <<>>] /\ proc.then # "done"
    BY <1>0, <2>1 DEF ProcType, LoopFacts, LoopInv
  <2>3. LoopFacts' /\ Drops
    BY <2>1, <2>2, StopMoves
  <2> QED BY <2>1, <2>2, <2>3 DEF DropStep
<1>14. CASE Fail
  <2>1. /\ proc.pc = "fail" /\ next' = next /\ emitted' = emitted /\ TablesSame
        /\ proc' = [proc EXCEPT !.pc = "over"] /\ clientQ' = TrySend(clientQ, Msg("Error", 0))
        /\ \/ storageQ' = storageQ
           \/ storageQ' = Append(storageQ, Msg("Error", 0)) /\ Len(storageQ) < StorageBuffer
    BY <1>14 DEF Fail, TablesSame
  <2>2. proc' = [proc EXCEPT !.pc = "over", !.out = <<>>] /\ proc'.pc = "over"
    BY <1>0, <2>1 DEF ProcType
  <2>3. LoopFacts' /\ Drops
    BY <2>1, <2>2, StopMoves
  <2> QED BY <2>1, <2>2, <2>3 DEF DropStep
<1>15. CASE CancelClient
  <2>1. /\ next' = next /\ emitted' = emitted /\ TablesSame /\ storageQ' = storageQ
        /\ proc' = [proc EXCEPT !.pc = "over", !.out = <<>>] /\ clientQ' = TrySend(clientQ, Msg("Cancelled", 0))
    BY <1>15 DEF CancelClient, TablesSame
  <2>2. LoopFacts' /\ Drops /\ proc'.pc = "over"
    BY <1>0, <2>1, StopMoves DEF ProcType
  <2> QED BY <2>1, <2>2 DEF DropStep
<1> QED BY <1>1, <1>2, <1>3, <1>4, <1>5, <1>6, <1>7, <1>8, <1>9, <1>10, <1>11, <1>12, <1>13, <1>14,
        <1>15 DEF Loop
-----------------------------------------------------------------------------
(* What Append and Tail do to a sequence, place by place.                       *)
LEMMA AppendIs ==
    ASSUME NEW S, NEW q \in Seq(S), NEW m \in S
    PROVE  /\ Append(q, m) \in Seq(S) /\ Len(Append(q, m)) = Len(q) + 1 /\ Len(q) \in Nat
           /\ \A k \in 1 .. Len(q) : Append(q, m)[k] = q[k]
           /\ Append(q, m)[Len(q) + 1] = m
OBVIOUS

(* What Head and Tail leave of a channel that is not empty.                   *)
LEMMA TailIs ==
    ASSUME NEW S, NEW q \in Seq(S), q # <<>>
    PROVE  /\ Head(q) \in S /\ Head(q) = q[1] /\ Tail(q) \in Seq(S)
           /\ Len(q) \in Nat /\ Len(q) > 0 /\ Len(Tail(q)) = Len(q) - 1
           /\ \A k \in 1 .. Len(q) - 1 : Tail(q)[k] = q[k + 1]
<1>1. Len(q) \in Nat /\ Len(q) > 0 /\ Tail(q) \in Seq(S) /\ Len(Tail(q)) = Len(q) - 1
  BY HeadTailProperties
<1>2. \A k \in 1 .. Len(Tail(q)) : Tail(q)[k] = q[k + 1]
  BY HeadTailProperties
<1>3. Head(q) = q[1] /\ Head(q) \in S
  OBVIOUS
<1> QED BY <1>1, <1>2, <1>3

(* try_send appends the message or drops it, and keeps the channel in bounds.   *)
LEMMA TrySendIs ==
    ASSUME ChannelType, NEW m \in Sent
    PROVE  /\ TrySend(clientQ, m) \in Seq(Sent) /\ Len(TrySend(clientQ, m)) <= ClientBuffer
           /\ TrySend(clientQ, m) \in {clientQ, Append(clientQ, m)}
<1>1. clientQ \in Seq(Sent) /\ Len(clientQ) <= ClientBuffer /\ ClientBuffer \in Nat
  BY StreamAssumption DEF ChannelType
<1>2. Append(clientQ, m) \in Seq(Sent) /\ Len(Append(clientQ, m)) = Len(clientQ) + 1 /\ Len(clientQ) \in Nat
  BY <1>1, AppendIs
<1>3. CASE ClientOpen /\ Len(clientQ) < ClientBuffer
  BY <1>1, <1>2, <1>3 DEF TrySend
<1>4. CASE ~(ClientOpen /\ Len(clientQ) < ClientBuffer)
  BY <1>1, <1>2, <1>4 DEF TrySend
<1> QED BY <1>3, <1>4

(* A step of the loop keeps the types and the order of the starts.              *)
LEMMA LoopBase ==
    ASSUME Base, Loop \/ CancelClient
    PROVE  Base' /\ (DraftStep \/ DropStep \/ SendStep)
<1>1. LoopFacts' /\ (DraftStep \/ DropStep \/ SendStep)
  BY LoopStep DEF Base, StartInv
<1>2. TablesSame
  BY <1>1 DEF DraftStep, DropStep, SendStep
<1>3. TableType'
  BY <1>2 DEF Base, TableType, TablesSame
<1>4. storageQ' \in Seq(Sent) /\ Len(storageQ') <= StorageBuffer /\ clientQ' \in Seq(Sent) /\ Len(clientQ') <= ClientBuffer
  <2>1. /\ storageQ \in Seq(Sent) /\ Len(storageQ) <= StorageBuffer /\ clientQ \in Seq(Sent)
        /\ Len(clientQ) <= ClientBuffer /\ StorageBuffer \in Nat /\ ChannelType
    BY StreamAssumption DEF Base, ChannelType
  <2>2. ASSUME NEW m \in Sent, storageQ' = Append(storageQ, m), Len(storageQ) < StorageBuffer
        PROVE  storageQ' \in Seq(Sent) /\ Len(storageQ') <= StorageBuffer
    BY <2>1, <2>2, AppendIs
  <2>3. Msg("Error", 0) \in Sent /\ Msg("Cancelled", 0) \in Sent
    BY SentMessages DEF Bare
  <2>4. CASE DraftStep
    BY <2>1, <2>4 DEF DraftStep
  <2>5. CASE DropStep
    <3>1. clientQ' \in Seq(Sent) /\ Len(clientQ') <= ClientBuffer
      BY <2>1, <2>3, <2>5, TrySendIs DEF DropStep
    <3>2. storageQ' \in Seq(Sent) /\ Len(storageQ') <= StorageBuffer
      BY <2>1, <2>2, <2>3, <2>5 DEF DropStep
    <3> QED BY <3>1, <3>2
  <2>6. CASE SendStep
    <3>1. Head(proc.out) \in Sent
      BY <2>6, SendKeeps DEF Base
    <3> QED BY <2>1, <2>2, <2>6, <3>1, TrySendIs DEF SendStep
  <2> QED BY <1>1, <2>4, <2>5, <2>6
<1>5. acks' \in Seq(BOOLEAN)
  <2>1. acks \in Seq(BOOLEAN)
    BY DEF Base, ChannelType
  <2>2. acks' = acks \/ (acks # <<>> /\ acks' = Tail(acks))
    BY DEF Loop, CancelClient, OrchestratorStart, StartTurn, ReasoningChunk, ToolChunk, ContentChunk, UsageChunk,
           StreamFails, DoneChunk, ToolStart, ToolRan, ToolAck, Send, TellClient, Fail, LoopUnchanged
  <2> QED BY <2>1, <2>2, TailIs
<1>6. PeerType' /\ StartInv'
  <2>1. client' = client /\ store' = store /\ status' = status
    BY <1>2 DEF TablesSame
  <2>2. orch \in {"none", "spawned"} => proc.pc = "none" /\ listen = "none"
    BY DEF Base, StartInv
  <2>3. /\ listen' \in {"none", "listening", "signalled", "toClient"}
        /\ orch' \notin {"none", "spawned"}
    <3>1. CASE OrchestratorStart
      BY <3>1 DEF OrchestratorStart
    <3>2. CASE CancelClient
      BY <3>2 DEF CancelClient, Over
    <3>3. CASE StartTurn \/ ReasoningChunk \/ ToolChunk \/ ContentChunk \/ UsageChunk \/ StreamFails
               \/ ToolStart \/ ToolRan \/ ToolAck \/ TellClient
               \/ \E toolReason, named \in BOOLEAN : DoneChunk(toolReason, named)
      BY <2>2, <3>3
         DEF StartTurn, ReasoningChunk, ToolChunk, ContentChunk, UsageChunk, StreamFails, ToolStart, ToolRan,
             ToolAck, TellClient, DoneChunk, LoopUnchanged, Quiet, Base, PeerType
    <3>4. CASE Send
      BY <2>2, <3>4 DEF Send, Over, Quiet, Base, PeerType
    <3>5. CASE Fail
      BY <3>5 DEF Fail, Over
    <3> QED BY <3>1, <3>2, <3>3, <3>4, <3>5 DEF Loop
  <2>4. orch # "none"
    <3>1. CASE Loop
      BY <2>2, <3>1
         DEF Loop, OrchestratorStart, StartTurn, ReasoningChunk, ToolChunk, ContentChunk, UsageChunk, StreamFails,
             ToolStart, ToolRan, ToolAck, Send, TellClient, Fail, DoneChunk
    <3>2. CASE CancelClient
      BY <2>2, <3>2 DEF CancelClient
    <3> QED BY <3>1, <3>2
  <2> QED BY <2>1, <2>3, <2>4 DEF Base, PeerType, StartInv
<1> QED BY <1>1, <1>3, <1>4, <1>5, <1>6 DEF Base, ChannelType
-----------------------------------------------------------------------------
(* What the storage task does with the message at the head of its channel.      *)

\* A row is created, with its response still there, or nothing is written.
Writes(i, st, at) ==
    \/ row' = row
    \/ /\ status # "deleted" /\ row[i].st = "none"
       /\ row' = [row EXCEPT ![i] = [st |-> st, at |-> at, text |-> 0]]

TakesStart(m) ==
    /\ m.t \in Starting /\ m.i \in Items
    /\ store'.at = [store.at EXCEPT ![m.i] = store.nextAt] /\ store'.nextAt = store.nextAt + 1
    /\ store'.pend = store.pend \union {m.i} /\ store'.text = store.text
    /\ Writes(m.i, "in_progress", store.nextAt)
    /\ acks' = acks
TakesDelta(m) ==
    /\ m.t \in Deltas /\ m.i \in Items
    /\ store'.at = store.at /\ store'.nextAt = store.nextAt
    /\ store'.pend = store.pend \union {m.i}
    /\ store'.text = [store.text EXCEPT ![m.i] = store.text[m.i] + 1]
    /\ row' = row /\ acks' = acks
TakesUsage(m) == m.t = "Usage" /\ store' = store /\ row' = row /\ acks' = acks
TakesEnd(m) ==
    /\ m.t \in Ending /\ m.i \in Items
    /\ store'.at = store.at /\ store'.nextAt = store.nextAt
    /\ store'.pend = store.pend \ {m.i} /\ store'.text = store.text
    /\ row' \in [Items -> RowType] /\ \A i \in Items \ {m.i} : row'[i] = row[i]
    /\ \/ row'[m.i] = row[m.i]
       \/ /\ row[m.i].st = "none" /\ status # "deleted"
          /\ row'[m.i].at = store.at[m.i] /\ row'[m.i].st = "in_progress"
       \/ /\ row[m.i].st = "none" /\ status # "deleted"
          /\ row'[m.i].at = store.at[m.i] /\ row'[m.i].st = "completed" /\ row'[m.i].text = store.text[m.i]
       \/ /\ row[m.i].st # "none"
          /\ row'[m.i].at = row[m.i].at /\ row'[m.i].st = "completed" /\ row'[m.i].text = store.text[m.i]
    /\ acks' = acks
TakesTool(m) ==
    /\ m.t \in Tooling /\ m.i \in Items
    /\ store'.at = store.at /\ store'.nextAt = store.nextAt + 1
    /\ store'.pend = store.pend /\ store'.text = store.text
    /\ Writes(m.i, "completed", store.nextAt)
    /\ m.t = "ToolCall" => acks' = IF row'[m.i].st = "none" THEN Append(acks, FALSE) ELSE acks
    /\ m.t = "ToolOutput" => /\ acks' = Append(acks, row'[m.i].st # "none")
                             /\ row' # row => row[m.i - 1].st # "none"
Takes(m) == TakesStart(m) \/ TakesDelta(m) \/ TakesUsage(m) \/ TakesEnd(m) \/ TakesTool(m)

(* A row written is a row, and only the one named changes.                      *)
LEMMA WritesIs ==
    ASSUME TableType, NEW i \in Items, NEW st \in {"in_progress", "completed"}, NEW at \in Nat,
           Writes(i, st, at)
    PROVE  /\ row' \in [Items -> RowType]
           /\ \A j \in Items : j # i => row'[j] = row[j]
           /\ row[i].st # "none" => row'[i] = row[i]
           /\ row'[i] # row[i] => row'[i].st = st /\ row'[i].at = at /\ status # "deleted" /\ row[i].st = "none"
<1>1. row \in [Items -> RowType]
  BY DEF TableType
<1>2. [st |-> st, at |-> at, text |-> 0] \in RowType
  BY DEF RowType
<1>3. CASE row' = row
  BY <1>1, <1>3
<1>4. CASE /\ status # "deleted" /\ row[i].st = "none"
           /\ row' = [row EXCEPT ![i] = [st |-> st, at |-> at, text |-> 0]]
  BY <1>1, <1>2, <1>4
<1> QED BY <1>3, <1>4 DEF Writes

(* Each branch of storage_task is one of these, and leaves the rest alone.      *)
LEMMA StoreItemIs ==
    ASSUME Base, StoreItem
    PROVE  /\ storageQ # <<>> /\ storageQ' = Tail(storageQ) /\ Head(storageQ) \in Sent
           /\ store.pc = "recv" /\ store'.pc = "recv" /\ store'.end = store.end
           /\ status' = status /\ UNCHANGED <<proc, next, emitted, clientQ, client, listen, orch>>
           /\ faults' \in Nat /\ (faults' = 0 => faults = 0)
           /\ Takes(Head(storageQ))
<1> DEFINE m == Head(storageQ)
<1>1. /\ storageQ # <<>> /\ storageQ' = Tail(storageQ) /\ store.pc = "recv"
      /\ UNCHANGED <<proc, next, emitted, clientQ, client, listen, orch>>
  BY DEF StoreItem, StoreUnchanged
<1>2. m \in Sent
  BY <1>1, TailIs DEF Base, ChannelType
<1>3. m.t \notin Bare => m.i \in Items
  BY <1>2 DEF Sent
<1>4. /\ store \in StoreType /\ row \in [Items -> RowType] /\ store.nextAt \in Nat /\ faults \in Nat
      /\ store.pend \subseteq Items /\ store.at \in [Items -> Nat] /\ store.text \in [Items -> Nat]
  BY DEF Base, TableType, StoreType
<1>5. PICK ok \in BOOLEAN :
         /\ Fault(ok)
         /\ \/ StoreStarted(ok) \/ StoreDelta(ok) \/ StoreDone(ok)
            \/ StoreToolCall(ok) \/ StoreToolOutput(ok)
  BY DEF StoreItem
<1>6. faults' \in Nat /\ (faults' = 0 => faults = 0)
  <2>1. faults' = IF ok THEN faults ELSE faults + 1
    BY <1>5 DEF Fault
  <2> QED BY <1>4, <2>1
<1>7. CASE StoreStarted(ok)
  <2>1. /\ m.t \in Starting /\ m.i \in Items /\ status' = status /\ acks' = acks
        /\ store' = [store EXCEPT !.pend = store.pend \union {m.i}, !.at[m.i] = store.nextAt,
                                  !.nextAt = store.nextAt + 1]
        /\ row' = row \/ row' = Inserted(m.i, "in_progress", store.nextAt)
    BY <1>3, <1>4, <1>7 DEF StoreStarted, Starting, Bare, StoreType
  <2> HIDE DEF m
  <2>2. /\ store'.pc = store.pc /\ store'.end = store.end /\ store'.text = store.text
        /\ store'.at = [store.at EXCEPT ![m.i] = store.nextAt] /\ store'.nextAt = store.nextAt + 1
        /\ store'.pend = store.pend \union {m.i}
    BY <1>4, <2>1 DEF StoreType
  <2>3. TakesStart(m)
    BY <2>1, <2>2 DEF TakesStart, Writes, Inserted
  <2> QED BY <1>1, <1>2, <1>6, <2>1, <2>2, <2>3 DEF Takes, m
<1>8. CASE StoreDelta(ok)
  <2>1. /\ m.t \in Deltas \union {"Usage"} /\ status' = status /\ acks' = acks /\ row' = row
        /\ m.t = "Usage" => store' = store
        /\ m.t # "Usage" => /\ m.i \in Items /\ m.t \in Deltas
                            /\ store' = [store EXCEPT !.pend = store.pend \union {m.i},
                                                      !.text[m.i] = store.text[m.i] + 1]
    BY <1>3, <1>4, <1>8 DEF StoreDelta, Deltas, Bare, StoreType
  <2> HIDE DEF m
  <2>2. CASE m.t = "Usage"
    BY <1>1, <1>2, <1>6, <2>1, <2>2 DEF Takes, TakesUsage, m
  <2>3. CASE m.t # "Usage"
    <3>1. /\ store'.pc = store.pc /\ store'.end = store.end /\ store'.at = store.at
          /\ store'.text = [store.text EXCEPT ![m.i] = store.text[m.i] + 1] /\ store'.nextAt = store.nextAt
          /\ store'.pend = store.pend \union {m.i}
      BY <1>4, <2>1, <2>3 DEF StoreType
    <3>2. TakesDelta(m)
      BY <2>1, <2>3, <3>1 DEF TakesDelta
    <3> QED BY <1>1, <1>2, <1>6, <2>1, <3>1, <3>2 DEF Takes, m
  <2> QED BY <2>2, <2>3
<1>9. CASE StoreDone(ok)
  <2> DEFINE made == IF m.t = "MessageDone" THEN Inserted(m.i, "in_progress", store.at[m.i]) ELSE row
  <2>1. /\ m.t \in Ending /\ m.i \in Items /\ status' = status /\ acks' = acks
        /\ store' = [store EXCEPT !.pend = store.pend \ {m.i}]
        /\ row' \in {Finalized(made, {m.i}, "completed"), row, made}
    BY <1>3, <1>4, <1>9 DEF StoreDone, Ending, Bare, StoreType
  <2>2. /\ made \in [Items -> RowType]
        /\ \A i \in Items \ {m.i} : made[i] = row[i]
        /\ \/ made[m.i] = row[m.i]
           \/ /\ row[m.i].st = "none" /\ status # "deleted"
              /\ made[m.i] = [st |-> "in_progress", at |-> store.at[m.i], text |-> 0]
    <3> DEFINE r == [st |-> "in_progress", at |-> store.at[m.i], text |-> 0]
    <3>1. r \in RowType
      BY <1>4, <2>1 DEF RowType
    <3>2. made = row \/ (row[m.i].st = "none" /\ status # "deleted" /\ made = [row EXCEPT ![m.i] = r])
      BY DEF Inserted
    <3> HIDE DEF made, m, r
    <3>3. CASE made = row
      BY <1>4, <3>3
    <3>4. CASE row[m.i].st = "none" /\ status # "deleted" /\ made = [row EXCEPT ![m.i] = r]
      <4>1. made \in [Items -> RowType] /\ made[m.i] = r /\ \A i \in Items \ {m.i} : made[i] = row[i]
        BY <1>4, <2>1, <3>1, <3>4
      <4> QED BY <3>4, <4>1 DEF r
    <3> QED BY <3>2, <3>3, <3>4
  <2> HIDE DEF made, m
  <2>3. /\ store'.pc = store.pc /\ store'.end = store.end /\ store'.text = store.text
        /\ store'.at = store.at /\ store'.nextAt = store.nextAt
        /\ store'.pend = store.pend \ {m.i}
    BY <1>4, <2>1 DEF StoreType
  <2>4. CASE row' = row
    BY <1>1, <1>2, <1>4, <1>6, <2>1, <2>3, <2>4 DEF Takes, TakesEnd, m
  <2>5. CASE row' = made
    <3>1. TakesEnd(m)
      BY <2>1, <2>2, <2>3, <2>5 DEF TakesEnd
    <3> QED BY <1>1, <1>2, <1>6, <2>1, <2>3, <3>1 DEF Takes, m
  <2>6. CASE row' = Finalized(made, {m.i}, "completed")
    <3> DEFINE f == [made[m.i] EXCEPT !.st = "completed", !.text = store.text[m.i]]
    <3>1. /\ \A i \in Items \ {m.i} : row'[i] = made[i]
          /\ made[m.i].st = "none" => row'[m.i] = made[m.i]
          /\ made[m.i].st # "none" => row'[m.i] = f
      BY <2>1, <2>6 DEF Finalized
    <3>2. made[m.i] \in RowType
      BY <2>1, <2>2
    <3>3. f \in RowType /\ f.st = "completed" /\ f.at = made[m.i].at /\ f.text = store.text[m.i]
      <4>1. store.text[m.i] \in Nat
        BY <1>4, <2>1
      <4> QED BY <3>2, <4>1 DEF RowType
    <3>5. row' \in [Items -> RowType]
      <4>1. row' = [i \in Items |-> row'[i]]
        BY <2>6 DEF Finalized
      <4>2. \A i \in Items : row'[i] \in RowType
        BY <2>2, <3>1, <3>2, <3>3
      <4> HIDE DEF f
      <4> QED BY <4>1, <4>2
    <3> HIDE DEF f
    <3>4. TakesEnd(m)
      <4>1. CASE made[m.i] = row[m.i]
        BY <2>1, <2>2, <2>3, <3>1, <3>3, <3>5, <4>1 DEF TakesEnd
      <4>2. CASE /\ row[m.i].st = "none" /\ status # "deleted"
                 /\ made[m.i] = [st |-> "in_progress", at |-> store.at[m.i], text |-> 0]
        <5>1. made[m.i].st = "in_progress" /\ made[m.i].at = store.at[m.i]
          BY <4>2
        <5>2. row'[m.i].st = "completed" /\ row'[m.i].at = store.at[m.i] /\ row'[m.i].text = store.text[m.i]
          BY <3>1, <3>3, <5>1
        <5> QED BY <2>1, <2>2, <2>3, <3>1, <3>5, <4>2, <5>2 DEF TakesEnd
      <4> QED BY <2>2, <4>1, <4>2
    <3> QED BY <1>1, <1>2, <1>6, <2>1, <2>3, <3>4 DEF Takes, m
  <2> QED BY <2>1, <2>4, <2>5, <2>6
<1>10. CASE StoreToolCall(ok)
  <2>1. /\ m.t = "ToolCall" /\ m.i \in Items /\ status' = status
        /\ store' = [store EXCEPT !.nextAt = store.nextAt + 1]
        /\ row' = row \/ row' = Inserted(m.i, "completed", store.nextAt)
        /\ acks' = IF row'[m.i].st = "none" THEN Append(acks, FALSE) ELSE acks
    BY <1>3, <1>4, <1>10 DEF StoreToolCall, Bare, StoreType
  <2> HIDE DEF m
  <2>2. /\ store'.pc = store.pc /\ store'.end = store.end /\ store'.text = store.text
        /\ store'.at = store.at /\ store'.nextAt = store.nextAt + 1 /\ store'.pend = store.pend
    BY <1>4, <2>1 DEF StoreType
  <2>3. TakesTool(m)
    BY <2>1, <2>2 DEF TakesTool, Writes, Inserted, Tooling
  <2> QED BY <1>1, <1>2, <1>6, <2>1, <2>2, <2>3 DEF Takes, m
<1>11. CASE StoreToolOutput(ok)
  <2>1. /\ m.t = "ToolOutput" /\ m.i \in Items /\ status' = status
        /\ store' = [store EXCEPT !.nextAt = store.nextAt + 1]
        /\ row' = row \/ (row' = Inserted(m.i, "completed", store.nextAt) /\ row[m.i - 1].st # "none")
        /\ acks' = Append(acks, row'[m.i].st # "none")
    BY <1>3, <1>4, <1>11 DEF StoreToolOutput, Bare, StoreType
  <2> HIDE DEF m
  <2>2. /\ store'.pc = store.pc /\ store'.end = store.end /\ store'.text = store.text
        /\ store'.at = store.at /\ store'.nextAt = store.nextAt + 1 /\ store'.pend = store.pend
    BY <1>4, <2>1 DEF StoreType
  <2>3. TakesTool(m)
    BY <2>1, <2>2 DEF TakesTool, Writes, Inserted, Tooling
  <2> QED BY <1>1, <1>2, <1>6, <2>1, <2>2, <2>3 DEF Takes, m
<1> QED BY <1>5, <1>7, <1>8, <1>9, <1>10, <1>11

(* The end of the storage task's loop: ResponseDone settles first, anything     *)
(* else sets the status first.                                                  *)
LEMMA StoreEndIs ==
    ASSUME Base, StoreEnd
    PROVE  /\ store.pc = "recv" /\ UNCHANGED <<status, row, acks, faults, proc, next, emitted, clientQ, client, listen, orch>>
           /\ store'.at = store.at /\ store'.text = store.text /\ store'.nextAt = store.nextAt
           /\ store'.pend = store.pend /\ store' \in StoreType
           /\ \/ storageQ # <<>> /\ storageQ' = Tail(storageQ)
              \/ storageQ = <<>> /\ storageQ' = <<>>
           /\ \/ /\ storageQ # <<>> /\ Head(storageQ).t = "ResponseDone"
                 /\ store'.end = "completed" /\ store'.pc = "settle"
              \/ store'.end \in {"cancelled", "failed"} /\ store'.pc = "status"
<1>1. store.pc = "recv" /\ UNCHANGED <<status, row, acks, faults, proc, next, emitted, clientQ, client, listen, orch>>
  BY DEF StoreEnd, StoreUnchanged
<1>2. store \in StoreType
  BY DEF Base, TableType
<1>3. ASSUME NEW e \in {"completed", "cancelled", "failed"}, NEW p \in {"settle", "status"},
             store' = [store EXCEPT !.end = e, !.pc = p]
      PROVE  /\ store'.at = store.at /\ store'.text = store.text /\ store'.nextAt = store.nextAt
             /\ store'.pend = store.pend /\ store' \in StoreType /\ store'.end = e /\ store'.pc = p
  BY <1>2, <1>3 DEF StoreType, Terminal
<1>4. CASE storageQ = <<>>
  <2>1. storageQ' = <<>> /\ store' = [store EXCEPT !.end = "failed", !.pc = "status"]
    BY <1>4 DEF StoreEnd
  <2> QED BY <1>1, <1>3, <1>4, <2>1
<1>5. CASE storageQ # <<>>
  <2> DEFINE t == Head(storageQ).t
             e == CASE t = "ResponseDone" -> "completed" [] t = "Cancelled" -> "cancelled" [] OTHER -> "failed"
             p == IF t = "ResponseDone" THEN "settle" ELSE "status"
  <2>1. storageQ' = Tail(storageQ) /\ store' = [store EXCEPT !.end = e, !.pc = p]
    BY <1>5, Zenon DEF StoreEnd
  <2>2. CASE t = "ResponseDone"
    <3>1. e = "completed" /\ p = "settle"
      BY <2>2, Zenon
    <3> HIDE DEF e, p
    <3> QED BY <1>1, <1>3, <1>5, <2>1, <2>2, <3>1
  <2>3. CASE t # "ResponseDone"
    <3>1. e \in {"cancelled", "failed"} /\ p = "status"
      <4>1. CASE t = "Cancelled"
        BY <2>3, <4>1, Zenon
      <4>2. CASE t # "Cancelled"
        BY <2>3, <4>2, Zenon
      <4> QED BY <4>1, <4>2
    <3> HIDE DEF e, p
    <3> QED BY <1>1, <1>3, <1>5, <2>1, <3>1
  <2> QED BY <2>2, <2>3
<1> QED BY <1>4, <1>5

(* The status moves at most once, from in_progress to how the stream ended.     *)
LEMMA StoreStatusIs ==
    ASSUME Base, StoreStatus
    PROVE  /\ store.pc = "status" /\ UNCHANGED <<row, acks, proc, next, emitted, clientQ, client, listen, orch>>
           /\ store'.at = store.at /\ store'.text = store.text /\ store'.nextAt = store.nextAt
           /\ store'.pend = store.pend /\ store'.end = store.end /\ store' \in StoreType
           /\ store'.pc = (IF store.end = "completed" THEN "over" ELSE "settle")
           /\ storageQ' \in {storageQ, <<>>}
           /\ faults' \in Nat /\ (faults' = 0 => faults = 0)
           /\ \/ status = "in_progress" /\ status' = store.end
              \/ status' = status /\ (faults' = 0 => status # "in_progress")
           /\ store.end \in Terminal
<1>1. store.pc = "status" /\ UNCHANGED <<row, acks, proc, next, emitted, clientQ, client, listen, orch>>
  BY DEF StoreStatus, StoreUnchanged
<1>2. store \in StoreType /\ faults \in Nat
  BY DEF Base, TableType
<1>3. store.end \in Terminal
  BY <1>1, <1>2 DEF Base, StartInv, StoreType
<1> DEFINE p == IF store.end = "completed" THEN "over" ELSE "settle"
<1>4. store' = [store EXCEPT !.pc = p] /\ p \in {"over", "settle"}
  BY DEF StoreStatus, Returns
<1>5. PICK ok \in BOOLEAN : Fault(ok) /\ status' = IF ok /\ status = "in_progress" THEN store.end ELSE status
  BY DEF StoreStatus
<1>6. faults' = IF ok THEN faults ELSE faults + 1
  BY <1>5 DEF Fault
<1>7. faults' \in Nat /\ (faults' = 0 => faults = 0 /\ ok)
  BY <1>2, <1>6
<1>8. storageQ' \in {storageQ, <<>>}
  BY DEF StoreStatus
<1> HIDE DEF p
<1>9. /\ store'.at = store.at /\ store'.text = store.text /\ store'.nextAt = store.nextAt
      /\ store'.pend = store.pend /\ store'.end = store.end /\ store' \in StoreType /\ store'.pc = p
  BY <1>2, <1>4 DEF StoreType
<1>10. \/ status = "in_progress" /\ status' = store.end
       \/ status' = status /\ (faults' = 0 => status # "in_progress")
  BY <1>5, <1>7
<1> QED BY <1>1, <1>3, <1>7, <1>8, <1>9, <1>10 DEF p

(* Settling marks what is still pending, where it has a row.                    *)
LEMMA StoreSettleIs ==
    ASSUME Base, StoreSettle
    PROVE  /\ store.pc = "settle" /\ UNCHANGED <<status, acks, proc, next, emitted, clientQ, client, listen, orch>>
           /\ store'.at = store.at /\ store'.text = store.text /\ store'.nextAt = store.nextAt
           /\ store'.pend = {} /\ store'.end = store.end /\ store' \in StoreType
           /\ store'.pc = (IF store.end = "completed" THEN "status" ELSE "over")
           /\ storageQ' \in {storageQ, <<>>}
           /\ faults' \in Nat /\ (faults' = 0 => faults = 0)
           /\ row' \in [Items -> RowType]
           /\ \A i \in Items : /\ row'[i].at = row[i].at
                               /\ \/ row'[i] = row[i] /\ (faults' = 0 => i \notin store.pend \/ row[i].st = "none")
                                  \/ i \in store.pend /\ row[i].st # "none" /\ row'[i].st = "incomplete"
<1>1. store.pc = "settle" /\ UNCHANGED <<status, acks, proc, next, emitted, clientQ, client, listen, orch>>
  BY DEF StoreSettle, StoreUnchanged
<1>2. store \in StoreType /\ faults \in Nat /\ row \in [Items -> RowType] /\ store.text \in [Items -> Nat]
  BY DEF Base, TableType, StoreType
<1> DEFINE p == IF store.end = "completed" THEN "status" ELSE "over"
<1>3. store' = [store EXCEPT !.pend = {}, !.pc = p] /\ p \in {"status", "over"}
  BY DEF StoreSettle, Returns
<1>4. PICK missed \in SUBSET store.pend : Fault(missed = {}) /\ row' = Finalized(row, store.pend \ missed, "incomplete")
  BY DEF StoreSettle
<1>5. faults' = IF missed = {} THEN faults ELSE faults + 1
  BY <1>4 DEF Fault
<1>6. faults' \in Nat /\ (faults' = 0 => faults = 0 /\ missed = {})
  BY <1>2, <1>5
<1>7. storageQ' \in {storageQ, <<>>}
  BY DEF StoreSettle
<1> HIDE DEF p
<1>8. /\ store'.at = store.at /\ store'.text = store.text /\ store'.nextAt = store.nextAt
      /\ store'.pend = {} /\ store'.end = store.end /\ store' \in StoreType /\ store'.pc = p
  BY <1>2, <1>3 DEF StoreType
<1>9. ASSUME NEW i \in Items
      PROVE  /\ row'[i] \in RowType /\ row'[i].at = row[i].at
             /\ \/ row'[i] = row[i] /\ (faults' = 0 => i \notin store.pend \/ row[i].st = "none")
                \/ i \in store.pend /\ row[i].st # "none" /\ row'[i].st = "incomplete"
  <2> DEFINE r == row[i]
             t == store.text[i]
  <2>1. r \in RowType /\ t \in Nat
    BY <1>2
  <2>2. row'[i] = IF i \in store.pend \ missed /\ r.st # "none" THEN [r EXCEPT !.st = "incomplete", !.text = t] ELSE r
    BY <1>4 DEF Finalized
  <2> HIDE DEF r, t
  <2>3. [r EXCEPT !.st = "incomplete", !.text = t] \in RowType
        /\ [r EXCEPT !.st = "incomplete", !.text = t].at = r.at
        /\ [r EXCEPT !.st = "incomplete", !.text = t].st = "incomplete"
    BY <2>1 DEF RowType
  <2>4. CASE i \in store.pend \ missed /\ r.st # "none"
    BY <2>2, <2>3, <2>4 DEF r
  <2>5. CASE ~(i \in store.pend \ missed /\ r.st # "none")
    BY <1>6, <2>1, <2>2, <2>5 DEF r
  <2> QED BY <2>4, <2>5
<1>10. row' \in [Items -> RowType]
  <2>1. row' = [i \in Items |-> row'[i]]
    BY <1>4 DEF Finalized
  <2> QED BY <1>9, <2>1
<1> QED BY <1>1, <1>6, <1>7, <1>8, <1>9, <1>10 DEF p

(* The SSE generator announces an item at its opening event.                    *)
LEMMA ClientRecvIs ==
    ASSUME Base, ClientRecv
    PROVE  /\ client.pc = "reading" /\ clientQ # <<>> /\ clientQ' \in {<<>>, Tail(clientQ)}
           /\ UNCHANGED <<status, row, storageQ, acks, proc, orch, listen, store, next, emitted, faults>>
           /\ client' \in ClientType /\ client'.pc \in {"reading", "ended"}
           /\ client'.seen = IF Head(clientQ).t \in Opening THEN Append(client.seen, Head(clientQ).i)
                             ELSE client.seen
<1> DEFINE m == Head(clientQ)
<1>1. /\ client.pc = "reading" /\ clientQ # <<>> /\ clientQ' \in {<<>>, Tail(clientQ)}
      /\ UNCHANGED <<status, row, storageQ, acks, proc, orch, listen, store, next, emitted, faults>>
  BY Zenon DEF ClientRecv, ClientOpen
<1>2. m \in Sent /\ client \in ClientType /\ client.seen \in Seq(Items)
  BY <1>1, TailIs DEF Base, ChannelType, PeerType, ClientType
<1>3. m.t \in Opening => m.i \in Items /\ Append(client.seen, m.i) \in Seq(Items)
  <2>1. m.t \in Opening => m.i \in Items
    BY <1>2 DEF Sent, Opening, Starting, Tooling, Bare
  <2> QED BY <1>2, <2>1, AppendIs
<1>4. client' = CASE m.t \in {"MessageStarted", "ContentDelta", "MessageDone"} -> MessageEvent(client, m)
                  [] m.t \in {"ReasoningStarted", "ReasoningDelta", "ReasoningDone"} -> ReasoningEvent(client, m)
                  [] m.t \in {"ToolCall", "ToolOutput"} -> ToolEvent(client, m)
                  [] m.t \in {"ResponseDone", "Cancelled", "Error"} -> EndEvent(client, m)
                  [] OTHER -> client
  BY Zenon DEF ClientRecv
<1>5. /\ m.t \in {"MessageStarted", "ContentDelta", "MessageDone"} => client' = MessageEvent(client, m)
      /\ m.t \in {"ReasoningStarted", "ReasoningDelta", "ReasoningDone"} => client' = ReasoningEvent(client, m)
      /\ m.t \in {"ToolCall", "ToolOutput"} => client' = ToolEvent(client, m)
      /\ m.t \in {"ResponseDone", "Cancelled", "Error"} => client' = EndEvent(client, m)
      /\ m.t = "Usage" => client' = client
  <2> DEFINE A == m.t \in {"MessageStarted", "ContentDelta", "MessageDone"}
             B == m.t \in {"ReasoningStarted", "ReasoningDelta", "ReasoningDone"}
             C == m.t \in {"ToolCall", "ToolOutput"}
             D == m.t \in {"ResponseDone", "Cancelled", "Error"}
  <2>1. /\ A => ~B /\ ~C /\ ~D
        /\ B => ~A /\ ~C /\ ~D
        /\ C => ~A /\ ~B /\ ~D
        /\ D => ~A /\ ~B /\ ~C
        /\ m.t = "Usage" => ~A /\ ~B /\ ~C /\ ~D
    OBVIOUS
  <2>2. client' = CASE A -> MessageEvent(client, m) [] B -> ReasoningEvent(client, m)
                    [] C -> ToolEvent(client, m) [] D -> EndEvent(client, m) [] OTHER -> client
    BY <1>4, Zenon
  <2> HIDE DEF A, B, C, D
  <2>3. /\ A => client' = MessageEvent(client, m)
        /\ B => client' = ReasoningEvent(client, m)
        /\ C => client' = ToolEvent(client, m)
        /\ D => client' = EndEvent(client, m)
        /\ m.t = "Usage" => client' = client
    BY <2>1, <2>2, Zenon
  <2> QED BY <2>3 DEF A, B, C, D
<1> HIDE DEF m
<1>6. CASE m.t \in Opening
  <2>1. client' = [client EXCEPT !.seen = Append(client.seen, m.i)]
    BY <1>2, <1>5, <1>6
       DEF Opening, Starting, Tooling, MessageEvent, ReasoningEvent, ToolEvent, Announce, ClientType
  <2>2. client' \in ClientType /\ client'.pc = client.pc /\ client'.seen = Append(client.seen, m.i)
    BY <1>2, <1>3, <1>6, <2>1 DEF ClientType
  <2> QED BY <1>1, <1>6, <2>2 DEF m
<1>7. CASE m.t \in Following \union {"Usage"}
  <2>1. client' = client
    BY <1>5, <1>7 DEF Following, Deltas, Ending, MessageEvent, ReasoningEvent
  <2>2. m.t \notin Opening
    BY <1>7 DEF Opening, Starting, Tooling, Following, Deltas, Ending
  <2> QED BY <1>1, <1>2, <2>1, <2>2 DEF m
<1>8. CASE m.t \in {"ResponseDone", "Cancelled", "Error"}
  <2>1. client' = [client EXCEPT !.pc = "ended", !.end = m.t]
    BY <1>5, <1>8 DEF EndEvent
  <2>2. client' \in ClientType /\ client'.pc = "ended" /\ client'.seen = client.seen
    BY <1>2, <1>8, <2>1 DEF ClientType
  <2>3. m.t \notin Opening
    BY <1>8 DEF Opening, Starting, Tooling
  <2> QED BY <1>1, <2>2, <2>3 DEF m
<1>9. m.t \in Opening \union Following \union {"Usage"} \union {"ResponseDone", "Cancelled", "Error"}
  BY <1>2 DEF Sent, Messages, Opening, Starting, Tooling, Following, Deltas, Ending
<1> QED BY <1>6, <1>7, <1>8, <1>9

(* Taking a message keeps the types of the tables.                              *)
LEMMA TakesTypes ==
    ASSUME Base, StoreItem
    PROVE  store' \in StoreType /\ row' \in [Items -> RowType] /\ acks' \in Seq(BOOLEAN)
<1> DEFINE m == Head(storageQ)
<1>1. Takes(m) /\ store'.pc = "recv" /\ store.pc = "recv" /\ store'.end = store.end
  BY StoreItemIs
<1>2. /\ store \in StoreType /\ row \in [Items -> RowType] /\ acks \in Seq(BOOLEAN) /\ store.nextAt \in Nat
      /\ store.pend \subseteq Items /\ store.at \in [Items -> Nat] /\ store.text \in [Items -> Nat]
      /\ store.nextAt + 1 \in Nat \ {0} /\ TableType
  BY DEF Base, TableType, ChannelType, StoreType
<1>3. acks' \in Seq(BOOLEAN)
  <2>1. Append(acks, FALSE) \in Seq(BOOLEAN) /\ Append(acks, TRUE) \in Seq(BOOLEAN)
    BY <1>2
  <2>2. acks' \in {acks, Append(acks, FALSE), Append(acks, TRUE)}
    BY <1>1 DEF Takes, TakesStart, TakesDelta, TakesUsage, TakesEnd, TakesTool, Tooling
  <2> QED BY <1>2, <2>1, <2>2
<1>4. row' \in [Items -> RowType]
  <2>1. CASE TakesStart(m)
    BY <1>2, <2>1, WritesIs DEF TakesStart
  <2>2. CASE TakesTool(m)
    BY <1>2, <2>2, WritesIs DEF TakesTool
  <2>3. CASE TakesDelta(m) \/ TakesUsage(m) \/ TakesEnd(m)
    BY <1>2, <2>3 DEF TakesDelta, TakesUsage, TakesEnd
  <2> QED BY <1>1, <2>1, <2>2, <2>3 DEF Takes
<1>5. store' \in StoreType
  <2>1. CASE StoreItem /\ TakesUsage(m)
    BY <1>2, <2>1 DEF TakesUsage
  <2>2. CASE ~TakesUsage(m)
    <3>1. /\ store'.at \in [Items -> Nat] /\ store'.text \in [Items -> Nat] /\ store'.nextAt \in Nat \ {0}
          /\ store'.pend \subseteq Items
      <4>1. CASE TakesStart(m)
        BY <1>2, <4>1 DEF TakesStart, StoreType
      <4>2. CASE TakesDelta(m)
        <5>1. store.text[m.i] + 1 \in Nat /\ m.i \in Items
          BY <1>2, <4>2 DEF TakesDelta
        <5> QED BY <1>2, <4>2, <5>1 DEF TakesDelta, StoreType
      <4>3. CASE TakesEnd(m) \/ TakesTool(m)
        BY <1>2, <4>3 DEF TakesEnd, TakesTool, StoreType
      <4> QED BY <1>1, <2>2, <4>1, <4>2, <4>3 DEF Takes
    <3>2. store' = [pc |-> store'.pc, pend |-> store'.pend, at |-> store'.at, text |-> store'.text,
                    nextAt |-> store'.nextAt, end |-> store'.end]
      <4>1. PICK ok \in BOOLEAN : \/ StoreStarted(ok) \/ StoreDelta(ok) \/ StoreDone(ok)
                                  \/ StoreToolCall(ok) \/ StoreToolOutput(ok)
        BY DEF StoreItem
      <4> QED BY <1>2, <4>1
           DEF StoreStarted, StoreDelta, StoreDone, StoreToolCall, StoreToolOutput, StoreType
    <3> QED BY <1>1, <1>2, <3>1, <3>2 DEF StoreType
  <2> QED BY <2>1, <2>2
<1> QED BY <1>3, <1>4, <1>5

(* Every other step leaves the loop alone, and keeps the types and the order of *)
(* the starts.                                                                  *)
LEMMA OtherBase ==
    ASSUME Base, [Next]_vars, ~(Loop \/ CancelClient)
    PROVE  Base' /\ UNCHANGED <<proc, next, emitted>>
<1>0. /\ client \in ClientType /\ store \in StoreType /\ storageQ \in Seq(Sent) /\ clientQ \in Seq(Sent)
      /\ StorageBuffer \in Nat \ {0} /\ ClientBuffer \in Nat \ {0}
      /\ TableType /\ ChannelType /\ PeerType /\ StartInv
      /\ Len(storageQ) <= StorageBuffer /\ Len(clientQ) <= ClientBuffer
  BY StreamAssumption DEF Base, PeerType, TableType, ChannelType
<1>1. ASSUME UNCHANGED <<proc, next, emitted>>
      PROVE  LoopFacts'
  BY <1>1 DEF Base, LoopFacts, LoopType, LoopInv, DrawInv, Calling, Stopped, BetweenTurns, DrawnThisTurn
<1>2. /\ <<>> \in Seq(Sent) /\ Len(<<>>) <= StorageBuffer /\ Len(<<>>) <= ClientBuffer
      /\ storageQ # <<>> => Tail(storageQ) \in Seq(Sent) /\ Len(Tail(storageQ)) <= StorageBuffer
      /\ clientQ # <<>> => Tail(clientQ) \in Seq(Sent) /\ Len(Tail(clientQ)) <= ClientBuffer
  <2>1. <<>> \in Seq(Sent) /\ Len(<<>>) = 0
    OBVIOUS
  <2>2. <<>> \in Seq(Sent) /\ Len(<<>>) <= StorageBuffer /\ Len(<<>>) <= ClientBuffer
    BY <1>0, <2>1
  <2>3. storageQ # <<>> => Tail(storageQ) \in Seq(Sent) /\ Len(Tail(storageQ)) <= StorageBuffer
    BY <1>0, TailIs
  <2>4. clientQ # <<>> => Tail(clientQ) \in Seq(Sent) /\ Len(Tail(clientQ)) <= ClientBuffer
    BY <1>0, TailIs
  <2> QED BY <2>2, <2>3, <2>4
<1>3. ASSUME NEW p \in {"persist", "created", "reading", "gone"}, client' = [client EXCEPT !.pc = p]
      PROVE  client' \in ClientType /\ client'.pc = p
  BY <1>0, <1>3 DEF ClientType
<1>4. CASE Accept
  BY <1>0, <1>1, <1>3, <1>4 DEF Accept, Base, TableType, ChannelType, PeerType, StartInv, Terminal
<1>5. CASE PersistUserMessage
  <2>1. \E p \in {"created", "gone"} : client' = [client EXCEPT !.pc = p]
    BY <1>5 DEF PersistUserMessage
  <2> QED BY <1>0, <1>1, <1>3, <1>5, <2>1 DEF PersistUserMessage, Base, TableType, ChannelType, PeerType, StartInv
<1>6. CASE Spawn
  <2>1. store' \in StoreType /\ store'.pc = "recv" /\ store'.end = store.end
    BY <1>0, <1>6 DEF Spawn, StoreType
  <2> QED BY <1>0, <1>1, <1>3, <1>6, <2>1 DEF Spawn, Base, TableType, ChannelType, PeerType, StartInv
<1>7. CASE ClientRecv
  <2>1. clientQ' \in Seq(Sent) /\ Len(clientQ') <= ClientBuffer
    <3>1. clientQ # <<>> /\ clientQ' \in {<<>>, Tail(clientQ)}
      BY <1>7, ClientRecvIs
    <3> QED BY <1>2, <3>1, Zenon
  <2> QED BY <1>0, <1>1, <1>7, <2>1, ClientRecvIs DEF Base, TableType, ChannelType, PeerType, StartInv
<1>8. CASE Disconnect
  BY <1>0, <1>1, <1>2, <1>3, <1>8 DEF Disconnect, Base, TableType, ChannelType, PeerType, StartInv
<1>9. CASE Lagged
  BY <1>0, <1>1, <1>9 DEF Lagged, Base, TableType, ChannelType, PeerType, StartInv
<1>10. CASE CancelStorage
  <2>1. Msg("Cancelled", 0) \in Sent
    BY SentMessages DEF Bare
  <2>2. storageQ' \in Seq(Sent) /\ Len(storageQ') <= StorageBuffer
    BY <1>0, <1>10, <2>1, AppendIs DEF CancelStorage
  <2> QED BY <1>0, <1>1, <1>10, <2>2 DEF CancelStorage, Base, TableType, ChannelType, PeerType, StartInv
<1>11. CASE Endpoints
  <2>1. row' \in [Items -> RowType]
    <3>1. NoRow \in RowType
      BY DEF NoRow, RowType
    <3> QED BY <1>0, <1>11, <3>1
         DEF Endpoints, CancelRead, CancelUpdate, CancelBroadcast, Delete, TableType
  <2> QED BY <1>0, <1>1, <1>11, <2>1
       DEF Endpoints, CancelRead, CancelUpdate, CancelBroadcast, Delete, Base, TableType, ChannelType, PeerType,
           StartInv, Terminal
<1>12. CASE StoreItem
  <2>1. storageQ' \in Seq(Sent) /\ Len(storageQ') <= StorageBuffer
    BY <1>2, <1>12, StoreItemIs
  <2> QED BY <1>0, <1>1, <1>12, <2>1, StoreItemIs, TakesTypes
       DEF Base, TableType, ChannelType, PeerType, StartInv
<1>13. CASE StoreEnd
  <2>1. storageQ' \in Seq(Sent) /\ Len(storageQ') <= StorageBuffer
    <3>1. storageQ' = <<>> \/ (storageQ # <<>> /\ storageQ' = Tail(storageQ))
      BY <1>13, StoreEndIs
    <3> QED BY <1>2, <3>1, Zenon
  <2> QED BY <1>0, <1>1, <1>13, <2>1, StoreEndIs
       DEF Base, TableType, ChannelType, PeerType, StartInv
<1>14. CASE StoreStatus
  <2>1. storageQ' \in Seq(Sent) /\ Len(storageQ') <= StorageBuffer
    <3>1. storageQ' = <<>> \/ storageQ' = storageQ
      BY <1>14, StoreStatusIs
    <3> QED BY <1>0, <1>2, <3>1, Zenon
  <2> QED BY <1>0, <1>1, <1>14, <2>1, StoreStatusIs
       DEF Base, TableType, ChannelType, PeerType, StartInv, Terminal
<1>15. CASE StoreSettle
  <2>1. storageQ' \in Seq(Sent) /\ Len(storageQ') <= StorageBuffer
    <3>1. storageQ' = <<>> \/ storageQ' = storageQ
      BY <1>15, StoreSettleIs
    <3> QED BY <1>0, <1>2, <3>1, Zenon
  <2> QED BY <1>0, <1>1, <1>15, <2>1, StoreSettleIs
       DEF Base, TableType, ChannelType, PeerType, StartInv
<1>16. CASE UNCHANGED vars
  BY <1>0, <1>1, <1>16 DEF vars, Base, TableType, ChannelType, PeerType, StartInv
<1> QED BY <1>4, <1>5, <1>6, <1>7, <1>8, <1>9, <1>10, <1>11, <1>12, <1>13, <1>14, <1>15, <1>16
     DEF Next, Listener, Storage
-----------------------------------------------------------------------------
(* Items are stored, queued, announced and sent in the order they were drawn.   *)

\* The storage task has given item i its place in the order.
Placed(i) == row[i].st # "none" \/ store.at[i] # 0
Place(i) == IF store.at[i] # 0 THEN store.at[i] ELSE row[i].at

OpensRise(q) == \A j, k \in 1 .. Len(q) :
    j < k /\ q[j].t \in Opening /\ q[k].t \in Opening => q[j].i < q[k].i
OpensBelow(q, n) == \A k \in 1 .. Len(q) : q[k].t \in Opening => q[k].i < n
OpensAbove(q, n) == \A k \in 1 .. Len(q) : q[k].t \in Opening => n < q[k].i

RowsInv ==
    /\ \A i \in Items : row[i].st # "none" /\ store.at[i] # 0 => row[i].at = store.at[i]
    /\ \A a, b \in Items : a < b /\ Placed(a) /\ Placed(b) => Place(a) < Place(b)
    /\ \A i \in Items : Placed(i) => Place(i) < store.nextAt /\ i < Fence
QueueOrder ==
    /\ OpensRise(storageQ) /\ OpensBelow(storageQ, Fence)
    /\ \A i \in Items : Placed(i) => OpensAbove(storageQ, i)
SeenOrder ==
    /\ \A j, k \in 1 .. Len(client.seen) : j < k => client.seen[j] < client.seen[k]
    /\ \A j \in 1 .. Len(client.seen) : client.seen[j] < Fence /\ OpensAbove(clientQ, client.seen[j])
ClientOrder == OpensRise(clientQ) /\ OpensBelow(clientQ, Fence) /\ SeenOrder
OutOrder == \A k \in 1 .. Len(proc.out) : proc.out[k].t \in Opening =>
    /\ proc.out[k].i < Fence
    /\ \A j \in 1 .. Len(proc.out) : proc.out[j].t \in Opening => j = k
    /\ \A i \in Items : Placed(i) => i < proc.out[k].i
    /\ OpensBelow(storageQ, proc.out[k].i) /\ OpensBelow(clientQ, proc.out[k].i)
    /\ \A j \in 1 .. Len(client.seen) : client.seen[j] < proc.out[k].i

Receiving == store.pc \in {"none", "recv"}
Begun(i) == store.at[i] # 0 \/ Starts(storageQ, i)

\* While the storage task receives, a delta or an end comes after its start.
BegunInv == Receiving =>
    /\ \A k \in 1 .. Len(storageQ) : storageQ[k].t \in Following =>
         store.at[storageQ[k].i] # 0 \/ StartsBefore(storageQ, k, storageQ[k].i)
    /\ \A k \in 1 .. Len(proc.out) : proc.out[k].t \in Following =>
         Begun(proc.out[k].i) \/ StartsBefore(proc.out, k, proc.out[k].i)
    /\ ~Stopped => \A i \in Items : Live(proc, i) => Begun(i) \/ Starts(proc.out, i)

OrderInv == RowsInv /\ QueueOrder /\ ClientOrder /\ OutOrder
StreamInv == Base /\ OrderInv /\ BegunInv

(* What holds of the openings of a queue after an Append ...                    *)
LEMMA AppendOpens ==
    ASSUME NEW q \in Seq(Sent), NEW m \in Sent
    PROVE  /\ OpensRise(q) /\ (m.t \in Opening => OpensBelow(q, m.i)) => OpensRise(Append(q, m))
           /\ \A n : OpensBelow(q, n) /\ (m.t \in Opening => m.i < n) => OpensBelow(Append(q, m), n)
           /\ \A n : OpensAbove(q, n) /\ (m.t \in Opening => n < m.i) => OpensAbove(Append(q, m), n)
<1> DEFINE p == Append(q, m)
<1>1. /\ Len(p) = Len(q) + 1 /\ Len(q) \in Nat
      /\ \A k \in 1 .. Len(q) : p[k] = q[k]
      /\ p[Len(q) + 1] = m
  BY AppendIs
<1> HIDE DEF p
<1>2. \A k \in 1 .. Len(p) : k \in 1 .. Len(q) \/ (k = Len(q) + 1 /\ p[k] = m)
  BY <1>1
<1>3. OpensRise(q) /\ (m.t \in Opening => OpensBelow(q, m.i)) => OpensRise(p)
  BY <1>1, <1>2 DEF OpensRise, OpensBelow
<1>4. \A n : OpensBelow(q, n) /\ (m.t \in Opening => m.i < n) => OpensBelow(p, n)
  BY <1>1, <1>2 DEF OpensBelow
<1>5. \A n : OpensAbove(q, n) /\ (m.t \in Opening => n < m.i) => OpensAbove(p, n)
  BY <1>1, <1>2 DEF OpensAbove
<1> QED BY <1>3, <1>4, <1>5 DEF p

(* ... and after a Tail.                                                        *)
LEMMA TailOpens ==
    ASSUME NEW q \in Seq(Sent), q # <<>>
    PROVE  /\ OpensRise(q) => OpensRise(Tail(q))
           /\ OpensRise(q) /\ Head(q).t \in Opening => OpensAbove(Tail(q), Head(q).i)
           /\ \A n : OpensBelow(q, n) => OpensBelow(Tail(q), n)
           /\ \A n : OpensAbove(q, n) => OpensAbove(Tail(q), n)
           /\ \A n : OpensAbove(q, n) /\ Head(q).t \in Opening => n < Head(q).i
           /\ \A n : OpensBelow(q, n) /\ Head(q).t \in Opening => Head(q).i < n
<1> DEFINE p == Tail(q)
           h == Head(q)
<1>1. /\ h = q[1] /\ Len(q) \in Nat /\ Len(q) > 0 /\ Len(p) = Len(q) - 1
      /\ \A k \in 1 .. Len(q) - 1 : p[k] = q[k + 1]
  BY TailIs
<1> HIDE DEF p, h
<1>2. /\ \A k \in 1 .. Len(p) : k + 1 \in 1 .. Len(q) /\ p[k] = q[k + 1] /\ 1 < k + 1
      /\ \A j, k \in 1 .. Len(p) : j < k => j + 1 < k + 1
      /\ 1 \in 1 .. Len(q)
  BY <1>1
<1>3. OpensRise(q) => OpensRise(p)
  BY <1>2 DEF OpensRise
<1>4. OpensRise(q) /\ h.t \in Opening => OpensAbove(p, h.i)
  BY <1>1, <1>2 DEF OpensRise, OpensAbove
<1>5. \A n : OpensBelow(q, n) => OpensBelow(p, n)
  BY <1>2 DEF OpensBelow
<1>6. \A n : OpensAbove(q, n) => OpensAbove(p, n)
  BY <1>2 DEF OpensAbove
<1>7. \A n : OpensAbove(q, n) /\ h.t \in Opening => n < h.i
  BY <1>1, <1>2 DEF OpensAbove
<1>8. \A n : OpensBelow(q, n) /\ h.t \in Opening => h.i < n
  BY <1>1, <1>2 DEF OpensBelow
<1> QED BY <1>3, <1>4, <1>5, <1>6, <1>7, <1>8 DEF p, h

(* An empty queue opens nothing, and a bound may be raised.                     *)
LEMMA EmptyOpens == OpensRise(<<>>) /\ \A n : OpensBelow(<<>>, n) /\ OpensAbove(<<>>, n)
BY DEF OpensRise, OpensBelow, OpensAbove

(* Items below one bound are below any later one.                             *)
LEMMA RaiseBound ==
    ASSUME NEW q \in Seq(Sent), NEW n \in Nat, NEW p \in Nat, n <= p, OpensBelow(q, n)
    PROVE  OpensBelow(q, p)
<1>1. \A k \in 1 .. Len(q) : q[k].i \in Nat
  BY StreamAssumption DEF Sent, Messages
<1> QED BY <1>1 DEF OpensBelow

(* The numbers the order is about.                                              *)
LEMMA OrderTypes ==
    ASSUME Base
    PROVE  /\ Fence \in Nat /\ next \in Nat /\ store.nextAt \in Nat /\ Items \subseteq Nat
           /\ \A i \in Items : store.at[i] \in Nat /\ row[i].at \in Nat /\ Place(i) \in Nat
           /\ storageQ \in Seq(Sent) /\ clientQ \in Seq(Sent) /\ proc.out \in Seq(Sent)
           /\ \A j \in 1 .. Len(client.seen) : client.seen[j] \in Items
           /\ \A m \in Sent : m.i \in Nat /\ (m.t \in Opening \union Following => m.i \in Items)
<1>1. Fence \in Nat /\ next \in Nat
  BY FenceType DEF Base
<1>2. store \in StoreType /\ row \in [Items -> RowType] /\ client \in ClientType /\ proc \in ProcType
  BY DEF Base, TableType, PeerType, LoopFacts, LoopType
<1>3. \A i \in Items : store.at[i] \in Nat /\ row[i].at \in Nat
  BY <1>2 DEF StoreType, RowType
<1>4. \A j \in 1 .. Len(client.seen) : client.seen[j] \in Items
  BY <1>2 DEF ClientType
<1>5. \A m \in Sent : m.i \in Nat /\ (m.t \in Opening \union Following => m.i \in Items)
  BY StreamAssumption DEF Sent, Messages, Opening, Starting, Tooling, Following, Deltas, Ending, Bare
<1> QED BY <1>1, <1>2, <1>3, <1>4, <1>5 DEF Base, ChannelType, ProcType, StoreType, Place, Items

(* New messages open items at the fence, above all that went before.            *)
LEMMA OrderDraft ==
    ASSUME StreamInv, Base', DraftStep
    PROVE  OrderInv'
<1>1. Base /\ OrderInv /\ Drafts /\ TablesSame /\ storageQ' = storageQ /\ clientQ' = clientQ
  BY DEF StreamInv, DraftStep
<1>2. \A i \in Items : (Placed(i)' <=> Placed(i)) /\ Place(i)' = Place(i)
  BY <1>1 DEF TablesSame, Placed, Place
<1>3. Fence \in Nat /\ Fence' \in Nat /\ Fence <= Fence'
  <2>1. Fence' \in Nat
    <3>1. proc'.call + 1 \in Nat /\ next' \in Nat
      BY StreamAssumption DEF Base, LoopFacts, LoopType, ProcType
    <3> QED BY <3>1 DEF Fence
  <2> QED BY <1>1, <2>1, OrderTypes DEF Drafts
<1>4. RowsInv'
  <2>1. Items \subseteq Nat /\ store' = store /\ row' = row
    BY <1>1, OrderTypes DEF TablesSame
  <2>2. \A i \in Items : i < Fence => i < Fence'
    BY <1>3, <2>1
  <2> QED BY <1>1, <1>2, <2>1, <2>2 DEF OrderInv, RowsInv
<1>5. QueueOrder'
  <2>1. OpensBelow(storageQ, Fence')
    BY <1>1, <1>3, RaiseBound, OrderTypes DEF OrderInv, QueueOrder
  <2> QED BY <1>1, <1>2, <2>1 DEF OrderInv, QueueOrder
<1>6. ClientOrder'
  <2>1. OpensBelow(clientQ, Fence')
    BY <1>1, <1>3, RaiseBound, OrderTypes DEF OrderInv, ClientOrder
  <2>2. \A j \in 1 .. Len(client.seen) : client.seen[j] < Fence'
    BY <1>1, <1>3, OrderTypes DEF OrderInv, ClientOrder, SeenOrder, Items
  <2>3. client' = client
    BY <1>1 DEF TablesSame
  <2> QED BY <1>1, <2>1, <2>2, <2>3 DEF OrderInv, ClientOrder, SeenOrder
<1>7. OutOrder'
  <2> DEFINE out == proc'.out
  <2>1. DraftOpens(out, Fence, Fence') /\ out \in Seq(Sent)
    BY <1>1 DEF Drafts, Base, LoopFacts, LoopType, ProcType
  <2>2. \A k \in 1 .. Len(out) : out[k].i \in Nat
    BY <1>1, <2>1, OrderTypes
  <2> HIDE DEF out
  <2>3. ASSUME NEW k \in 1 .. Len(out), out[k].t \in Opening
        PROVE  /\ out[k].i < Fence' /\ Fence <= out[k].i
               /\ \A j \in 1 .. Len(out) : out[j].t \in Opening => j = k
    BY <2>1, <2>3 DEF DraftOpens
  <2>4. ASSUME NEW n \in Nat, Fence <= n
        PROVE  /\ \A i \in Items : Placed(i)' => i < n
               /\ OpensBelow(storageQ', n) /\ OpensBelow(clientQ', n)
               /\ \A j \in 1 .. Len(client'.seen) : client'.seen[j] < n
    <3>1. OpensBelow(storageQ, n) /\ OpensBelow(clientQ, n)
      BY <1>1, <1>3, <2>4, RaiseBound, OrderTypes DEF OrderInv, QueueOrder, ClientOrder
    <3>2. \A i \in Items : Placed(i)' => i < n
      BY <1>1, <1>2, <1>3, <2>4, OrderTypes DEF OrderInv, RowsInv
    <3>3. client' = client /\ \A j \in 1 .. Len(client.seen) : client.seen[j] < n
      BY <1>1, <1>3, <2>4, OrderTypes DEF OrderInv, ClientOrder, SeenOrder, TablesSame, Items
    <3> QED BY <1>1, <3>1, <3>2, <3>3
  <2>5. \A k \in 1 .. Len(out) : out[k].t \in Opening =>
           /\ out[k].i < Fence'
           /\ \A j \in 1 .. Len(out) : out[j].t \in Opening => j = k
           /\ \A i \in Items : Placed(i)' => i < out[k].i
           /\ OpensBelow(storageQ', out[k].i) /\ OpensBelow(clientQ', out[k].i)
           /\ \A j \in 1 .. Len(client'.seen) : client'.seen[j] < out[k].i
    BY <2>2, <2>3, <2>4
  <2> QED BY <2>5 DEF OutOrder, out
<1> QED BY <1>4, <1>5, <1>6, <1>7 DEF OrderInv

(* A loop that stops sends no item any more.                                    *)
LEMMA OrderDrop ==
    ASSUME StreamInv, Base', DropStep
    PROVE  OrderInv'
<1>1. Base /\ OrderInv /\ Drops /\ TablesSame
  BY DEF StreamInv, DropStep
<1>2. \A i \in Items : (Placed(i)' <=> Placed(i)) /\ Place(i)' = Place(i)
  BY <1>1 DEF TablesSame, Placed, Place
<1>3. Fence \in Nat /\ Fence' \in Nat /\ Fence <= Fence'
  <2>1. Fence' \in Nat
    <3>1. proc'.call + 1 \in Nat /\ next' \in Nat
      BY StreamAssumption DEF Base, LoopFacts, LoopType, ProcType
    <3> QED BY <3>1 DEF Fence
  <2> QED BY <1>1, <2>1, OrderTypes DEF Drops
<1>4. /\ Msg("Error", 0) \in Sent /\ Msg("Error", 0).t \notin Opening
      /\ Msg("Cancelled", 0) \in Sent /\ Msg("Cancelled", 0).t \notin Opening
  BY SentMessages DEF Bare, Opening, Starting, Tooling
<1>5. storageQ' = storageQ \/ \E m \in Sent : m.t \notin Opening /\ storageQ' = Append(storageQ, m)
  BY <1>4 DEF DropStep
<1>6. clientQ' = clientQ \/ \E m \in Sent : m.t \notin Opening /\ clientQ' = Append(clientQ, m)
  BY <1>1, <1>4, TrySendIs DEF DropStep, Base
<1>7. ASSUME NEW q \in Seq(Sent), NEW p, p = q \/ \E m \in Sent : m.t \notin Opening /\ p = Append(q, m)
      PROVE  /\ OpensRise(q) => OpensRise(p)
             /\ \A n : OpensAbove(q, n) => OpensAbove(p, n)
             /\ OpensBelow(q, Fence) => OpensBelow(p, Fence')
  <2>1. OpensBelow(q, Fence) => OpensBelow(q, Fence')
    BY <1>3, RaiseBound
  <2> QED BY <1>7, <2>1, AppendOpens
<1>8. /\ OpensRise(storageQ') /\ OpensBelow(storageQ', Fence')
      /\ \A n : OpensAbove(storageQ, n) => OpensAbove(storageQ', n)
  BY <1>1, <1>5, <1>7, OrderTypes DEF OrderInv, QueueOrder
<1>9. /\ OpensRise(clientQ') /\ OpensBelow(clientQ', Fence')
      /\ \A n : OpensAbove(clientQ, n) => OpensAbove(clientQ', n)
  BY <1>1, <1>6, <1>7, OrderTypes DEF OrderInv, ClientOrder
<1>10. RowsInv'
  <2>1. Items \subseteq Nat /\ store' = store /\ row' = row
    BY <1>1, OrderTypes DEF TablesSame
  <2>2. \A i \in Items : i < Fence => i < Fence'
    BY <1>3, <2>1
  <2> QED BY <1>1, <1>2, <2>1, <2>2 DEF OrderInv, RowsInv
<1>11. QueueOrder'
  BY <1>1, <1>2, <1>8 DEF OrderInv, QueueOrder
<1>12. ClientOrder'
  <2>1. \A j \in 1 .. Len(client.seen) : client.seen[j] < Fence'
    BY <1>1, <1>3, OrderTypes DEF OrderInv, ClientOrder, SeenOrder, Items
  <2>2. client' = client
    BY <1>1 DEF TablesSame
  <2> QED BY <1>1, <1>9, <2>1, <2>2 DEF OrderInv, ClientOrder, SeenOrder
<1>13. OutOrder'
  <2>1. Len(proc'.out) = 0
    BY <1>1 DEF Drops
  <2> QED BY <2>1 DEF OutOrder
<1> QED BY <1>10, <1>11, <1>12, <1>13 DEF OrderInv

(* A message sent goes behind all that is queued.                               *)
LEMMA OrderSend ==
    ASSUME StreamInv, Base', SendStep
    PROVE  OrderInv'
<1> DEFINE m == Head(proc.out)
           out == proc.out
<1>1. Base /\ OrderInv /\ TablesSame /\ storageQ' = Append(storageQ, m) /\ LoopFacts /\ ChannelType
      /\ storageQ \in Seq(Sent) /\ clientQ \in Seq(Sent)
  BY DEF StreamInv, SendStep, Base, ChannelType
<1>2. \A i \in Items : (Placed(i)' <=> Placed(i)) /\ Place(i)' = Place(i)
  BY <1>1 DEF TablesSame, Placed, Place
<1>3. /\ Fence' = Fence /\ m \in Sent /\ m = out[1] /\ Len(out) \in Nat /\ Len(out) > 0
      /\ proc'.out = Tail(out) /\ Len(Tail(out)) = Len(out) - 1
      /\ \A k \in 1 .. Len(out) - 1 : Tail(out)[k] = out[k + 1]
  BY <1>1, SendKeeps
<1>4. clientQ' \in {clientQ, Append(clientQ, m)}
  BY <1>1, <1>3, TrySendIs DEF SendStep
<1> HIDE DEF m, out
<1>5. m.t \in Opening =>
        /\ m.i < Fence /\ \A j \in 1 .. Len(out) : out[j].t \in Opening => j = 1
        /\ \A i \in Items : Placed(i) => i < m.i
        /\ OpensBelow(storageQ, m.i) /\ OpensBelow(clientQ, m.i)
        /\ \A j \in 1 .. Len(client.seen) : client.seen[j] < m.i
  BY <1>1, <1>3 DEF OrderInv, OutOrder, out
<1>6. RowsInv'
  BY <1>1, <1>2, <1>3 DEF OrderInv, RowsInv, TablesSame
<1>7. QueueOrder'
  BY <1>1, <1>2, <1>3, <1>5, AppendOpens DEF OrderInv, QueueOrder
<1>8. ClientOrder'
  <2>1. client' = client
    BY <1>1 DEF TablesSame
  <2>2. OpensRise(clientQ') /\ OpensBelow(clientQ', Fence)
    BY <1>1, <1>3, <1>4, <1>5, AppendOpens DEF OrderInv, ClientOrder
  <2>3. \A j \in 1 .. Len(client.seen) : OpensAbove(clientQ', client.seen[j])
    BY <1>1, <1>3, <1>4, <1>5, AppendOpens DEF OrderInv, ClientOrder, SeenOrder
  <2> QED BY <1>1, <1>3, <2>1, <2>2, <2>3 DEF OrderInv, ClientOrder, SeenOrder
<1>9. OutOrder'
  <2> SUFFICES ASSUME NEW k \in 1 .. Len(proc'.out), proc'.out[k].t \in Opening
               PROVE  /\ proc'.out[k].i < Fence
                      /\ \A j \in 1 .. Len(proc'.out) : proc'.out[j].t \in Opening => j = k
                      /\ \A i \in Items : Placed(i) => i < proc'.out[k].i
                      /\ OpensBelow(storageQ', proc'.out[k].i) /\ OpensBelow(clientQ', proc'.out[k].i)
                      /\ \A j \in 1 .. Len(client.seen) : client.seen[j] < proc'.out[k].i
    BY <1>1, <1>2, <1>3 DEF OutOrder, TablesSame
  <2>1. /\ k + 1 \in 1 .. Len(out) /\ proc'.out[k] = out[k + 1] /\ k + 1 # 1
        /\ \A j \in 1 .. Len(proc'.out) : j + 1 \in 1 .. Len(out) /\ proc'.out[j] = out[j + 1]
    BY <1>3
  <2>2. /\ out[k + 1].i < Fence /\ \A j \in 1 .. Len(out) : out[j].t \in Opening => j = k + 1
        /\ \A i \in Items : Placed(i) => i < out[k + 1].i
        /\ OpensBelow(storageQ, out[k + 1].i) /\ OpensBelow(clientQ, out[k + 1].i)
        /\ \A j \in 1 .. Len(client.seen) : client.seen[j] < out[k + 1].i
    BY <1>1, <2>1 DEF OrderInv, OutOrder, out
  <2>3. m.t \notin Opening
    BY <1>3, <1>5, <2>1
  <2>4. OpensBelow(storageQ', out[k + 1].i) /\ OpensBelow(clientQ', out[k + 1].i)
    <3>1. OpensBelow(Append(storageQ, m), out[k + 1].i) /\ OpensBelow(Append(clientQ, m), out[k + 1].i)
      <4>1. storageQ \in Seq(Sent) /\ clientQ \in Seq(Sent) /\ m \in Sent
        BY <1>1, <1>3
      <4> QED BY <2>2, <2>3, <4>1, AppendOpens
    <3>2. storageQ' = Append(storageQ, m) /\ clientQ' \in {clientQ, Append(clientQ, m)}
      BY <1>1, <1>4
    <3> QED BY <2>2, <3>1, <3>2
  <2>5. \A j \in 1 .. Len(proc'.out) : proc'.out[j].t \in Opening => j = k
    BY <1>3, <2>1, <2>2
  <2> QED BY <2>1, <2>2, <2>4, <2>5
<1> QED BY <1>6, <1>7, <1>8, <1>9 DEF OrderInv

\* A step that gives no item a place, and adds no opening to a queue.
KeepsPlaces ==
    /\ UNCHANGED <<proc, next>> /\ client'.seen = client.seen /\ clientQ' \in {clientQ, <<>>}
    /\ store'.nextAt = store.nextAt
    /\ \/ storageQ' \in {storageQ, <<>>}
       \/ storageQ # <<>> /\ storageQ' = Tail(storageQ)
       \/ storageQ' = Append(storageQ, Msg("Cancelled", 0))
    /\ \A i \in Items : /\ Placed(i)' => Placed(i) /\ Place(i)' = Place(i)
                        /\ row'[i].st # "none" /\ store'.at[i] # 0 => row'[i].at = store'.at[i]

(* A step that places nothing new keeps the order.                            *)
LEMMA OrderKept ==
    ASSUME StreamInv, KeepsPlaces
    PROVE  OrderInv'
<1>1. Base /\ OrderInv /\ Fence' = Fence
  BY DEF StreamInv, KeepsPlaces, Fence
<1>2. /\ storageQ \in Seq(Sent)
      /\ Msg("Cancelled", 0) \in Sent /\ Msg("Cancelled", 0).t \notin Opening
  BY <1>1, OrderTypes, SentMessages DEF Bare, Opening, Starting, Tooling
<1>3. /\ OpensRise(storageQ) => OpensRise(storageQ')
      /\ \A n : OpensAbove(storageQ, n) => OpensAbove(storageQ', n)
      /\ \A n : OpensBelow(storageQ, n) => OpensBelow(storageQ', n)
  <2>1. CASE storageQ' = storageQ
    BY <2>1
  <2>2. CASE storageQ' = <<>>
    BY <2>2, EmptyOpens
  <2>3. CASE storageQ # <<>> /\ storageQ' = Tail(storageQ)
    BY <1>2, <2>3, TailOpens
  <2>4. CASE storageQ' = Append(storageQ, Msg("Cancelled", 0))
    BY <1>2, <2>4, AppendOpens
  <2> QED BY <2>1, <2>2, <2>3, <2>4 DEF KeepsPlaces
<1>4. /\ OpensRise(clientQ) => OpensRise(clientQ')
      /\ \A n : OpensAbove(clientQ, n) => OpensAbove(clientQ', n)
      /\ \A n : OpensBelow(clientQ, n) => OpensBelow(clientQ', n)
  <2>1. CASE clientQ' = clientQ
    BY <2>1
  <2>2. CASE clientQ' = <<>>
    BY <2>2, EmptyOpens
  <2> QED BY <2>1, <2>2 DEF KeepsPlaces
<1>5. RowsInv'
  BY <1>1 DEF OrderInv, RowsInv, KeepsPlaces
<1>6. QueueOrder'
  BY <1>1, <1>3 DEF OrderInv, QueueOrder, KeepsPlaces
<1>7. ClientOrder'
  BY <1>1, <1>4 DEF OrderInv, ClientOrder, SeenOrder, KeepsPlaces
<1>8. OutOrder'
  <2>1. proc' = proc /\ client'.seen = client.seen
    BY DEF KeepsPlaces
  <2> SUFFICES ASSUME NEW k \in 1 .. Len(proc.out), proc.out[k].t \in Opening
               PROVE  /\ proc.out[k].i < Fence
                      /\ \A j \in 1 .. Len(proc.out) : proc.out[j].t \in Opening => j = k
                      /\ \A i \in Items : Placed(i)' => i < proc.out[k].i
                      /\ OpensBelow(storageQ', proc.out[k].i) /\ OpensBelow(clientQ', proc.out[k].i)
                      /\ \A j \in 1 .. Len(client.seen) : client.seen[j] < proc.out[k].i
    BY <1>1, <2>1 DEF OutOrder
  <2>2. /\ proc.out[k].i < Fence
        /\ \A j \in 1 .. Len(proc.out) : proc.out[j].t \in Opening => j = k
        /\ \A i \in Items : Placed(i) => i < proc.out[k].i
        /\ OpensBelow(storageQ, proc.out[k].i) /\ OpensBelow(clientQ, proc.out[k].i)
        /\ \A j \in 1 .. Len(client.seen) : client.seen[j] < proc.out[k].i
    BY <1>1 DEF OrderInv, OutOrder
  <2> QED BY <1>3, <1>4, <2>2 DEF KeepsPlaces
<1> QED BY <1>5, <1>6, <1>7, <1>8 DEF OrderInv

(* The message at the head of the channel, if it follows a start, comes after   *)
(* the storage task has seen that start.                                        *)
LEMMA HeadBegun ==
    ASSUME StreamInv, store.pc = "recv", storageQ # <<>>, Head(storageQ).t \in Following
    PROVE  Head(storageQ).i \in Items /\ store.at[Head(storageQ).i] # 0
<1>1. storageQ \in Seq(Sent) /\ Base
  BY OrderTypes DEF StreamInv
<1>2. Head(storageQ) = storageQ[1] /\ 1 \in 1 .. Len(storageQ) /\ Head(storageQ) \in Sent
  BY <1>1, TailIs
<1>3. ~StartsBefore(storageQ, 1, storageQ[1].i)
  BY DEF StartsBefore
<1>4. store.at[storageQ[1].i] # 0 \/ StartsBefore(storageQ, 1, storageQ[1].i)
  BY <1>2 DEF StreamInv, BegunInv, Receiving
<1> QED BY <1>1, <1>2, <1>3, <1>4, OrderTypes

(* An item that is placed is placed last.                                       *)
LEMMA OrderPlaced ==
    ASSUME StreamInv, Base', StoreItem, Head(storageQ).t \in Opening
    PROVE  OrderInv'
<1> DEFINE m == Head(storageQ)
<1>1. /\ Base /\ OrderInv /\ TableType /\ storageQ \in Seq(Sent) /\ storageQ # <<>> /\ storageQ' = Tail(storageQ)
      /\ UNCHANGED <<proc, next, clientQ, client>> /\ m \in Sent /\ m.i \in Items
      /\ TakesStart(m) \/ TakesTool(m)
  BY StoreItemIs, OrderTypes
     DEF StreamInv, Base, Takes, TakesDelta, TakesUsage, TakesEnd, TakesStart, TakesTool,
         Opening, Starting, Tooling, Deltas, Ending
<1>2. Fence' = Fence
  BY <1>1 DEF Fence
<1>3. /\ \A i \in Items : Placed(i) => i < m.i
      /\ m.i < Fence
      /\ OpensAbove(storageQ', m.i)
      /\ \A k \in 1 .. Len(proc.out) : proc.out[k].t \in Opening => m.i < proc.out[k].i
  BY <1>1, TailOpens DEF OrderInv, QueueOrder, OutOrder
<1> HIDE DEF m
<1>x. PICK x \in Items : x = m.i
  BY <1>1
<1>4. ~Placed(m.i) /\ Items \subseteq Nat /\ store.nextAt \in Nat
  BY <1>1, <1>3, OrderTypes
<1>5. /\ store'.nextAt = store.nextAt + 1
      /\ \A i \in Items : i # x => (Placed(i)' <=> Placed(i)) /\ Place(i)' = Place(i)
                                      /\ row'[i] = row[i] /\ store'.at[i] = store.at[i]
      /\ Placed(x)' => Place(x)' = store.nextAt
      /\ row'[m.i].st # "none" /\ store'.at[m.i] # 0 => row'[m.i].at = store'.at[m.i]
  <2>1. store.at \in [Items -> Nat] /\ store.at[m.i] = 0 /\ row[m.i].st = "none" /\ store.nextAt # 0
    BY <1>1, <1>4 DEF Placed, TableType, StoreType
  <2>2. CASE TakesStart(m)
    <3>1. /\ \A i \in Items : i # x => row'[i] = row[i]
          /\ row'[m.i].st # "none" => row'[m.i].at = store.nextAt
      BY <1>1, <1>4, <2>1, <2>2, <1>x, WritesIs DEF TakesStart
    <3>2. store'.at[m.i] = store.nextAt /\ store'.nextAt = store.nextAt + 1
          /\ \A i \in Items : i # x => store'.at[i] = store.at[i]
      BY <1>1, <1>x, <2>1, <2>2 DEF TakesStart
    <3> QED BY <1>x, <2>1, <3>1, <3>2 DEF Placed, Place
  <2>3. CASE TakesTool(m)
    <3>1. /\ \A i \in Items : i # x => row'[i] = row[i]
          /\ row'[m.i].st # "none" => row'[m.i].at = store.nextAt
      BY <1>1, <1>4, <2>1, <2>3, <1>x, WritesIs DEF TakesTool
    <3>2. store'.at = store.at /\ store'.nextAt = store.nextAt + 1
      BY <2>3 DEF TakesTool
    <3> QED BY <1>x, <2>1, <3>1, <3>2 DEF Placed, Place
  <2> QED BY <1>1, <2>2, <2>3
<1>6. RowsInv'
  <2>1. ASSUME NEW i \in Items PROVE row'[i].st # "none" /\ store'.at[i] # 0 => row'[i].at = store'.at[i]
    BY <1>1, <1>x, <1>5 DEF OrderInv, RowsInv
  <2>2. ASSUME NEW i \in Items, Placed(i)' PROVE Place(i)' < store'.nextAt /\ i < Fence
    BY <1>1, <1>x, <1>3, <1>4, <1>5, <2>2, OrderTypes DEF OrderInv, RowsInv
  <2>3. ASSUME NEW a \in Items, NEW b \in Items, a < b, Placed(a)', Placed(b)'
        PROVE  Place(a)' < Place(b)'
    <3>1. a # x
      BY <1>1, <1>x, <1>3, <1>4, <1>5, <2>3
    <3>2. CASE b = x
      <4>1. Placed(a) /\ Place(a)' = Place(a) /\ Place(b)' = store.nextAt
        BY <1>5, <2>3, <3>1, <3>2
      <4> QED BY <1>1, <4>1 DEF OrderInv, RowsInv
    <3>3. CASE b # x
      <4>1. Placed(a) /\ Place(a)' = Place(a) /\ Placed(b) /\ Place(b)' = Place(b)
        BY <1>5, <2>3, <3>1, <3>3
      <4> QED BY <1>1, <2>3, <4>1 DEF OrderInv, RowsInv
    <3> QED BY <3>2, <3>3
  <2> QED BY <1>2, <2>1, <2>2, <2>3 DEF RowsInv
<1>7. QueueOrder'
  <2>1. OpensRise(storageQ') /\ OpensBelow(storageQ', Fence)
    BY <1>1, TailOpens DEF OrderInv, QueueOrder
  <2>2. \A i \in Items : Placed(i)' => OpensAbove(storageQ', i)
    BY <1>1, <1>x, <1>3, <1>5, TailOpens DEF OrderInv, QueueOrder
  <2> QED BY <1>2, <2>1, <2>2 DEF QueueOrder
<1>8. ClientOrder'
  BY <1>1, <1>2 DEF OrderInv, ClientOrder, SeenOrder
<1>9. OutOrder'
  <2> SUFFICES ASSUME NEW k \in 1 .. Len(proc.out), proc.out[k].t \in Opening
               PROVE  /\ proc.out[k].i < Fence
                      /\ \A j \in 1 .. Len(proc.out) : proc.out[j].t \in Opening => j = k
                      /\ \A i \in Items : Placed(i)' => i < proc.out[k].i
                      /\ OpensBelow(storageQ', proc.out[k].i) /\ OpensBelow(clientQ, proc.out[k].i)
                      /\ \A j \in 1 .. Len(client.seen) : client.seen[j] < proc.out[k].i
    BY <1>1, <1>2 DEF OutOrder
  <2>1. /\ proc.out[k].i < Fence
        /\ \A j \in 1 .. Len(proc.out) : proc.out[j].t \in Opening => j = k
        /\ \A i \in Items : Placed(i) => i < proc.out[k].i
        /\ OpensBelow(storageQ, proc.out[k].i) /\ OpensBelow(clientQ, proc.out[k].i)
        /\ \A j \in 1 .. Len(client.seen) : client.seen[j] < proc.out[k].i
    BY <1>1 DEF OrderInv, OutOrder
  <2>2. OpensBelow(storageQ', proc.out[k].i)
    BY <1>1, <2>1, TailOpens
  <2> QED BY <1>x, <1>3, <1>5, <2>1, <2>2
<1> QED BY <1>6, <1>7, <1>8, <1>9 DEF OrderInv

(* Any other message, and every other step but the client's, keeps the places.  *)
LEMMA PlacesKept ==
    ASSUME StreamInv, [Next]_vars, ~(Loop \/ CancelClient), ~ClientRecv,
           StoreItem => Head(storageQ).t \notin Opening
    PROVE  KeepsPlaces
<1>0. /\ Base /\ UNCHANGED <<proc, next>> /\ row \in [Items -> RowType] /\ RowsInv
      /\ store \in StoreType /\ client \in ClientType
  BY OtherBase DEF StreamInv, OrderInv, Base, TableType, PeerType
<1>1. ASSUME store'.at = store.at, \A i \in Items : row'[i].at = row[i].at,
             \A i \in Items : row'[i].st # "none" => row[i].st # "none"
      PROVE  \A i \in Items : /\ Placed(i)' => Placed(i) /\ Place(i)' = Place(i)
                              /\ row'[i].st # "none" /\ store'.at[i] # 0 => row'[i].at = store'.at[i]
  BY <1>0, <1>1 DEF RowsInv, Placed, Place
<1>2. CASE StoreItem
  <2> DEFINE m == Head(storageQ)
  <2>1. /\ storageQ # <<>> /\ storageQ' = Tail(storageQ) /\ UNCHANGED <<clientQ, client>>
        /\ TakesDelta(m) \/ TakesUsage(m) \/ TakesEnd(m)
    BY <1>0, <1>2, StoreItemIs DEF Takes, TakesStart, TakesTool, Opening
  <2>2. CASE TakesDelta(m) \/ TakesUsage(m)
    BY <1>0, <1>1, <2>1, <2>2 DEF TakesDelta, TakesUsage, KeepsPlaces
  <2>3. CASE TakesEnd(m)
    <3>1. m.i \in Items /\ store.at[m.i] # 0
      BY <1>2, <2>1, <2>3, HeadBegun, StoreItemIs DEF TakesEnd, Following, StreamInv
    <3>2. PICK x \in Items : x = m.i
      BY <3>1
    <3>3. /\ store'.at = store.at /\ store'.nextAt = store.nextAt
          /\ \A i \in Items \ {x} : row'[i] = row[i]
          /\ row'[x].at = row[x].at \/ (row[x].st = "none" /\ row'[x].at = store.at[x])
          /\ row'[x].st = "none" => row[x].st = "none"
      BY <2>3, <3>2 DEF TakesEnd
    <3> HIDE DEF m
    <3>4. \A i \in Items : /\ Placed(i)' => Placed(i) /\ Place(i)' = Place(i)
                           /\ row'[i].st # "none" /\ store'.at[i] # 0 => row'[i].at = store'.at[i]
      <4>1. Placed(x) /\ Place(x)' = Place(x)
        BY <3>1, <3>2, <3>3 DEF Placed, Place
      <4>2. row'[x].st # "none" => row'[x].at = store'.at[x]
        BY <1>0, <2>3, <3>1, <3>2, <3>3 DEF RowsInv, TakesEnd
      <4>3. \A i \in Items \ {x} : (Placed(i)' <=> Placed(i)) /\ Place(i)' = Place(i)
        BY <3>3 DEF Placed, Place
      <4> QED BY <1>0, <3>3, <4>1, <4>2, <4>3 DEF RowsInv
    <3> QED BY <1>0, <2>1, <3>3, <3>4 DEF KeepsPlaces
  <2> QED BY <2>1, <2>2, <2>3
<1>3. CASE Accept \/ PersistUserMessage
  <2>1. client'.seen = client.seen
    BY <1>0, <1>3 DEF Accept, PersistUserMessage, ClientType
  <2> QED BY <1>0, <1>1, <1>3, <2>1 DEF Accept, PersistUserMessage, KeepsPlaces
<1>4. CASE Spawn
  <2>1. client'.seen = client.seen /\ store'.at = store.at /\ store'.nextAt = store.nextAt
    BY <1>0, <1>4 DEF Spawn, ClientType, StoreType
  <2> QED BY <1>0, <1>1, <1>4, <2>1 DEF Spawn, KeepsPlaces
<1>5. CASE Disconnect
  <2>1. client'.seen = client.seen
    BY <1>0, <1>5 DEF Disconnect, ClientType
  <2> QED BY <1>0, <1>1, <1>5, <2>1 DEF Disconnect, KeepsPlaces
<1>6. CASE Lagged \/ CancelStorage
  BY <1>0, <1>1, <1>6 DEF Lagged, CancelStorage, KeepsPlaces
<1>7. CASE CancelRead \/ CancelUpdate \/ CancelBroadcast
  BY <1>0, <1>1, <1>7 DEF CancelRead, CancelUpdate, CancelBroadcast, KeepsPlaces
<1>8. CASE Delete
  <2>1. \A i \in Items : row'[i].st = "none" /\ store' = store
    BY <1>8 DEF Delete, NoRow
  <2>2. \A i \in Items : /\ Placed(i)' => Placed(i) /\ Place(i)' = Place(i)
                         /\ row'[i].st # "none" /\ store'.at[i] # 0 => row'[i].at = store'.at[i]
    BY <2>1 DEF Placed, Place
  <2> QED BY <1>0, <1>8, <2>2 DEF Delete, KeepsPlaces
<1>9. CASE StoreEnd
  BY <1>0, <1>1, <1>9, StoreEndIs DEF KeepsPlaces
<1>10. CASE StoreStatus
  BY <1>0, <1>1, <1>10, StoreStatusIs DEF KeepsPlaces
<1>11. CASE StoreSettle
  BY <1>0, <1>1, <1>11, StoreSettleIs DEF KeepsPlaces
<1>12. CASE UNCHANGED vars
  BY <1>0, <1>1, <1>12 DEF vars, KeepsPlaces
<1> QED BY <1>2, <1>3, <1>4, <1>5, <1>6, <1>7, <1>8, <1>9, <1>10, <1>11, <1>12
     DEF Next, Listener, Storage, Endpoints

(* The client announces items in the order of its channel.                      *)
LEMMA OrderClient ==
    ASSUME StreamInv, Base', ClientRecv
    PROVE  OrderInv'
<1> DEFINE m == Head(clientQ)
           seen == client.seen
<1>1. /\ Base /\ OrderInv /\ clientQ # <<>> /\ clientQ' \in {<<>>, Tail(clientQ)}
      /\ UNCHANGED <<row, storageQ, proc, store, next>> /\ clientQ \in Seq(Sent)
      /\ client'.seen = IF m.t \in Opening THEN Append(seen, m.i) ELSE seen
  BY ClientRecvIs, OrderTypes DEF StreamInv
<1>2. Fence' = Fence /\ \A i \in Items : (Placed(i)' <=> Placed(i)) /\ Place(i)' = Place(i)
  BY <1>1 DEF Fence, Placed, Place
<1>3. m \in Sent /\ (m.t \in Opening => m.i \in Items) /\ seen \in Seq(Items)
  BY <1>1, TailIs, OrderTypes DEF Base, PeerType, ClientType
<1>4. /\ OpensRise(clientQ') /\ OpensBelow(clientQ', Fence)
      /\ \A n : OpensAbove(clientQ, n) => OpensAbove(clientQ', n)
      /\ \A n : OpensBelow(clientQ, n) => OpensBelow(clientQ', n)
      /\ m.t \in Opening => OpensAbove(clientQ', m.i)
  <2>1. CASE clientQ' = <<>>
    BY <2>1, EmptyOpens
  <2>2. CASE clientQ' = Tail(clientQ)
    BY <1>1, <2>2, TailOpens DEF OrderInv, ClientOrder
  <2> QED BY <1>1, <2>1, <2>2
<1>5. m.t \in Opening =>
        /\ m.i < Fence /\ \A j \in 1 .. Len(seen) : seen[j] < m.i
        /\ \A k \in 1 .. Len(proc.out) : proc.out[k].t \in Opening => m.i < proc.out[k].i
  BY <1>1, TailOpens DEF OrderInv, ClientOrder, SeenOrder, OutOrder
<1> HIDE DEF m, seen
<1>6. /\ \A j, k \in 1 .. Len(client'.seen) : j < k => client'.seen[j] < client'.seen[k]
      /\ \A j \in 1 .. Len(client'.seen) : client'.seen[j] < Fence /\ OpensAbove(clientQ', client'.seen[j])
      /\ \A k \in 1 .. Len(proc.out) : proc.out[k].t \in Opening =>
           \A j \in 1 .. Len(client'.seen) : client'.seen[j] < proc.out[k].i
  <2>1. /\ \A j, k \in 1 .. Len(seen) : j < k => seen[j] < seen[k]
        /\ \A j \in 1 .. Len(seen) : seen[j] < Fence /\ OpensAbove(clientQ', seen[j])
        /\ \A k \in 1 .. Len(proc.out) : proc.out[k].t \in Opening => \A j \in 1 .. Len(seen) : seen[j] < proc.out[k].i
    BY <1>1, <1>4 DEF OrderInv, ClientOrder, SeenOrder, OutOrder, seen
  <2>2. CASE m.t \notin Opening
    BY <1>1, <2>1, <2>2
  <2>3. CASE m.t \in Opening
    <3> DEFINE s == client'.seen
    <3>1. /\ Len(s) = Len(seen) + 1 /\ Len(seen) \in Nat /\ s[Len(seen) + 1] = m.i
          /\ \A j \in 1 .. Len(seen) : s[j] = seen[j]
      BY <1>1, <1>3, <2>3, AppendIs
    <3> HIDE DEF s
    <3>2. \A j \in 1 .. Len(s) : j \in 1 .. Len(seen) \/ j = Len(seen) + 1
      BY <3>1
    <3>3. \A j, k \in 1 .. Len(s) : j < k => s[j] < s[k]
      BY <1>5, <2>1, <2>3, <3>1, <3>2
    <3>4. /\ \A j \in 1 .. Len(s) : s[j] < Fence /\ OpensAbove(clientQ', s[j])
          /\ \A k \in 1 .. Len(proc.out) : proc.out[k].t \in Opening => \A j \in 1 .. Len(s) : s[j] < proc.out[k].i
      BY <1>4, <1>5, <2>1, <2>3, <3>1, <3>2
    <3> QED BY <3>3, <3>4 DEF s
  <2> QED BY <2>2, <2>3
<1>7. RowsInv' /\ QueueOrder'
  BY <1>1, <1>2 DEF OrderInv, RowsInv, QueueOrder
<1>8. ClientOrder'
  BY <1>2, <1>4, <1>6 DEF ClientOrder, SeenOrder
<1>9. OutOrder'
  <2>1. ASSUME NEW k \in 1 .. Len(proc.out), proc.out[k].t \in Opening
        PROVE  /\ proc.out[k].i < Fence
               /\ \A j \in 1 .. Len(proc.out) : proc.out[j].t \in Opening => j = k
               /\ \A i \in Items : Placed(i) => i < proc.out[k].i
               /\ OpensBelow(storageQ, proc.out[k].i) /\ OpensBelow(clientQ, proc.out[k].i)
    BY <1>1, <2>1 DEF OrderInv, OutOrder
  <2>2. proc' = proc /\ storageQ' = storageQ
    BY <1>1
  <2> QED BY <1>2, <1>4, <1>6, <2>1, <2>2 DEF OutOrder
<1> QED BY <1>7, <1>8, <1>9 DEF OrderInv

(* Every step keeps the order.                                                  *)
LEMMA OrderStep ==
    ASSUME StreamInv, [Next]_vars
    PROVE  Base' /\ OrderInv'
<1>1. CASE Loop \/ CancelClient
  BY <1>1, LoopBase, OrderDraft, OrderDrop, OrderSend DEF StreamInv
<1>2. CASE ~(Loop \/ CancelClient)
  <2>1. Base'
    BY <1>2, OtherBase DEF StreamInv
  <2> QED BY <1>2, <2>1, OrderClient, OrderPlaced, PlacesKept, OrderKept
<1> QED BY <1>1, <1>2
-----------------------------------------------------------------------------
(* A delta or an end follows its start.                                         *)

(* Putting a message at the end hides no start before it.                     *)
LEMMA AppendStarts ==
    ASSUME NEW q \in Seq(Sent), NEW m \in Sent
    PROVE  \A i : /\ Starts(q, i) => Starts(Append(q, m), i) /\ StartsBefore(Append(q, m), Len(q) + 1, i)
                  /\ \A k \in 1 .. Len(q) : StartsBefore(q, k, i) => StartsBefore(Append(q, m), k, i)
                  /\ m.t \in Starting /\ m.i = i => Starts(Append(q, m), i)
<1> DEFINE p == Append(q, m)
<1>1. /\ Len(p) = Len(q) + 1 /\ Len(q) \in Nat
      /\ \A k \in 1 .. Len(q) : p[k] = q[k]
      /\ p[Len(q) + 1] = m
  BY AppendIs
<1> HIDE DEF p
<1>2. /\ \A k \in 1 .. Len(q) : k \in 1 .. Len(p) /\ k < Len(q) + 1
      /\ Len(q) + 1 \in 1 .. Len(p)
  BY <1>1
<1>3. \A i : /\ Starts(q, i) => Starts(p, i) /\ StartsBefore(p, Len(q) + 1, i)
             /\ \A k \in 1 .. Len(q) : StartsBefore(q, k, i) => StartsBefore(p, k, i)
  BY <1>1, <1>2 DEF Starts, StartsBefore
<1>4. \A i : m.t \in Starting /\ m.i = i => Starts(p, i)
  BY <1>1, <1>2 DEF Starts
<1> QED BY <1>3, <1>4 DEF p

(* Taking the first message hides no start but its own.                       *)
LEMMA TailStarts ==
    ASSUME NEW q \in Seq(Sent), q # <<>>
    PROVE  \A i : /\ Starts(q, i) => Starts(Tail(q), i) \/ (Head(q).t \in Starting /\ Head(q).i = i)
                  /\ \A k \in 1 .. Len(Tail(q)) : StartsBefore(q, k + 1, i) =>
                        StartsBefore(Tail(q), k, i) \/ (Head(q).t \in Starting /\ Head(q).i = i)
<1> DEFINE p == Tail(q)
           h == Head(q)
<1>1. /\ h = q[1] /\ Len(q) \in Nat /\ Len(q) > 0 /\ Len(p) = Len(q) - 1
      /\ \A k \in 1 .. Len(q) - 1 : p[k] = q[k + 1]
  BY TailIs
<1> HIDE DEF p, h
<1>2. \A j \in 1 .. Len(q) : j = 1 \/ (j - 1 \in 1 .. Len(p) /\ p[j - 1] = q[j])
  BY <1>1
<1>3. \A i : Starts(q, i) => Starts(p, i) \/ (h.t \in Starting /\ h.i = i)
  BY <1>1, <1>2 DEF Starts
<1>4. ASSUME NEW i, NEW k \in 1 .. Len(p), StartsBefore(q, k + 1, i)
      PROVE  StartsBefore(p, k, i) \/ (h.t \in Starting /\ h.i = i)
  <2>1. PICK j \in 1 .. Len(q) : j < k + 1 /\ q[j].t \in Starting /\ q[j].i = i
    BY <1>4 DEF StartsBefore
  <2>2. CASE j = 1
    BY <1>1, <2>1, <2>2
  <2>3. CASE j # 1
    <3>1. j - 1 \in 1 .. Len(p) /\ j - 1 < k /\ p[j - 1] = q[j]
      BY <1>1, <1>2, <2>1, <2>3
    <3> QED BY <2>1, <3>1 DEF StartsBefore
  <2> QED BY <2>2, <2>3
<1> QED BY <1>3, <1>4 DEF p, h

(* The loop drafts a delta or an end only for an item it has started.         *)
LEMMA BegunDraft ==
    ASSUME StreamInv, Base', DraftStep
    PROVE  BegunInv'
<1>1. Base /\ BegunInv /\ Drafts /\ store' = store /\ storageQ' = storageQ
  BY DEF StreamInv, DraftStep, TablesSame
<1> SUFFICES ASSUME Receiving
             PROVE  /\ \A k \in 1 .. Len(storageQ) : storageQ[k].t \in Following =>
                         store.at[storageQ[k].i] # 0 \/ StartsBefore(storageQ, k, storageQ[k].i)
                    /\ \A k \in 1 .. Len(proc'.out) : proc'.out[k].t \in Following =>
                         Begun(proc'.out[k].i) \/ StartsBefore(proc'.out, k, proc'.out[k].i)
                    /\ \A i \in Items : Live(proc', i) => Begun(i) \/ Starts(proc'.out, i)
  BY <1>1 DEF BegunInv, Receiving, Begun
<1>2. \A i \in Items : Live(proc, i) => Begun(i)
  <2>1. proc.out = <<>> /\ ~Stopped /\ Len(<<>>) = 0
    BY <1>1 DEF Drafts
  <2>2. \A i \in Items : ~Starts(proc.out, i)
    BY <2>1 DEF Starts
  <2> QED BY <1>1, <2>1, <2>2 DEF BegunInv
<1> DEFINE out == proc'.out
<1>3. out \in Seq(Sent) /\ DraftFollows(out)
  BY <1>1 DEF Drafts, Base, LoopFacts, LoopType, ProcType
<1> HIDE DEF out
<1>4. \A k \in 1 .. Len(out) : out[k].t \in Following => out[k].i \in Items
  BY <1>1, <1>3, OrderTypes
<1>5. \A k \in 1 .. Len(out) : out[k].t \in Following => Begun(out[k].i) \/ StartsBefore(out, k, out[k].i)
  BY <1>2, <1>3, <1>4 DEF DraftFollows
<1>6. \A i \in Items : Live(proc', i) => Begun(i) \/ Starts(out, i)
  BY <1>2, <1>3 DEF DraftFollows
<1> QED BY <1>1, <1>5, <1>6 DEF BegunInv, out

(* A bare message at the end of the channel changes nothing of this.            *)
LEMMA BegunAppend ==
    ASSUME StreamInv, store' = store, NEW m \in Sent, m.t \notin Following,
           storageQ' = storageQ \/ storageQ' = Append(storageQ, m), Receiving
    PROVE  /\ \A k \in 1 .. Len(storageQ') : storageQ'[k].t \in Following =>
                store'.at[storageQ'[k].i] # 0 \/ StartsBefore(storageQ', k, storageQ'[k].i)
           /\ \A i : Starts(storageQ, i) => Starts(storageQ', i)
<1>1. storageQ \in Seq(Sent) /\ BegunInv
  BY OrderTypes DEF StreamInv
<1>2. CASE storageQ' = storageQ
  BY <1>1, <1>2 DEF BegunInv
<1>3. CASE storageQ' = Append(storageQ, m)
  <2>1. /\ Len(storageQ') = Len(storageQ) + 1 /\ Len(storageQ) \in Nat
        /\ \A k \in 1 .. Len(storageQ) : storageQ'[k] = storageQ[k]
        /\ storageQ'[Len(storageQ) + 1] = m
    BY <1>1, <1>3, AppendIs
  <2>2. \A k \in 1 .. Len(storageQ') : storageQ'[k].t \in Following => k \in 1 .. Len(storageQ)
    BY <2>1
  <2> QED BY <1>1, <1>3, <2>1, <2>2, AppendStarts DEF BegunInv
<1> QED BY <1>2, <1>3

(* A loop that stops drafts nothing more.                                     *)
LEMMA BegunDrop ==
    ASSUME StreamInv, DropStep
    PROVE  BegunInv'
<1>1. store' = store /\ Stopped' /\ Len(proc'.out) = 0
  BY DEF DropStep, TablesSame, Drops
<1>2. Msg("Error", 0) \in Sent /\ Msg("Error", 0).t \notin Following
  BY SentMessages DEF Bare, Following, Deltas, Ending
<1>3. Receiving => \A k \in 1 .. Len(storageQ') : storageQ'[k].t \in Following =>
                      store'.at[storageQ'[k].i] # 0 \/ StartsBefore(storageQ', k, storageQ'[k].i)
  BY <1>1, <1>2, BegunAppend DEF DropStep
<1> QED BY <1>1, <1>3 DEF BegunInv, Receiving

(* A message moves from the loop to the storage channel behind its start.     *)
LEMMA BegunSend ==
    ASSUME StreamInv, SendStep
    PROVE  BegunInv'
<1> DEFINE m == Head(proc.out)
           out == proc.out
<1>1. /\ Base /\ BegunInv /\ store' = store /\ storageQ' = Append(storageQ, m) /\ storageQ \in Seq(Sent)
      /\ out \in Seq(Sent) /\ out # <<>>
  BY OrderTypes DEF StreamInv, SendStep, TablesSame
<1>2. /\ m \in Sent /\ m = out[1] /\ Len(out) \in Nat /\ Len(out) > 0 /\ ~Stopped /\ ~Stopped'
      /\ proc'.out = Tail(out) /\ Len(Tail(out)) = Len(out) - 1
      /\ \A k \in 1 .. Len(out) - 1 : Tail(out)[k] = out[k + 1]
      /\ \A i : Live(proc', i) <=> Live(proc, i)
  BY <1>1, SendKeeps DEF Base
<1>3. /\ \A k \in 1 .. Len(out) : out[k].t \in Following => Begun(out[k].i) \/ StartsBefore(out, k, out[k].i) \/ ~Receiving
      /\ Receiving => \A i \in Items : Live(proc, i) => Begun(i) \/ Starts(out, i)
  BY <1>1, <1>2 DEF BegunInv
<1> HIDE DEF m, out
<1> SUFFICES ASSUME Receiving
             PROVE  /\ \A k \in 1 .. Len(storageQ') : storageQ'[k].t \in Following =>
                         store.at[storageQ'[k].i] # 0 \/ StartsBefore(storageQ', k, storageQ'[k].i)
                    /\ \A k \in 1 .. Len(proc'.out) : proc'.out[k].t \in Following =>
                         \/ store.at[proc'.out[k].i] # 0 \/ Starts(storageQ', proc'.out[k].i)
                         \/ StartsBefore(proc'.out, k, proc'.out[k].i)
                    /\ \A i \in Items : Live(proc', i) =>
                         store.at[i] # 0 \/ Starts(storageQ', i) \/ Starts(proc'.out, i)
  BY <1>1 DEF BegunInv, Receiving, Begun
<1>4. \A i : Begun(i) \/ (m.t \in Starting /\ m.i = i) => store.at[i] # 0 \/ Starts(storageQ', i)
  BY <1>1, <1>2, AppendStarts DEF Begun
<1>5. ASSUME NEW k \in 1 .. Len(storageQ'), storageQ'[k].t \in Following
      PROVE  store.at[storageQ'[k].i] # 0 \/ StartsBefore(storageQ', k, storageQ'[k].i)
  <2>1. /\ Len(storageQ') = Len(storageQ) + 1 /\ Len(storageQ) \in Nat
        /\ \A j \in 1 .. Len(storageQ) : storageQ'[j] = storageQ[j]
        /\ storageQ'[Len(storageQ) + 1] = m
    BY <1>1, <1>2, AppendIs
  <2>2. CASE k \in 1 .. Len(storageQ)
    BY <1>1, <1>2, <1>5, <2>1, <2>2, AppendStarts DEF BegunInv
  <2>3. CASE k = Len(storageQ) + 1
    <3>1. ~StartsBefore(out, 1, m.i)
      BY DEF StartsBefore
    <3>2. Begun(m.i)
      BY <1>2, <1>3, <1>5, <2>1, <2>3, <3>1
    <3> QED BY <1>1, <1>2, <2>1, <2>3, <3>2, AppendStarts DEF Begun
  <2> QED BY <2>1, <2>2, <2>3
<1>6. ASSUME NEW k \in 1 .. Len(proc'.out), proc'.out[k].t \in Following
      PROVE  \/ store.at[proc'.out[k].i] # 0 \/ Starts(storageQ', proc'.out[k].i)
             \/ StartsBefore(proc'.out, k, proc'.out[k].i)
  <2>1. k + 1 \in 1 .. Len(out) /\ proc'.out[k] = out[k + 1] /\ k \in 1 .. Len(Tail(out))
    BY <1>2
  <2>2. Begun(out[k + 1].i) \/ StartsBefore(out, k + 1, out[k + 1].i)
    BY <1>3, <1>6, <2>1
  <2>3. \/ Begun(out[k + 1].i) \/ StartsBefore(Tail(out), k, out[k + 1].i)
        \/ (m.t \in Starting /\ m.i = out[k + 1].i)
    <3>1. StartsBefore(out, k + 1, out[k + 1].i) =>
            StartsBefore(Tail(out), k, out[k + 1].i) \/ (Head(out).t \in Starting /\ Head(out).i = out[k + 1].i)
      BY <1>1, <2>1, TailStarts
    <3>2. Head(out) = m
      BY DEF m, out
    <3> QED BY <2>2, <3>1, <3>2
  <2> QED BY <1>2, <1>4, <2>1, <2>3
<1>7. ASSUME NEW i \in Items, Live(proc', i)
      PROVE  store.at[i] # 0 \/ Starts(storageQ', i) \/ Starts(proc'.out, i)
  <2>1. Begun(i) \/ Starts(out, i)
    BY <1>2, <1>3, <1>7
  <2>2. Begun(i) \/ Starts(Tail(out), i) \/ (m.t \in Starting /\ m.i = i)
    BY <1>1, <2>1, TailStarts DEF m, out
  <2> QED BY <1>2, <1>4, <2>2
<1> QED BY <1>5, <1>6, <1>7

(* The storage task takes the messages in their order.                          *)
LEMMA BegunTake ==
    ASSUME StreamInv, StoreItem
    PROVE  BegunInv'
<1> DEFINE m == Head(storageQ)
           q == Tail(storageQ)
<1>1. /\ Base /\ BegunInv /\ storageQ \in Seq(Sent) /\ storageQ # <<>> /\ storageQ' = q
      /\ store.pc = "recv" /\ proc' = proc /\ m \in Sent /\ Takes(m) /\ Receiving
  BY OrderTypes, StoreItemIs DEF StreamInv, Receiving
<1>2. /\ m = storageQ[1] /\ Len(storageQ) \in Nat /\ Len(storageQ) > 0 /\ Len(q) = Len(storageQ) - 1
      /\ \A k \in 1 .. Len(storageQ) - 1 : q[k] = storageQ[k + 1]
  BY <1>1, TailIs
<1>3. /\ \A i : Starts(storageQ, i) => Starts(q, i) \/ (m.t \in Starting /\ m.i = i)
      /\ \A i : \A k \in 1 .. Len(q) : StartsBefore(storageQ, k + 1, i) =>
                        StartsBefore(q, k, i) \/ (m.t \in Starting /\ m.i = i)
  BY <1>1, TailStarts
<1>4. m.t \in Opening \union Following => m.i \in Items
  BY <1>1, OrderTypes
<1>5. \A k \in 1 .. Len(storageQ) : storageQ[k].t \in Following => storageQ[k].i \in Items
  BY <1>1, OrderTypes
<1>6. \A k \in 1 .. Len(proc.out) : proc.out[k].t \in Following => proc.out[k].i \in Items
  BY <1>1, OrderTypes
<1> HIDE DEF m, q
<1>7. /\ \A i \in Items : store.at[i] # 0 => store'.at[i] # 0
      /\ m.t \in Starting => store'.at[m.i] # 0
  <2>1. store.at \in [Items -> Nat] /\ store.nextAt # 0
    BY <1>1 DEF Base, TableType, StoreType
  <2>2. CASE TakesStart(m)
    <3>1. store'.at = [store.at EXCEPT ![m.i] = store.nextAt] /\ m.i \in Items
      BY <2>2 DEF TakesStart
    <3> QED BY <2>1, <3>1
  <2>3. CASE ~TakesStart(m)
    <3>1. store'.at = store.at /\ m.t \notin Starting
      BY <1>1, <2>3
         DEF Takes, TakesDelta, TakesUsage, TakesEnd, TakesTool, Starting, Deltas, Ending, Tooling
    <3> QED BY <3>1
  <2> QED BY <2>2, <2>3
<1>8. \A i \in Items : Begun(i) => store'.at[i] # 0 \/ Starts(storageQ', i)
  BY <1>1, <1>3, <1>7 DEF Begun
<1>9. ASSUME NEW k \in 1 .. Len(q), q[k].t \in Following
      PROVE  store'.at[q[k].i] # 0 \/ StartsBefore(q, k, q[k].i)
  <2>1. k + 1 \in 1 .. Len(storageQ) /\ q[k] = storageQ[k + 1]
    BY <1>2
  <2>2. store.at[q[k].i] # 0 \/ StartsBefore(storageQ, k + 1, q[k].i)
    BY <1>1, <1>9, <2>1 DEF BegunInv
  <2> QED BY <1>3, <1>5, <1>7, <1>9, <2>1, <2>2
<1>10. \A k \in 1 .. Len(proc.out) : proc.out[k].t \in Following =>
         \/ store'.at[proc.out[k].i] # 0 \/ Starts(storageQ', proc.out[k].i)
         \/ StartsBefore(proc.out, k, proc.out[k].i)
  BY <1>1, <1>6, <1>8 DEF BegunInv
<1>11. ~Stopped => \A i \in Items : Live(proc, i) =>
         store'.at[i] # 0 \/ Starts(storageQ', i) \/ Starts(proc.out, i)
  BY <1>1, <1>8 DEF BegunInv
<1>12. Stopped' <=> Stopped
  BY <1>1 DEF Stopped
<1> QED BY <1>1, <1>9, <1>10, <1>11, <1>12 DEF BegunInv, Begun

(* Every step keeps a delta and an end behind their start.                    *)
LEMMA BegunStep ==
    ASSUME StreamInv, [Next]_vars, Base'
    PROVE  BegunInv'
<1>1. CASE Loop \/ CancelClient
  BY <1>1, LoopBase, BegunDraft, BegunDrop, BegunSend DEF StreamInv
<1>2. CASE StoreItem
  BY <1>2, BegunTake
<1>3. CASE StoreEnd \/ StoreStatus \/ StoreSettle
  <2>1. ~Receiving'
    BY <1>3, StoreEndIs, StoreStatusIs, StoreSettleIs DEF StreamInv, Receiving
  <2> QED BY <2>1 DEF BegunInv
<1>4. CASE ~(Loop \/ CancelClient) /\ ~Storage
  <2>1. /\ proc' = proc /\ store'.at = store.at /\ (Receiving' => Receiving)
        /\ storageQ' = storageQ \/ storageQ' = Append(storageQ, Msg("Cancelled", 0))
    <3>1. proc' = proc
      BY <1>4, OtherBase DEF StreamInv
    <3>2. CASE Spawn
      <4>1. store \in StoreType
        BY DEF StreamInv, Base, TableType
      <4>2. StartInv
        BY DEF StreamInv, Base
      <4> QED BY <3>1, <3>2, <4>1, <4>2 DEF Spawn, StoreType, StartInv, Receiving
    <3>3. CASE ClientRecv
      BY <3>1, <3>3, ClientRecvIs DEF StreamInv, Receiving
    <3>4. CASE ~Spawn /\ ~ClientRecv
      BY <1>4, <3>1, <3>4
         DEF Next, vars, Listener, Endpoints, Accept, PersistUserMessage, Disconnect, Lagged, CancelStorage,
             CancelRead, CancelUpdate, CancelBroadcast, Delete, Receiving
    <3> QED BY <3>2, <3>3, <3>4
  <2>2. Msg("Cancelled", 0) \in Sent /\ Msg("Cancelled", 0).t \notin Following /\ Msg("Cancelled", 0).t \notin Starting
    BY SentMessages DEF Bare, Following, Deltas, Ending, Starting
  <2>3. storageQ \in Seq(Sent) /\ BegunInv /\ (Stopped' <=> Stopped)
    BY <2>1, OrderTypes DEF StreamInv, Stopped
  <2>4. CASE storageQ' = storageQ
    BY <2>1, <2>3, <2>4 DEF BegunInv, Begun
  <2>5. CASE storageQ' = Append(storageQ, Msg("Cancelled", 0))
    <3> DEFINE m == Msg("Cancelled", 0)
    <3>1. m \in Sent /\ m.t \notin Following /\ storageQ' = Append(storageQ, m)
      BY <2>2, <2>5
    <3> HIDE DEF m
    <3>2. /\ Len(storageQ') = Len(storageQ) + 1 /\ Len(storageQ) \in Nat
          /\ \A k \in 1 .. Len(storageQ) : storageQ'[k] = storageQ[k]
          /\ storageQ'[Len(storageQ) + 1] = m
      BY <2>3, <3>1, AppendIs
    <3>3. \A k \in 1 .. Len(storageQ') : storageQ'[k].t \in Following => k \in 1 .. Len(storageQ)
      BY <3>1, <3>2
    <3>4. \A i : Starts(storageQ, i) => Starts(storageQ', i)
      BY <2>3, <3>1, AppendStarts
    <3>5. \A i : \A k \in 1 .. Len(storageQ) : StartsBefore(storageQ, k, i) => StartsBefore(storageQ', k, i)
      BY <2>3, <3>1, AppendStarts
    <3> SUFFICES ASSUME Receiving PROVE
           /\ \A k \in 1 .. Len(storageQ') : storageQ'[k].t \in Following =>
                store.at[storageQ'[k].i] # 0 \/ StartsBefore(storageQ', k, storageQ'[k].i)
           /\ \A k \in 1 .. Len(proc.out) : proc.out[k].t \in Following =>
                \/ store.at[proc.out[k].i] # 0 \/ Starts(storageQ', proc.out[k].i)
                \/ StartsBefore(proc.out, k, proc.out[k].i)
           /\ ~Stopped => \A i \in Items : Live(proc, i) =>
                store.at[i] # 0 \/ Starts(storageQ', i) \/ Starts(proc.out, i)
      BY <2>1, <2>3 DEF BegunInv, Begun
    <3> QED BY <2>3, <3>2, <3>3, <3>4, <3>5 DEF BegunInv, Begun
  <2> QED BY <2>1, <2>4, <2>5
<1> QED BY <1>1, <1>2, <1>3, <1>4 DEF Storage
-----------------------------------------------------------------------------
(* Nothing is drawn, queued or stored at first.                                 *)
LEMMA StreamInit == Init => StreamInv
<1> SUFFICES ASSUME Init PROVE StreamInv
  OBVIOUS
<1> USE StreamAssumption
<1>1. <<>> \in Seq(Sent) /\ <<>> \in Seq(BOOLEAN) /\ <<>> \in Seq(Items) /\ Len(<<>>) = 0
  OBVIOUS
<1>2. /\ 0 \in 0 .. MaxItems /\ 0 <= StorageBuffer /\ 0 <= ClientBuffer /\ 1 \in 1 .. MaxItems + 1
      /\ ToolTurns \in Nat
  OBVIOUS
<1>3. proc \in ProcType
  <2>1. (ToolTurns > 0) \in BOOLEAN
    OBVIOUS
  <2> QED BY <1>1, <1>2, <2>1 DEF Init, ProcType, ProcPcs, Thens
<1>4. /\ proc.pc = "none" /\ proc.out = <<>> /\ proc.then = "none" /\ proc.msg = 0 /\ proc.rsn = 0
      /\ ~proc.rsnDone /\ ~proc.saw /\ proc.turns = 0 /\ proc.call = 0 /\ (proc.tools <=> ToolTurns > 0)
  BY DEF Init
<1>5. /\ store.pc = "none" /\ store.pend = {} /\ store.nextAt = 1 /\ store.end = "none"
      /\ store.at = [i \in Items |-> 0] /\ store.text = [i \in Items |-> 0] /\ store \in StoreType
  BY DEF Init, StoreType
<1>6. client.pc = "request" /\ client.seen = <<>> /\ client \in ClientType
  BY <1>1 DEF Init, ClientType
<1>7. TableType
  <2>1. NoRow \in RowType
    BY DEF NoRow, RowType
  <2> QED BY <1>5, <2>1 DEF Init, TableType
<1>8. ChannelType /\ PeerType /\ StartInv
  BY <1>1, <1>2, <1>4, <1>5, <1>6 DEF Init, ChannelType, PeerType, StartInv
<1>9. LoopFacts
  <2>1. LoopType
    BY <1>2, <1>3 DEF Init, LoopType
  <2>2. LoopInv
    BY <1>4 DEF Init, LoopInv
  <2>3. DrawInv
    <3>1. ~Calling /\ ~Stopped /\ DrawnThisTurn = 0 /\ next = 1
      BY <1>4 DEF Init, Calling, Stopped, DrawnThisTurn
    <3> QED BY <1>2, <1>4, <3>1 DEF DrawInv
  <2> QED BY <2>1, <2>2, <2>3 DEF LoopFacts
<1>10. \A i \in Items : ~Placed(i)
  BY <1>5 DEF Init, Placed, NoRow
<1>11. /\ storageQ = <<>> /\ clientQ = <<>> /\ Len(storageQ) = 0 /\ Len(proc.out) = 0 /\ Len(client.seen) = 0
  BY <1>1, <1>4, <1>6 DEF Init
<1>12. OrderInv
  BY <1>10, <1>11, EmptyOpens
     DEF OrderInv, RowsInv, QueueOrder, ClientOrder, SeenOrder, OutOrder, Placed
<1>13. BegunInv
  <2>1. \A i \in Items : ~Live(proc, i)
    BY <1>4 DEF Live, Items
  <2> QED BY <1>11, <2>1 DEF BegunInv
<1> QED BY <1>7, <1>8, <1>9, <1>12, <1>13 DEF StreamInv, Base

(* What every reachable state satisfies.                                        *)
THEOREM StreamOrderInvariant == Spec => []StreamInv
<1>1. ASSUME StreamInv, [Next]_vars PROVE StreamInv'
  BY <1>1, OrderStep, BegunStep DEF StreamInv
<1> QED BY <1>1, StreamInit, PTL DEF Spec

(* Retrieval order is stream order: whatever the client channel drops, whichever *)
(* inserts fail and wherever the stream is cancelled, rows carry created_at in   *)
(* the order their items were drawn, and the client sees them in that order.     *)
THEOREM RetrievalSafety == Spec => []RetrievalOrderIsStreamOrder
<1>1. ASSUME StreamInv PROVE RetrievalOrderIsStreamOrder
  <2>1. RowsInv /\ SeenOrder
    BY <1>1 DEF StreamInv, OrderInv, ClientOrder
  <2>2. \A i \in Items : row[i].st # "none" => Placed(i) /\ Place(i) = row[i].at
    BY <2>1 DEF RowsInv, Placed, Place
  <2>3. DOMAIN client.seen = 1 .. Len(client.seen)
    BY <1>1 DEF StreamInv, Base, PeerType, ClientType
  <2> QED BY <2>1, <2>2, <2>3 DEF RetrievalOrderIsStreamOrder, RowsInv, SeenOrder
<1> QED BY <1>1, StreamOrderInvariant, PTL
-----------------------------------------------------------------------------
(*****************************************************************************)
(* A turn starts only on a durable tool output, for any number of items,     *)
(* chunks and tool turns, any size of the channels and any number of         *)
(* database faults.                                                          *)
(*                                                                           *)
(* The loop takes the first acknowledgement as the outcome of the call that  *)
(* is under way.  That is sound because the acknowledgements, the messages   *)
(* still queued and the rows of the call agree (ToolInv): nothing is         *)
(* acknowledged before the call is taken from the channel, a failed call is  *)
(* acknowledged first and makes its output fail too, and an Ok is the only   *)
(* acknowledgement of its call.  That the output is taken last and once is   *)
(* the order of the first section.                                           *)
(*****************************************************************************)

\* The call is not sent yet, or it runs.
CallRuns == proc.pc = "exec" \/ (proc.pc = "send" /\ proc.then = "exec")
RowsOf(c) == IF c = 0 THEN {} ELSE {c, c + 1}

\* The messages of q about tools are about call c, and no others are.
ToolNames(q, c) == \A k \in 1 .. Len(q) :
    /\ q[k].t = "ToolCall" => c # 0 /\ q[k].i = c
    /\ q[k].t = "ToolOutput" => c # 0 /\ q[k].i = c + 1
    /\ q[k].t \in Starting => q[k].i \notin RowsOf(c)

Queued(T) == HasType(storageQ, T) \/ HasType(proc.out, T)
Durable == status # "deleted" => \A i \in RowsOf(proc.call) : row[i].st = "completed"
SomeOk(a) == \E k \in 1 .. Len(a) : a[k] = TRUE
Acked == SomeOk(acks)

\* The call's rows are nobody else's.
CallRowsInv ==
    /\ ToolNames(storageQ, proc.call) /\ ToolNames(proc.out, proc.call)
    /\ \A i \in RowsOf(proc.call) : store.at[i] = 0 /\ row[i].st \in {"none", "completed"}
    /\ \A i \in store.pend : store.at[i] # 0
\* What the acknowledgements say of the call.
AckInv ==
    /\ HasType(proc.out, {"ToolCall"}) => proc.then = "exec"
    /\ HasType(proc.out, {"ToolOutput"}) => proc.then = "ack"
    /\ ~Calling /\ ~Stopped => acks = <<>> /\ ~Queued(Tooling) /\ Durable
    /\ Queued({"ToolCall"}) => acks = <<>>
    /\ Queued({"ToolOutput"}) \/ CallRuns => acks = <<>> \/ (acks = <<FALSE>> /\ row[proc.call].st = "none")
    /\ Acked => acks = <<TRUE>> /\ ~Queued(Tooling) /\ Durable
    /\ Len(acks) <= 2
ToolInv == CallRowsInv /\ AckInv
-----------------------------------------------------------------------------
(* What a step of the loop is to the call under way. *)

\* It talks of something else, starts a call, sends its output, goes on, takes
\* an Ok, or stops.
Talks ==
    /\ ~Calling /\ ~Stopped /\ ~Calling' /\ proc'.call = proc.call /\ acks' = acks
    /\ \A k \in 1 .. Len(proc'.out) : proc'.out[k].t \notin Tooling
Calls ==
    /\ proc.pc = "tool" /\ proc'.pc = "send" /\ proc'.then = "exec" /\ proc'.call = next
    /\ proc'.out = <<Msg("ToolCall", next)>> /\ acks' = acks
Outputs ==
    /\ proc.pc = "exec" /\ proc'.pc = "send" /\ proc'.then = "ack" /\ proc'.call = proc.call
    /\ proc'.out = <<Msg("ToolOutput", proc.call + 1)>> /\ acks' = acks
GoesOn ==
    /\ proc.pc = "send" /\ proc.then \in {"exec", "ack"} /\ proc'.pc = proc.then /\ proc'.then = proc.then
    /\ proc'.call = proc.call /\ proc'.out = <<>> /\ acks' = acks
TakesOk ==
    /\ proc.pc = "ack" /\ acks # <<>> /\ Head(acks) /\ acks' = Tail(acks)
    /\ proc'.pc = "turn" /\ proc'.call = proc.call /\ proc'.out = <<>>
Halts ==
    /\ Stopped' /\ proc'.out = <<>> /\ proc'.call = proc.call
    /\ \/ acks' = acks
       \/ proc.pc = "ack" /\ acks # <<>> /\ acks' = Tail(acks)
ToolMove == Talks \/ Calls \/ Outputs \/ GoesOn \/ TakesOk \/ Halts

\* Messages that are not about a tool.
Plain == [t : Starting \union Following \union Bare, i : Nat]

(* The sends of close_reasoning_if_active and ensure_message_started.           *)
LEMMA PlainSends ==
    ASSUME proc \in ProcType, next \in Nat
    PROVE  /\ CloseReasoning(proc) \in Seq(Plain) /\ StartMessage(proc, next) \in Seq(Plain)
           /\ Current(proc, next) \in Nat /\ proc.rsn \in Nat /\ proc.msg \in Nat
           /\ \A t \in Starting \union Following \union Bare, i \in Nat : Msg(t, i) \in Plain
<1>1. /\ Current(proc, next) \in Nat /\ proc.rsn \in Nat /\ proc.msg \in Nat
  BY StreamAssumption DEF Current, ProcType
<1>2. \A t \in Starting \union Following \union Bare, i \in Nat : Msg(t, i) \in Plain
  BY DEF Msg, Plain
<1> DEFINE a == Msg("ReasoningDone", proc.rsn)
           b == Msg("MessageStarted", next)
<1>3. a \in Plain /\ b \in Plain
  BY <1>1, <1>2 DEF Starting, Following, Ending
<1>4. CloseReasoning(proc) \in {<<a>>, <<>>} /\ StartMessage(proc, next) \in {<<b>>, <<>>}
  BY DEF CloseReasoning, StartMessage
<1> HIDE DEF a, b
<1>5. <<a>> \in Seq(Plain) /\ <<b>> \in Seq(Plain) /\ <<>> \in Seq(Plain)
  BY <1>3
<1> QED BY <1>1, <1>2, <1>4, <1>5, Zenon

(* A chunk of the stream that makes the loop send something plain.              *)
LEMMA PlainMove ==
    ASSUME LoopFacts, proc.pc = "stream", NEW p \in ProcType, NEW out \in Seq(Plain),
           NEW then \in {"stream", "tool", "fail", "done"}, p.call = proc.call,
           proc' = Sending(p, out, then), acks' = acks
    PROVE  Talks
<1>1. proc'.pc = "send" /\ proc'.then = then /\ proc'.out = out /\ proc'.call = proc.call
  BY DEF Sending, ProcType
<1>2. \A k \in 1 .. Len(out) : out[k].t \notin Tooling
  <2>1. \A k \in 1 .. Len(out) : out[k] \in Plain
    OBVIOUS
  <2>2. \A m \in Plain : m.t \notin Tooling
    BY DEF Plain, Tooling, Starting, Following, Deltas, Ending, Bare
  <2> QED BY <2>1, <2>2
<1> QED BY <1>1, <1>2 DEF Talks, Calling, Stopped

(* The chunks of the provider's stream are about something else.                *)
LEMMA ChunksTalk ==
    ASSUME LoopFacts,
           \/ ReasoningChunk \/ ToolChunk \/ ContentChunk \/ UsageChunk
           \/ \E toolReason, named \in BOOLEAN : DoneChunk(toolReason, named)
    PROVE  Talks
<1>1. proc \in ProcType /\ next \in Nat /\ proc.pc = "stream" /\ acks' = acks /\ MaxItems \in Nat /\ next \in Nat
  BY StreamAssumption
     DEF LoopFacts, LoopType, ReasoningChunk, ToolChunk, ContentChunk, UsageChunk, DoneChunk, LoopUnchanged
<1>2. /\ CloseReasoning(proc) \in Seq(Plain) /\ StartMessage(proc, next) \in Seq(Plain)
      /\ Current(proc, next) \in Nat /\ proc.rsn \in Nat /\ proc.msg \in Nat
      /\ \A t \in Starting \union Following \union Bare, i \in Nat : Msg(t, i) \in Plain
  BY <1>1, PlainSends
<1>3. ASSUME proc' = proc PROVE Talks
  <2>1. ~Calling /\ ~Stopped /\ ~Calling' /\ proc'.out = <<>>
    BY <1>1, <1>3, RoomToDraw DEF Calling
  <2> QED BY <1>1, <1>3, <2>1 DEF Talks
<1>4. CASE ReasoningChunk
  <2> DEFINE p == [proc EXCEPT !.rsn = next]
             b == Msg("ReasoningStarted", next)
             d == Msg("ReasoningDelta", next)
             e == Msg("ReasoningDelta", proc.rsn)
  <2>1. b \in Plain /\ d \in Plain /\ e \in Plain
    BY <1>1, <1>2 DEF Starting, Following, Deltas
  <2>2. proc' = proc \/ (proc.rsn = 0 /\ proc' = Sending(p, <<b, d>>, "stream")) \/ proc' = Sending(proc, <<e>>, "stream")
    BY <1>4 DEF ReasoningChunk
  <2>3. proc.rsn = 0 => p \in ProcType /\ p.call = proc.call
    <3>1. proc.rsn = 0 => next \in 0 .. MaxItems
      BY <1>1, RoomToDraw DEF Items
    <3> QED BY <1>1, <3>1 DEF ProcType
  <2> HIDE DEF b, d, e, p
  <2>4. <<b, d>> \in Seq(Plain) /\ <<e>> \in Seq(Plain)
    BY <2>1
  <2> QED BY <1>1, <1>3, <2>2, <2>3, <2>4, PlainMove
<1>5. CASE ToolChunk
  <2> DEFINE p == [proc EXCEPT !.msg = 0, !.saw = TRUE, !.rsnDone = @ \/ proc.rsn # 0]
             b == Msg("MessageDone", proc.msg)
             a == IF proc.msg = 0 THEN <<>> ELSE <<b>>
             c == CloseReasoning(proc)
  <2>1. b \in Plain /\ c \in Seq(Plain)
    BY <1>1, <1>2 DEF Following, Ending
  <2>2. proc' = proc \/ proc' = Sending(p, a \o c, "stream")
    BY <1>5 DEF ToolChunk
  <2>3. p \in ProcType /\ p.call = proc.call
    <3>1. (proc.rsnDone \/ proc.rsn # 0) \in BOOLEAN /\ 0 \in 0 .. MaxItems
      BY <1>1
    <3> QED BY <1>1, <3>1 DEF ProcType
  <2> HIDE DEF b, c, p
  <2>4. a \in Seq(Plain)
    BY <2>1
  <2> HIDE DEF a
  <2>5. a \o c \in Seq(Plain)
    BY <2>1, <2>4
  <2> QED BY <1>1, <1>3, <2>2, <2>3, <2>5, PlainMove
<1>6. CASE UsageChunk
  <2> DEFINE b == Msg("Usage", 0)
  <2>1. b \in Plain
    BY <1>2 DEF Bare
  <2>2. proc' = Sending(proc, <<b>>, "stream")
    BY <1>6 DEF UsageChunk
  <2> HIDE DEF b
  <2>3. <<b>> \in Seq(Plain)
    BY <2>1
  <2> QED BY <1>1, <2>2, <2>3, PlainMove
<1>7. ASSUME NEW c \in Seq(Plain), NEW then \in {"stream", "done"}, ~proc.saw,
             proc' = Sending([proc EXCEPT !.rsnDone = @ \/ proc.rsn # 0, !.msg = Current(proc, next)],
                             CloseReasoning(proc) \o StartMessage(proc, next) \o c, then)
      PROVE  Talks
  <2> DEFINE p == [proc EXCEPT !.rsnDone = @ \/ proc.rsn # 0, !.msg = Current(proc, next)]
             a == CloseReasoning(proc)
             b == StartMessage(proc, next)
  <2>1. Current(proc, next) \in 0 .. MaxItems
    BY <1>1, <1>7, RoomToDraw, StartMessageIs DEF Items
  <2>2. p \in ProcType /\ p.call = proc.call
    BY <1>1, <2>1 DEF ProcType
  <2>3. a \in Seq(Plain) /\ b \in Seq(Plain) /\ proc' = Sending(p, a \o b \o c, then)
    BY <1>2, <1>7
  <2> HIDE DEF a, b, p
  <2>4. a \o b \o c \in Seq(Plain)
    BY <1>7, <2>3
  <2> QED BY <1>1, <1>7, <2>2, <2>3, <2>4, PlainMove
<1>8. CASE ContentChunk
  <2> DEFINE b == Msg("ContentDelta", Current(proc, next))
  <2>1. b \in Plain
    BY <1>2 DEF Following, Deltas
  <2>2. <<b>> \in Seq(Plain)
    <3> HIDE DEF b
    <3> QED BY <2>1
  <2>3. \/ proc' = proc
        \/ /\ ~proc.saw
           /\ proc' = Sending([proc EXCEPT !.rsnDone = @ \/ proc.rsn # 0, !.msg = Current(proc, next)],
                             CloseReasoning(proc) \o StartMessage(proc, next) \o <<b>>, "stream")
    BY <1>8 DEF ContentChunk
  <2> HIDE DEF b
  <2> QED BY <1>3, <1>7, <2>2, <2>3
<1>9. ASSUME NEW toolReason \in BOOLEAN, NEW named \in BOOLEAN, DoneChunk(toolReason, named)
      PROVE  Talks
  <2>1. CASE proc.saw \/ (proc.tools /\ toolReason)
    <3> DEFINE p == [proc EXCEPT !.rsnDone = @ \/ proc.rsn # 0]
               then == IF proc.saw /\ named THEN "tool" ELSE "fail"
    <3>1. proc' = Sending(p, CloseReasoning(proc), then)
      BY <1>9, <2>1 DEF DoneChunk
    <3>2. p \in ProcType /\ p.call = proc.call
      BY <1>1 DEF ProcType
    <3>3. then \in {"tool", "fail"}
      OBVIOUS
    <3> HIDE DEF p, then
    <3> QED BY <1>1, <1>2, <3>1, <3>2, <3>3, PlainMove
  <2>2. CASE ~(proc.saw \/ (proc.tools /\ toolReason))
    <3> DEFINE m == Msg("MessageDone", Current(proc, next))
               d == Msg("ResponseDone", 0)
    <3>1. m \in Plain /\ d \in Plain
      BY <1>2 DEF Following, Ending, Bare
    <3>2. <<m, d>> \in Seq(Plain)
      <4> HIDE DEF m, d
      <4> QED BY <3>1
    <3>3. /\ ~proc.saw
          /\ proc' = Sending([proc EXCEPT !.rsnDone = @ \/ proc.rsn # 0, !.msg = Current(proc, next)],
                             CloseReasoning(proc) \o StartMessage(proc, next) \o <<m, d>>, "done")
      BY <1>9, <2>2 DEF DoneChunk
    <3> HIDE DEF m, d
    <3> QED BY <1>7, <3>2, <3>3
  <2> QED BY <2>1, <2>2
<1> QED BY <1>4, <1>5, <1>6, <1>8, <1>9

(* A step of the loop sends a message or is one of these moves.                 *)
LEMMA LoopToolMove ==
    ASSUME Base, Loop \/ CancelClient
    PROVE  SendStep \/ ToolMove
<1>1. proc \in ProcType /\ (proc.pc # "send" => proc.out = <<>>) /\ LoopFacts
  BY DEF Base, LoopFacts, LoopType, LoopInv
<1>2. ASSUME NEW s \in {"fail", "tellClient", "over"}, proc' = [proc EXCEPT !.pc = s],
             proc.out = <<>>, acks' = acks
      PROVE  Halts
  BY <1>1, <1>2 DEF Halts, Stopped, ProcType
<1>3. CASE OrchestratorStart
  <2>1. proc.pc = "none"
    BY <1>3 DEF OrchestratorStart, Base, StartInv
  <2>2. proc'.pc = "turn" /\ proc'.out = <<>> /\ proc'.call = proc.call /\ acks' = acks
    BY <1>1, <1>3, <2>1 DEF OrchestratorStart, ProcType
  <2> QED BY <2>1, <2>2 DEF ToolMove, Talks, Calling, Stopped
<1>4. CASE StartTurn
  <2>1. proc.pc = "turn" /\ acks' = acks /\ proc.out = <<>>
    BY <1>1, <1>4 DEF StartTurn, LoopUnchanged
  <2>2. CASE proc' = [proc EXCEPT !.pc = "stream", !.msg = 0, !.rsn = 0, !.rsnDone = FALSE, !.saw = FALSE]
    <3>1. proc'.pc = "stream" /\ proc'.out = <<>> /\ proc'.call = proc.call
      BY <1>1, <2>1, <2>2 DEF ProcType
    <3> QED BY <2>1, <3>1 DEF ToolMove, Talks, Calling, Stopped
  <2>3. CASE proc' = [proc EXCEPT !.pc = "fail"]
    BY <1>2, <2>1, <2>3 DEF ToolMove
  <2> QED BY <1>4, <2>2, <2>3 DEF StartTurn
<1>5. CASE \/ ReasoningChunk \/ ToolChunk \/ ContentChunk \/ UsageChunk
           \/ \E toolReason, named \in BOOLEAN : DoneChunk(toolReason, named)
  BY <1>1, <1>5, ChunksTalk DEF ToolMove
<1>6. CASE StreamFails
  BY <1>1, <1>2, <1>6 DEF StreamFails, LoopUnchanged, ToolMove
<1>7. CASE ToolStart
  <2>1. /\ proc.pc = "tool" /\ acks' = acks
        /\ proc' = Sending([proc EXCEPT !.turns = @ + 1, !.call = next], <<Msg("ToolCall", next)>>, "exec")
    BY <1>7 DEF ToolStart, LoopUnchanged
  <2>2. proc'.pc = "send" /\ proc'.then = "exec" /\ proc'.call = next /\ proc'.out = <<Msg("ToolCall", next)>>
    BY <1>1, <2>1 DEF Sending, ProcType
  <2> QED BY <2>1, <2>2 DEF ToolMove, Calls
<1>8. CASE ToolRan
  <2>1. /\ proc.pc = "exec" /\ acks' = acks
        /\ proc' = Sending(proc, <<Msg("ToolOutput", proc.call + 1)>>, "ack")
    BY <1>8 DEF ToolRan, LoopUnchanged
  <2>2. /\ proc'.pc = "send" /\ proc'.then = "ack" /\ proc'.call = proc.call
        /\ proc'.out = <<Msg("ToolOutput", proc.call + 1)>>
    BY <1>1, <2>1 DEF Sending, ProcType
  <2> QED BY <2>1, <2>2 DEF ToolMove, Outputs
<1>9. CASE ToolAck
  <2>1. proc.pc = "ack" /\ proc.out = <<>>
    BY <1>1, <1>9 DEF ToolAck
  <2>2. CASE acks # <<>> /\ Head(acks) /\ acks' = Tail(acks)
             /\ proc' = [proc EXCEPT !.pc = "turn", !.tools = proc.turns < ToolTurns]
    <3>1. proc'.pc = "turn" /\ proc'.call = proc.call /\ proc'.out = <<>>
      BY <1>1, <2>1, <2>2 DEF ProcType
    <3> QED BY <2>1, <2>2, <3>1 DEF ToolMove, TakesOk
  <2>3. CASE /\ proc' = [proc EXCEPT !.pc = "fail"]
             /\ acks' = acks \/ (acks # <<>> /\ acks' = Tail(acks))
    <3>1. proc'.pc = "fail" /\ proc'.call = proc.call /\ proc'.out = <<>>
      BY <1>1, <2>1, <2>3 DEF ProcType
    <3> QED BY <2>1, <2>3, <3>1 DEF ToolMove, Halts, Stopped
  <2> QED BY <1>9, <2>2, <2>3 DEF ToolAck
<1>10. CASE Send
  <2>1. proc.pc = "send" /\ acks' = acks
    BY <1>10 DEF Send
  <2>2. CASE proc.out = <<>> /\ proc.then # "done" /\ proc' = [proc EXCEPT !.pc = proc.then]
    <3>1. proc'.pc = proc.then /\ proc'.then = proc.then /\ proc'.call = proc.call /\ proc'.out = <<>>
      BY <1>1, <2>2 DEF ProcType
    <3>2. CASE proc.then \in {"exec", "ack"}
      BY <2>1, <3>1, <3>2 DEF ToolMove, GoesOn
    <3>3. CASE proc.then \notin {"exec", "ack"}
      <4>1. proc.then # "send"
        BY <1>1 DEF ProcType, Thens
      <4> QED BY <2>1, <3>1, <3>3, <4>1 DEF ToolMove, Talks, Calling, Stopped
    <3> QED BY <3>2, <3>3
  <2>3. CASE proc.out = <<>> /\ proc.then = "done" /\ proc' = [proc EXCEPT !.pc = "over"]
    BY <1>2, <2>1, <2>3 DEF ToolMove
  <2>4. CASE /\ proc.out # <<>>
             /\ proc' = [proc EXCEPT !.out = <<>>,
                                  !.pc = IF proc.then \in {"exec", "ack"} THEN "tellClient" ELSE "fail"]
    <3>1. proc'.pc \in {"tellClient", "fail"} /\ proc'.call = proc.call /\ proc'.out = <<>>
      BY <1>1, <2>4 DEF ProcType
    <3> QED BY <2>1, <3>1 DEF ToolMove, Halts, Stopped
  <2>5. CASE /\ proc.out # <<>> /\ StorageOpen /\ Len(storageQ) < StorageBuffer
             /\ LET m == Head(proc.out) IN
                /\ storageQ' = Append(storageQ, m)
                /\ clientQ' = TrySend(clientQ, m)
                /\ emitted' = IF m.t \in {"ContentDelta", "ReasoningDelta"}
                              THEN [emitted EXCEPT ![m.i] = @ + 1] ELSE emitted
             /\ proc' = [proc EXCEPT !.out = Tail(@)]
    BY <1>10, <2>1, <2>5 DEF Send, SendStep, TablesSame
  <2> QED BY <1>10, <2>2, <2>3, <2>4, <2>5 DEF Send
<1>11. CASE TellClient
  BY <1>1, <1>2, <1>11 DEF TellClient, LoopUnchanged, ToolMove
<1>12. CASE Fail
  BY <1>1, <1>2, <1>12 DEF Fail, ToolMove
<1>13. CASE CancelClient
  <2>1. proc'.pc = "over" /\ proc'.out = <<>> /\ proc'.call = proc.call /\ acks' = acks
    BY <1>1, <1>13 DEF CancelClient, ProcType
  <2> QED BY <2>1 DEF ToolMove, Halts, Stopped
<1> QED BY <1>3, <1>4, <1>5, <1>6, <1>7, <1>8, <1>9, <1>10, <1>11, <1>12, <1>13 DEF Loop
-----------------------------------------------------------------------------
(* What the channels keep of their messages. *)

\* Everything in p but the bare messages is in q.
From(p, q) == \A k \in 1 .. Len(p) : p[k].t \in Bare \/ \E j \in 1 .. Len(q) : q[j] = p[k]

(* Nothing about tools or starts comes out of a channel that is not in it.      *)
LEMMA FromKeeps ==
    ASSUME NEW p, NEW q, NEW c, From(p, q)
    PROVE  /\ ToolNames(q, c) => ToolNames(p, c)
           /\ HasType(p, Tooling) => HasType(q, Tooling)
           /\ HasType(p, {"ToolCall"}) => HasType(q, {"ToolCall"})
           /\ HasType(p, {"ToolOutput"}) => HasType(q, {"ToolOutput"})
BY DEF From, ToolNames, HasType, Bare, Tooling, Starting

(* A channel that loses its first message, or everything, or gets a bare one.   *)
LEMMA FromWhat ==
    ASSUME NEW q \in Seq(Sent)
    PROVE  /\ From(q, q) /\ From(<<>>, q)
           /\ q # <<>> => From(Tail(q), q)
           /\ \A m \in Sent : m.t \in Bare => From(Append(q, m), q)
<1>1. From(q, q) /\ From(<<>>, q)
  BY DEF From
<1>2. q # <<>> => From(Tail(q), q)
  <2> SUFFICES ASSUME q # <<>> PROVE From(Tail(q), q)
    OBVIOUS
  <2>1. /\ Len(q) \in Nat /\ Len(q) > 0 /\ Len(Tail(q)) = Len(q) - 1
        /\ \A k \in 1 .. Len(q) - 1 : Tail(q)[k] = q[k + 1]
    BY TailIs
  <2> QED BY <2>1 DEF From
<1>3. ASSUME NEW m \in Sent, m.t \in Bare PROVE From(Append(q, m), q)
  <2>1. /\ Len(Append(q, m)) = Len(q) + 1 /\ Len(q) \in Nat
        /\ \A k \in 1 .. Len(q) : Append(q, m)[k] = q[k]
        /\ Append(q, m)[Len(q) + 1] = m
    BY AppendIs
  <2> QED BY <1>3, <2>1 DEF From
<1> QED BY <1>1, <1>2, <1>3

(* What a message sent is on the other side.                                    *)
LEMMA MovedHas ==
    ASSUME NEW q \in Seq(Sent), NEW out \in Seq(Sent), out # <<>>
    PROVE  /\ \A T : HasType(Append(q, Head(out)), T) \/ HasType(Tail(out), T) =>
                       HasType(q, T) \/ HasType(out, T)
           /\ \A T : HasType(Tail(out), T) => HasType(out, T)
           /\ \A c : ToolNames(q, c) /\ ToolNames(out, c) =>
                       ToolNames(Append(q, Head(out)), c) /\ ToolNames(Tail(out), c)
<1> DEFINE m == Head(out)
<1>1. /\ Len(out) \in Nat /\ Len(out) > 0 /\ Len(Tail(out)) = Len(out) - 1 /\ m = out[1] /\ m \in Sent
      /\ \A k \in 1 .. Len(out) - 1 : Tail(out)[k] = out[k + 1]
  BY TailIs
<1>2. /\ Len(Append(q, m)) = Len(q) + 1 /\ Len(q) \in Nat
      /\ \A k \in 1 .. Len(q) : Append(q, m)[k] = q[k]
      /\ Append(q, m)[Len(q) + 1] = m
  BY <1>1, AppendIs
<1> HIDE DEF m
<1>3. \A k \in 1 .. Len(Tail(out)) : \E j \in 1 .. Len(out) : out[j] = Tail(out)[k]
  BY <1>1
<1>4. \A k \in 1 .. Len(Append(q, m)) :
         (\E j \in 1 .. Len(q) : q[j] = Append(q, m)[k]) \/ (1 \in 1 .. Len(out) /\ out[1] = Append(q, m)[k])
  BY <1>1, <1>2
<1>5. \A T : HasType(Tail(out), T) => HasType(out, T)
  BY <1>3 DEF HasType
<1>6. \A T : HasType(Append(q, m), T) => HasType(q, T) \/ HasType(out, T)
  BY <1>4 DEF HasType
<1>7. \A c : ToolNames(q, c) /\ ToolNames(out, c) => ToolNames(Append(q, m), c) /\ ToolNames(Tail(out), c)
  <2> SUFFICES ASSUME NEW c, ToolNames(q, c), ToolNames(out, c)
               PROVE  ToolNames(Append(q, m), c) /\ ToolNames(Tail(out), c)
    OBVIOUS
  <2>1. ToolNames(Tail(out), c)
    BY <1>3, ZenonT(40) DEF ToolNames
  <2>2. ToolNames(Append(q, m), c)
    BY <1>4, ZenonT(40) DEF ToolNames
  <2> QED BY <2>1, <2>2
<1> QED BY <1>5, <1>6, <1>7 DEF m

(* Types that the argument needs.                                               *)
LEMMA ToolTypes ==
    ASSUME Base
    PROVE  /\ acks \in Seq(BOOLEAN) /\ proc.call \in Nat /\ next \in Nat
           /\ proc.call # 0 => proc.call + 1 < next /\ RowsOf(proc.call) \subseteq Items
           /\ proc.pc # "send" => proc.out = <<>>
           /\ Calling => proc.call = next - 2 /\ proc.call # 0
           /\ proc.out \in Seq(Sent) /\ storageQ \in Seq(Sent)
           /\ row \in [Items -> RowType] /\ store.at \in [Items -> Nat] /\ store.pend \subseteq Items
<1>1. /\ acks \in Seq(BOOLEAN) /\ proc.call \in 0 .. MaxItems /\ next \in 1 .. MaxItems + 1 /\ MaxItems \in Nat
      /\ proc.out \in Seq(Sent) /\ storageQ \in Seq(Sent) /\ row \in [Items -> RowType]
      /\ store.at \in [Items -> Nat] /\ store.pend \subseteq Items
  BY StreamAssumption DEF Base, ChannelType, LoopFacts, LoopType, ProcType, TableType, StoreType
<1>2. /\ proc.call # 0 => proc.call + 1 < next
      /\ Calling => proc.call = next - 2
      /\ proc.turns \in Nat /\ (proc.turns > 0 <=> proc.call # 0)
      /\ proc.pc # "send" => proc.out = <<>>
      /\ Calling => next <= 4 * proc.turns + 1
  BY DEF Base, LoopFacts, LoopInv, DrawInv, LoopType, ProcType
<1>3. Calling => proc.call # 0
  BY <1>1, <1>2
<1>4. proc.call # 0 => RowsOf(proc.call) \subseteq Items
  BY <1>1, <1>2, SMTT(30) DEF RowsOf, Items
<1> QED BY <1>1, <1>2, <1>3, <1>4
-----------------------------------------------------------------------------
(* Every step keeps ToolInv. *)

\* What a step leaves of the call's rows: them, or nothing at all.
KeepsRows ==
    /\ \A i \in RowsOf(proc.call) :
         /\ store'.at[i] = store.at[i] /\ row'[i].st \in {row[i].st, "none"}
         /\ status' # "deleted" => row'[i].st = row[i].st
    /\ status' # "deleted" => status # "deleted"
    /\ \A i \in store'.pend : store'.at[i] # 0

(* A step outside the loop that leaves the call's rows alone.                   *)
LEMMA ToolKept ==
    ASSUME Base, ToolInv, KeepsRows, proc' = proc, acks' = acks, From(storageQ', storageQ)
    PROVE  ToolInv'
<1>1. CallRowsInv'
  <2>1. ToolNames(storageQ', proc.call)
    BY FromKeeps DEF ToolInv, CallRowsInv
  <2> QED BY <2>1 DEF ToolInv, CallRowsInv, KeepsRows
<1>2. /\ HasType(storageQ', Tooling) => HasType(storageQ, Tooling)
      /\ HasType(storageQ', {"ToolCall"}) => HasType(storageQ, {"ToolCall"})
      /\ HasType(storageQ', {"ToolOutput"}) => HasType(storageQ, {"ToolOutput"})
  BY FromKeeps
<1>3. Durable => Durable'
  BY DEF Durable, KeepsRows
<1>4. Calling /\ row[proc.call].st = "none" => row'[proc.call].st = "none"
  BY ToolTypes DEF RowsOf, KeepsRows
<1>5. Queued({"ToolOutput"}) => proc.call # 0
  BY DEF ToolInv, CallRowsInv, ToolNames, Queued, HasType
<1>6. proc.call # 0 /\ row[proc.call].st = "none" => row'[proc.call].st = "none"
  BY DEF RowsOf, KeepsRows
<1>7. CallRuns => Calling
  BY DEF CallRuns, Calling
<1>8. AckInv'
  <2>1. Queued(Tooling)' => Queued(Tooling)
    BY <1>2 DEF Queued
  <2>2. Queued({"ToolCall"})' => Queued({"ToolCall"})
    BY <1>2 DEF Queued
  <2>3. Queued({"ToolOutput"})' => Queued({"ToolOutput"})
    BY <1>2 DEF Queued
  <2>4. (Calling' <=> Calling) /\ (Stopped' <=> Stopped) /\ (CallRuns' <=> CallRuns) /\ (Acked' <=> Acked)
    BY DEF Calling, Stopped, CallRuns, Acked
  <2> QED BY <1>3, <1>4, <1>5, <1>6, <1>7, <2>1, <2>2, <2>3, <2>4 DEF ToolInv, AckInv
<1> QED BY <1>1, <1>8 DEF ToolInv

(* Nothing is left of a sequence of one.                                        *)
LEMMA TailOfOne == \A x : Tail(<<x>>) = <<>> /\ Head(<<x>>) = x /\ Len(<<x>>) = 1 /\ <<x>>[1] = x
OBVIOUS

(* Refusals are no Ok.                                                          *)
LEMMA RefusedNotOk ==
    ~SomeOk(<<>>) /\ ~SomeOk(<<FALSE>>) /\ Len(<<FALSE>>) <= 1 /\ Len(<<>>) <= 1
<1>1. Len(<<FALSE>>) = 1 /\ <<FALSE>>[1] = FALSE
  BY TailOfOne
<1>2. \A k \in 1 .. Len(<<FALSE>>) : k = 1
  BY <1>1
<1>3. ~SomeOk(<<FALSE>>)
  BY <1>1, <1>2, Zenon DEF SomeOk
<1>4. ~SomeOk(<<>>) /\ Len(<<>>) <= 1
  BY DEF SomeOk
<1> QED BY <1>1, <1>3, <1>4

(* Nor is one refusal more.                                                     *)
LEMMA RefuseMore ==
    ASSUME NEW a \in Seq(BOOLEAN), ~SomeOk(a)
    PROVE  ~SomeOk(Append(a, FALSE)) /\ Len(Append(a, FALSE)) = Len(a) + 1 /\ Len(a) \in Nat
<1> DEFINE b == Append(a, FALSE)
<1>1. /\ Len(b) = Len(a) + 1 /\ Len(a) \in Nat
      /\ \A k \in 1 .. Len(a) : b[k] = a[k]
      /\ b[Len(a) + 1] = FALSE
  BY AppendIs
<1> HIDE DEF b
<1>2. \A k \in 1 .. Len(b) : k \in 1 .. Len(a) \/ k = Len(a) + 1
  BY <1>1
<1>3. ~SomeOk(b)
  BY <1>1, <1>2, Zenon DEF SomeOk
<1> QED BY <1>1, <1>3 DEF b

(* A loop that stops, whether or not it took an acknowledgement.                *)
LEMMA ToolHalts ==
    ASSUME Base, ToolInv, Halts, KeepsRows, From(storageQ', storageQ)
    PROVE  ToolInv'
<1>1. proc'.call = proc.call /\ proc'.out = <<>> /\ Stopped' /\ ~Calling' /\ ~CallRuns'
  BY DEF Halts, Stopped, Calling, CallRuns
<1>2. \A T : ~HasType(proc'.out, T)
  BY <1>1 DEF HasType
<1>3. CallRowsInv'
  <2>1. ToolNames(storageQ', proc.call)
    BY FromKeeps DEF ToolInv, CallRowsInv
  <2>2. ToolNames(proc'.out, proc.call)
    BY <1>1 DEF ToolNames
  <2> QED BY <1>1, <2>1, <2>2 DEF ToolInv, CallRowsInv, KeepsRows
<1>4. /\ Queued(Tooling)' => Queued(Tooling)
      /\ Queued({"ToolCall"})' => Queued({"ToolCall"})
      /\ Queued({"ToolOutput"})' => Queued({"ToolOutput"}) /\ proc.call # 0
  <2>1. HasType(storageQ, {"ToolOutput"}) => proc.call # 0
    BY DEF ToolInv, CallRowsInv, ToolNames, HasType
  <2> QED BY <1>2, <2>1, FromKeeps DEF Queued
<1>5. Durable => Durable'
  BY <1>1 DEF Durable, KeepsRows
<1>6. proc.call # 0 /\ row[proc.call].st = "none" => row'[proc'.call].st = "none"
  BY <1>1 DEF RowsOf, KeepsRows
<1>7. CASE acks' = acks
  <2>1. Acked' <=> Acked
    BY <1>7 DEF Acked, SomeOk
  <2> QED BY <1>1, <1>2, <1>3, <1>4, <1>5, <1>6, <1>7, <2>1 DEF ToolInv, AckInv
<1>8. CASE acks # <<>> /\ acks' = Tail(acks)
  <2>1. acks \in Seq(BOOLEAN)
    BY ToolTypes
  <2>2. /\ acks = <<FALSE>> => acks' = <<>>
        /\ acks = <<TRUE>> => acks' = <<>>
        /\ Len(acks') = Len(acks) - 1 /\ Len(acks) \in Nat /\ Len(acks) > 0
        /\ \A k \in 1 .. Len(acks) - 1 : acks'[k] = acks[k + 1]
    <3>1. /\ Tail(acks) \in Seq(BOOLEAN) /\ Len(acks) \in Nat /\ Len(acks) > 0 /\ Len(Tail(acks)) = Len(acks) - 1
          /\ \A k \in 1 .. Len(acks) - 1 : Tail(acks)[k] = acks[k + 1]
      BY <1>8, <2>1, TailIs
    <3>2. Tail(<<FALSE>>) = <<>> /\ Tail(<<TRUE>>) = <<>>
      BY TailOfOne
    <3> QED BY <1>8, <3>1, <3>2
  <2>3. Acked' => Acked
    BY <2>2 DEF Acked, SomeOk
  <2>4. ~Acked'
    <3>1. Acked' => acks' = <<>>
      BY <2>2, <2>3 DEF ToolInv, AckInv
    <3> QED BY <3>1 DEF Acked, SomeOk
  <2>5. Len(acks') <= 2
    BY <2>2 DEF ToolInv, AckInv
  <2>6. ~Queued({"ToolCall"})' /\ (Queued({"ToolOutput"})' => acks' = <<>>)
    BY <1>4, <1>8, <2>2 DEF ToolInv, AckInv
  <2> QED BY <1>1, <1>2, <1>3, <2>4, <2>5, <2>6 DEF ToolInv, AckInv
<1> QED BY <1>7, <1>8 DEF Halts

(* While no call is under way, nothing about one is made or acknowledged.       *)
LEMMA ToolTalks ==
    ASSUME StreamInv, ToolInv, Talks, ~Stopped' => Drafts, Base', KeepsRows, From(storageQ', storageQ)
    PROVE  ToolInv'
<1>1. Base /\ ~Calling /\ ~Stopped /\ ~Calling' /\ proc'.call = proc.call /\ acks' = acks /\ ~CallRuns'
  BY DEF StreamInv, Talks, Calling, CallRuns
<1>2. ~HasType(proc'.out, Tooling) /\ ~HasType(proc'.out, {"ToolCall"}) /\ ~HasType(proc'.out, {"ToolOutput"})
  BY DEF Talks, HasType, Tooling
<1>3. acks = <<>> /\ ~HasType(storageQ, Tooling) /\ Durable
  BY <1>1 DEF ToolInv, AckInv, Queued
<1>4. ToolNames(proc'.out, proc.call)
  <2>1. CASE Stopped'
    <3>1. proc'.out = <<>>
      BY <2>1 DEF Base, LoopFacts, LoopInv, Stopped
    <3> QED BY <3>1 DEF ToolNames
  <2>2. CASE ~Stopped'
    <3>1. Fence = next
      BY <1>1 DEF Fence, Calling
    <3>2. \A k \in 1 .. Len(proc'.out) : proc'.out[k].t \in Starting => next <= proc'.out[k].i
      BY <2>2, <3>1 DEF Drafts, DraftOpens, Opening
    <3>3. \A k \in 1 .. Len(proc'.out) : proc'.out[k].t \in Starting => proc'.out[k].i \in Nat
      <4>1. proc'.out \in Seq(Sent)
        BY DEF Base, LoopFacts, LoopType, ProcType
      <4>2. \A m \in Sent : m.i \in Nat
        BY StreamAssumption DEF Sent, Messages
      <4> QED BY <4>1, <4>2
    <3>4. \A k \in 1 .. Len(proc'.out) : proc'.out[k].t \in Starting => proc'.out[k].i \notin RowsOf(proc.call)
      <4>1. proc.call \in Nat /\ next \in Nat /\ (proc.call # 0 => proc.call + 1 < next)
        BY <1>1, ToolTypes
      <4>2. \A i \in Nat : next <= i => i \notin RowsOf(proc.call)
        BY <4>1 DEF RowsOf
      <4> QED BY <3>2, <3>3, <4>2
    <3> QED BY <1>2, <3>4 DEF ToolNames, HasType
  <2> QED BY <2>1, <2>2
<1>5. CallRowsInv'
  <2>1. ToolNames(storageQ', proc.call)
    BY FromKeeps DEF ToolInv, CallRowsInv
  <2> QED BY <1>1, <1>4, <2>1 DEF ToolInv, CallRowsInv, KeepsRows
<1>6. ~Queued(Tooling)' /\ ~Queued({"ToolCall"})' /\ ~Queued({"ToolOutput"})'
  <2>1. ~HasType(storageQ', Tooling)
    BY <1>3, FromKeeps
  <2>2. ~HasType(storageQ', {"ToolCall"}) /\ ~HasType(storageQ', {"ToolOutput"})
    BY <2>1 DEF HasType, Tooling
  <2> QED BY <1>2, <2>1, <2>2 DEF Queued
<1>7. Durable'
  BY <1>1, <1>3 DEF Durable, KeepsRows
<1>8. ~Acked' /\ Len(acks') = 0
  BY <1>1, <1>3 DEF Acked, SomeOk
<1>9. AckInv'
  BY <1>1, <1>2, <1>3, <1>6, <1>7, <1>8 DEF AckInv
<1> QED BY <1>5, <1>9 DEF ToolInv

(* A call is given two items nobody has used.                                   *)
LEMMA ToolCalls ==
    ASSUME StreamInv, ToolInv, Calls, TablesSame, storageQ' = storageQ, Base'
    PROVE  ToolInv'
<1>1. Base /\ OrderInv /\ ~Calling /\ ~Stopped /\ Fence = next /\ next \in Nat
  BY ToolTypes DEF StreamInv, Calls, Calling, Stopped, Fence
<1>2. acks = <<>> /\ ~HasType(storageQ, Tooling) /\ acks' = <<>> /\ next # 0
  <2>1. next # 0
    BY <1>1, FenceType DEF Base
  <2> QED BY <1>1, <2>1 DEF ToolInv, AckInv, Queued, Calls
<1> DEFINE m == Msg("ToolCall", next)
<1>3. m.t = "ToolCall" /\ m.i = next
  BY DEF Msg
<1>4. proc'.out = <<m>> /\ proc'.call = next /\ proc'.pc = "send" /\ proc'.then = "exec"
  BY DEF Calls
<1> HIDE DEF m
<1>5. Len(proc'.out) = 1 /\ proc'.out[1] = m
  BY <1>4
<1>6. ToolNames(proc'.out, next)
  BY <1>2, <1>3, <1>5 DEF ToolNames, Starting
<1>7. ToolNames(storageQ, next)
  <2>1. \A k \in 1 .. Len(storageQ) : storageQ[k].t \in Starting => storageQ[k].i < next /\ storageQ[k].i \in Nat
    <3>1. \A k \in 1 .. Len(storageQ) : storageQ[k] \in Sent
      BY <1>1, ToolTypes
    <3>2. \A x \in Sent : x.i \in Nat
      BY StreamAssumption DEF Sent, Messages
    <3> QED BY <1>1, <3>1, <3>2 DEF OrderInv, QueueOrder, OpensBelow, Opening
  <2>2. \A k \in 1 .. Len(storageQ) : storageQ[k].t \in Starting => storageQ[k].i \notin RowsOf(next)
    BY <1>1, <2>1 DEF RowsOf
  <2> QED BY <1>2, <2>2 DEF ToolNames, HasType, Tooling
<1>8. \A i \in RowsOf(next) : store.at[i] = 0 /\ row[i].st = "none"
  <2>1. \A i \in Items : Placed(i) => i < next
    BY <1>1 DEF OrderInv, RowsInv
  <2>2. RowsOf(next) \subseteq Items
    <3>1. next + 1 < next' /\ next' \in 1 .. MaxItems + 1 /\ MaxItems \in Nat
      BY <1>2, <1>4, StreamAssumption DEF Base, LoopFacts, LoopType, DrawInv
    <3> QED BY <1>1, <1>2, <3>1 DEF RowsOf, Items
  <2> QED BY <1>1, <2>1, <2>2 DEF Placed, RowsOf
<1>9. CallRowsInv'
  BY <1>4, <1>6, <1>7, <1>8 DEF CallRowsInv, TablesSame, ToolInv
<1>10. AckInv'
  <2>1. Calling' /\ ~Acked' /\ Len(acks') = 0
    BY <1>2, <1>4 DEF Calling, Acked, SomeOk
  <2>2. ~HasType(proc'.out, {"ToolOutput"})
    BY <1>3, <1>5 DEF HasType
  <2> QED BY <1>2, <1>4, <2>1, <2>2 DEF AckInv
<1> QED BY <1>9, <1>10 DEF ToolInv

(* The output follows its call, whatever became of it.                          *)
LEMMA ToolOutputs ==
    ASSUME Base, ToolInv, Outputs, TablesSame, storageQ' = storageQ
    PROVE  ToolInv'
<1>1. Calling /\ CallRuns /\ Calling' /\ ~CallRuns' /\ proc.call # 0 /\ proc.call \in Nat /\ proc'.call = proc.call
  BY ToolTypes DEF Outputs, Calling, CallRuns
<1> DEFINE m == Msg("ToolOutput", proc.call + 1)
<1>2. m.t = "ToolOutput" /\ m.i = proc.call + 1 /\ proc'.out = <<m>> /\ proc'.then = "ack" /\ acks' = acks
  BY DEF Msg, Outputs
<1> HIDE DEF m
<1>3. Len(proc'.out) = 1 /\ proc'.out[1] = m
  BY <1>2
<1>4. acks = <<>> \/ (acks = <<FALSE>> /\ row[proc.call].st = "none")
  BY <1>1 DEF ToolInv, AckInv
<1>5. CallRowsInv'
  <2>1. ToolNames(proc'.out, proc.call)
    BY <1>1, <1>2, <1>3 DEF ToolNames, Starting
  <2> QED BY <1>1, <2>1 DEF ToolInv, CallRowsInv, TablesSame
<1>6. AckInv'
  <2>1. ~Acked' /\ Len(acks') <= 2
    BY <1>2, <1>4, RefusedNotOk DEF ToolInv, AckInv, Acked
  <2>2. ~HasType(proc'.out, {"ToolCall"})
    BY <1>2, <1>3 DEF HasType
  <2>3. Queued({"ToolCall"})' => Queued({"ToolCall"})
    BY <2>2 DEF Queued
  <2> QED BY <1>1, <1>2, <1>4, <2>1, <2>2, <2>3 DEF ToolInv, AckInv, TablesSame
<1> QED BY <1>5, <1>6 DEF ToolInv

(* With nothing left to send the call runs, or its output is waited for.        *)
LEMMA ToolGoesOn ==
    ASSUME Base, ToolInv, GoesOn, TablesSame, storageQ' = storageQ
    PROVE  ToolInv'
<1>1. /\ Calling /\ Calling' /\ (CallRuns' <=> CallRuns) /\ proc'.call = proc.call /\ proc'.then = proc.then
      /\ acks' = acks /\ proc'.out = <<>>
  BY DEF GoesOn, Calling, CallRuns
<1>2. (\A T : ~HasType(proc'.out, T)) /\ ToolNames(proc'.out, proc.call)
  BY <1>1 DEF HasType, ToolNames
<1>3. CallRowsInv'
  BY <1>1, <1>2 DEF ToolInv, CallRowsInv, TablesSame
<1>4. Queued(Tooling)' => Queued(Tooling)
  BY <1>2 DEF Queued
<1>5. Queued({"ToolCall"})' => Queued({"ToolCall"})
  BY <1>2 DEF Queued
<1>6. Queued({"ToolOutput"})' => Queued({"ToolOutput"})
  BY <1>2 DEF Queued
<1>7. (Acked' <=> Acked) /\ (Durable' <=> Durable)
  BY <1>1 DEF Acked, Durable, TablesSame
<1>8. AckInv'
  BY <1>1, <1>2, <1>4, <1>5, <1>6, <1>7 DEF ToolInv, AckInv, TablesSame
<1> QED BY <1>3, <1>8 DEF ToolInv

(* An Ok is the last word on its call.                                          *)
LEMMA ToolOk ==
    ASSUME Base, ToolInv, TakesOk, TablesSame, storageQ' = storageQ
    PROVE  ToolInv'
<1>1. /\ proc'.call = proc.call /\ proc'.out = <<>> /\ proc'.pc = "turn" /\ ~CallRuns'
  BY DEF TakesOk, CallRuns
<1>2. acks \in Seq(BOOLEAN) /\ acks # <<>> /\ acks' = Tail(acks) /\ Head(acks)
  BY ToolTypes DEF TakesOk
<1>3. Acked
  <2>1. acks[1] = TRUE /\ 1 \in 1 .. Len(acks)
    <3>1. Head(acks) = acks[1] /\ Head(acks) \in BOOLEAN /\ Len(acks) \in Nat /\ Len(acks) > 0
      BY <1>2, TailIs
    <3>2. acks[1] = TRUE
      BY <1>2, <3>1, Zenon
    <3> QED BY <3>1, <3>2
  <2> QED BY <2>1 DEF Acked, SomeOk
<1>4. acks = <<TRUE>> /\ ~Queued(Tooling) /\ Durable
  BY <1>3 DEF ToolInv, AckInv
<1>5. acks' = <<>>
  BY <1>2, <1>4, TailOfOne
<1>6. (\A T : ~HasType(proc'.out, T)) /\ ToolNames(proc'.out, proc.call)
  BY <1>1 DEF HasType, ToolNames
<1>7. CallRowsInv'
  BY <1>1, <1>6 DEF ToolInv, CallRowsInv, TablesSame
<1>8. ~Queued(Tooling)' /\ Durable' /\ ~Acked' /\ Len(acks') = 0
  BY <1>1, <1>4, <1>5, <1>6 DEF Queued, Durable, TablesSame, Acked, SomeOk
<1>9. AckInv'
  BY <1>1, <1>5, <1>6, <1>8 DEF AckInv
<1> QED BY <1>7, <1>9 DEF ToolInv

(* A message that moves to the storage channel is still on its way.             *)
LEMMA ToolSends ==
    ASSUME Base, ToolInv, SendStep
    PROVE  ToolInv'
<1>1. /\ proc.out \in Seq(Sent) /\ proc.out # <<>> /\ storageQ \in Seq(Sent) /\ acks' = acks
      /\ storageQ' = Append(storageQ, Head(proc.out)) /\ TablesSame
  BY ToolTypes DEF SendStep
<1>2. /\ proc'.pc = proc.pc /\ proc'.then = proc.then /\ proc'.call = proc.call /\ proc'.out = Tail(proc.out)
  BY SendKeeps DEF Base, SendStep
<1>3. /\ \A T : HasType(storageQ', T) \/ HasType(proc'.out, T) => HasType(storageQ, T) \/ HasType(proc.out, T)
      /\ \A T : HasType(proc'.out, T) => HasType(proc.out, T)
      /\ \A c : ToolNames(storageQ, c) /\ ToolNames(proc.out, c) => ToolNames(storageQ', c) /\ ToolNames(proc'.out, c)
  BY <1>1, <1>2, MovedHas
<1>4. CallRowsInv'
  BY <1>1, <1>2, <1>3 DEF ToolInv, CallRowsInv, TablesSame
<1>5. Queued(Tooling)' => Queued(Tooling)
  BY <1>3 DEF Queued
<1>6. Queued({"ToolCall"})' => Queued({"ToolCall"})
  BY <1>3 DEF Queued
<1>7. Queued({"ToolOutput"})' => Queued({"ToolOutput"})
  BY <1>3 DEF Queued
<1>8. /\ (Acked' <=> Acked) /\ (Durable' <=> Durable) /\ (Calling' <=> Calling) /\ (Stopped' <=> Stopped)
      /\ (CallRuns' <=> CallRuns)
  BY <1>1, <1>2 DEF Acked, Durable, TablesSame, Calling, Stopped, CallRuns
<1>9. AckInv'
  BY <1>1, <1>2, <1>3, <1>5, <1>6, <1>7, <1>8 DEF ToolInv, AckInv, TablesSame
<1> QED BY <1>4, <1>9 DEF ToolInv

(* The head of the channel, when it is about a tool, is the last such message   *)
(* of its kind: an output is the last of both.                                  *)
LEMMA ToolHead ==
    ASSUME StreamInv, ToolInv, storageQ # <<>>, Head(storageQ).t \in Tooling
    PROVE  /\ proc.call # 0
           /\ Head(storageQ).t = "ToolCall" =>
                /\ Head(storageQ).i = proc.call /\ acks = <<>>
                /\ ~HasType(Tail(storageQ), {"ToolCall"}) /\ ~HasType(proc.out, {"ToolCall"})
           /\ Head(storageQ).t = "ToolOutput" =>
                /\ Head(storageQ).i = proc.call + 1 /\ row[proc.call + 1].st = "none"
                /\ ~HasType(Tail(storageQ), Tooling) /\ ~HasType(proc.out, Tooling) /\ ~CallRuns
                /\ acks = <<>> \/ (acks = <<FALSE>> /\ row[proc.call].st = "none")
           /\ Calling \/ Stopped
<1> DEFINE m == Head(storageQ)
           q == Tail(storageQ)
           out == proc.out
<1>1. /\ storageQ \in Seq(Sent) /\ proc.call \in Nat /\ Base /\ OrderInv
      /\ proc.call # 0 => RowsOf(proc.call) \subseteq Items
  BY ToolTypes DEF StreamInv
<1>2. /\ m = storageQ[1] /\ Len(storageQ) \in Nat /\ Len(storageQ) > 0 /\ Len(q) = Len(storageQ) - 1
      /\ \A k \in 1 .. Len(storageQ) - 1 : q[k] = storageQ[k + 1]
  BY <1>1, TailIs
<1>3. 1 \in 1 .. Len(storageQ) /\ m.t \in Opening
  BY <1>2 DEF Opening
<1>4. /\ proc.call # 0
      /\ m.t = "ToolCall" => m.i = proc.call
      /\ m.t = "ToolOutput" => m.i = proc.call + 1
  BY <1>2, <1>3 DEF ToolInv, CallRowsInv, ToolNames, Tooling
<1>5. \A k \in 1 .. Len(q) : q[k].t \in Opening => m.i < q[k].i
  <2> SUFFICES ASSUME NEW k \in 1 .. Len(q), q[k].t \in Opening PROVE m.i < q[k].i
    OBVIOUS
  <2>1. k + 1 \in 1 .. Len(storageQ) /\ 1 < k + 1 /\ q[k] = storageQ[k + 1]
    BY <1>2
  <2> QED BY <1>1, <1>2, <1>3, <2>1 DEF OrderInv, QueueOrder, OpensRise
<1>6. \A k \in 1 .. Len(q) : /\ q[k].t = "ToolCall" => q[k].i = proc.call
                             /\ q[k].t = "ToolOutput" => q[k].i = proc.call + 1
  <2> SUFFICES ASSUME NEW k \in 1 .. Len(q)
               PROVE  /\ q[k].t = "ToolCall" => q[k].i = proc.call
                      /\ q[k].t = "ToolOutput" => q[k].i = proc.call + 1
    OBVIOUS
  <2>1. k + 1 \in 1 .. Len(storageQ) /\ q[k] = storageQ[k + 1]
    BY <1>2
  <2> QED BY <2>1 DEF ToolInv, CallRowsInv, ToolNames
<1>7. \A k \in 1 .. Len(out) : out[k].t \in Opening => m.i < out[k].i
  BY <1>1, <1>2, <1>3 DEF OrderInv, OutOrder, OpensBelow
<1>8. \A k \in 1 .. Len(out) : /\ out[k].t = "ToolCall" => out[k].i = proc.call
                               /\ out[k].t = "ToolOutput" => out[k].i = proc.call + 1
  BY DEF ToolInv, CallRowsInv, ToolNames
<1>9. Calling \/ Stopped
  <2>1. Queued(Tooling)
    BY <1>2, <1>3 DEF Queued, HasType
  <2> QED BY <2>1 DEF ToolInv, AckInv
<1>10. CASE m.t = "ToolCall"
  <2>1. Queued({"ToolCall"})
    BY <1>2, <1>3, <1>10 DEF Queued, HasType
  <2>2. acks = <<>>
    BY <2>1 DEF ToolInv, AckInv
  <2>3. ~HasType(q, {"ToolCall"}) /\ ~HasType(out, {"ToolCall"})
    BY <1>1, <1>4, <1>5, <1>6, <1>7, <1>8, <1>10 DEF HasType, Opening, Tooling
  <2> QED BY <1>4, <1>9, <1>10, <2>2, <2>3
<1>11. CASE m.t = "ToolOutput"
  <2>1. Queued({"ToolOutput"})
    BY <1>2, <1>3, <1>11 DEF Queued, HasType
  <2>2. acks = <<>> \/ (acks = <<FALSE>> /\ row[proc.call].st = "none")
    BY <2>1 DEF ToolInv, AckInv
  <2>3. ~HasType(q, Tooling) /\ ~HasType(out, Tooling)
    BY <1>1, <1>4, <1>5, <1>6, <1>7, <1>8, <1>11 DEF HasType, Opening, Tooling
  <2>4. m.i < Fence
    BY <1>1, <1>2, <1>3 DEF OrderInv, QueueOrder, OpensBelow
  <2>5. ~CallRuns
    BY <1>1, <1>4, <1>11, <2>4 DEF CallRuns, Fence
  <2>6. row[proc.call + 1].st = "none"
    <3>1. proc.call + 1 \in Items
      BY <1>1, <1>4 DEF RowsOf
    <3>2. ~Placed(proc.call + 1)
      BY <1>1, <1>2, <1>3, <1>4, <1>11, <3>1 DEF OrderInv, QueueOrder, OpensAbove
    <3> QED BY <3>2 DEF Placed
  <2> QED BY <1>4, <1>9, <1>11, <2>2, <2>3, <2>5, <2>6
<1> QED BY <1>10, <1>11 DEF Tooling

(* The storage task takes a call or an output.                                  *)
LEMMA ToolTakes ==
    ASSUME StreamInv, ToolInv, StoreItem, TakesTool(Head(storageQ))
    PROVE  ToolInv'
<1> DEFINE m == Head(storageQ)
<1>1. /\ storageQ # <<>> /\ storageQ' = Tail(storageQ) /\ proc' = proc /\ status' = status /\ Base
      /\ storageQ \in Seq(Sent) /\ row \in [Items -> RowType] /\ store.nextAt \in Nat /\ TableType
  BY StoreItemIs, ToolTypes DEF StreamInv, Base, TableType, StoreType
<1>2. m.t \in Tooling /\ m.i \in Items /\ Writes(m.i, "completed", store.nextAt)
      /\ store'.at = store.at /\ store'.pend = store.pend
  BY DEF TakesTool
<1>3. /\ proc.call # 0 /\ (Calling \/ Stopped)
      /\ m.t = "ToolCall" =>
           /\ m.i = proc.call /\ acks = <<>>
           /\ ~HasType(Tail(storageQ), {"ToolCall"}) /\ ~HasType(proc.out, {"ToolCall"})
      /\ m.t = "ToolOutput" =>
           /\ m.i = proc.call + 1 /\ row[proc.call + 1].st = "none"
           /\ ~HasType(Tail(storageQ), Tooling) /\ ~HasType(proc.out, Tooling) /\ ~CallRuns
           /\ acks = <<>> \/ (acks = <<FALSE>> /\ row[proc.call].st = "none")
  BY <1>1, <1>2, ToolHead
<1>4. /\ row' \in [Items -> RowType]
      /\ \A j \in Items : j # m.i => row'[j] = row[j]
      /\ row[m.i].st # "none" => row'[m.i] = row[m.i]
      /\ row'[m.i] # row[m.i] => row'[m.i].st = "completed"
  BY <1>1, <1>2, WritesIs
<1>5. /\ m.t = "ToolCall" => acks' = IF row'[m.i].st = "none" THEN Append(acks, FALSE) ELSE acks
      /\ m.t = "ToolOutput" => /\ acks' = Append(acks, row'[m.i].st # "none")
                               /\ row' # row => row[m.i - 1].st # "none"
  BY DEF TakesTool
<1> HIDE DEF m
<1>6. RowsOf(proc.call) = {proc.call, proc.call + 1} /\ RowsOf(proc.call) \subseteq Items /\ proc.call \in Nat
  BY <1>1, <1>3, ToolTypes DEF RowsOf
<1>7. CallRowsInv'
  <2>1. ToolNames(storageQ', proc.call)
    BY <1>1, FromWhat, FromKeeps DEF ToolInv, CallRowsInv
  <2>2. \A i \in RowsOf(proc.call) : row'[i].st \in {"none", "completed"}
    BY <1>4, <1>6 DEF ToolInv, CallRowsInv
  <2> QED BY <1>1, <1>2, <2>1, <2>2 DEF ToolInv, CallRowsInv
<1>8. /\ (Calling' <=> Calling) /\ (Stopped' <=> Stopped) /\ (CallRuns' <=> CallRuns)
      /\ HasType(proc'.out, {"ToolCall"}) => proc'.then = "exec"
      /\ HasType(proc'.out, {"ToolOutput"}) => proc'.then = "ack"
  BY <1>1 DEF Calling, Stopped, CallRuns, ToolInv, AckInv
<1>9. CASE m.t = "ToolCall"
  <2>1. ~Queued({"ToolCall"})'
    BY <1>1, <1>3, <1>9 DEF Queued
  <2>2. acks' = <<>> \/ (acks' = <<FALSE>> /\ row'[proc.call].st = "none")
    <3>1. Append(<<>>, FALSE) = <<FALSE>>
      OBVIOUS
    <3> QED BY <1>3, <1>5, <1>9, <3>1
  <2>3. ~Acked' /\ Len(acks') <= 2
    <3>1. ~SomeOk(acks') /\ Len(acks') <= 1
      BY <2>2, RefusedNotOk, Zenon
    <3>2. Len(acks') \in Nat
      BY <2>2, RefusedNotOk, TailOfOne
    <3> QED BY <3>1, <3>2 DEF Acked
  <2> QED BY <1>1, <1>3, <1>7, <1>8, <2>1, <2>2, <2>3 DEF ToolInv, AckInv
<1>10. CASE m.t = "ToolOutput"
  <2>1. ~Queued(Tooling)' /\ ~Queued({"ToolCall"})' /\ ~Queued({"ToolOutput"})' /\ ~CallRuns'
    BY <1>1, <1>3, <1>8, <1>10 DEF Queued, HasType, Tooling
  <2>2. CASE row'[m.i].st = "none"
    <3>1. acks' = Append(acks, FALSE)
      BY <1>5, <1>10, <2>2
    <3>2. ~SomeOk(acks) /\ Len(acks) <= 1 /\ acks \in Seq(BOOLEAN)
      BY <1>1, <1>3, <1>10, RefusedNotOk, ToolTypes, Zenon
    <3>3. ~Acked' /\ Len(acks') <= 2
      <4>1. ~SomeOk(acks') /\ Len(acks') = Len(acks) + 1 /\ Len(acks) \in Nat
        BY <3>1, <3>2, RefuseMore
      <4> QED BY <3>2, <4>1 DEF Acked
    <3> QED BY <1>3, <1>7, <1>8, <2>1, <3>3 DEF ToolInv, AckInv
  <2>3. CASE row'[m.i].st # "none"
    <3>1. row'[m.i].st = "completed" /\ row' # row
      BY <1>3, <1>4, <1>10, <2>3
    <3>2. row[proc.call].st # "none" /\ m.i - 1 = proc.call
      BY <1>3, <1>5, <1>6, <1>10, <3>1
    <3>3. row'[proc.call] = row[proc.call] /\ row[proc.call].st = "completed"
      BY <1>3, <1>4, <1>6, <1>10, <3>2 DEF ToolInv, CallRowsInv
    <3>4. Durable'
      BY <1>1, <1>3, <1>6, <1>10, <3>1, <3>3 DEF Durable
    <3>5. acks' = <<TRUE>>
      <4>1. acks = <<>> /\ acks' = Append(acks, TRUE)
        BY <1>3, <1>5, <1>10, <2>3, <3>2
      <4> QED BY <4>1
    <3>6. Len(acks') <= 2
      BY <3>5, TailOfOne
    <3> QED BY <1>3, <1>7, <1>8, <2>1, <3>4, <3>5, <3>6 DEF ToolInv, AckInv
  <2> QED BY <2>2, <2>3
<1> QED BY <1>2, <1>9, <1>10 DEF Tooling

(* The loop keeps ToolInv.                                                      *)
LEMMA ToolLoop ==
    ASSUME StreamInv, ToolInv, Loop \/ CancelClient
    PROVE  ToolInv'
<1>1. Base /\ Base' /\ (DraftStep \/ DropStep \/ SendStep) /\ (SendStep \/ ToolMove)
  BY LoopBase, LoopToolMove DEF StreamInv
<1>2. CASE SendStep
  BY <1>1, <1>2, ToolSends
<1>3. CASE ToolMove /\ (DraftStep \/ DropStep)
  <2>1. TablesSame /\ KeepsRows
    <3>1. TablesSame
      BY <1>3 DEF DraftStep, DropStep
    <3> QED BY <3>1 DEF TablesSame, KeepsRows, ToolInv, CallRowsInv
  <2>2. From(storageQ', storageQ)
    <3>1. storageQ \in Seq(Sent)
      BY <1>1, ToolTypes
    <3>2. Msg("Error", 0) \in Sent /\ Msg("Error", 0).t \in Bare
      BY SentMessages DEF Bare
    <3>3. storageQ' = storageQ \/ storageQ' = Append(storageQ, Msg("Error", 0))
      BY <1>3 DEF DraftStep, DropStep
    <3> QED BY <3>1, <3>2, <3>3, FromWhat
  <2>3. ~Stopped' => Drafts /\ storageQ' = storageQ
    BY <1>3 DEF DraftStep, DropStep, Drops
  <2>4. CASE Halts
    BY <1>1, <2>1, <2>2, <2>4, ToolHalts
  <2>5. CASE Talks
    BY <1>1, <2>1, <2>2, <2>3, <2>5, ToolTalks
  <2>6. CASE Calls
    <3>1. ~Stopped'
      BY <2>6 DEF Calls, Stopped
    <3> QED BY <1>1, <2>1, <2>3, <2>6, <3>1, ToolCalls
  <2>7. CASE Outputs
    <3>1. ~Stopped'
      BY <2>7 DEF Outputs, Stopped
    <3> QED BY <1>1, <2>1, <2>3, <2>7, <3>1, ToolOutputs
  <2>8. CASE GoesOn
    <3>1. ~Stopped'
      BY <2>8 DEF GoesOn, Stopped
    <3> QED BY <1>1, <2>1, <2>3, <2>8, <3>1, ToolGoesOn
  <2>9. CASE TakesOk
    <3>1. ~Stopped'
      BY <2>9 DEF TakesOk, Stopped
    <3> QED BY <1>1, <2>1, <2>3, <2>9, <3>1, ToolOk
  <2> QED BY <1>3, <2>4, <2>5, <2>6, <2>7, <2>8, <2>9 DEF ToolMove
<1> QED BY <1>1, <1>2, <1>3

(* The storage task writes the rows of a call only for the call.                *)
LEMMA ToolStore ==
    ASSUME StreamInv, ToolInv, StoreItem
    PROVE  ToolInv'
<1> DEFINE m == Head(storageQ)
<1>1. /\ Base /\ storageQ # <<>> /\ storageQ' = Tail(storageQ) /\ m \in Sent /\ store.pc = "recv"
      /\ status' = status /\ proc' = proc /\ Takes(m) /\ storageQ \in Seq(Sent) /\ TableType
      /\ row \in [Items -> RowType] /\ store.at \in [Items -> Nat] /\ store.nextAt \in Nat /\ store.nextAt # 0
      /\ store.pend \subseteq Items
  BY StoreItemIs, ToolTypes DEF StreamInv, Base, TableType, StoreType
<1>2. /\ From(storageQ', storageQ)
      /\ \A i \in RowsOf(proc.call) : store.at[i] = 0
      /\ \A i \in store.pend : store.at[i] # 0
      /\ RowsOf(proc.call) \subseteq Items
  <2>1. RowsOf(proc.call) \subseteq Items
    BY <1>1, ToolTypes DEF RowsOf
  <2> QED BY <1>1, <2>1, FromWhat DEF ToolInv, CallRowsInv
<1>3. m.t \in Starting => m.i \notin RowsOf(proc.call)
  <2>1. m = storageQ[1] /\ 1 \in 1 .. Len(storageQ)
    BY <1>1, TailIs
  <2> QED BY <2>1 DEF ToolInv, CallRowsInv, ToolNames
<1>4. m.t \in Following => m.i \notin RowsOf(proc.call) /\ store.at[m.i] # 0
  BY <1>1, <1>2, HeadBegun
<1>5. CASE TakesTool(m)
  BY <1>5, ToolTakes
<1> HIDE DEF m
<1>6. CASE ~TakesTool(m)
  <2>1. KeepsRows /\ acks' = acks
    <3>1. CASE TakesStart(m)
      <4>1. /\ m.i \in Items /\ m.t \in Starting /\ store'.at = [store.at EXCEPT ![m.i] = store.nextAt] /\ acks' = acks
            /\ store'.pend = store.pend \union {m.i} /\ Writes(m.i, "in_progress", store.nextAt)
        BY <3>1 DEF TakesStart
      <4>2. \A j \in Items : j # m.i => row'[j] = row[j]
        BY <1>1, <4>1, WritesIs
      <4> QED BY <1>1, <1>2, <1>3, <4>1, <4>2 DEF KeepsRows
    <3>2. CASE TakesDelta(m)
      <4>1. m.t \in Following /\ store'.at = store.at /\ store'.pend = store.pend \union {m.i} /\ row' = row /\ acks' = acks
        BY <3>2 DEF TakesDelta, Following
      <4> QED BY <1>1, <1>2, <1>4, <4>1 DEF KeepsRows
    <3>3. CASE TakesUsage(m)
      BY <1>1, <1>2, <3>3 DEF TakesUsage, KeepsRows
    <3>4. CASE TakesEnd(m)
      <4>1. /\ m.t \in Following /\ store'.at = store.at /\ store'.pend = store.pend \ {m.i} /\ acks' = acks
            /\ \A i \in Items \ {m.i} : row'[i] = row[i]
        BY <3>4 DEF TakesEnd, Following
      <4> QED BY <1>1, <1>2, <1>4, <4>1 DEF KeepsRows
    <3> QED BY <1>1, <1>6, <3>1, <3>2, <3>3, <3>4 DEF Takes
  <2> QED BY <1>1, <1>2, <2>1, ToolKept
<1> QED BY <1>5, <1>6

(* Every step keeps ToolInv.                                                    *)
LEMMA ToolStep ==
    ASSUME StreamInv, ToolInv, [Next]_vars
    PROVE  ToolInv'
<1>1. /\ Base /\ storageQ \in Seq(Sent) /\ RowsOf(proc.call) \subseteq Items
      /\ row \in [Items -> RowType] /\ store \in StoreType
      /\ \A i \in RowsOf(proc.call) : store.at[i] = 0
      /\ \A i \in store.pend : store.at[i] # 0
      /\ client.pc = "request" => status = "none"
  BY ToolTypes DEF StreamInv, Base, TableType, StartInv, RowsOf, ToolInv, CallRowsInv
<1>2. From(storageQ, storageQ) /\ From(<<>>, storageQ) /\ (storageQ # <<>> => From(Tail(storageQ), storageQ))
  BY <1>1, FromWhat
<1>3. CASE Loop \/ CancelClient
  BY <1>3, ToolLoop
<1>4. CASE StoreItem
  BY <1>4, ToolStore
<1>5. CASE StoreEnd
  <2>1. KeepsRows /\ proc' = proc /\ acks' = acks
    BY <1>1, <1>5, StoreEndIs DEF KeepsRows
  <2>2. From(storageQ', storageQ)
    <3>1. (storageQ # <<>> /\ storageQ' = Tail(storageQ)) \/ storageQ' = <<>>
      BY <1>1, <1>5, StoreEndIs
    <3> QED BY <1>2, <3>1, Zenon
  <2> QED BY <1>1, <2>1, <2>2, ToolKept
<1>6. CASE StoreStatus
  <2>1. KeepsRows /\ proc' = proc /\ acks' = acks
    BY <1>1, <1>6, StoreStatusIs DEF KeepsRows, Terminal
  <2>2. From(storageQ', storageQ)
    <3>1. storageQ' = storageQ \/ storageQ' = <<>>
      BY <1>1, <1>6, StoreStatusIs
    <3> QED BY <1>2, <3>1, Zenon
  <2> QED BY <1>1, <2>1, <2>2, ToolKept
<1>7. CASE StoreSettle
  <2>1. KeepsRows /\ proc' = proc /\ acks' = acks
    <3>1. /\ store'.at = store.at /\ store'.pend = {} /\ status' = status /\ proc' = proc /\ acks' = acks
          /\ \A i \in Items : row'[i] = row[i] \/ i \in store.pend
      BY <1>1, <1>7, StoreSettleIs
    <3> QED BY <1>1, <3>1 DEF KeepsRows
  <2>2. From(storageQ', storageQ)
    <3>1. storageQ' = storageQ \/ storageQ' = <<>>
      BY <1>1, <1>7, StoreSettleIs
    <3> QED BY <1>2, <3>1, Zenon
  <2> QED BY <1>1, <2>1, <2>2, ToolKept
<1>8. CASE ~(Loop \/ CancelClient) /\ ~Storage
  <2>1. proc' = proc
    BY <1>8, OtherBase DEF StreamInv
  <2>2. CASE Delete
    <3>1. KeepsRows /\ acks' = acks /\ storageQ' = storageQ
      BY <1>1, <2>2 DEF Delete, KeepsRows, NoRow
    <3> QED BY <1>1, <1>2, <2>1, <3>1, ToolKept
  <2>3. CASE CancelStorage
    <3>1. KeepsRows /\ acks' = acks
      BY <1>1, <2>3 DEF CancelStorage, KeepsRows
    <3>2. Msg("Cancelled", 0) \in Sent /\ Msg("Cancelled", 0).t \in Bare
      BY SentMessages DEF Bare
    <3>3. storageQ' = storageQ \/ storageQ' = Append(storageQ, Msg("Cancelled", 0))
      BY <2>3 DEF CancelStorage
    <3>4. From(storageQ', storageQ)
      BY <1>1, <3>2, <3>3, FromWhat
    <3> QED BY <1>1, <2>1, <3>1, <3>4, ToolKept
  <2>4. CASE Spawn
    <3>1. store'.at = store.at /\ store'.pend = store.pend
      BY <1>1, <2>4 DEF Spawn, StoreType
    <3>2. KeepsRows /\ acks' = acks /\ storageQ' = storageQ
      BY <1>1, <2>4, <3>1 DEF Spawn, KeepsRows
    <3> QED BY <1>1, <1>2, <2>1, <3>2, ToolKept
  <2>5. CASE ~Delete /\ ~CancelStorage /\ ~Spawn
    <3>1. KeepsRows /\ acks' = acks /\ storageQ' = storageQ
      BY <1>1, <1>8, <2>1, <2>5
         DEF Next, vars, Listener, Endpoints, Accept, PersistUserMessage, ClientRecv, Disconnect, Lagged,
             CancelRead, CancelUpdate, CancelBroadcast, KeepsRows
    <3> QED BY <1>1, <1>2, <2>1, <3>1, ToolKept
  <2> QED BY <2>2, <2>3, <2>4, <2>5
<1> QED BY <1>3, <1>4, <1>5, <1>6, <1>7, <1>8 DEF Storage

(* No call is under way at first.                                               *)
LEMMA ToolInit == Init => ToolInv
<1> SUFFICES ASSUME Init PROVE ToolInv
  OBVIOUS
<1>1. /\ storageQ = <<>> /\ acks = <<>> /\ proc.out = <<>> /\ proc.call = 0 /\ proc.pc = "none" /\ store.pend = {}
  BY DEF Init
<1>2. RowsOf(proc.call) = {} /\ \A T : ~HasType(<<>>, T)
  BY <1>1 DEF RowsOf, HasType
<1>3. CallRowsInv
  BY <1>1, <1>2 DEF CallRowsInv, ToolNames
<1>4. AckInv
  <2>1. ~CallRuns /\ ~SomeOk(<<>>) /\ Len(<<>>) <= 2
    BY <1>1 DEF CallRuns, SomeOk
  <2> QED BY <1>1, <1>2, <2>1 DEF AckInv, Queued, Durable, Acked
<1> QED BY <1>3, <1>4 DEF ToolInv
-----------------------------------------------------------------------------
(* The acknowledgements always agree with the rows of the call.                 *)
THEOREM ToolInvariant == Spec => [](StreamInv /\ ToolInv)
<1>1. Spec => []StreamInv
  BY StreamOrderInvariant
<1>2. StreamInv /\ ToolInv /\ [Next]_vars => ToolInv'
  BY ToolStep
<1> QED BY <1>1, <1>2, ToolInit, PTL DEF Spec

(* "wait for storage to confirm the tool output is durable before the next      *)
(* model turn is started": however many calls fail to be stored, time out or    *)
(* leave acknowledgements behind, a turn that starts finds the call and its     *)
(* output stored.                                                               *)
THEOREM ToolSafety == Spec => []ToolOutputIsDurable
<1>1. StreamInv /\ ToolInv => ToolOutputIsDurable
  <2> SUFFICES ASSUME StreamInv, ToolInv, proc.pc \in {"turn", "stream"}, proc.turns > 0, status # "deleted"
               PROVE  row[proc.call].st = "completed" /\ row[proc.call + 1].st = "completed"
    BY DEF ToolOutputIsDurable
  <2>1. proc.call # 0
    BY DEF StreamInv, Base, LoopFacts, DrawInv
  <2>2. ~Calling /\ ~Stopped
    BY DEF Calling, Stopped
  <2> QED BY <2>1, <2>2 DEF ToolInv, AckInv, Durable, RowsOf
<1> QED BY <1>1, ToolInvariant, PTL
-----------------------------------------------------------------------------
(*****************************************************************************)
(* ResponseStream implements ResponseRecord, and its transcript is whole,    *)
(* for any number of items, chunks and tool turns, any size of the channels  *)
(* and, where a property does not exclude them, any number of database       *)
(* faults.                                                                   *)
(*                                                                           *)
(* An item is reopened neither by a late delta nor by the settling of what   *)
(* is pending: once an end is queued or stored, nothing about its item is on *)
(* its way any more (ClosingInv), so what is pending is open (PendInv).      *)
(*                                                                           *)
(* That the transcript is whole needs what the tasks owe each other. The end *)
(* of the response is queued last (DoneInv) and, unless the loop stopped     *)
(* early, behind the end of every item that is pending or queued (OwedInv);  *)
(* the deltas stored and queued of an item are those that were sent          *)
(* (TextInv); without a database fault every item drawn is queued or stored  *)
(* (StoredInv). So when the storage task takes the end of the response,      *)
(* nothing is pending and every row holds its whole text (EndInv).           *)
(*****************************************************************************)

Follows(q, i) == \E k \in 1 .. Len(q) : q[k].t \in Following /\ q[k].i = i
FollowsAfter(q, j, i) == \E k \in 1 .. Len(q) : k > j /\ q[k].t \in Following /\ q[k].i = i

\* The loop has something to say about item i, or may have.
WillFollow(p, i) == Follows(p.out, i) \/ (p.pc \notin {"fail", "tellClient", "over"} /\ Live(p, i))
Closed(i) == row[i].st = "completed" /\ store.at[i] # 0

\* While the storage task receives, nothing comes after an end.
ClosingInv == Receiving =>
    /\ \A j \in 1 .. Len(storageQ) : storageQ[j].t \in Ending =>
         ~FollowsAfter(storageQ, j, storageQ[j].i) /\ ~WillFollow(proc, storageQ[j].i)
    /\ \A j \in 1 .. Len(proc.out) : proc.out[j].t \in Ending =>
         ~FollowsAfter(proc.out, j, proc.out[j].i) /\ (Stopped \/ ~Live(proc, proc.out[j].i))
    /\ \A i \in Items : Closed(i) => ~Follows(storageQ, i) /\ ~WillFollow(proc, i)
    /\ \A i \in Items : row[i].st # "incomplete"

\* What is pending is open.
PendInv == \A i \in store.pend : row[i].st \in {"none", "in_progress"}

RecordInv == ClosingInv /\ PendInv
-----------------------------------------------------------------------------
(* What follows in a channel after it has changed. *)

(* A message at the end.                                                        *)
LEMMA AppendFollows ==
    ASSUME NEW q \in Seq(Sent), NEW m \in Sent
    PROVE  /\ \A i : Follows(Append(q, m), i) => Follows(q, i) \/ (m.t \in Following /\ m.i = i)
           /\ \A i : \A j \in 1 .. Len(q) : FollowsAfter(Append(q, m), j, i) =>
                FollowsAfter(q, j, i) \/ (m.t \in Following /\ m.i = i)
           /\ \A i : ~FollowsAfter(Append(q, m), Len(q) + 1, i)
<1> DEFINE p == Append(q, m)
<1>1. /\ Len(p) = Len(q) + 1 /\ Len(q) \in Nat
      /\ \A k \in 1 .. Len(q) : p[k] = q[k]
      /\ p[Len(q) + 1] = m
  BY AppendIs
<1> HIDE DEF p
<1>2. \A k \in 1 .. Len(p) : k \in 1 .. Len(q) \/ k = Len(q) + 1
  BY <1>1
<1>3. \A i : Follows(p, i) => Follows(q, i) \/ (m.t \in Following /\ m.i = i)
  BY <1>1, <1>2 DEF Follows
<1>4. \A i : \A j \in 1 .. Len(q) : FollowsAfter(p, j, i) => FollowsAfter(q, j, i) \/ (m.t \in Following /\ m.i = i)
  BY <1>1, <1>2 DEF FollowsAfter
<1>5. \A i : ~FollowsAfter(p, Len(q) + 1, i)
  BY <1>1 DEF FollowsAfter
<1> QED BY <1>3, <1>4, <1>5 DEF p

(* The first message taken.                                                     *)
LEMMA TailFollows ==
    ASSUME NEW q \in Seq(Sent), q # <<>>
    PROVE  /\ \A i : Follows(Tail(q), i) => Follows(q, i) /\ FollowsAfter(q, 1, i)
           /\ \A i : \A j \in 1 .. Len(Tail(q)) : FollowsAfter(Tail(q), j, i) => FollowsAfter(q, j + 1, i)
           /\ Head(q).t \in Following => Follows(q, Head(q).i)
           /\ \A j \in 1 .. Len(Tail(q)) : j + 1 \in 1 .. Len(q) /\ Tail(q)[j] = q[j + 1]
           /\ 1 \in 1 .. Len(q) /\ q[1] = Head(q)
<1> DEFINE p == Tail(q)
<1>1. /\ Head(q) = q[1] /\ Len(q) \in Nat /\ Len(q) > 0 /\ Len(p) = Len(q) - 1
      /\ \A k \in 1 .. Len(q) - 1 : p[k] = q[k + 1]
  BY TailIs
<1> HIDE DEF p
<1>2. \A j \in 1 .. Len(p) : j + 1 \in 1 .. Len(q) /\ j + 1 > 1 /\ p[j] = q[j + 1]
  BY <1>1
<1>3. \A i : Follows(p, i) => Follows(q, i) /\ FollowsAfter(q, 1, i)
  BY <1>2 DEF Follows, FollowsAfter
<1>4. ASSUME NEW i, NEW j \in 1 .. Len(p), FollowsAfter(p, j, i)
      PROVE  FollowsAfter(q, j + 1, i)
  <2>1. PICK k \in 1 .. Len(p) : k > j /\ p[k].t \in Following /\ p[k].i = i
    BY <1>4 DEF FollowsAfter
  <2>2. k + 1 \in 1 .. Len(q) /\ k + 1 > j + 1 /\ q[k + 1] = p[k]
    BY <1>2, <2>1
  <2> QED BY <2>1, <2>2 DEF FollowsAfter
<1>5. Head(q).t \in Following => Follows(q, Head(q).i)
  BY <1>1 DEF Follows
<1> QED BY <1>1, <1>2, <1>3, <1>4, <1>5 DEF p
-----------------------------------------------------------------------------
(* Every step keeps ClosingInv. *)

(* The loop drafts nothing about an item that has ended.                        *)
LEMMA ClosingDraft ==
    ASSUME StreamInv, ClosingInv, DraftStep
    PROVE  ClosingInv'
<1>1. /\ Base /\ OrderInv /\ BegunInv /\ Drafts /\ store' = store /\ row' = row /\ storageQ' = storageQ
      /\ ~Stopped /\ ~Stopped' /\ proc.out = <<>> /\ (Receiving' <=> Receiving)
  BY DEF StreamInv, DraftStep, TablesSame, Drafts, Receiving
<1> SUFFICES ASSUME Receiving PROVE
       /\ \A j \in 1 .. Len(storageQ) : storageQ[j].t \in Ending =>
            ~FollowsAfter(storageQ, j, storageQ[j].i) /\ ~WillFollow(proc', storageQ[j].i)
       /\ \A j \in 1 .. Len(proc'.out) : proc'.out[j].t \in Ending =>
            ~FollowsAfter(proc'.out, j, proc'.out[j].i) /\ ~Live(proc', proc'.out[j].i)
       /\ \A i \in Items : Closed(i) => ~Follows(storageQ, i) /\ ~WillFollow(proc', i)
       /\ \A i \in Items : row[i].st # "incomplete"
  BY <1>1 DEF ClosingInv, Closed
<1> DEFINE out == proc'.out
<1>2. ASSUME NEW i \in Items, i < Fence, ~WillFollow(proc, i)
      PROVE  ~WillFollow(proc', i)
  <2>1. ~Live(proc, i)
    BY <1>1, <1>2 DEF WillFollow, Stopped
  <2>2. ~Starts(out, i) /\ \A k : ~StartsBefore(out, k, i)
    <3>1. \A k \in 1 .. Len(out) : out[k].t \in Starting => Fence <= out[k].i
      BY <1>1 DEF Drafts, DraftOpens, Opening
    <3>2. Fence \in Nat /\ i \in Nat
      BY <1>1, FenceType, StreamAssumption DEF Base, Items
    <3> QED BY <1>2, <3>1, <3>2 DEF Starts, StartsBefore
  <2>3. ~Live(proc', i)
    BY <1>1, <2>1, <2>2 DEF Drafts, DraftFollows
  <2>4. ~Follows(out, i)
    BY <1>1, <2>1, <2>2 DEF Drafts, DraftFollows, Follows
  <2> QED BY <2>3, <2>4 DEF WillFollow
<1>3. ASSUME NEW i \in Items, Placed(i) PROVE i < Fence
  BY <1>1, <1>3 DEF OrderInv, RowsInv
<1>4. ASSUME NEW j \in 1 .. Len(storageQ), storageQ[j].t \in Ending
      PROVE  storageQ[j].i \in Items /\ storageQ[j].i < Fence
  <2>1. storageQ[j].i \in Items /\ storageQ[j].t \in Following
    BY <1>1, <1>4, OrderTypes DEF Following
  <2>2. CASE store.at[storageQ[j].i] # 0
    BY <1>3, <2>1, <2>2 DEF Placed
  <2>3. CASE StartsBefore(storageQ, j, storageQ[j].i)
    BY <1>1, <2>1, <2>3 DEF StartsBefore, OrderInv, QueueOrder, OpensBelow, Opening
  <2> QED BY <1>1, <2>1, <2>2, <2>3 DEF BegunInv
<1>5. \A j \in 1 .. Len(storageQ) : storageQ[j].t \in Ending =>
            ~FollowsAfter(storageQ, j, storageQ[j].i) /\ ~WillFollow(proc', storageQ[j].i)
  <2> SUFFICES ASSUME NEW j \in 1 .. Len(storageQ), storageQ[j].t \in Ending
               PROVE  ~FollowsAfter(storageQ, j, storageQ[j].i) /\ ~WillFollow(proc', storageQ[j].i)
    OBVIOUS
  <2>1. PICK x \in Items : x = storageQ[j].i /\ x < Fence
    BY <1>4
  <2>2. ~FollowsAfter(storageQ, j, x) /\ ~WillFollow(proc, x)
    BY <2>1 DEF ClosingInv
  <2>3. ~WillFollow(proc', x)
    BY <1>2, <2>1, <2>2
  <2> QED BY <1>1, <2>1, <2>2, <2>3 DEF WillFollow
<1>6. \A j \in 1 .. Len(out) : out[j].t \in Ending => ~FollowsAfter(out, j, out[j].i) /\ ~Live(proc', out[j].i)
  BY <1>1 DEF Drafts, DraftEnds, FollowsAfter
<1>7. ASSUME NEW i \in Items, Closed(i) PROVE ~Follows(storageQ, i) /\ ~WillFollow(proc', i)
  BY <1>2, <1>3, <1>7 DEF ClosingInv, Closed, Placed
<1> QED BY <1>5, <1>6, <1>7 DEF ClosingInv

(* A channel that gets a bare message or loses some, with less ahead of it.     *)
LEMMA ClosingKept ==
    ASSUME ClosingInv, storageQ \in Seq(Sent),
           Receiving' => Receiving,
           \/ storageQ' = storageQ
           \/ \E m \in Sent : m.t \in Bare /\ storageQ' = Append(storageQ, m),
           \A i : WillFollow(proc', i) => WillFollow(proc, i),
           proc' = proc \/ (Stopped' /\ proc'.out = <<>>),
           \A i \in Items : Closed(i)' => Closed(i),
           \A i \in Items : row'[i].st \in {row[i].st, "none"}
    PROVE  ClosingInv'
<1> SUFFICES ASSUME Receiving PROVE
       /\ \A j \in 1 .. Len(storageQ') : storageQ'[j].t \in Ending =>
            ~FollowsAfter(storageQ', j, storageQ'[j].i) /\ ~WillFollow(proc', storageQ'[j].i)
       /\ \A j \in 1 .. Len(proc'.out) : proc'.out[j].t \in Ending =>
            ~FollowsAfter(proc'.out, j, proc'.out[j].i) /\ (Stopped' \/ ~Live(proc', proc'.out[j].i))
       /\ \A i \in Items : Closed(i)' => ~Follows(storageQ', i) /\ ~WillFollow(proc', i)
       /\ \A i \in Items : row'[i].st # "incomplete"
  BY Zenon DEF ClosingInv
<1>1. \A m \in Sent : m.t \in Bare => m.t \notin Following /\ m.t \notin Ending
  BY DEF Bare, Following, Deltas, Ending
<1>2. \A i : Follows(storageQ', i) => Follows(storageQ, i)
  <2>1. ASSUME NEW m \in Sent, m.t \in Bare, storageQ' = Append(storageQ, m)
        PROVE  \A i : Follows(storageQ', i) => Follows(storageQ, i)
    BY <1>1, <2>1, AppendFollows
  <2> QED BY <2>1
<1>3. ASSUME NEW j \in 1 .. Len(storageQ'), storageQ'[j].t \in Ending
      PROVE  ~FollowsAfter(storageQ', j, storageQ'[j].i) /\ ~WillFollow(proc', storageQ'[j].i)
  <2>1. CASE storageQ' = storageQ
    BY <1>3, <2>1 DEF ClosingInv
  <2>2. ASSUME NEW m \in Sent, m.t \in Bare, storageQ' = Append(storageQ, m)
        PROVE  ~FollowsAfter(storageQ', j, storageQ'[j].i) /\ ~WillFollow(proc', storageQ'[j].i)
    <3>1. /\ Len(storageQ') = Len(storageQ) + 1 /\ Len(storageQ) \in Nat
          /\ \A k \in 1 .. Len(storageQ) : storageQ'[k] = storageQ[k]
          /\ storageQ'[Len(storageQ) + 1] = m
      BY <2>2, AppendIs
    <3>2. j \in 1 .. Len(storageQ) /\ storageQ'[j] = storageQ[j]
      BY <1>1, <1>3, <2>2, <3>1
    <3>3. ~FollowsAfter(storageQ, j, storageQ[j].i) /\ ~WillFollow(proc, storageQ[j].i)
      BY <1>3, <3>2 DEF ClosingInv
    <3> QED BY <1>1, <2>2, <3>2, <3>3, AppendFollows
  <2> QED BY <2>1, <2>2
<1>5. \A i \in Items : Closed(i)' => ~Follows(storageQ', i) /\ ~WillFollow(proc', i)
  BY <1>2 DEF ClosingInv
<1>6. \A j \in 1 .. Len(proc'.out) : proc'.out[j].t \in Ending =>
            ~FollowsAfter(proc'.out, j, proc'.out[j].i) /\ (Stopped' \/ ~Live(proc', proc'.out[j].i))
  BY DEF ClosingInv, Stopped
<1>7. \A i \in Items : row'[i].st # "incomplete"
  BY DEF ClosingInv
<1> QED BY <1>3, <1>5, <1>6, <1>7

(* A message sent leaves nothing behind about an item it ends.                  *)
LEMMA ClosingSend ==
    ASSUME StreamInv, ClosingInv, SendStep
    PROVE  ClosingInv'
<1> DEFINE m == Head(proc.out)
<1>1. /\ storageQ \in Seq(Sent) /\ proc.out \in Seq(Sent) /\ proc.out # <<>> /\ store' = store /\ row' = row
      /\ storageQ' = Append(storageQ, m) /\ m \in Sent /\ (Receiving' <=> Receiving)
  BY OrderTypes, TailIs DEF StreamInv, SendStep, TablesSame, Receiving
<1>2. /\ proc'.pc = proc.pc /\ ~Stopped /\ ~Stopped' /\ proc'.out = Tail(proc.out)
      /\ \A i : Live(proc', i) <=> Live(proc, i)
  BY SendKeeps DEF StreamInv, Base, SendStep
<1>3. /\ \A i : Follows(proc'.out, i) => Follows(proc.out, i) /\ FollowsAfter(proc.out, 1, i)
      /\ \A i : \A j \in 1 .. Len(proc'.out) : FollowsAfter(proc'.out, j, i) => FollowsAfter(proc.out, j + 1, i)
      /\ m.t \in Following => Follows(proc.out, m.i)
      /\ \A j \in 1 .. Len(proc'.out) : j + 1 \in 1 .. Len(proc.out) /\ proc'.out[j] = proc.out[j + 1]
      /\ 1 \in 1 .. Len(proc.out) /\ proc.out[1] = m
  BY <1>1, <1>2, TailFollows
<1> HIDE DEF m
<1>4. /\ \A i : Follows(storageQ', i) => Follows(storageQ, i) \/ (m.t \in Following /\ m.i = i)
      /\ \A i : \A j \in 1 .. Len(storageQ) : FollowsAfter(storageQ', j, i) =>
             FollowsAfter(storageQ, j, i) \/ (m.t \in Following /\ m.i = i)
      /\ \A i : ~FollowsAfter(storageQ', Len(storageQ) + 1, i)
  BY <1>1, AppendFollows
<1>5. /\ Len(storageQ') = Len(storageQ) + 1 /\ Len(storageQ) \in Nat
      /\ \A k \in 1 .. Len(storageQ) : storageQ'[k] = storageQ[k]
      /\ storageQ'[Len(storageQ) + 1] = m
  BY <1>1, AppendIs
<1>6. \A i : WillFollow(proc', i) => WillFollow(proc, i)
  BY <1>2, <1>3 DEF WillFollow
<1> SUFFICES ASSUME Receiving PROVE
       /\ \A j \in 1 .. Len(storageQ') : storageQ'[j].t \in Ending =>
            ~FollowsAfter(storageQ', j, storageQ'[j].i) /\ ~WillFollow(proc', storageQ'[j].i)
       /\ \A j \in 1 .. Len(proc'.out) : proc'.out[j].t \in Ending =>
            ~FollowsAfter(proc'.out, j, proc'.out[j].i) /\ ~Live(proc', proc'.out[j].i)
       /\ \A i \in Items : Closed(i) => ~Follows(storageQ', i) /\ ~WillFollow(proc', i)
       /\ \A i \in Items : row[i].st # "incomplete"
  BY <1>1, <1>2 DEF ClosingInv, Closed
<1>7. ASSUME NEW j \in 1 .. Len(storageQ'), storageQ'[j].t \in Ending
      PROVE  ~FollowsAfter(storageQ', j, storageQ'[j].i) /\ ~WillFollow(proc', storageQ'[j].i)
  <2>1. CASE j \in 1 .. Len(storageQ)
    <3>1. ~FollowsAfter(storageQ, j, storageQ[j].i) /\ ~WillFollow(proc, storageQ[j].i) /\ storageQ'[j] = storageQ[j]
      BY <1>5, <1>7, <2>1 DEF ClosingInv
    <3>2. ~(m.t \in Following /\ m.i = storageQ[j].i)
      BY <1>3, <3>1 DEF WillFollow
    <3> QED BY <1>4, <1>6, <2>1, <3>1, <3>2
  <2>2. CASE j = Len(storageQ) + 1
    <3>1. m.t \in Ending /\ storageQ'[j] = m
      BY <1>5, <1>7, <2>2
    <3>2. ~FollowsAfter(proc.out, 1, m.i) /\ ~Live(proc, m.i)
      BY <1>2, <1>3, <3>1 DEF ClosingInv
    <3> QED BY <1>2, <1>3, <1>4, <2>2, <3>1, <3>2 DEF WillFollow
  <2> QED BY <1>5, <2>1, <2>2
<1>8. ASSUME NEW j \in 1 .. Len(proc'.out), proc'.out[j].t \in Ending
      PROVE  ~FollowsAfter(proc'.out, j, proc'.out[j].i) /\ ~Live(proc', proc'.out[j].i)
  BY <1>2, <1>3, <1>8 DEF ClosingInv
<1>9. ASSUME NEW i \in Items, Closed(i) PROVE ~Follows(storageQ', i) /\ ~WillFollow(proc', i)
  <2>1. ~Follows(storageQ, i) /\ ~WillFollow(proc, i)
    BY <1>9 DEF ClosingInv
  <2>2. ~(m.t \in Following /\ m.i = i)
    BY <1>3, <2>1 DEF WillFollow
  <2> QED BY <1>4, <1>6, <2>1, <2>2
<1> QED BY <1>7, <1>8, <1>9 DEF ClosingInv

(* What the storage task takes next is about an item that is not stored yet, or  *)
(* is still open.                                                               *)
LEMMA HeadIsOpen ==
    ASSUME StreamInv, ClosingInv, StoreItem
    PROVE  /\ Head(storageQ).t \in Opening /\ Head(storageQ).i \in Items =>
                row[Head(storageQ).i].st = "none" /\ store.at[Head(storageQ).i] = 0
           /\ Head(storageQ).t \in Following =>
                /\ Head(storageQ).i \in Items /\ store.at[Head(storageQ).i] # 0
                /\ row[Head(storageQ).i].st \in {"none", "in_progress"}
<1> DEFINE m == Head(storageQ)
<1>1. /\ Base /\ OrderInv /\ storageQ \in Seq(Sent) /\ storageQ # <<>> /\ Receiving
      /\ store.pc = "recv" /\ row \in [Items -> RowType]
  BY StoreItemIs, OrderTypes DEF StreamInv, Base, TableType, Receiving
<1>2. m = storageQ[1] /\ 1 \in 1 .. Len(storageQ)
  BY <1>1, TailIs
<1>3. m.t \in Opening /\ m.i \in Items => row[m.i].st = "none" /\ store.at[m.i] = 0
  <2> SUFFICES ASSUME m.t \in Opening, m.i \in Items PROVE ~Placed(m.i)
    BY DEF Placed
  <2>1. m.i \in Nat /\ ~(m.i < m.i)
    BY <1>1, OrderTypes
  <2> QED BY <1>1, <1>2, <2>1 DEF OrderInv, QueueOrder, OpensAbove
<1>4. m.t \in Following => m.i \in Items /\ store.at[m.i] # 0 /\ row[m.i].st \in {"none", "in_progress"}
  <2> SUFFICES ASSUME m.t \in Following
               PROVE  m.i \in Items /\ store.at[m.i] # 0 /\ row[m.i].st \in {"none", "in_progress"}
    OBVIOUS
  <2>1. m.i \in Items /\ store.at[m.i] # 0
    BY <1>1, HeadBegun
  <2>2. Follows(storageQ, m.i)
    BY <1>2 DEF Follows
  <2>3. ~Closed(m.i) /\ row[m.i].st # "incomplete"
    BY <1>1, <2>1, <2>2 DEF ClosingInv
  <2> QED BY <1>1, <2>1, <2>3 DEF Closed, RowType
<1> QED BY <1>3, <1>4

(* An item is closed by its end, and by nothing else while it is announced.     *)
LEMMA TakeCloses ==
    ASSUME StreamInv, ClosingInv, StoreItem, NEW i \in Items
    PROVE  /\ Closed(i)' => Closed(i) \/ (Head(storageQ).t \in Ending /\ Head(storageQ).i = i)
           /\ row'[i].st # "incomplete"
<1> DEFINE m == Head(storageQ)
<1>1. /\ Base /\ OrderInv /\ storageQ \in Seq(Sent) /\ storageQ # <<>> /\ store.pc = "recv" /\ Receiving
      /\ Takes(m) /\ TableType /\ store.nextAt \in Nat /\ row \in [Items -> RowType]
      /\ store.at \in [Items -> Nat]
  BY StoreItemIs, OrderTypes DEF StreamInv, Base, TableType, StoreType, Receiving
<1>3. m.t \in Opening /\ m.i \in Items => row[m.i].st = "none" /\ store.at[m.i] = 0
  BY HeadIsOpen
<1>4. row[i].st # "incomplete"
  BY <1>1 DEF ClosingInv
<1> HIDE DEF m
<1>5. CASE TakesStart(m)
  <2>1. /\ m.i \in Items /\ m.t \in Opening /\ store'.at = [store.at EXCEPT ![m.i] = store.nextAt]
        /\ Writes(m.i, "in_progress", store.nextAt)
    BY <1>5 DEF TakesStart, Opening
  <2>2. /\ \A j \in Items : j # m.i => row'[j] = row[j]
        /\ row'[m.i] # row[m.i] => row'[m.i].st = "in_progress"
    BY <1>1, <2>1, WritesIs
  <2> QED BY <1>1, <1>3, <1>4, <2>1, <2>2 DEF Closed
<1>6. CASE TakesDelta(m) \/ TakesUsage(m)
  BY <1>4, <1>6 DEF TakesDelta, TakesUsage, Closed, m
<1>7. CASE TakesEnd(m)
  <2>1. /\ m.t \in Ending /\ store'.at = store.at /\ \A j \in Items \ {m.i} : row'[j] = row[j]
        /\ row'[m.i] = row[m.i] \/ row'[m.i].st \in {"in_progress", "completed"}
    BY <1>7 DEF TakesEnd
  <2> QED BY <1>4, <2>1 DEF Closed, m
<1>8. CASE TakesTool(m)
  <2>1. m.i \in Items /\ m.t \in Opening /\ store'.at = store.at /\ Writes(m.i, "completed", store.nextAt)
    BY <1>8 DEF TakesTool, Opening
  <2>2. /\ \A j \in Items : j # m.i => row'[j] = row[j]
        /\ row'[m.i] # row[m.i] => row'[m.i].st = "completed"
    BY <1>1, <2>1, WritesIs
  <2> QED BY <1>3, <1>4, <2>1, <2>2 DEF Closed
<1> QED BY <1>1, <1>5, <1>6, <1>7, <1>8 DEF Takes

(* Nothing follows what the storage task takes as an end.                       *)
LEMMA ClosingTake ==
    ASSUME StreamInv, ClosingInv, StoreItem
    PROVE  ClosingInv'
<1> DEFINE m == Head(storageQ)
<1>1. /\ storageQ \in Seq(Sent) /\ storageQ # <<>> /\ storageQ' = Tail(storageQ) /\ proc' = proc
      /\ Receiving /\ Base
  BY StoreItemIs, OrderTypes DEF StreamInv, Receiving
<1>2. /\ \A i : Follows(storageQ', i) => Follows(storageQ, i) /\ FollowsAfter(storageQ, 1, i)
      /\ \A i : \A j \in 1 .. Len(storageQ') : FollowsAfter(storageQ', j, i) => FollowsAfter(storageQ, j + 1, i)
      /\ \A j \in 1 .. Len(storageQ') : j + 1 \in 1 .. Len(storageQ) /\ storageQ'[j] = storageQ[j + 1]
      /\ 1 \in 1 .. Len(storageQ) /\ storageQ[1] = m
  BY <1>1, TailFollows
<1> HIDE DEF m
<1>3. \A j \in 1 .. Len(storageQ') : storageQ'[j].t \in Ending =>
         ~FollowsAfter(storageQ', j, storageQ'[j].i) /\ ~WillFollow(proc, storageQ'[j].i)
  BY <1>1, <1>2 DEF ClosingInv
<1>4. ASSUME NEW i \in Items, Closed(i)'
      PROVE  ~Follows(storageQ', i) /\ ~WillFollow(proc, i)
  <2>1. CASE Closed(i)
    BY <1>1, <1>2, <2>1 DEF ClosingInv
  <2>2. CASE m.t \in Ending /\ m.i = i
    BY <1>1, <1>2, <2>2 DEF ClosingInv
  <2> QED BY <1>4, <2>1, <2>2, TakeCloses DEF m
<1>5. \A i \in Items : row'[i].st # "incomplete"
  BY TakeCloses
<1>6. \A j \in 1 .. Len(proc.out) : proc.out[j].t \in Ending =>
         ~FollowsAfter(proc.out, j, proc.out[j].i) /\ (Stopped \/ ~Live(proc, proc.out[j].i))
  BY <1>1 DEF ClosingInv
<1>7. Stopped' <=> Stopped
  BY <1>1 DEF Stopped
<1> QED BY <1>1, <1>3, <1>4, <1>5, <1>6, <1>7, Zenon DEF ClosingInv

(* What is neither the loop's nor the storage task's leaves the rows, or deletes *)
(* them, and tells the storage task at most of a cancellation.                  *)
LEMMA Bystanders ==
    ASSUME StreamInv, [Next]_vars, ~(Loop \/ CancelClient), ~Storage
    PROVE  /\ UNCHANGED <<proc, next, emitted, faults>> /\ store'.at = store.at /\ store'.pend = store.pend
           /\ store'.text = store.text /\ store'.end = store.end
           /\ store'.pc = store.pc \/ (store.pc = "none" /\ store'.pc = "recv")
           /\ row' = row \/ (Delete /\ \A i \in Items : row'[i] = NoRow)
           /\ storageQ' = storageQ \/ storageQ' = Append(storageQ, Msg("Cancelled", 0))
           /\ status = "deleted" => status' = "deleted"
           /\ status' = "completed" => status = "completed"
           /\ status' = "in_progress" => status = "in_progress" \/ store'.pc = "none"
<1>1. proc' = proc /\ next' = next /\ emitted' = emitted
  BY OtherBase DEF StreamInv
<1>2. CASE Spawn
  <2>1. store \in StoreType /\ StartInv
    BY DEF StreamInv, Base, TableType
  <2> QED BY <1>1, <1>2, <2>1 DEF Spawn, StoreType, StartInv
<1>3. CASE ClientRecv
  BY <1>1, <1>3, ClientRecvIs DEF StreamInv
<1>4. CASE ~Spawn /\ ~ClientRecv
  <2>1. client.pc = "request" => status = "none" /\ store.pc = "none"
    BY DEF StreamInv, Base, StartInv
  <2> QED
    BY <1>1, <1>4, <2>1
       DEF Next, vars, Listener, Endpoints, Accept, PersistUserMessage, Disconnect, Lagged, CancelStorage,
           CancelRead, CancelUpdate, CancelBroadcast, Delete, NoRow
<1> QED BY <1>2, <1>3, <1>4

(* Every step keeps an ended item ended.                                        *)
LEMMA ClosingStep ==
    ASSUME StreamInv, ClosingInv, [Next]_vars
    PROVE  ClosingInv'
<1>0. Base /\ storageQ \in Seq(Sent)
  BY OrderTypes DEF StreamInv
<1>1. CASE Loop \/ CancelClient
  <2>1. DraftStep \/ DropStep \/ SendStep
    BY <1>0, <1>1, LoopBase
  <2>2. CASE DropStep
    <3>1. /\ Stopped' /\ proc'.out = <<>> /\ store' = store /\ row' = row
          /\ storageQ' = storageQ \/ storageQ' = Append(storageQ, Msg("Error", 0))
      BY <2>2 DEF DropStep, Drops, TablesSame
    <3>2. Msg("Error", 0) \in Sent /\ Msg("Error", 0).t \in Bare
      BY SentMessages DEF Bare
    <3>3. \A i : ~WillFollow(proc', i)
      BY <3>1 DEF WillFollow, Follows, Stopped
    <3>4. (Receiving' => Receiving) /\ \A i \in Items : Closed(i)' => Closed(i)
      BY <3>1 DEF Receiving, Closed
    <3> QED BY <1>0, <3>1, <3>2, <3>3, <3>4, ClosingKept
  <2> QED BY <2>1, <2>2, ClosingDraft, ClosingSend
<1>2. CASE StoreItem
  BY <1>2, ClosingTake
<1>3. CASE StoreEnd \/ StoreStatus \/ StoreSettle
  <2>1. ~Receiving'
    BY <1>0, <1>3, StoreEndIs, StoreStatusIs, StoreSettleIs DEF Receiving
  <2> QED BY <2>1 DEF ClosingInv
<1>4. CASE ~(Loop \/ CancelClient) /\ ~Storage
  <2>1. /\ proc' = proc /\ store'.at = store.at /\ (Receiving' => Receiving)
        /\ storageQ' = storageQ \/ storageQ' = Append(storageQ, Msg("Cancelled", 0))
    BY <1>4, Bystanders DEF Receiving
  <2>2. Msg("Cancelled", 0) \in Sent /\ Msg("Cancelled", 0).t \in Bare
    BY SentMessages DEF Bare
  <2>3. \A i \in Items : row'[i] = row[i] \/ row'[i].st = "none"
    BY <1>4, Bystanders DEF NoRow
  <2>4. \A i \in Items : Closed(i)' => Closed(i)
    BY <2>1, <2>3 DEF Closed
  <2> QED BY <1>0, <2>1, <2>2, <2>3, <2>4, ClosingKept
<1> QED BY <1>1, <1>2, <1>3, <1>4 DEF Storage
-----------------------------------------------------------------------------
(* Every step keeps what is pending open. *)

(* What the storage task takes goes to open items.                              *)
LEMMA PendTake ==
    ASSUME StreamInv, ToolInv, RecordInv, StoreItem
    PROVE  PendInv'
<1> DEFINE m == Head(storageQ)
<1>1. /\ Base /\ OrderInv /\ ClosingInv /\ PendInv /\ storageQ \in Seq(Sent) /\ storageQ # <<>> /\ Receiving
      /\ store.pc = "recv" /\ Takes(m) /\ TableType /\ store.nextAt \in Nat /\ row \in [Items -> RowType]
      /\ store.at \in [Items -> Nat] /\ store.pend \subseteq Items
  BY StoreItemIs, OrderTypes DEF StreamInv, RecordInv, Base, TableType, StoreType, Receiving
<1>3. m.t \in Opening /\ m.i \in Items => row[m.i].st = "none" /\ store.at[m.i] = 0
  BY <1>1, HeadIsOpen
<1>4. m.t \in Following => row[m.i].st \in {"none", "in_progress"} /\ m.i \in Items
  BY <1>1, HeadIsOpen
<1> HIDE DEF m
<1> SUFFICES ASSUME NEW i \in store'.pend PROVE row'[i].st \in {"none", "in_progress"}
  BY DEF PendInv
<1>5. CASE TakesStart(m)
  <2>1. /\ m.i \in Items /\ m.t \in Opening /\ store'.pend = store.pend \union {m.i}
        /\ Writes(m.i, "in_progress", store.nextAt)
    BY <1>5 DEF TakesStart, Opening
  <2>2. /\ \A j \in Items : j # m.i => row'[j] = row[j]
        /\ row'[m.i] # row[m.i] => row'[m.i].st = "in_progress"
    BY <1>1, <2>1, WritesIs
  <2> QED BY <1>1, <1>3, <2>1, <2>2 DEF PendInv
<1>6. CASE TakesDelta(m)
  BY <1>1, <1>4, <1>6 DEF TakesDelta, PendInv, Following
<1>7. CASE TakesUsage(m)
  BY <1>1, <1>7 DEF TakesUsage, PendInv
<1>8. CASE TakesEnd(m)
  BY <1>1, <1>8 DEF TakesEnd, PendInv
<1>9. CASE TakesTool(m)
  <2>1. m.i \in Items /\ m.t \in Opening /\ store'.pend = store.pend /\ Writes(m.i, "completed", store.nextAt)
    BY <1>9 DEF TakesTool, Opening
  <2>2. \A j \in Items : j # m.i => row'[j] = row[j]
    BY <1>1, <2>1, WritesIs
  <2>3. i # m.i
    BY <1>3, <2>1 DEF ToolInv, CallRowsInv
  <2> QED BY <1>1, <2>1, <2>2, <2>3 DEF PendInv
<1> QED BY <1>1, <1>5, <1>6, <1>7, <1>8, <1>9 DEF Takes

(* Every step keeps it so.                                                      *)
LEMMA PendStep ==
    ASSUME StreamInv, ToolInv, RecordInv, [Next]_vars
    PROVE  PendInv'
<1>0. Base /\ PendInv /\ store.pend \subseteq Items
  BY DEF StreamInv, RecordInv, Base, TableType, StoreType
<1>1. CASE Loop \/ CancelClient
  BY <1>0, <1>1, LoopBase DEF DraftStep, DropStep, SendStep, TablesSame, PendInv
<1>2. CASE StoreItem
  BY <1>2, PendTake
<1>3. CASE StoreEnd \/ StoreStatus
  BY <1>0, <1>3, StoreEndIs, StoreStatusIs DEF PendInv
<1>4. CASE StoreSettle
  BY <1>0, <1>4, StoreSettleIs DEF PendInv
<1>5. CASE ~(Loop \/ CancelClient) /\ ~Storage
  BY <1>0, <1>5, Bystanders DEF PendInv, NoRow
<1> QED BY <1>1, <1>2, <1>3, <1>4, <1>5 DEF Storage

(* Nothing has ended and nothing is pending at first.                           *)
LEMMA RecordInit == Init => RecordInv
<1> SUFFICES ASSUME Init PROVE RecordInv
  OBVIOUS
<1>1. /\ storageQ = <<>> /\ proc.out = <<>> /\ store.pend = {} /\ \A i \in Items : row[i].st = "none"
  BY DEF Init, NoRow
<1> QED BY <1>1 DEF RecordInv, ClosingInv, PendInv, Closed

(* An item that has ended stays ended, for every interleaving of the tasks.     *)
THEOREM RecordInvariant == Spec => [](StreamInv /\ ToolInv /\ RecordInv)
<1>1. Spec => [](StreamInv /\ ToolInv)
  BY ToolInvariant
<1>2. StreamInv /\ ToolInv /\ RecordInv /\ [Next]_vars => RecordInv'
  BY ClosingStep, PendStep DEF RecordInv
<1> QED BY <1>1, <1>2, RecordInit, PTL DEF Spec
-----------------------------------------------------------------------------
(* Every step of the stream is a step of the record, or leaves it alone. *)

\* The record's items, as the rows show them.
Shown == [i \in Items |-> [st |-> row[i].st, at |-> row[i].at]]

(* An item shows its row's status and place.                                    *)
LEMMA ShownIs ==
    /\ Record!Items = Items
    /\ \A i \in Items : Shown[i].st = row[i].st /\ Shown[i].at = row[i].at
    /\ \A i \in Items : Shown'[i].st = row'[i].st /\ Shown'[i].at = row'[i].at
    /\ \A i \in Items : row'[i].st = row[i].st /\ row'[i].at = row[i].at => Shown'[i] = Shown[i]
    /\ \A i \in Items : row'[i] = NoRow => Shown'[i] = Record!NoItem
    /\ DOMAIN Shown = Items /\ DOMAIN Shown' = Items
BY DEF Shown, Items, Record!Items, Record!NoItem, NoRow

(* Rows that keep status and place show the same.                               *)
LEMMA ShownSame ==
    ASSUME status' = status, \A i \in Items : row'[i].st = row[i].st /\ row'[i].at = row[i].at
    PROVE  UNCHANGED Record!vars
<1>1. Shown' = Shown
  BY DEF Shown
<1> QED BY <1>1 DEF Record!vars, Shown

(* A row that appears at a place of its own is stored.                          *)
LEMMA ShownStore ==
    ASSUME NEW i \in Items, row[i].st = "none", row'[i].st \in {"completed", "in_progress"},
           status' = status, status \notin {"none", "deleted"},
           \A j \in Items : j # i => row'[j] = row[j],
           \A j \in Items : row[j].st # "none" => row[j].at # row'[i].at
    PROVE  Record!Next
<1>1. Shown' = [Shown EXCEPT ![i] = Shown'[i]]
  BY DEF Shown
<1>2. Record!Store(i)
  BY <1>1, ShownIs DEF Record!Store, Record!Closed, Shown
<1> QED BY <1>2, ShownIs DEF Record!Next

(* Rows that close where they are are closed.                                   *)
LEMMA ShownClose ==
    ASSUME status' = status,
           \A i \in Items : \/ row'[i].st = row[i].st /\ row'[i].at = row[i].at
                            \/ row[i].st = "in_progress" /\ row'[i].st \in {"completed", "incomplete"} /\ row'[i].at = row[i].at
    PROVE  Record!Next
<1>1. Record!Close
  BY ShownIs DEF Record!Close, Record!Closed, Shown
<1> QED BY <1>1 DEF Record!Next

(* What the storage task takes is stored, closed, or shows nothing.             *)
LEMMA TakeShown ==
    ASSUME StreamInv, ClosingInv, StoreItem
    PROVE  [Record!Next]_(Record!vars)
<1> DEFINE m == Head(storageQ)
<1>1. /\ Base /\ OrderInv /\ RowsInv /\ Takes(m) /\ TableType /\ row \in [Items -> RowType] /\ status' = status
      /\ status # "none" /\ store.nextAt \in Nat /\ store.at \in [Items -> Nat] /\ Items \subseteq Nat
      /\ \A i \in Items : Place(i) \in Nat /\ row[i].at \in Nat
  BY StoreItemIs, OrderTypes DEF StreamInv, OrderInv, Base, TableType, StoreType, StartInv
<1>2. m.t \in Opening /\ m.i \in Items => row[m.i].st = "none" /\ store.at[m.i] = 0
  BY HeadIsOpen
<1>3. m.t \in Following => store.at[m.i] # 0 /\ row[m.i].st \in {"none", "in_progress"}
  BY HeadIsOpen
<1>4. \A j \in Items : row[j].st # "none" => row[j].at = Place(j) /\ row[j].at < store.nextAt
  BY <1>1 DEF RowsInv, Place, Placed
<1> HIDE DEF m
<1>5. ASSUME NEW i \in Items, NEW st \in {"completed", "in_progress"}, Writes(i, st, store.nextAt)
      PROVE  [Record!Next]_(Record!vars)
  <2>1. /\ \A j \in Items : j # i => row'[j] = row[j]
        /\ row'[i] # row[i] => row'[i].st = st /\ row'[i].at = store.nextAt /\ status # "deleted" /\ row[i].st = "none"
    BY <1>1, <1>5, WritesIs
  <2>2. CASE row'[i] = row[i]
    BY <1>1, <2>1, <2>2, ShownSame
  <2>3. CASE row'[i] # row[i]
    <3>1. \A j \in Items : row[j].st # "none" => row[j].at # row'[i].at
      BY <1>1, <1>4, <2>1, <2>3
    <3> QED BY <1>1, <2>1, <2>3, <3>1, ShownStore
  <2> QED BY <2>2, <2>3
<1>6. CASE TakesStart(m) \/ TakesTool(m)
  BY <1>5, <1>6 DEF TakesStart, TakesTool
<1>7. CASE TakesDelta(m) \/ TakesUsage(m)
  BY <1>1, <1>7, ShownSame DEF TakesDelta, TakesUsage
<1>8. CASE TakesEnd(m)
  <2>1. /\ m.i \in Items /\ m.t \in Following /\ \A j \in Items : j # m.i => row'[j] = row[j]
    BY <1>8 DEF TakesEnd, Following
  <2>2. CASE row'[m.i] = row[m.i]
    BY <1>1, <2>1, <2>2, ShownSame
  <2>3. CASE /\ row[m.i].st = "none" /\ status # "deleted"
             /\ row'[m.i].at = store.at[m.i] /\ row'[m.i].st \in {"completed", "in_progress"}
    <3>1. ASSUME NEW j \in Items, row[j].st # "none" PROVE row[j].at # row'[m.i].at
      <4>1. j # m.i /\ Placed(j) /\ Placed(m.i) /\ Place(m.i) = row'[m.i].at /\ row[j].at = Place(j)
        BY <1>3, <1>4, <2>1, <2>3, <3>1 DEF Placed, Place
      <4>2. j < m.i \/ m.i < j
        BY <2>1, <4>1, StreamAssumption DEF Items
      <4>3. \A a, b \in Items : a < b /\ Placed(a) /\ Placed(b) => Place(a) < Place(b)
        BY <1>1 DEF RowsInv
      <4>4. Place(j) < Place(m.i) \/ Place(m.i) < Place(j)
        BY <2>1, <4>1, <4>2, <4>3
      <4> QED BY <1>1, <2>1, <4>1, <4>4
    <3> QED BY <1>1, <2>1, <2>3, <3>1, ShownStore
  <2>4. CASE row[m.i].st # "none" /\ row'[m.i].at = row[m.i].at /\ row'[m.i].st = "completed"
    <3>1. row[m.i].st = "in_progress"
      BY <1>3, <2>1, <2>4
    <3> QED BY <1>1, <2>1, <2>4, <3>1, ShownClose
  <2> QED BY <1>8, <2>2, <2>3, <2>4 DEF TakesEnd
<1> QED BY <1>1, <1>6, <1>7, <1>8 DEF Takes

(* Every step of the stream is one of the record.                               *)
LEMMA RecordStep ==
    ASSUME StreamInv, ToolInv, RecordInv, [Next]_vars
    PROVE  [Record!Next]_(Record!vars)
<1>0. Base /\ ClosingInv /\ PendInv /\ StartInv /\ TableType /\ store.pend \subseteq Items
  BY DEF StreamInv, RecordInv, Base, TableType, StoreType
<1>1. ASSUME status' = status, row' = row PROVE [Record!Next]_(Record!vars)
  BY <1>1, ShownSame
<1>2. ASSUME status = "in_progress", status' \in {"completed", "failed", "cancelled"}, row' = row
      PROVE  [Record!Next]_(Record!vars)
  <2>1. Record!Conclude
    BY <1>2 DEF Record!Conclude
  <2> QED BY <2>1 DEF Record!Next
<1>3. CASE Loop \/ CancelClient
  BY <1>0, <1>1, <1>3, LoopBase DEF DraftStep, DropStep, SendStep, TablesSame
<1>4. CASE StoreItem
  BY <1>0, <1>4, TakeShown
<1>5. CASE StoreEnd
  BY <1>0, <1>1, <1>5, StoreEndIs
<1>6. CASE StoreStatus
  BY <1>0, <1>1, <1>2, <1>6, StoreStatusIs DEF Terminal
<1>7. CASE StoreSettle
  <2>1. /\ status' = status
        /\ \A i \in Items : /\ row'[i].at = row[i].at
                            /\ row'[i] = row[i] \/ (i \in store.pend /\ row[i].st # "none" /\ row'[i].st = "incomplete")
    BY <1>0, <1>7, StoreSettleIs
  <2>2. \A i \in store.pend : row[i].st # "none" => row[i].st = "in_progress"
    BY <1>0 DEF PendInv
  <2> QED BY <1>0, <2>1, <2>2, ShownClose
<1>8. CASE Accept
  <2>1. client.pc = "request" /\ status = "none" /\ row' = row
    BY <1>0, <1>8 DEF Accept, StartInv
  <2>2. CASE status' = "in_progress"
    <3>1. Record!Open
      BY <2>1, <2>2 DEF Record!Open
    <3> QED BY <3>1 DEF Record!Next
  <2> QED BY <1>1, <1>8, <2>1, <2>2 DEF Accept
<1>9. CASE CancelUpdate
  BY <1>1, <1>2, <1>9 DEF CancelUpdate
<1>10. CASE Delete
  <2>1. Shown' = [i \in Items |-> Record!NoItem]
    BY <1>10 DEF Delete, Shown, NoRow, Record!NoItem
  <2>2. Record!Delete
    BY <1>10, <2>1, ShownIs DEF Delete, Record!Delete, Shown
  <2> QED BY <2>2 DEF Record!Next
<1>11. CASE ~(Loop \/ CancelClient) /\ ~Storage /\ ~Accept /\ ~CancelUpdate /\ ~Delete
  BY <1>1, <1>11
     DEF Next, vars, Listener, Endpoints, PersistUserMessage, Spawn, ClientRecv, Disconnect, Lagged, CancelStorage,
         CancelRead, CancelBroadcast
<1> QED BY <1>3, <1>4, <1>5, <1>6, <1>7, <1>8, <1>9, <1>10, <1>11 DEF Storage

(* The stream implements the record (ResponseRecord): whichever of the storage  *)
(* task, the cancel endpoint and the delete endpoint writes first, and whatever *)
(* fails, a response reaches one terminal status, an item is stored once at a   *)
(* place of its own and closes once, and what is deleted stays deleted.         *)
THEOREM RecordSafety == Spec => RecordSpec
<1>1. Init => Record!Init
  <2> SUFFICES ASSUME Init PROVE Record!Init
    OBVIOUS
  <2>1. Shown = [i \in Items |-> Record!NoItem]
    BY DEF Init, Shown, NoRow, Record!NoItem
  <2> QED BY <2>1, ShownIs DEF Init, Record!Init, Shown
<1>2. StreamInv /\ ToolInv /\ RecordInv /\ [Next]_vars => [Record!Next]_(Record!vars)
  BY RecordStep
<1> QED BY <1>1, <1>2, RecordInvariant, PTL DEF Spec, RecordSpec, Record!Spec
-----------------------------------------------------------------------------
(* The transcript is whole: what the invariant says. *)

\* The loop has finished: the response's end is queued, or behind that.
Finished(p) == p.then = "done" /\ p.out = <<>> /\ p.pc \in {"send", "over"}
\* The loop has yet to end item i.
Owes(p, i) == Ends(p.out, i) \/ Live(p, i)
Healthy == ~Stopped \/ HasType(storageQ, {"ResponseDone"})

\* The end of the response comes last.
DoneInv ==
    /\ Receiving => \A k \in 1 .. Len(storageQ) : storageQ[k].t = "ResponseDone" =>
         Finished(proc) /\ \A j \in 1 .. Len(storageQ) : j > k => storageQ[j].t = "Cancelled"
    /\ \A k \in 1 .. Len(proc.out) : proc.out[k].t = "ResponseDone" => k = Len(proc.out) /\ proc.then = "done"

\* Unless the loop stops early, what is open will be ended.
OwedInv == Receiving /\ Healthy =>
    /\ \A i \in store.pend : EndsAfter(storageQ, 0, i) \/ Owes(proc, i)
    /\ \A j \in 1 .. Len(storageQ) : storageQ[j].t \in Starting \union Deltas =>
         EndsAfter(storageQ, j, storageQ[j].i) \/ Owes(proc, storageQ[j].i)
    /\ \A j \in 1 .. Len(proc.out) : proc.out[j].t \in Starting \union Deltas =>
         EndsAfter(proc.out, j, proc.out[j].i) \/ Live(proc, proc.out[j].i)

\* f counts the deltas of item i along q, from a to b; the response ends with b.
AddsUp(f, q, i, a, b) ==
    /\ f \in [0 .. Len(q) -> Nat] /\ f[0] = a /\ f[Len(q)] = b
    /\ \A k \in 1 .. Len(q) : f[k] = f[k - 1] + (IF q[k].t \in Deltas /\ q[k].i = i THEN 1 ELSE 0)
    /\ \A k \in 1 .. Len(q) : q[k].t = "ResponseDone" => f[k] = b

\* What was sent of an item is stored or queued.
TextInv ==
    /\ \A i \in Items : store.at[i] = 0 => store.text[i] = 0
    /\ Receiving => \A i \in Items : \E f : AddsUp(f, storageQ, i, store.text[i], emitted[i])

\* Item i is stored as far as it goes.
Kept(i) == row[i].st = "in_progress" \/ (row[i].st = "completed" /\ row[i].text = store.text[i])
\* Without a failure, every item drawn is on its way or stored.
StoredInv == Receiving /\ Healthy /\ faults = 0 /\ status # "deleted" =>
    \A i \in Items : i < Fence => Opens(storageQ, i) \/ Opens(proc.out, i) \/ Kept(i)

\* How the storage task leaves the response.
EndInv ==
    /\ store.end = "completed" => store.pend = {} /\ Finished(proc)
    /\ store.pc = "over" => store.pend = {}
    /\ faults = 0 => \A i \in Items : row[i].st = "in_progress" => i \in store.pend
    /\ faults = 0 /\ (store.pc = "over" \/ (store.pc = "settle" /\ store.end # "completed")) => status # "in_progress"
    /\ status = "completed" => store.pc = "over" /\ store.end = "completed"
    /\ faults = 0 /\ status # "deleted" /\ store.end = "completed" =>
         \A i \in Items : i < next => row[i].st = "completed" /\ row[i].text = emitted[i]

WholeInv == DoneInv /\ OwedInv /\ TextInv /\ StoredInv /\ EndInv
-----------------------------------------------------------------------------
(* What is in a channel with a message more.                                    *)
LEMMA AppendEnds ==
    ASSUME NEW q \in Seq(Sent), NEW m \in Sent
    PROVE  /\ \A i : \A j \in 0 .. Len(q) : EndsAfter(q, j, i) => EndsAfter(Append(q, m), j, i)
           /\ \A i : \A j \in 0 .. Len(q) : m.t \in Ending /\ m.i = i => EndsAfter(Append(q, m), j, i)
           /\ \A i : Opens(q, i) => Opens(Append(q, m), i)
           /\ m.t \in Opening => Opens(Append(q, m), m.i)
           /\ \A T : HasType(Append(q, m), T) => HasType(q, T) \/ m.t \in T
           /\ \A j \in 1 .. Len(Append(q, m)) :
                \/ j \in 1 .. Len(q) /\ Append(q, m)[j] = q[j]
                \/ j = Len(q) + 1 /\ Append(q, m)[j] = m
           /\ Len(q) \in Nat
<1> DEFINE p == Append(q, m)
<1>1. /\ Len(p) = Len(q) + 1 /\ Len(q) \in Nat
      /\ \A k \in 1 .. Len(q) : p[k] = q[k]
      /\ p[Len(q) + 1] = m
  BY AppendIs
<1> HIDE DEF p
<1>2. /\ \A k \in 1 .. Len(q) : k \in 1 .. Len(p) /\ p[k] = q[k]
      /\ Len(q) + 1 \in 1 .. Len(p) /\ \A j \in 0 .. Len(q) : Len(q) + 1 > j
      /\ \A k \in 1 .. Len(p) : k \in 1 .. Len(q) \/ k = Len(q) + 1
  BY <1>1
<1>3. \A i : \A j \in 0 .. Len(q) : EndsAfter(q, j, i) => EndsAfter(p, j, i)
  BY <1>2 DEF EndsAfter
<1>4. \A i : \A j \in 0 .. Len(q) : m.t \in Ending /\ m.i = i => EndsAfter(p, j, i)
  BY <1>1, <1>2 DEF EndsAfter
<1>5. (\A i : Opens(q, i) => Opens(p, i)) /\ (m.t \in Opening => Opens(p, m.i))
  BY <1>1, <1>2 DEF Opens
<1>6. \A T : HasType(p, T) => HasType(q, T) \/ m.t \in T
  BY <1>1, <1>2 DEF HasType
<1>7. \A j \in 1 .. Len(p) : (j \in 1 .. Len(q) /\ p[j] = q[j]) \/ (j = Len(q) + 1 /\ p[j] = m)
  BY <1>1, <1>2
<1> QED BY <1>1, <1>3, <1>4, <1>5, <1>6, <1>7 DEF p

(* What is in a channel whose first message is taken.                           *)
LEMMA TailEnds ==
    ASSUME NEW q \in Seq(Sent), q # <<>>
    PROVE  /\ \A i : EndsAfter(q, 0, i) => EndsAfter(Tail(q), 0, i) \/ (Head(q).t \in Ending /\ Head(q).i = i)
           /\ \A i : Ends(q, i) => Ends(Tail(q), i) \/ (Head(q).t \in Ending /\ Head(q).i = i)
           /\ \A i : EndsAfter(q, 1, i) => EndsAfter(Tail(q), 0, i) /\ Ends(Tail(q), i)
           /\ \A i : \A j \in 1 .. Len(Tail(q)) : EndsAfter(q, j + 1, i) => EndsAfter(Tail(q), j, i)
           /\ \A i : Opens(q, i) => Opens(Tail(q), i) \/ (Head(q).t \in Opening /\ Head(q).i = i)
           /\ \A T : HasType(Tail(q), T) => HasType(q, T)
           /\ \A j \in 1 .. Len(Tail(q)) : j + 1 \in 1 .. Len(q) /\ Tail(q)[j] = q[j + 1]
           /\ Head(q) = q[1] /\ 1 \in 1 .. Len(q) /\ Len(Tail(q)) = Len(q) - 1 /\ Len(q) \in Nat
<1> DEFINE p == Tail(q)
           h == Head(q)
<1>1. /\ h = q[1] /\ Len(q) \in Nat /\ Len(q) > 0 /\ Len(p) = Len(q) - 1
      /\ \A k \in 1 .. Len(q) - 1 : p[k] = q[k + 1]
  BY TailIs
<1> HIDE DEF p, h
<1>2. /\ \A k \in 1 .. Len(p) : k + 1 \in 1 .. Len(q) /\ p[k] = q[k + 1]
      /\ 1 \in 1 .. Len(q)
  BY <1>1
<1>3. \A k \in 1 .. Len(q) : k = 1 \/ (k - 1 \in 1 .. Len(p) /\ k - 1 > 0 /\ p[k - 1] = q[k])
  BY <1>1
<1>4. \A i : EndsAfter(q, 0, i) => EndsAfter(p, 0, i) \/ (h.t \in Ending /\ h.i = i)
  BY <1>1, <1>3 DEF EndsAfter
<1>5. \A i : Ends(q, i) => Ends(p, i) \/ (h.t \in Ending /\ h.i = i)
  BY <1>1, <1>3 DEF Ends
<1>6. \A i : EndsAfter(q, 1, i) => EndsAfter(p, 0, i) /\ Ends(p, i)
  BY <1>1, <1>3 DEF EndsAfter, Ends
<1>7. ASSUME NEW i, NEW j \in 1 .. Len(p), EndsAfter(q, j + 1, i) PROVE EndsAfter(p, j, i)
  <2>1. PICK k \in 1 .. Len(q) : k > j + 1 /\ q[k].t \in Ending /\ q[k].i = i
    BY <1>7 DEF EndsAfter
  <2>2. k - 1 \in 1 .. Len(p) /\ k - 1 > j /\ p[k - 1] = q[k]
    BY <1>1, <1>3, <2>1
  <2> QED BY <2>1, <2>2 DEF EndsAfter
<1>8. \A i : Opens(q, i) => Opens(p, i) \/ (h.t \in Opening /\ h.i = i)
  BY <1>1, <1>3 DEF Opens
<1>9. \A T : HasType(p, T) => HasType(q, T)
  BY <1>2 DEF HasType
<1> QED BY <1>1, <1>2, <1>4, <1>5, <1>6, <1>7, <1>8, <1>9 DEF p, h

(* A loop that has finished only stops.                                         *)
LEMMA DoneStays ==
    ASSUME Base, Loop \/ CancelClient, Finished(proc)
    PROVE  Finished(proc') /\ proc'.pc = "over" /\ next' = next /\ emitted' = emitted
<1>1. proc \in ProcType /\ proc.then = "done" /\ proc.out = <<>> /\ proc.pc \in {"send", "over"}
      /\ orch # "spawned"
  BY DEF Base, LoopFacts, LoopType, StartInv, Finished
<1>2. proc' = [proc EXCEPT !.pc = "over"] \/ proc' = [proc EXCEPT !.pc = "over", !.out = <<>>]
  BY <1>1
     DEF Loop, CancelClient, OrchestratorStart, StartTurn, ReasoningChunk, ToolChunk, ContentChunk, UsageChunk,
         StreamFails, DoneChunk, ToolStart, ToolRan, ToolAck, Send, TellClient, Fail
<1>3. next' = next /\ emitted' = emitted
  BY <1>1
     DEF Loop, CancelClient, OrchestratorStart, StartTurn, ReasoningChunk, ToolChunk, ContentChunk, UsageChunk,
         StreamFails, DoneChunk, ToolStart, ToolRan, ToolAck, Send, TellClient, Fail
<1> QED BY <1>1, <1>2, <1>3 DEF ProcType, Finished
-----------------------------------------------------------------------------
(* The end of the response comes last. *)

(* A step of the loop keeps it last.                                            *)
LEMMA DoneLoop ==
    ASSUME Base, DoneInv, Loop \/ CancelClient
    PROVE  DoneInv'
<1>1. /\ DraftStep \/ DropStep \/ SendStep
      /\ storageQ \in Seq(Sent) /\ proc.out \in Seq(Sent)
  BY LoopBase, OrderTypes
<1>2. Receiving' <=> Receiving
  BY <1>1 DEF DraftStep, DropStep, SendStep, TablesSame, Receiving
<1>3. ASSUME Receiving, NEW k \in 1 .. Len(storageQ), storageQ[k].t = "ResponseDone"
      PROVE  Finished(proc') /\ Stopped' /\ ~SendStep /\ proc.pc # "fail"
  <2>1. Finished(proc)
    BY <1>3 DEF DoneInv
  <2>2. proc.out = <<>> /\ proc.pc # "fail"
    BY <2>1 DEF Finished
  <2>3. Finished(proc') /\ proc'.pc = "over"
    BY <2>1, DoneStays
  <2> QED BY <2>2, <2>3 DEF Stopped, SendStep
<1>4. CASE DraftStep
  <2>1. storageQ' = storageQ /\ ~Stopped' /\ DraftDone(proc'.out)
    BY <1>4 DEF DraftStep, Drafts
  <2>2. Receiving => \A k \in 1 .. Len(storageQ) : storageQ[k].t # "ResponseDone"
    BY <1>3, <2>1
  <2> QED BY <1>2, <2>1, <2>2 DEF DoneInv, DraftDone
<1>5. CASE DropStep
  <2>1. /\ proc'.out = <<>>
        /\ storageQ' = storageQ \/ (proc.pc = "fail" /\ storageQ' = Append(storageQ, Msg("Error", 0)))
    BY <1>5 DEF DropStep, Drops
  <2>2. Len(proc'.out) = 0
    BY <2>1
  <2>3. CASE storageQ' = storageQ
    BY <1>2, <1>3, <2>2, <2>3 DEF DoneInv
  <2>4. CASE proc.pc = "fail" /\ storageQ' = Append(storageQ, Msg("Error", 0))
    <3> DEFINE m == Msg("Error", 0)
    <3>1. m \in Sent /\ m.t = "Error" /\ storageQ' = Append(storageQ, m)
      BY <2>4, SentMessages DEF Bare
    <3> HIDE DEF m
    <3>2. \A j \in 1 .. Len(storageQ') : (j \in 1 .. Len(storageQ) /\ storageQ'[j] = storageQ[j]) \/ storageQ'[j] = m
      BY <1>1, <3>1, AppendEnds
    <3>3. Receiving => \A k \in 1 .. Len(storageQ') : storageQ'[k].t # "ResponseDone"
      BY <1>3, <2>4, <3>1, <3>2
    <3> QED BY <1>2, <2>2, <3>3 DEF DoneInv
  <2> QED BY <2>1, <2>3, <2>4
<1>6. CASE SendStep
  <2> DEFINE m == Head(proc.out)
  <2>1. proc.out # <<>> /\ storageQ' = Append(storageQ, m) /\ m \in Sent
    BY <1>1, <1>6, TailIs DEF SendStep
  <2>2. proc'.out = Tail(proc.out) /\ proc'.then = proc.then /\ proc'.pc = "send"
    BY <1>6, SendKeeps DEF Base
  <2>3. /\ \A j \in 1 .. Len(proc'.out) : j + 1 \in 1 .. Len(proc.out) /\ proc'.out[j] = proc.out[j + 1]
        /\ m = proc.out[1] /\ 1 \in 1 .. Len(proc.out) /\ Len(proc'.out) = Len(proc.out) - 1 /\ Len(proc.out) \in Nat
        /\ proc'.out \in Seq(Sent)
    BY <1>1, <2>1, <2>2, TailEnds, TailIs
  <2> HIDE DEF m
  <2>4. /\ \A j \in 1 .. Len(storageQ') :
             (j \in 1 .. Len(storageQ) /\ storageQ'[j] = storageQ[j]) \/ (j = Len(storageQ) + 1 /\ storageQ'[j] = m)
        /\ Len(storageQ) \in Nat /\ Len(storageQ') = Len(storageQ) + 1
    BY <1>1, <2>1, AppendEnds, AppendIs
  <2>5. ASSUME Receiving, NEW k \in 1 .. Len(storageQ'), storageQ'[k].t = "ResponseDone"
        PROVE  Finished(proc') /\ \A j \in 1 .. Len(storageQ') : j > k => storageQ'[j].t = "Cancelled"
    <3>1. k = Len(storageQ) + 1 /\ m.t = "ResponseDone"
      BY <1>3, <1>6, <2>4, <2>5
    <3>2. 1 = Len(proc.out) /\ proc.then = "done"
      BY <2>3, <3>1 DEF DoneInv
    <3>3. Len(proc'.out) = 0
      BY <2>3, <3>2
    <3>4. proc'.out = <<>>
      BY <2>3, <3>3, EmptySeq
    <3>5. \A j \in 1 .. Len(storageQ') : ~(j > k)
      BY <2>4, <3>1
    <3> QED BY <2>2, <3>2, <3>4, <3>5 DEF Finished
  <2>6. \A k \in 1 .. Len(proc'.out) : proc'.out[k].t = "ResponseDone" => k = Len(proc'.out) /\ proc'.then = "done"
    BY <2>2, <2>3 DEF DoneInv
  <2> QED BY <1>2, <2>5, <2>6 DEF DoneInv
<1> QED BY <1>1, <1>4, <1>5, <1>6

(* Every step keeps it last.                                                    *)
LEMMA DoneStep ==
    ASSUME StreamInv, DoneInv, [Next]_vars
    PROVE  DoneInv'
<1>0. Base /\ storageQ \in Seq(Sent)
  BY OrderTypes DEF StreamInv
<1>1. CASE Loop \/ CancelClient
  BY <1>0, <1>1, DoneLoop
<1>2. CASE StoreItem
  <2>1. storageQ # <<>> /\ storageQ' = Tail(storageQ) /\ proc' = proc /\ Receiving
    BY <1>0, <1>2, StoreItemIs DEF Receiving
  <2>2. \A j \in 1 .. Len(storageQ') : j + 1 \in 1 .. Len(storageQ) /\ storageQ'[j] = storageQ[j + 1]
    BY <1>0, <2>1, TailEnds
  <2> QED BY <2>1, <2>2 DEF DoneInv
<1>3. CASE StoreEnd \/ StoreStatus \/ StoreSettle
  <2>1. ~Receiving' /\ proc' = proc
    BY <1>0, <1>3, StoreEndIs, StoreStatusIs, StoreSettleIs DEF Receiving
  <2> QED BY <2>1 DEF DoneInv
<1>4. CASE ~(Loop \/ CancelClient) /\ ~Storage
  <2> DEFINE m == Msg("Cancelled", 0)
  <2>1. /\ proc' = proc /\ (Receiving' => Receiving)
        /\ storageQ' = storageQ \/ storageQ' = Append(storageQ, m)
    BY <1>4, Bystanders DEF Receiving
  <2>2. m \in Sent /\ m.t = "Cancelled"
    BY SentMessages DEF Bare
  <2> HIDE DEF m
  <2>3. CASE storageQ' = storageQ
    BY <2>1, <2>3 DEF DoneInv
  <2>4. CASE storageQ' = Append(storageQ, m)
    <3>1. \A j \in 1 .. Len(storageQ') : (j \in 1 .. Len(storageQ) /\ storageQ'[j] = storageQ[j]) \/ storageQ'[j] = m
      BY <1>0, <2>2, <2>4, AppendEnds
    <3> QED BY <2>1, <2>2, <3>1 DEF DoneInv
  <2> QED BY <2>1, <2>3, <2>4
<1> QED BY <1>1, <1>2, <1>3, <1>4 DEF Storage
-----------------------------------------------------------------------------
(* What is open will be ended. *)

(* What the loop drafts ends what it drops of its own accord.                   *)
LEMMA OwedDraft ==
    ASSUME Base, OwedInv, DraftStep
    PROVE  OwedInv'
<1>1. /\ Drafts /\ DraftEnds(proc'.out) /\ store' = store /\ storageQ' = storageQ /\ ~Stopped /\ ~Stopped'
      /\ proc.out = <<>> /\ (Receiving' <=> Receiving) /\ Healthy
      /\ store.pend \subseteq Items /\ storageQ \in Seq(Sent)
  BY OrderTypes DEF DraftStep, TablesSame, Drafts, Receiving, Healthy, Base, TableType, StoreType
<1>2. \A i \in Items : Owes(proc, i) => Owes(proc', i)
  BY <1>1 DEF DraftEnds, Owes, Ends
<1> SUFFICES ASSUME Receiving PROVE
       /\ \A i \in store.pend : EndsAfter(storageQ, 0, i) \/ Owes(proc', i)
       /\ \A j \in 1 .. Len(storageQ) : storageQ[j].t \in Starting \union Deltas =>
            EndsAfter(storageQ, j, storageQ[j].i) \/ Owes(proc', storageQ[j].i)
       /\ \A j \in 1 .. Len(proc'.out) : proc'.out[j].t \in Starting \union Deltas =>
            EndsAfter(proc'.out, j, proc'.out[j].i) \/ Live(proc', proc'.out[j].i)
  BY <1>1 DEF OwedInv
<1>3. \A i \in store.pend : EndsAfter(storageQ, 0, i) \/ Owes(proc', i)
  BY <1>1, <1>2 DEF OwedInv
<1>4. ASSUME NEW j \in 1 .. Len(storageQ), storageQ[j].t \in Starting \union Deltas
      PROVE  EndsAfter(storageQ, j, storageQ[j].i) \/ Owes(proc', storageQ[j].i)
  <2>1. PICK x \in Items : x = storageQ[j].i
    BY <1>1, <1>4, OrderTypes DEF Opening, Following
  <2>2. EndsAfter(storageQ, j, x) \/ Owes(proc, x)
    BY <1>1, <1>4, <2>1 DEF OwedInv
  <2> QED BY <1>2, <2>1, <2>2
<1> QED BY <1>1, <1>3, <1>4 DEF DraftEnds

(* A message more in the channel, and nothing of the loop's that mattered lost. *)
LEMMA OwedKept ==
    ASSUME OwedInv, storageQ \in Seq(Sent), Receiving' => Receiving, Healthy' => Healthy,
           store'.pend = store.pend,
           \/ storageQ' = storageQ
           \/ \E m \in Sent : m.t \in Bare /\ storageQ' = Append(storageQ, m),
           \/ proc' = proc
           \/ Receiving /\ Healthy' => proc'.out = <<>> /\ \A i : ~Owes(proc, i)
    PROVE  OwedInv'
<1> SUFFICES ASSUME Receiving, Healthy, Healthy' PROVE
       /\ \A i \in store.pend : EndsAfter(storageQ', 0, i) \/ Owes(proc', i)
       /\ \A j \in 1 .. Len(storageQ') : storageQ'[j].t \in Starting \union Deltas =>
            EndsAfter(storageQ', j, storageQ'[j].i) \/ Owes(proc', storageQ'[j].i)
       /\ \A j \in 1 .. Len(proc'.out) : proc'.out[j].t \in Starting \union Deltas =>
            EndsAfter(proc'.out, j, proc'.out[j].i) \/ Live(proc', proc'.out[j].i)
  BY DEF OwedInv
<1>1. \A i : Owes(proc, i) => Owes(proc', i)
  OBVIOUS
<1>2. /\ \A i : \A j \in 0 .. Len(storageQ) : EndsAfter(storageQ, j, i) => EndsAfter(storageQ', j, i)
      /\ \A j \in 1 .. Len(storageQ') : storageQ'[j].t \in Starting \union Deltas =>
            j \in 1 .. Len(storageQ) /\ storageQ'[j] = storageQ[j]
      /\ Len(storageQ) \in Nat
  <2>1. CASE storageQ' = storageQ
    BY <2>1
  <2>2. ASSUME NEW m \in Sent, m.t \in Bare, storageQ' = Append(storageQ, m)
        PROVE  /\ \A i : \A j \in 0 .. Len(storageQ) : EndsAfter(storageQ, j, i) => EndsAfter(storageQ', j, i)
               /\ \A j \in 1 .. Len(storageQ') : storageQ'[j].t \in Starting \union Deltas =>
                     j \in 1 .. Len(storageQ) /\ storageQ'[j] = storageQ[j]
               /\ Len(storageQ) \in Nat
    <3>1. m.t \notin Starting \union Deltas
      BY <2>2 DEF Bare, Starting, Deltas
    <3> QED BY <2>2, <3>1, AppendEnds
  <2> QED BY <2>1, <2>2
<1>3. \A i \in store.pend : EndsAfter(storageQ', 0, i) \/ Owes(proc', i)
  BY <1>1, <1>2 DEF OwedInv
<1>4. ASSUME NEW j \in 1 .. Len(storageQ'), storageQ'[j].t \in Starting \union Deltas
      PROVE  EndsAfter(storageQ', j, storageQ'[j].i) \/ Owes(proc', storageQ'[j].i)
  <2>1. j \in 1 .. Len(storageQ) /\ j \in 0 .. Len(storageQ) /\ storageQ'[j] = storageQ[j]
    BY <1>2, <1>4
  <2>2. EndsAfter(storageQ, j, storageQ[j].i) \/ Owes(proc, storageQ[j].i)
    BY <1>4, <2>1 DEF OwedInv
  <2> QED BY <1>1, <1>2, <2>1, <2>2
<1>5. \A j \in 1 .. Len(proc'.out) : proc'.out[j].t \in Starting \union Deltas =>
            EndsAfter(proc'.out, j, proc'.out[j].i) \/ Live(proc', proc'.out[j].i)
  BY DEF OwedInv
<1> QED BY <1>3, <1>4, <1>5

(* A message sent is still to be ended behind it.                               *)
LEMMA OwedSend ==
    ASSUME Base, OwedInv, SendStep
    PROVE  OwedInv'
<1> DEFINE m == Head(proc.out)
<1>1. /\ storageQ \in Seq(Sent) /\ proc.out \in Seq(Sent) /\ proc.out # <<>> /\ store' = store
      /\ storageQ' = Append(storageQ, m) /\ m \in Sent /\ (Receiving' <=> Receiving)
  BY OrderTypes, TailIs DEF SendStep, TablesSame, Receiving
<1>2. /\ ~Stopped /\ ~Stopped' /\ proc'.out = Tail(proc.out) /\ Healthy
      /\ \A i : Live(proc', i) <=> Live(proc, i)
  BY SendKeeps DEF Base, Healthy
<1>3. /\ \A i : Ends(proc.out, i) => Ends(proc'.out, i) \/ (m.t \in Ending /\ m.i = i)
      /\ \A i : EndsAfter(proc.out, 1, i) => Ends(proc'.out, i)
      /\ \A i : \A j \in 1 .. Len(proc'.out) : EndsAfter(proc.out, j + 1, i) => EndsAfter(proc'.out, j, i)
      /\ \A j \in 1 .. Len(proc'.out) : j + 1 \in 1 .. Len(proc.out) /\ proc'.out[j] = proc.out[j + 1]
      /\ m = proc.out[1] /\ 1 \in 1 .. Len(proc.out)
  BY <1>1, <1>2, TailEnds
<1> HIDE DEF m
<1>4. /\ \A i : \A j \in 0 .. Len(storageQ) : EndsAfter(storageQ, j, i) => EndsAfter(storageQ', j, i)
      /\ \A i : \A j \in 0 .. Len(storageQ) : m.t \in Ending /\ m.i = i => EndsAfter(storageQ', j, i)
      /\ \A j \in 1 .. Len(storageQ') :
           (j \in 1 .. Len(storageQ) /\ storageQ'[j] = storageQ[j]) \/ (j = Len(storageQ) + 1 /\ storageQ'[j] = m)
      /\ Len(storageQ) \in Nat
  BY <1>1, AppendEnds
<1>5. \A i : Owes(proc, i) => Owes(proc', i) \/ (m.t \in Ending /\ m.i = i)
  BY <1>2, <1>3 DEF Owes
<1> SUFFICES ASSUME Receiving PROVE
       /\ \A i \in store.pend : EndsAfter(storageQ', 0, i) \/ Owes(proc', i)
       /\ \A j \in 1 .. Len(storageQ') : storageQ'[j].t \in Starting \union Deltas =>
            EndsAfter(storageQ', j, storageQ'[j].i) \/ Owes(proc', storageQ'[j].i)
       /\ \A j \in 1 .. Len(proc'.out) : proc'.out[j].t \in Starting \union Deltas =>
            EndsAfter(proc'.out, j, proc'.out[j].i) \/ Live(proc', proc'.out[j].i)
  BY <1>1 DEF OwedInv
<1>6. \A i \in store.pend : EndsAfter(storageQ', 0, i) \/ Owes(proc', i)
  <2>1. 0 \in 0 .. Len(storageQ)
    BY <1>4
  <2> QED BY <1>2, <1>4, <1>5, <2>1 DEF OwedInv
<1>7. ASSUME NEW j \in 1 .. Len(storageQ'), storageQ'[j].t \in Starting \union Deltas
      PROVE  EndsAfter(storageQ', j, storageQ'[j].i) \/ Owes(proc', storageQ'[j].i)
  <2>1. CASE j \in 1 .. Len(storageQ) /\ storageQ'[j] = storageQ[j]
    <3>1. EndsAfter(storageQ, j, storageQ[j].i) \/ Owes(proc, storageQ[j].i)
      BY <1>2, <1>7, <2>1 DEF OwedInv
    <3>2. j \in 0 .. Len(storageQ)
      BY <1>4, <2>1
    <3> QED BY <1>4, <1>5, <2>1, <3>1, <3>2
  <2>2. CASE storageQ'[j] = m
    <3>1. EndsAfter(proc.out, 1, m.i) \/ Live(proc, m.i)
      BY <1>2, <1>3, <1>7, <2>2 DEF OwedInv
    <3> QED BY <1>2, <1>3, <2>2, <3>1 DEF Owes
  <2> QED BY <1>4, <1>7, <2>1, <2>2
<1>8. \A j \in 1 .. Len(proc'.out) : proc'.out[j].t \in Starting \union Deltas =>
            EndsAfter(proc'.out, j, proc'.out[j].i) \/ Live(proc', proc'.out[j].i)
  BY <1>2, <1>3 DEF OwedInv
<1> QED BY <1>6, <1>7, <1>8

(* What the storage task takes as open is ended behind it.                      *)
LEMMA OwedTake ==
    ASSUME Base, OwedInv, StoreItem
    PROVE  OwedInv'
<1> DEFINE m == Head(storageQ)
<1>1. /\ storageQ \in Seq(Sent) /\ storageQ # <<>> /\ storageQ' = Tail(storageQ) /\ proc' = proc /\ Receiving
      /\ Takes(m) /\ (Stopped' <=> Stopped)
  BY StoreItemIs, OrderTypes DEF Receiving, Stopped
<1>2. /\ \A i : EndsAfter(storageQ, 0, i) => EndsAfter(storageQ', 0, i) \/ (m.t \in Ending /\ m.i = i)
      /\ \A i : EndsAfter(storageQ, 1, i) => EndsAfter(storageQ', 0, i)
      /\ \A i : \A j \in 1 .. Len(storageQ') : EndsAfter(storageQ, j + 1, i) => EndsAfter(storageQ', j, i)
      /\ \A T : HasType(storageQ', T) => HasType(storageQ, T)
      /\ \A j \in 1 .. Len(storageQ') : j + 1 \in 1 .. Len(storageQ) /\ storageQ'[j] = storageQ[j + 1]
      /\ m = storageQ[1] /\ 1 \in 1 .. Len(storageQ)
  BY <1>1, TailEnds
<1>3. Healthy' => Healthy
  BY <1>1, <1>2 DEF Healthy
<1> HIDE DEF m
<1>4. \A i \in store'.pend : \/ i \in store.pend /\ ~(m.t \in Ending /\ m.i = i)
                             \/ m.t \in Starting \union Deltas /\ m.i = i
  <2>1. m.t \in Starting \union Deltas => m.t \notin Ending
    BY DEF Starting, Deltas, Ending
  <2>2. CASE TakesStart(m) \/ TakesDelta(m)
    BY <2>1, <2>2 DEF TakesStart, TakesDelta
  <2>3. CASE TakesUsage(m) \/ TakesTool(m)
    BY <2>3 DEF TakesUsage, TakesTool, Ending, Tooling
  <2>4. CASE TakesEnd(m)
    BY <2>4 DEF TakesEnd
  <2> QED BY <1>1, <2>2, <2>3, <2>4 DEF Takes
<1> SUFFICES ASSUME Healthy PROVE
       /\ \A i \in store'.pend : EndsAfter(storageQ', 0, i) \/ Owes(proc, i)
       /\ \A j \in 1 .. Len(storageQ') : storageQ'[j].t \in Starting \union Deltas =>
            EndsAfter(storageQ', j, storageQ'[j].i) \/ Owes(proc, storageQ'[j].i)
       /\ \A j \in 1 .. Len(proc.out) : proc.out[j].t \in Starting \union Deltas =>
            EndsAfter(proc.out, j, proc.out[j].i) \/ Live(proc, proc.out[j].i)
  BY <1>1, <1>3 DEF OwedInv
<1>5. ASSUME NEW i \in store'.pend PROVE EndsAfter(storageQ', 0, i) \/ Owes(proc, i)
  <2>1. CASE i \in store.pend /\ ~(m.t \in Ending /\ m.i = i)
    BY <1>1, <1>2, <2>1 DEF OwedInv
  <2>2. CASE m.t \in Starting \union Deltas /\ m.i = i
    BY <1>1, <1>2, <2>2 DEF OwedInv
  <2> QED BY <1>4, <2>1, <2>2
<1>6. \A j \in 1 .. Len(storageQ') : storageQ'[j].t \in Starting \union Deltas =>
            EndsAfter(storageQ', j, storageQ'[j].i) \/ Owes(proc, storageQ'[j].i)
  BY <1>1, <1>2 DEF OwedInv
<1> QED BY <1>1, <1>5, <1>6 DEF OwedInv

(* Every step keeps it owed.                                                    *)
LEMMA OwedStep ==
    ASSUME StreamInv, DoneInv, OwedInv, [Next]_vars
    PROVE  OwedInv'
<1>0. Base /\ storageQ \in Seq(Sent)
  BY OrderTypes DEF StreamInv
<1>1. CASE Loop \/ CancelClient
  <2>1. DraftStep \/ DropStep \/ SendStep
    BY <1>0, <1>1, LoopBase
  <2>2. CASE DropStep
    <3> DEFINE m == Msg("Error", 0)
    <3>1. /\ Stopped' /\ proc'.out = <<>> /\ store' = store /\ (Receiving' <=> Receiving)
          /\ storageQ' = storageQ \/ storageQ' = Append(storageQ, m)
      BY <2>2 DEF DropStep, Drops, TablesSame, Receiving
    <3>2. m \in Sent /\ m.t \in Bare /\ m.t \notin {"ResponseDone"}
      BY SentMessages DEF Bare
    <3> HIDE DEF m
    <3>3. HasType(storageQ', {"ResponseDone"}) => HasType(storageQ, {"ResponseDone"})
      <4>1. CASE storageQ' = Append(storageQ, m)
        BY <1>0, <3>2, <4>1, AppendEnds
      <4> QED BY <3>1, <4>1
    <3>4. Healthy' => Healthy /\ HasType(storageQ, {"ResponseDone"})
      BY <3>1, <3>3 DEF Healthy
    <3>5. Receiving /\ Healthy' => Finished(proc)
      BY <3>4 DEF DoneInv, HasType
    <3>6. Finished(proc) => \A i : ~Owes(proc, i)
      BY DEF Finished, Owes, Ends, Live
    <3> QED BY <1>0, <3>1, <3>2, <3>4, <3>5, <3>6, OwedKept
  <2> QED BY <1>0, <2>1, <2>2, OwedDraft, OwedSend
<1>2. CASE StoreItem
  BY <1>0, <1>2, OwedTake
<1>3. CASE StoreEnd \/ StoreStatus \/ StoreSettle
  <2>1. ~Receiving'
    BY <1>0, <1>3, StoreEndIs, StoreStatusIs, StoreSettleIs DEF Receiving
  <2> QED BY <2>1 DEF OwedInv
<1>4. CASE ~(Loop \/ CancelClient) /\ ~Storage
  <2> DEFINE m == Msg("Cancelled", 0)
  <2>1. /\ proc' = proc /\ (Receiving' => Receiving) /\ store'.pend = store.pend
        /\ storageQ' = storageQ \/ storageQ' = Append(storageQ, m)
    BY <1>4, Bystanders DEF Receiving
  <2>2. m \in Sent /\ m.t \in Bare /\ m.t \notin {"ResponseDone"}
    BY SentMessages DEF Bare
  <2> HIDE DEF m
  <2>3. Healthy' => Healthy
    <3>1. CASE storageQ' = Append(storageQ, m)
      BY <1>0, <2>1, <2>2, <3>1, AppendEnds DEF Healthy, Stopped
    <3> QED BY <2>1, <3>1 DEF Healthy, Stopped
  <2> QED BY <1>0, <2>1, <2>2, <2>3, OwedKept
<1> QED BY <1>1, <1>2, <1>3, <1>4 DEF Storage
-----------------------------------------------------------------------------
(* What was sent of an item is stored or queued. *)

Adds(m, i) == IF m.t \in Deltas /\ m.i = i THEN 1 ELSE 0

(* A message more adds its delta at the end ...                                 *)
LEMMA AddsAppend ==
    ASSUME NEW q \in Seq(Sent), NEW m \in Sent, NEW i, NEW a, NEW b, NEW f, AddsUp(f, q, i, a, b),
           Adds(m, i) = 1 => ~HasType(q, {"ResponseDone"})
    PROVE  \E g : AddsUp(g, Append(q, m), i, a, b + Adds(m, i))
<1> DEFINE p == Append(q, m)
           d == Adds(m, i)
           g == [k \in 0 .. Len(q) + 1 |-> IF k <= Len(q) THEN f[k] ELSE b + d]
<1>1. /\ Len(p) = Len(q) + 1 /\ Len(q) \in Nat
      /\ \A k \in 1 .. Len(p) : (k \in 1 .. Len(q) /\ p[k] = q[k]) \/ (k = Len(q) + 1 /\ p[k] = m)
  BY AppendIs, AppendEnds
<1>2. d \in {0, 1} /\ (d = 1 => ~HasType(q, {"ResponseDone"}))
  BY DEF Adds
<1>3. /\ f \in [0 .. Len(q) -> Nat] /\ f[0] = a /\ f[Len(q)] = b /\ b \in Nat
      /\ \A k \in 1 .. Len(q) : f[k] = f[k - 1] + Adds(q[k], i)
      /\ \A k \in 1 .. Len(q) : q[k].t = "ResponseDone" => f[k] = b
  BY <1>1 DEF AddsUp, Adds
<1>4. Adds(m, i) = d /\ (m.t = "ResponseDone" => d = 0)
  BY DEF Adds, Deltas
<1> HIDE DEF p, d
<1>5. /\ g \in [0 .. Len(p) -> Nat] /\ g[0] = a /\ g[Len(p)] = b + d
      /\ \A k \in 0 .. Len(q) : g[k] = f[k]
  BY <1>1, <1>2, <1>3
<1> HIDE DEF g
<1>6. ASSUME NEW k \in 1 .. Len(p) PROVE g[k] = g[k - 1] + Adds(p[k], i)
  <2>1. CASE k \in 1 .. Len(q) /\ p[k] = q[k]
    <3>1. k \in 0 .. Len(q) /\ k - 1 \in 0 .. Len(q)
      BY <1>1, <2>1
    <3> QED BY <1>3, <1>5, <2>1, <3>1
  <2>2. CASE k = Len(q) + 1 /\ p[k] = m
    <3>1. k - 1 = Len(q) /\ Len(q) \in 0 .. Len(q) /\ k = Len(p)
      BY <1>1, <2>2
    <3> QED BY <1>3, <1>4, <1>5, <2>2, <3>1
  <2> QED BY <1>1, <1>6, <2>1, <2>2
<1>7. ASSUME NEW k \in 1 .. Len(p), p[k].t = "ResponseDone" PROVE g[k] = b + d
  <2>1. CASE k \in 1 .. Len(q) /\ p[k] = q[k]
    <3>1. HasType(q, {"ResponseDone"}) /\ k \in 0 .. Len(q)
      BY <1>1, <1>7, <2>1 DEF HasType
    <3> QED BY <1>2, <1>3, <1>5, <1>7, <2>1, <3>1
  <2>2. CASE k = Len(q) + 1 /\ p[k] = m
    BY <1>1, <1>5, <2>2
  <2> QED BY <1>1, <1>7, <2>1, <2>2
<1>8. AddsUp(g, p, i, a, b + d)
  BY <1>5, <1>6, <1>7 DEF AddsUp, Adds
<1> QED BY <1>8 DEF p, d

(* ... and the first message taken adds its own at the start.                   *)
LEMMA AddsTail ==
    ASSUME NEW q \in Seq(Sent), q # <<>>, NEW i, NEW a, NEW b, NEW f, AddsUp(f, q, i, a, b)
    PROVE  \E g : AddsUp(g, Tail(q), i, a + Adds(Head(q), i), b)
<1> DEFINE p == Tail(q)
           d == Adds(Head(q), i)
           g == [k \in 0 .. Len(q) - 1 |-> f[k + 1]]
<1>1. /\ Len(p) = Len(q) - 1 /\ Len(q) \in Nat /\ 1 \in 1 .. Len(q) /\ Head(q) = q[1]
      /\ \A k \in 1 .. Len(p) : k + 1 \in 1 .. Len(q) /\ p[k] = q[k + 1]
  BY TailEnds
<1>2. /\ f \in [0 .. Len(q) -> Nat] /\ f[0] = a /\ f[Len(q)] = b
      /\ \A k \in 1 .. Len(q) : f[k] = f[k - 1] + Adds(q[k], i)
      /\ \A k \in 1 .. Len(q) : q[k].t = "ResponseDone" => f[k] = b
  BY DEF AddsUp, Adds
<1>3. f[1] = a + d
  BY <1>1, <1>2
<1> HIDE DEF p, d
<1>4. /\ g \in [0 .. Len(p) -> Nat] /\ \A k \in 0 .. Len(p) : g[k] = f[k + 1]
  BY <1>1, <1>2
<1> HIDE DEF g
<1>5. g[0] = a + d /\ g[Len(p)] = b
  BY <1>1, <1>2, <1>3, <1>4
<1>6. ASSUME NEW k \in 1 .. Len(p) PROVE g[k] = g[k - 1] + Adds(p[k], i)
  <2>1. k \in 0 .. Len(p) /\ k - 1 \in 0 .. Len(p) /\ (k - 1) + 1 = k /\ (k + 1) - 1 = k
    BY <1>1
  <2>2. g[k] = f[k + 1] /\ g[k - 1] = f[k]
    BY <1>4, <2>1
  <2>3. f[k + 1] = f[k] + Adds(q[k + 1], i)
    BY <1>1, <1>2, <2>1
  <2> QED BY <1>1, <2>2, <2>3
<1>7. ASSUME NEW k \in 1 .. Len(p), p[k].t = "ResponseDone" PROVE g[k] = b
  <2>1. k \in 0 .. Len(p)
    BY <1>1
  <2> QED BY <1>1, <1>2, <1>4, <1>7, <2>1
<1>8. AddsUp(g, p, i, a + d, b)
  BY <1>4, <1>5, <1>6, <1>7 DEF AddsUp, Adds
<1> QED BY <1>8 DEF p, d

(* Only a send emits.                                                           *)
LEMMA LoopEmits ==
    ASSUME Loop \/ CancelClient
    PROVE  SendStep \/ emitted' = emitted
BY DEF Loop, CancelClient, OrchestratorStart, StartTurn, ReasoningChunk, ToolChunk, ContentChunk, UsageChunk,
       StreamFails, DoneChunk, ToolStart, ToolRan, ToolAck, Send, TellClient, Fail, Quiet, SendStep, TablesSame

(* The text of an item is kept by whatever leaves the storage task alone.       *)
LEMMA TextKept ==
    ASSUME Base, TextInv, Receiving' => Receiving, store'.at = store.at, store'.text = store.text, emitted' = emitted,
           \/ storageQ' = storageQ
           \/ \E m \in Sent : m.t \in Bare /\ storageQ' = Append(storageQ, m)
    PROVE  TextInv'
<1>1. storageQ \in Seq(Sent) /\ emitted \in [Items -> Nat]
  BY OrderTypes DEF Base, LoopFacts, LoopType
<1>2. ASSUME Receiving, NEW i \in Items PROVE \E f : AddsUp(f, storageQ', i, store.text[i], emitted[i])
  <2>1. PICK f : AddsUp(f, storageQ, i, store.text[i], emitted[i])
    BY <1>2 DEF TextInv
  <2>2. ASSUME NEW m \in Sent, m.t \in Bare, storageQ' = Append(storageQ, m)
        PROVE  \E g : AddsUp(g, storageQ', i, store.text[i], emitted[i])
    <3>1. Adds(m, i) = 0
      BY <2>2 DEF Adds, Bare, Deltas
    <3>2. emitted[i] + Adds(m, i) = emitted[i]
      BY <1>1, <3>1
    <3> QED BY <1>1, <2>1, <2>2, <3>1, <3>2, AddsAppend
  <2> QED BY <2>1, <2>2
<1> QED BY <1>2 DEF TextInv

(* A delta sent is queued.                                                      *)
LEMMA TextSend ==
    ASSUME Base, DoneInv, TextInv, SendStep
    PROVE  TextInv'
<1> DEFINE m == Head(proc.out)
<1>1. /\ storageQ \in Seq(Sent) /\ proc.out \in Seq(Sent) /\ proc.out # <<>> /\ store' = store
      /\ storageQ' = Append(storageQ, m) /\ m \in Sent /\ (Receiving' <=> Receiving) /\ emitted \in [Items -> Nat]
      /\ emitted' = IF m.t \in Deltas THEN [emitted EXCEPT ![m.i] = emitted[m.i] + 1] ELSE emitted
  BY OrderTypes, TailIs DEF SendStep, TablesSame, Receiving, Base, LoopFacts, LoopType, Deltas
<1> HIDE DEF m
<1>2. Receiving => ~HasType(storageQ, {"ResponseDone"})
  BY <1>1 DEF DoneInv, Finished, HasType
<1>3. \A i \in Items : emitted'[i] = emitted[i] + Adds(m, i)
  BY <1>1 DEF Adds
<1>4. ASSUME Receiving, NEW i \in Items PROVE \E g : AddsUp(g, storageQ', i, store.text[i], emitted'[i])
  <2>1. PICK f : AddsUp(f, storageQ, i, store.text[i], emitted[i])
    BY <1>4 DEF TextInv
  <2> QED BY <1>1, <1>2, <1>3, <1>4, <2>1, AddsAppend
<1> QED BY <1>1, <1>4 DEF TextInv

(* A delta taken is stored.                                                     *)
LEMMA TextTake ==
    ASSUME StreamInv, TextInv, StoreItem
    PROVE  TextInv'
<1> DEFINE m == Head(storageQ)
<1>1. /\ storageQ \in Seq(Sent) /\ storageQ # <<>> /\ storageQ' = Tail(storageQ) /\ emitted' = emitted /\ Receiving
      /\ Takes(m) /\ Base /\ store.text \in [Items -> Nat] /\ store.at \in [Items -> Nat]
      /\ store.nextAt \in Nat \ {0} /\ store.pc = "recv"
  BY StoreItemIs, OrderTypes DEF StreamInv, Receiving, Base, TableType, StoreType
<1>2. m.t \in Following => store.at[m.i] # 0
  BY <1>1, HeadBegun
<1> HIDE DEF m
<1>3. \A i \in Items : store'.text[i] = store.text[i] + Adds(m, i)
  <2>1. CASE TakesDelta(m)
    BY <1>1, <2>1 DEF TakesDelta, Adds
  <2>2. CASE TakesStart(m) \/ TakesUsage(m) \/ TakesEnd(m) \/ TakesTool(m)
    <3>1. m.t \notin Deltas /\ store'.text = store.text
      BY <2>2 DEF TakesStart, TakesUsage, TakesEnd, TakesTool, Starting, Ending, Tooling, Deltas
    <3> QED BY <1>1, <3>1 DEF Adds
  <2> QED BY <1>1, <2>1, <2>2 DEF Takes
<1>4. \A i \in Items : store'.at[i] = 0 => store'.text[i] = 0
  <2>1. CASE TakesStart(m)
    BY <1>1, <2>1 DEF TakesStart, TextInv
  <2>2. CASE TakesDelta(m)
    BY <1>1, <1>2, <2>2 DEF TakesDelta, TextInv, Following
  <2>3. CASE TakesUsage(m) \/ TakesEnd(m) \/ TakesTool(m)
    BY <2>3 DEF TakesUsage, TakesEnd, TakesTool, TextInv
  <2> QED BY <1>1, <2>1, <2>2, <2>3 DEF Takes
<1>5. ASSUME NEW i \in Items PROVE \E g : AddsUp(g, storageQ', i, store'.text[i], emitted[i])
  <2>1. PICK f : AddsUp(f, storageQ, i, store.text[i], emitted[i])
    BY <1>1 DEF TextInv
  <2>2. \E g : AddsUp(g, Tail(storageQ), i, store.text[i] + Adds(Head(storageQ), i), emitted[i])
    BY <1>1, <2>1, AddsTail
  <2> QED BY <1>1, <1>3, <2>2 DEF m
<1> QED BY <1>1, <1>4, <1>5 DEF TextInv

(* Every step keeps count.                                                      *)
LEMMA TextStep ==
    ASSUME StreamInv, DoneInv, TextInv, [Next]_vars
    PROVE  TextInv'
<1>0. Base /\ storageQ \in Seq(Sent)
  BY OrderTypes DEF StreamInv
<1>1. Msg("Error", 0) \in Sent /\ Msg("Error", 0).t \in Bare /\ Msg("Cancelled", 0) \in Sent /\ Msg("Cancelled", 0).t \in Bare
  BY SentMessages DEF Bare
<1>2. CASE Loop \/ CancelClient
  <2>1. CASE SendStep
    BY <1>0, <2>1, TextSend
  <2>2. CASE ~SendStep
    <3>1. /\ store' = store /\ (Receiving' => Receiving) /\ emitted' = emitted
          /\ storageQ' = storageQ \/ storageQ' = Append(storageQ, Msg("Error", 0))
      BY <1>0, <1>2, <2>2, LoopBase, LoopEmits DEF DraftStep, DropStep, TablesSame, Receiving
    <3> QED BY <1>0, <1>1, <3>1, TextKept
  <2> QED BY <2>1, <2>2
<1>3. CASE StoreItem
  BY <1>3, TextTake
<1>4. CASE StoreEnd \/ StoreStatus \/ StoreSettle
  <2>1. ~Receiving' /\ store'.at = store.at /\ store'.text = store.text
    BY <1>0, <1>4, StoreEndIs, StoreStatusIs, StoreSettleIs DEF Receiving
  <2> QED BY <2>1 DEF TextInv
<1>5. CASE ~(Loop \/ CancelClient) /\ ~Storage
  <2>1. /\ emitted' = emitted /\ (Receiving' => Receiving) /\ store'.at = store.at /\ store'.text = store.text
        /\ storageQ' = storageQ \/ storageQ' = Append(storageQ, Msg("Cancelled", 0))
    BY <1>5, Bystanders DEF Receiving
  <2> QED BY <1>0, <1>1, <2>1, TextKept
<1> QED BY <1>2, <1>3, <1>4, <1>5 DEF Storage
-----------------------------------------------------------------------------
(* Without a failure, what is taken is stored. *)

(* Every write of the storage task takes place.                                 *)
LEMMA FaultFree ==
    ASSUME Base, StoreItem, faults' = 0
    PROVE  /\ Head(storageQ).t \in Starting /\ status # "deleted" /\ row[Head(storageQ).i].st = "none" =>
                row'[Head(storageQ).i].st = "in_progress"
           /\ Head(storageQ).t \in Ending => row'[Head(storageQ).i].st # "in_progress"
           /\ /\ Head(storageQ).t \in Tooling /\ status # "deleted" /\ row[Head(storageQ).i].st = "none"
              /\ Head(storageQ).t = "ToolOutput" => row[Head(storageQ).i - 1].st # "none"
              => row'[Head(storageQ).i].st = "completed" /\ row'[Head(storageQ).i].text = 0
<1> DEFINE m == Head(storageQ)
<1>1. /\ m \in Sent /\ faults \in Nat /\ row \in [Items -> RowType] /\ store.at \in [Items -> Nat]
      /\ store.text \in [Items -> Nat]
  BY StoreItemIs DEF Base, TableType, StoreType
<1>2. PICK ok \in BOOLEAN :
         /\ Fault(ok)
         /\ \/ StoreStarted(ok) \/ StoreDelta(ok) \/ StoreDone(ok)
            \/ StoreToolCall(ok) \/ StoreToolOutput(ok)
  BY DEF StoreItem
<1>3. ok
  BY <1>1, <1>2 DEF Fault
<1>4. m.t \in Opening \union Following => m.i \in Items
  BY <1>1, OrderTypes
<1>5. CASE StoreStarted(ok)
  <2>1. m.t \in Starting /\ row' = Inserted(m.i, "in_progress", store.nextAt)
    BY <1>3, <1>5 DEF StoreStarted, Starting
  <2> QED BY <1>1, <1>4, <2>1 DEF Inserted, Starting, Ending, Tooling, Opening
<1>6. CASE StoreDelta(ok)
  <2>1. m.t \notin Starting /\ m.t \notin Ending /\ m.t \notin Tooling
    BY <1>6 DEF StoreDelta, Starting, Ending, Tooling
  <2> QED BY <2>1
<1>7. CASE StoreDone(ok)
  <2> DEFINE made == IF m.t = "MessageDone" THEN Inserted(m.i, "in_progress", store.at[m.i]) ELSE row
  <2>1. m.t \in Ending /\ row' = Finalized(made, {m.i}, "completed")
    BY <1>3, <1>7 DEF StoreDone, Ending
  <2>2. m.i \in Items /\ m.t \notin Starting /\ m.t \notin Tooling
    BY <1>4, <2>1 DEF Ending, Starting, Tooling, Following
  <2>3. made \in [Items -> RowType]
    <3>1. [st |-> "in_progress", at |-> store.at[m.i], text |-> 0] \in RowType
      BY <1>1, <2>2 DEF RowType
    <3> QED BY <1>1, <2>2, <3>1 DEF Inserted
  <2> HIDE DEF made
  <2>4. row'[m.i] = IF made[m.i].st # "none"
                    THEN [made[m.i] EXCEPT !.st = "completed", !.text = store.text[m.i]] ELSE made[m.i]
    BY <2>1, <2>2 DEF Finalized
  <2>5. made[m.i] \in RowType
    BY <2>2, <2>3
  <2>6. row'[m.i].st # "in_progress"
    BY <2>4, <2>5 DEF RowType
  <2> QED BY <2>2, <2>6
<1>8. CASE StoreToolCall(ok)
  <2>1. m.t = "ToolCall" /\ row' = Inserted(m.i, "completed", store.nextAt)
    BY <1>3, <1>8 DEF StoreToolCall
  <2> QED BY <1>1, <1>4, <2>1 DEF Inserted, Starting, Ending, Tooling, Opening
<1>9. CASE StoreToolOutput(ok)
  <2>1. /\ m.t = "ToolOutput"
        /\ row' = IF row[m.i - 1].st # "none" THEN Inserted(m.i, "completed", store.nextAt) ELSE row
    BY <1>3, <1>9 DEF StoreToolOutput
  <2> QED BY <1>1, <1>4, <2>1 DEF Inserted, Starting, Ending, Tooling, Opening
<1> QED BY <1>2, <1>5, <1>6, <1>7, <1>8, <1>9

(* What the loop drafts opens every item it draws.                              *)
LEMMA StoredDraft ==
    ASSUME Base, StoredInv, DraftStep
    PROVE  StoredInv'
<1>1. /\ DraftOpens(proc'.out, Fence, Fence') /\ UNCHANGED <<status, row, store, faults, storageQ>>
      /\ proc.out = <<>> /\ (Receiving' <=> Receiving) /\ Healthy /\ Fence \in Nat /\ Items \subseteq Nat
  BY OrderTypes DEF DraftStep, TablesSame, Drafts, Receiving, Healthy
<1> SUFFICES ASSUME Receiving, faults = 0, status # "deleted", NEW i \in Items, i < Fence'
             PROVE  Opens(storageQ, i) \/ Opens(proc'.out, i) \/ Kept(i)
  BY <1>1 DEF StoredInv, Kept
<1>2. CASE i < Fence
  BY <1>1, <1>2 DEF StoredInv, Opens
<1>3. CASE Fence <= i
  BY <1>1, <1>3 DEF DraftOpens
<1> QED BY <1>1, <1>2, <1>3

(* Whatever leaves the rows, or takes them all, loses no item.                  *)
LEMMA StoredKept ==
    ASSUME StoredInv, storageQ \in Seq(Sent), Receiving' => Receiving, Receiving /\ Healthy' => Healthy,
           faults' = 0 => faults = 0, store'.text = store.text,
           status' # "deleted" => status # "deleted" /\ row' = row,
           \/ storageQ' = storageQ
           \/ \E m \in Sent : storageQ' = Append(storageQ, m),
           Receiving /\ Healthy' => Fence' = Fence /\ proc'.out = proc.out
    PROVE  StoredInv'
<1> SUFFICES ASSUME Receiving, Healthy, Healthy', faults = 0, status # "deleted", row' = row, NEW i \in Items, i < Fence
             PROVE  Opens(storageQ', i) \/ Opens(proc.out, i) \/ Kept(i)
  BY DEF StoredInv, Kept
<1>1. Opens(storageQ, i) => Opens(storageQ', i)
  BY AppendEnds
<1> QED BY <1>1 DEF StoredInv

(* An item sent is an item queued.                                              *)
LEMMA StoredSend ==
    ASSUME Base, StoredInv, SendStep
    PROVE  StoredInv'
<1> DEFINE m == Head(proc.out)
<1>1. /\ storageQ \in Seq(Sent) /\ proc.out \in Seq(Sent) /\ proc.out # <<>> /\ UNCHANGED <<status, row, store, faults>>
      /\ storageQ' = Append(storageQ, m) /\ m \in Sent /\ (Receiving' <=> Receiving)
  BY OrderTypes, TailIs DEF SendStep, TablesSame, Receiving
<1>2. Healthy /\ proc'.out = Tail(proc.out) /\ Fence' = Fence
  BY SendKeeps DEF Base, Healthy
<1>3. \A i : Opens(proc.out, i) => Opens(proc'.out, i) \/ (m.t \in Opening /\ m.i = i)
  BY <1>1, <1>2, TailEnds
<1> HIDE DEF m
<1>4. (\A i : Opens(storageQ, i) => Opens(storageQ', i)) /\ (m.t \in Opening => Opens(storageQ', m.i))
  BY <1>1, AppendEnds
<1> SUFFICES ASSUME Receiving, faults = 0, status # "deleted", NEW i \in Items, i < Fence
             PROVE  Opens(storageQ', i) \/ Opens(proc'.out, i) \/ Kept(i)
  BY <1>1, <1>2 DEF StoredInv, Kept
<1> QED BY <1>2, <1>3, <1>4 DEF StoredInv

(* The call of an output that is taken has its row.                             *)
LEMMA CallStored ==
    ASSUME StreamInv, ToolInv, StoredInv, StoreItem, Healthy, faults = 0, status # "deleted",
           Head(storageQ).t = "ToolOutput"
    PROVE  row[Head(storageQ).i - 1].st # "none"
<1> DEFINE m == Head(storageQ)
           c == proc.call
<1>1. /\ Base /\ OrderInv /\ storageQ \in Seq(Sent) /\ storageQ # <<>> /\ Receiving /\ Fence \in Nat
      /\ proc.out \in Seq(Sent)
  BY StoreItemIs, OrderTypes DEF StreamInv, Receiving
<1>2. m = storageQ[1] /\ 1 \in 1 .. Len(storageQ) /\ m.t \in Opening /\ Len(storageQ) \in Nat
  BY <1>1, TailEnds DEF Opening, Tooling
<1>3. m.i = c + 1 /\ c # 0 /\ c \in Nat /\ c \in Items /\ m.i - 1 = c
  <2>1. m.t = "ToolOutput" /\ m.t \in Tooling
    BY DEF Tooling
  <2>2. m.i = c + 1 /\ c # 0
    BY <1>1, <2>1, ToolHead
  <2>3. c \in Nat /\ c \in RowsOf(c) /\ RowsOf(c) \subseteq Items
    BY <1>1, <2>2, ToolTypes DEF RowsOf
  <2> HIDE DEF m, c
  <2> QED BY <2>2, <2>3
<1> HIDE DEF m, c
<1>4. ~Opens(storageQ, c)
  <2> SUFFICES ASSUME NEW k \in 1 .. Len(storageQ), storageQ[k].t \in Opening, storageQ[k].i = c PROVE FALSE
    BY DEF Opens
  <2>1. k = 1 \/ 1 < k
    BY <1>2
  <2> QED BY <1>1, <1>2, <1>3, <2>1 DEF OrderInv, QueueOrder, OpensRise
<1>5. ~Opens(proc.out, c)
  <2> SUFFICES ASSUME NEW k \in 1 .. Len(proc.out), proc.out[k].t \in Opening, proc.out[k].i = c PROVE FALSE
    BY DEF Opens
  <2>1. OpensBelow(storageQ, c)
    BY <1>1 DEF OrderInv, OutOrder
  <2> QED BY <1>2, <1>3, <2>1 DEF OpensBelow
<1>6. c < Fence
  <2>1. m.i < Fence
    BY <1>1, <1>2 DEF OrderInv, QueueOrder, OpensBelow
  <2> QED BY <1>1, <1>3, <2>1
<1>7. Kept(c)
  BY <1>1, <1>3, <1>4, <1>5, <1>6 DEF StoredInv
<1> QED BY <1>3, <1>7 DEF Kept, m

(* An item taken is an item stored.                                             *)
LEMMA StoredTake ==
    ASSUME StreamInv, ToolInv, ClosingInv, TextInv, StoredInv, StoreItem
    PROVE  StoredInv'
<1> DEFINE m == Head(storageQ)
<1>1. /\ storageQ \in Seq(Sent) /\ storageQ # <<>> /\ storageQ' = Tail(storageQ) /\ Receiving /\ Base
      /\ proc' = proc /\ next' = next /\ status' = status /\ (faults' = 0 => faults = 0) /\ Takes(m) /\ TableType
      /\ row \in [Items -> RowType] /\ store.nextAt \in Nat /\ store.text \in [Items -> Nat] /\ store.at \in [Items -> Nat]
  BY StoreItemIs, OrderTypes DEF StreamInv, Receiving, Base, TableType, StoreType
<1>2. /\ \A T : HasType(storageQ', T) => HasType(storageQ, T)
      /\ \A i : Opens(storageQ, i) => Opens(storageQ', i) \/ (m.t \in Opening /\ m.i = i)
  BY <1>1, TailEnds
<1>3. (Healthy' => Healthy) /\ Fence' = Fence
  BY <1>1, <1>2 DEF Healthy, Stopped, Fence
<1>4. /\ m.t \in Opening /\ m.i \in Items => row[m.i].st = "none" /\ store.at[m.i] = 0
      /\ m.t \in Following => m.i \in Items /\ row[m.i].st \in {"none", "in_progress"}
  BY HeadIsOpen
<1>5. ASSUME faults' = 0, status # "deleted", Healthy
      PROVE  /\ m.t \in Starting /\ row[m.i].st = "none" => row'[m.i].st = "in_progress"
             /\ m.t \in Ending => row'[m.i].st # "in_progress"
             /\ m.t \in Tooling /\ row[m.i].st = "none" => row'[m.i].st = "completed" /\ row'[m.i].text = 0
  BY <1>1, <1>5, FaultFree, CallStored
<1> HIDE DEF m
<1> SUFFICES ASSUME Healthy, faults' = 0, faults = 0, status # "deleted", NEW i \in Items, i < Fence
             PROVE  Opens(storageQ', i) \/ Opens(proc.out, i) \/ Kept(i)'
  BY <1>1, <1>3, Zenon DEF StoredInv
<1>6. Opens(storageQ, i) \/ Opens(proc.out, i) \/ Kept(i)
  BY <1>1 DEF StoredInv
<1>7. CASE TakesStart(m)
  <2>1. /\ m.i \in Items /\ m.t \in Opening /\ m.t \in Starting /\ store'.text = store.text
        /\ Writes(m.i, "in_progress", store.nextAt)
    BY <1>7 DEF TakesStart, Opening
  <2>2. \A j \in Items : j # m.i => row'[j] = row[j]
    BY <1>1, <2>1, WritesIs
  <2>3. row'[m.i].st = "in_progress"
    BY <1>4, <1>5, <2>1
  <2> QED BY <1>2, <1>6, <2>1, <2>2, <2>3 DEF Kept
<1>8. CASE TakesDelta(m)
  <2>1. /\ m.i \in Items /\ m.t \in Following /\ m.t \notin Opening /\ row' = row
        /\ store'.text = [store.text EXCEPT ![m.i] = store.text[m.i] + 1]
    BY <1>8 DEF TakesDelta, Following, Deltas, Opening, Starting, Tooling
  <2>2. Kept(i) => Kept(i)'
    BY <1>1, <1>4, <2>1 DEF Kept
  <2> QED BY <1>2, <1>6, <2>1, <2>2
<1>9. CASE TakesUsage(m)
  <2>1. m.t \notin Opening /\ row' = row /\ store' = store
    BY <1>9 DEF TakesUsage, Opening, Starting, Tooling
  <2> QED BY <1>2, <1>6, <2>1 DEF Kept
<1>10. CASE TakesEnd(m)
  <2>1. /\ m.i \in Items /\ m.t \in Following /\ m.t \in Ending /\ m.t \notin Opening /\ store'.text = store.text
        /\ \A j \in Items \ {m.i} : row'[j] = row[j]
        /\ row'[m.i] = row[m.i] \/ row'[m.i].st = "in_progress" \/ (row'[m.i].st = "completed" /\ row'[m.i].text = store.text[m.i])
    BY <1>10 DEF TakesEnd, Following, Ending, Opening, Starting, Tooling
  <2>2. row'[m.i].st # "in_progress"
    BY <1>5, <2>1
  <2>3. Kept(i) => Kept(i)'
    BY <1>4, <2>1, <2>2 DEF Kept
  <2> QED BY <1>2, <1>6, <2>1, <2>3
<1>11. CASE TakesTool(m)
  <2>1. /\ m.i \in Items /\ m.t \in Opening /\ m.t \in Tooling /\ store'.text = store.text
        /\ Writes(m.i, "completed", store.nextAt)
    BY <1>11 DEF TakesTool, Opening
  <2>2. \A j \in Items : j # m.i => row'[j] = row[j]
    BY <1>1, <2>1, WritesIs
  <2>3. row'[m.i].st = "completed" /\ row'[m.i].text = 0 /\ store.text[m.i] = 0
    BY <1>4, <1>5, <2>1 DEF TextInv
  <2> QED BY <1>2, <1>6, <2>1, <2>2, <2>3 DEF Kept
<1> QED BY <1>1, <1>7, <1>8, <1>9, <1>10, <1>11 DEF Takes

(* Every step keeps the items that were drawn.                                  *)
LEMMA StoredStep ==
    ASSUME StreamInv, ToolInv, ClosingInv, DoneInv, TextInv, StoredInv, [Next]_vars
    PROVE  StoredInv'
<1>0. Base /\ storageQ \in Seq(Sent)
  BY OrderTypes DEF StreamInv
<1>1. CASE Loop \/ CancelClient
  <2>1. DraftStep \/ DropStep \/ SendStep
    BY <1>0, <1>1, LoopBase
  <2>2. CASE DropStep
    <3> DEFINE m == Msg("Error", 0)
    <3>1. /\ Stopped' /\ proc'.out = <<>> /\ UNCHANGED <<store, status, row, faults>> /\ (Receiving' <=> Receiving)
          /\ storageQ' = storageQ \/ storageQ' = Append(storageQ, m)
      BY <2>2 DEF DropStep, Drops, TablesSame, Receiving
    <3>2. m \in Sent /\ m.t \notin {"ResponseDone"}
      BY SentMessages DEF Bare
    <3> HIDE DEF m
    <3>3. HasType(storageQ', {"ResponseDone"}) => HasType(storageQ, {"ResponseDone"})
      <4>1. CASE storageQ' = Append(storageQ, m)
        BY <1>0, <3>2, <4>1, AppendEnds
      <4> QED BY <3>1, <4>1
    <3>4. Healthy' => Healthy /\ HasType(storageQ, {"ResponseDone"})
      BY <3>1, <3>3 DEF Healthy
    <3>5. Receiving /\ Healthy' => Finished(proc)
      BY <3>4 DEF DoneInv, HasType
    <3>6. Finished(proc) => Fence' = Fence /\ proc'.out = proc.out
      <4>1. SUFFICES ASSUME Finished(proc) PROVE Fence' = Fence /\ proc'.out = proc.out
        OBVIOUS
      <4>2. Finished(proc') /\ next' = next
        BY <1>0, <1>1, <4>1, DoneStays
      <4> QED BY <4>1, <4>2 DEF Finished, Fence
    <3> QED BY <1>0, <3>1, <3>2, <3>4, <3>5, <3>6, StoredKept
  <2> QED BY <1>0, <2>1, <2>2, StoredDraft, StoredSend
<1>2. CASE StoreItem
  BY <1>2, StoredTake
<1>3. CASE StoreEnd \/ StoreStatus \/ StoreSettle
  <2>1. ~Receiving'
    BY <1>0, <1>3, StoreEndIs, StoreStatusIs, StoreSettleIs DEF Receiving
  <2> QED BY <2>1 DEF StoredInv
<1>4. CASE ~(Loop \/ CancelClient) /\ ~Storage
  <2> DEFINE m == Msg("Cancelled", 0)
  <2>1. /\ proc' = proc /\ next' = next /\ faults' = faults /\ store'.text = store.text /\ (Receiving' => Receiving)
        /\ storageQ' = storageQ \/ storageQ' = Append(storageQ, m)
        /\ status' # "deleted" => status # "deleted" /\ row' = row
    BY <1>4, Bystanders DEF Receiving, Delete
  <2>2. m \in Sent /\ m.t \notin {"ResponseDone"}
    BY SentMessages DEF Bare
  <2> HIDE DEF m
  <2>3. Healthy' => Healthy
    <3>1. CASE storageQ' = Append(storageQ, m)
      BY <1>0, <2>1, <2>2, <3>1, AppendEnds DEF Healthy, Stopped
    <3> QED BY <2>1, <3>1 DEF Healthy, Stopped
  <2>4. Fence' = Fence
    BY <2>1 DEF Fence
  <2> QED BY <1>0, <2>1, <2>2, <2>3, <2>4, StoredKept
<1> QED BY <1>1, <1>2, <1>3, <1>4 DEF Storage
-----------------------------------------------------------------------------
(* How the storage task leaves the response. *)

(* When the end of the response is taken, nothing is pending or on its way and  *)
(* all the text is stored.                                                      *)
LEMMA NothingPending ==
    ASSUME StreamInv, DoneInv, OwedInv, TextInv, Receiving, storageQ # <<>>, Head(storageQ).t = "ResponseDone"
    PROVE  /\ store.pend = {} /\ Finished(proc) /\ Fence = next /\ Healthy
           /\ \A i : ~Opens(storageQ, i) /\ ~Opens(proc.out, i)
           /\ \A i \in Items : store.text[i] = emitted[i]
<1>1. /\ storageQ \in Seq(Sent) /\ Base
  BY OrderTypes DEF StreamInv
<1>2. /\ 1 \in 1 .. Len(storageQ) /\ storageQ[1].t = "ResponseDone" /\ Len(storageQ) \in Nat
  BY <1>1, TailEnds
<1>3. Finished(proc) /\ \A j \in 1 .. Len(storageQ) : j > 1 => storageQ[j].t = "Cancelled"
  BY <1>2 DEF DoneInv
<1>4. \A j \in 1 .. Len(storageQ) : storageQ[j].t \in {"ResponseDone", "Cancelled"}
  <2>1. \A j \in 1 .. Len(storageQ) : j = 1 \/ j > 1
    BY <1>2
  <2> QED BY <1>2, <1>3, <2>1
<1>5. proc.out = <<>> /\ proc.then = "done" /\ Fence = next
  BY <1>3 DEF Finished, Fence
<1>6. Healthy
  BY <1>2 DEF Healthy, HasType
<1>7. store.pend = {}
  <2>1. \A i : ~EndsAfter(storageQ, 0, i)
    BY <1>4 DEF EndsAfter, Ending
  <2>2. \A i : ~Owes(proc, i)
    BY <1>5 DEF Owes, Ends, Live
  <2> QED BY <1>6, <2>1, <2>2 DEF OwedInv
<1>8. \A i : ~Opens(storageQ, i) /\ ~Opens(proc.out, i)
  BY <1>4, <1>5 DEF Opens, Opening, Starting, Tooling
<1>9. ASSUME NEW i \in Items PROVE store.text[i] = emitted[i]
  <2>1. PICK f : AddsUp(f, storageQ, i, store.text[i], emitted[i])
    BY DEF TextInv
  <2>2. f[1] = emitted[i] /\ f[0] = store.text[i] /\ f[0] \in Nat
    BY <1>2, <2>1 DEF AddsUp
  <2>3. f[1] = f[1 - 1] + 0
    BY <1>2, <2>1 DEF AddsUp, Deltas
  <2> QED BY <2>2, <2>3
<1> QED BY <1>3, <1>5, <1>6, <1>7, <1>8, <1>9

(* A message that is taken leaves nothing open that is not pending.             *)
LEMMA EndTake ==
    ASSUME StreamInv, ClosingInv, EndInv, StoreItem
    PROVE  EndInv'
<1> DEFINE m == Head(storageQ)
<1>1. /\ store.pc = "recv" /\ store'.pc = "recv" /\ store'.end = store.end /\ store.end = "none" /\ status' = status
      /\ (faults' = 0 => faults = 0) /\ Takes(m) /\ TableType /\ store.nextAt \in Nat
      /\ row \in [Items -> RowType]
  BY StoreItemIs DEF StreamInv, Base, StartInv, TableType, StoreType
<1>2. faults' = 0 => (m.t \in Ending => row'[m.i].st # "in_progress")
  BY FaultFree DEF StreamInv
<1> HIDE DEF m
<1>3. ASSUME faults' = 0, NEW i \in Items, row'[i].st = "in_progress" PROVE i \in store'.pend
  <2>1. row[i].st = "in_progress" => i \in store.pend
    BY <1>1, <1>3 DEF EndInv
  <2>2. CASE TakesStart(m)
    <3>1. m.i \in Items /\ store'.pend = store.pend \union {m.i} /\ Writes(m.i, "in_progress", store.nextAt)
      BY <2>2 DEF TakesStart
    <3>2. \A j \in Items : j # m.i => row'[j] = row[j]
      BY <1>1, <3>1, WritesIs
    <3> QED BY <1>3, <2>1, <3>1, <3>2
  <2>3. CASE TakesDelta(m) \/ TakesUsage(m)
    BY <1>3, <2>1, <2>3 DEF TakesDelta, TakesUsage
  <2>4. CASE TakesEnd(m)
    BY <1>2, <1>3, <2>1, <2>4 DEF TakesEnd
  <2>5. CASE TakesTool(m)
    <3>1. m.i \in Items /\ store'.pend = store.pend /\ Writes(m.i, "completed", store.nextAt)
      BY <2>5 DEF TakesTool
    <3>2. /\ \A j \in Items : j # m.i => row'[j] = row[j]
          /\ row'[m.i] # row[m.i] => row'[m.i].st = "completed"
      BY <1>1, <3>1, WritesIs
    <3> QED BY <1>3, <2>1, <3>1, <3>2
  <2> QED BY <1>1, <2>2, <2>3, <2>4, <2>5 DEF Takes
<1> QED BY <1>1, <1>3 DEF EndInv

(* Every step keeps it so.                                                      *)
LEMMA EndStep ==
    ASSUME StreamInv, ClosingInv, WholeInv, [Next]_vars
    PROVE  EndInv'
<1>0. /\ Base /\ EndInv /\ DoneInv /\ OwedInv /\ TextInv /\ StoredInv /\ StartInv
      /\ store.end = "none" <=> store.pc \in {"none", "recv"}
  BY DEF StreamInv, WholeInv, Base, StartInv
<1>1. CASE Loop \/ CancelClient
  <2>1. UNCHANGED <<status, row, store, faults>>
    BY <1>0, <1>1, LoopBase DEF DraftStep, DropStep, SendStep, TablesSame
  <2>2. Finished(proc) => Finished(proc') /\ next' = next /\ emitted' = emitted
    BY <1>0, <1>1, DoneStays
  <2> QED BY <1>0, <2>1, <2>2 DEF EndInv
<1>2. CASE StoreItem
  BY <1>0, <1>2, EndTake
<1>3. CASE StoreEnd
  <2>1. /\ store.pc = "recv" /\ UNCHANGED <<status, row, faults, proc, next, emitted>> /\ store'.pend = store.pend
        /\ \/ /\ storageQ # <<>> /\ Head(storageQ).t = "ResponseDone"
              /\ store'.end = "completed" /\ store'.pc = "settle"
           \/ store'.end \in {"cancelled", "failed"} /\ store'.pc = "status"
    BY <1>0, <1>3, StoreEndIs
  <2>2. status # "completed"
    BY <1>0, <2>1 DEF EndInv
  <2>3. CASE store'.end \in {"cancelled", "failed"} /\ store'.pc = "status"
    BY <1>0, <2>1, <2>2, <2>3 DEF EndInv
  <2>4. CASE storageQ # <<>> /\ Head(storageQ).t = "ResponseDone" /\ store'.end = "completed" /\ store'.pc = "settle"
    <3>1. /\ store.pend = {} /\ Finished(proc) /\ Fence = next /\ Healthy /\ Receiving
          /\ \A i : ~Opens(storageQ, i) /\ ~Opens(proc.out, i)
          /\ \A i \in Items : store.text[i] = emitted[i]
      BY <1>0, <2>1, <2>4, NothingPending DEF Receiving
    <3>2. ASSUME faults = 0, status # "deleted", NEW i \in Items, i < next
          PROVE  row[i].st = "completed" /\ row[i].text = emitted[i]
      <4>1. Kept(i)
        BY <1>0, <3>1, <3>2 DEF StoredInv
      <4>2. row[i].st # "in_progress"
        BY <1>0, <3>1, <3>2 DEF EndInv
      <4> QED BY <3>1, <4>1, <4>2 DEF Kept
    <3>3. faults = 0 => \A i \in Items : row[i].st = "in_progress" => i \in store.pend
      BY <1>0 DEF EndInv
    <3> QED BY <2>1, <2>2, <2>4, <3>1, <3>2, <3>3 DEF EndInv
  <2> QED BY <2>1, <2>3, <2>4
<1>4. CASE StoreStatus
  <2>1. /\ store.pc = "status" /\ UNCHANGED <<row, proc, next, emitted>> /\ store'.pend = store.pend
        /\ store'.end = store.end /\ store'.pc = (IF store.end = "completed" THEN "over" ELSE "settle")
        /\ (faults' = 0 => faults = 0) /\ store.end \in Terminal
        /\ \/ status = "in_progress" /\ status' = store.end
           \/ status' = status /\ (faults' = 0 => status # "in_progress")
    BY <1>0, <1>4, StoreStatusIs
  <2>2. status # "completed"
    BY <1>0, <2>1 DEF EndInv
  <2> QED BY <1>0, <2>1, <2>2 DEF EndInv, Terminal
<1>5. CASE StoreSettle
  <2>1. /\ store.pc = "settle" /\ UNCHANGED <<status, proc, next, emitted>> /\ store'.pend = {}
        /\ store'.end = store.end /\ store'.pc = (IF store.end = "completed" THEN "status" ELSE "over")
        /\ (faults' = 0 => faults = 0)
        /\ \A i \in Items : \/ row'[i] = row[i] /\ (faults' = 0 => i \notin store.pend \/ row[i].st = "none")
                            \/ i \in store.pend /\ row[i].st # "none" /\ row'[i].st = "incomplete"
    BY <1>0, <1>5, StoreSettleIs
  <2>2. status # "completed"
    BY <1>0, <2>1 DEF EndInv
  <2>3. faults' = 0 => \A i \in Items : row'[i].st # "in_progress"
    BY <1>0, <2>1 DEF EndInv
  <2>4. store.end = "completed" => \A i \in Items : row'[i] = row[i]
    BY <1>0, <2>1 DEF EndInv
  <2> QED BY <1>0, <2>1, <2>2, <2>3, <2>4 DEF EndInv
<1>6. CASE ~(Loop \/ CancelClient) /\ ~Storage
  <2>1. /\ UNCHANGED <<proc, next, emitted, faults>> /\ store'.pend = store.pend /\ store'.end = store.end
        /\ store'.pc = store.pc \/ (store.pc = "none" /\ store'.pc = "recv")
        /\ row' = row \/ (status' = "deleted" /\ \A i \in Items : row'[i].st = "none")
        /\ status = "deleted" => status' = "deleted"
        /\ status' = "completed" => status = "completed"
        /\ status' = "in_progress" => status = "in_progress" \/ store'.pc = "none"
    BY <1>6, Bystanders DEF Delete, NoRow
  <2> QED BY <1>0, <2>1 DEF EndInv
<1> QED BY <1>1, <1>2, <1>3, <1>4, <1>5, <1>6 DEF Storage

(* Nothing is drawn, sent or stored at first.                                   *)
LEMMA WholeInit == Init => WholeInv
<1> SUFFICES ASSUME Init PROVE WholeInv
  OBVIOUS
<1>1. /\ storageQ = <<>> /\ proc.out = <<>> /\ store.pend = {} /\ store.pc = "none" /\ store.end = "none"
      /\ status = "none" /\ next = 1 /\ proc.pc = "none"
      /\ \A i \in Items : row[i].st = "none" /\ store.text[i] = 0 /\ emitted[i] = 0
  BY DEF Init, NoRow
<1>2. DoneInv /\ OwedInv
  BY <1>1 DEF DoneInv, OwedInv
<1>3. \A i \in Items : AddsUp([k \in 0 .. 0 |-> 0], storageQ, i, store.text[i], emitted[i])
  BY <1>1 DEF AddsUp
<1>4. TextInv
  BY <1>1, <1>3 DEF TextInv
<1>5. StoredInv
  <2>1. Fence = 1 /\ \A i \in Items : ~(i < 1)
    BY <1>1 DEF Fence, Items
  <2> QED BY <2>1 DEF StoredInv
<1>6. EndInv
  BY <1>1 DEF EndInv
<1> QED BY <1>2, <1>4, <1>5, <1>6 DEF WholeInv

(* What is owed, sent and stored always adds up.                                *)
THEOREM WholeInvariant == Spec => [](StreamInv /\ ToolInv /\ RecordInv /\ WholeInv)
<1>1. Spec => [](StreamInv /\ ToolInv /\ RecordInv)
  BY RecordInvariant
<1>2. StreamInv /\ ToolInv /\ RecordInv /\ WholeInv /\ [Next]_vars => WholeInv'
  BY DoneStep, OwedStep, TextStep, StoredStep, EndStep DEF RecordInv, WholeInv
<1> QED BY <1>1, <1>2, WholeInit, PTL DEF Spec

(* Whichever way a stream ends, the loop has closed what it opened before it    *)
(* reports the end, and, unless a database call failed, nothing is left in      *)
(* progress when the storage task returns and a response stored as completed    *)
(* has all its items with the whole text that was sent.                         *)
THEOREM TranscriptSafety == Spec => []TranscriptIsWhole
<1>1. StreamInv /\ ToolInv /\ RecordInv /\ WholeInv => TranscriptIsWhole
  <2> SUFFICES ASSUME StreamInv, ToolInv, EndInv
               PROVE  TypeOK /\ SenderInvariant /\ NothingLeftOpen /\ CompletedIsWhole
    BY DEF WholeInv, TranscriptIsWhole
  <2>1. TypeOK
    <3>1. Base /\ TableType /\ ChannelType /\ LoopType /\ PeerType /\ Len(acks) <= 2
      BY DEF StreamInv, Base, LoopFacts, ToolInv, AckInv
    <3>2. \A i \in Items : row[i].st \in {"none", "in_progress", "completed", "incomplete"}
      BY <3>1 DEF TableType, RowType
    <3>3. /\ \A k \in DOMAIN storageQ : storageQ[k] \in Messages
          /\ \A k \in DOMAIN clientQ : clientQ[k] \in Messages
      BY <3>1 DEF ChannelType, Sent
    <3>4. proc.turns \in 0 .. ToolTurns
      BY <3>1, StreamAssumption DEF Base, LoopFacts, LoopType, DrawInv, ProcType
    <3>5. store.pend \subseteq Items
      BY <3>1 DEF TableType, StoreType
    <3> QED BY <3>1, <3>2, <3>3, <3>4, <3>5 DEF TypeOK, TableType, ChannelType, LoopType, PeerType
  <2>2. SenderInvariant /\ NothingLeftOpen
    BY DEF EndInv, SenderInvariant, NothingLeftOpen
  <2>3. CompletedIsWhole
    BY DEF EndInv, CompletedIsWhole
  <2> QED BY <2>1, <2>2, <2>3
<1> QED BY <1>1, WholeInvariant, PTL
=============================================================================
