--------------------------- MODULE ContextBuilder ---------------------------
(******************************************************************************)
(* The prompt of a model turn: what of a stored conversation is sent, when it *)
(* does not all fit (web/responses/context_builder.rs, the callers in         *)
(* handlers.rs, the context queries of models/responses.rs).                  *)
(*                                                                            *)
(* The conversation grows as the service lets it: a user message, then turns  *)
(* that reason, call tools or answer, or a response that ends with nothing    *)
(* stored.  Each prompt is built in two passes: over token counts, to choose  *)
(* the rows to fetch, and over the messages made of them.  A message is its   *)
(* row's place in the conversation, its role and its tokens.                  *)
(******************************************************************************)
EXTENDS Integers, Sequences, FiniteSets, SequencesExt, FiniteSetsExt

CONSTANTS
    Budget,         \* prompt_token_budget of the model
    SystemTokens,   \* of the system message: internal and user instructions
    MarkerTokens,   \* of "[Previous messages truncated due to context limits]"
    Tokens,         \* token counts of messages
    WithReasoning,  \* model_supports_reasoning_history
    MaxRows         \* bound: rows of the conversation

ContextAssumption ==
    /\ Budget \in Nat /\ SystemTokens \in Nat /\ MarkerTokens \in Nat
    /\ Tokens \subseteq Nat /\ WithReasoning \in BOOLEAN /\ MaxRows \in Nat

VARIABLES
    rows,     \* the conversation's rows, oldest first
    prompt,   \* the last prompt built
    budget,   \* what was left for it
    query     \* the place of the user message being answered; 0: none

vars == <<rows, prompt, budget, query>>

Total(msgs) == FoldSeq(LAMBDA m, t : m.tok + t, 0, msgs)

\* saturating_sub.
Less(a, b) == IF a >= b THEN a - b ELSE 0
-----------------------------------------------------------------------------
(* First pass: which rows are needed *)

\* The reasoning just before row i, which goes where row i goes.
Reasoning(h, i) ==
    IF h[i].type \notin {"assistant", "call"} THEN {}
    ELSE {j \in 1..(i - 1) : \A k \in j..(i - 1) : h[k].type = "reasoning"}

\* build_context_entries: reasoning is part of the entry it led to, or left out.
Entry(h, i) ==
    LET before == IF WithReasoning THEN Reasoning(h, i) ELSE {} IN
    [role |-> h[i].type, places |-> before \union {i},
     tok |-> MapThenSumSet(LAMBDA j : h[j].tok, before \union {i})]

Entries(h) ==
    LET kept == SetToSortSeq({i \in 1..Len(h) : h[i].type # "reasoning"}, <) IN
    [n \in 1..Len(kept) |-> Entry(h, kept[n])]

UserPlaces(s) == {i \in 1..Len(s) : s[i].role = "user"}

\* The head: the first user message, if any (after the system message, if any).
Head1(s) == IF UserPlaces(s) = {} THEN <<>> ELSE <<s[Min(UserPlaces(s))]>>

\* The longest end of s that fits, and the last message whether it fits or not.
Fitting(s, room) ==
    LET fits == {k \in 1..Len(s) : k = Len(s) \/ Total(SubSeq(s, k, Len(s))) <= room}
    IN  IF s = <<>> THEN <<>> ELSE SubSeq(s, Min(fits), Len(s))

\* Mutant: the tail may start with any message.
AnyStart(s) == s

\* Drop what comes before the first user message.
FromUser(s) == IF UserPlaces(s) = {} THEN <<>> ELSE SubSeq(s, Min(UserPlaces(s)), Len(s))

TailOf(s, room) == FromUser(Fitting(s, room))

\* determine_needed_message_ids.
Truncates(h, room) == SystemTokens + Total(Entries(h)) > room

Needed(h, room) ==
    LET all == Entries(h)
        head == Head1(all)
        left == Less(room, SystemTokens + Total(head) + MarkerTokens)
        kept == IF Truncates(h, room) THEN head \o TailOf(all, left) ELSE all
    IN  UNION {kept[i].places : i \in 1..Len(kept)}
-----------------------------------------------------------------------------
(* Second pass: the messages *)

System == [role |-> "system", place |-> 0, tok |-> SystemTokens]
Marker == [role |-> "marker", place |-> 0, tok |-> MarkerTokens]

\* One message per fetched row with content; reasoning joins the message after it.
Message(raw, i) ==
    [role |-> raw[i].type, place |-> raw[i].place,
     tok |-> raw[i].tok + MapThenSumSet(LAMBDA j : raw[j].tok, Reasoning(raw, i))]

Messages(h, places) ==
    LET raw == [n \in 1..Cardinality(places) |-> h[SetToSortSeq(places, <)[n]]]
        kept == SetToSortSeq({i \in 1..Len(raw) : raw[i].type # "reasoning" /\ ~raw[i].empty}, <)
    IN  [n \in 1..Len(kept) |-> Message(raw, kept[n])]

\* The marker goes after the system message and the first kept one.
Marked(msgs) == IF Len(msgs) > 2 THEN InsertAt(msgs, 3, Marker) ELSE msgs

\* Too large even so: the system message and the tail, or the tail alone.
Fallback(head, tail, room) ==
    IF SystemTokens + Total(tail) <= room THEN <<System>> \o tail ELSE tail

\* build_prompt_from_chat_messages_with_token_reserve.
Chat(msgs, room) ==
    LET head == <<System>> \o Head1(msgs)
        tail == TailOf(msgs, Less(room, Total(head) + MarkerTokens))
        cut == head \o (IF Len(head) + Len(tail) < Len(msgs) THEN <<Marker>> ELSE <<>>) \o tail
    IN  IF Total(msgs) <= room THEN msgs
        ELSE IF Total(cut) <= room THEN cut ELSE Fallback(head, tail, room)

\* build_prompt_with_token_reserve; room is the budget less the reserve.
Build(h, room) ==
    LET msgs == <<System>> \o Messages(h, Needed(h, room))
    IN  Chat(IF Truncates(h, room) THEN Marked(msgs) ELSE msgs, room)

\* normalize_tool_call_ids_for_kimi: calls are numbered in the order of the prompt,
\* and an output takes the number of its call, if that is in the prompt before it.
KimiId(msgs, i) == Cardinality({j \in 1..i : msgs[j].role = "call"})
-----------------------------------------------------------------------------
(* The conversation *)

Init == rows = <<>> /\ prompt = <<>> /\ budget = Budget /\ query = 0

Row(type, tok, empty) == [type |-> type, tok |-> tok, empty |-> empty, call |-> 0]

\* Rows are stored with their places; an output names its call, the row before it.
Store(new) ==
    /\ Len(rows) + Len(new) <= MaxRows
    /\ rows' = [i \in 1..(Len(rows) + Len(new)) |->
                  IF i <= Len(rows) THEN rows[i]
                  ELSE [type |-> new[i - Len(rows)].type, tok |-> new[i - Len(rows)].tok,
                        empty |-> new[i - Len(rows)].empty, place |-> i,
                        call |-> IF new[i - Len(rows)].type = "output" THEN i - 1 ELSE 0]]

\* validate_and_normalize_input, build_context_and_check_billing: the prompt is built
\* from what is stored, with room reserved for the new message; then that is stored.
\* A response that failed has stored nothing after its user message.
Ask(tok) ==
    /\ tok < Budget
    /\ Store(<<Row("user", tok, FALSE)>>)
    /\ query' = Len(rows) + 1 /\ budget' = Less(Budget, tok)
    /\ prompt' = Build(rows, Less(Budget, tok))

Thought(t) == IF t = 0 THEN <<>> ELSE <<Row("reasoning", t, FALSE)>>

\* A tool turn: the call and its output are stored, and the prompt rebuilt.
ToolTurn(thought, call, out) ==
    /\ query > 0
    /\ Store(Thought(thought) \o <<Row("call", call, FALSE), Row("output", out, FALSE)>>)
    /\ prompt' = Build(rows', Budget) /\ budget' = Budget /\ UNCHANGED query

\* The final turn stores an answer; one that was cut short has no content.
Answer(thought, tok) ==
    /\ query > 0
    /\ Store(Thought(thought) \o <<Row("assistant", tok, tok = 0)>>)
    /\ query' = 0 /\ UNCHANGED <<prompt, budget>>

Next ==
    \/ \E t \in Tokens : Ask(t)
    \/ \E th \in {0, 1}, c \in {1}, o \in Tokens : ToolTurn(th, c, o)
    \/ \E th \in {0, 1}, t \in Tokens \union {0} : Answer(th, t)

Spec == Init /\ [][Next]_vars
-----------------------------------------------------------------------------
Stored(msgs) == {i \in 1..Len(msgs) : msgs[i].place > 0}

(* No message is sent twice and none out of order, though the head and the   *)
(* tail of a conversation that does not fit are chosen separately, twice.    *)
PromptKeepsOrder ==
    \A i, j \in Stored(prompt) : i < j => prompt[i].place < prompt[j].place

(* A tool output is sent only after its own call, and under the call's id,   *)
(* however the conversation is cut.                                          *)
OutputFollowsItsCall ==
    \A i \in Stored(prompt) : prompt[i].role = "output" =>
        \E j \in 1..(i - 1) :
            /\ prompt[j].role = "call" /\ prompt[j].place = rows[prompt[i].place].call
            /\ KimiId(prompt, i) = KimiId(prompt, j)

(* A rebuilt prompt keeps the message being answered if what was stored      *)
(* since fits beside the head.                                               *)
QueryKeptIfItFits ==
    query > 0 /\ query < Len(rows) =>
        LET since == {i \in query..Len(rows) : WithReasoning \/ rows[i].type # "reasoning"}
            head == Head1(Entries(rows))
        IN  MapThenSumSet(LAMBDA i : rows[i].tok, since)
              <= Less(Budget, SystemTokens + Total(head) + MarkerTokens)
            => \E m \in ToSet(prompt) : m.place = query

(* A prompt exceeds its room only when it is one user message and nothing    *)
(* else: everything that may be dropped has been.                            *)
OverBudgetOnlyByOneMessage ==
    Total(prompt) > budget => Len(prompt) = 1 /\ prompt[1].role = "user"

(* "Always include the most recent message ... to ensure the current user    *)
(* query is never lost".                                                     *)
QueryNeverLost ==
    query > 0 /\ query < Len(rows) => \E m \in ToSet(prompt) : m.place = query
=============================================================================
