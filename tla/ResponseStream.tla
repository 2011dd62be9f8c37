--------------------------- MODULE ResponseStream ---------------------------
(***************************************************************************)
(* One streamed response of POST /v1/responses (web/responses/handlers.rs, *)
(* storage.rs): the SSE stream spawns a storage task and an orchestrator.  *)
(* The orchestrator races the assistant/tool loop against a cancellation   *)
(* listener (tokio::select!) and sends every event to storage (awaiting    *)
(* room) and to the client (try_send: dropped when the channel is full).   *)
(* The cancel and delete endpoints write the same database rows from other *)
(* tasks, and the client may disconnect at any time.                       *)
(*                                                                         *)
(* Items are named in the order their UUIDs are drawn.  Text is abstracted *)
(* to the number of deltas it is made of.                                  *)
(***************************************************************************)
EXTENDS Naturals, Sequences, FiniteSets

CONSTANTS
    MaxItems,       \* items one response may draw: a reasoning item and a message
                    \* per turn, a call and an output per tool turn
    MaxChunks,      \* bound: provider chunks that carry a delta or usage
    StorageBuffer,  \* STORAGE_CHANNEL_BUFFER
    ClientBuffer,   \* CLIENT_CHANNEL_BUFFER
    ToolTurns,      \* MAX_WEB_SEARCH_TOOL_TURNS; 0 when web search is off
    DbFaults        \* bound: database calls that fail

ASSUME StreamAssumption ==
    /\ MaxChunks \in Nat /\ ToolTurns \in Nat /\ DbFaults \in Nat
    /\ MaxItems \in Nat /\ MaxItems >= 4 * ToolTurns + 2
    /\ StorageBuffer \in Nat \ {0} /\ ClientBuffer \in Nat \ {0}

Items == 1 .. MaxItems

VARIABLES
    status,    \* responses.status, "deleted" once the row is gone
    row,       \* row[i]: the item's row: its status, created_at and text
    storageQ,  \* the storage channel
    clientQ,   \* the client channel
    acks,      \* the tool-persistence acknowledgements
    proc,      \* the assistant/tool loop
    orch,      \* the orchestrator task
    listen,    \* the cancellation listener
    store,     \* the storage task: its place, pending items, next created_at
    client,    \* the SSE generator: its place, the items it announced, how it ended
    cancel,    \* the cancel endpoint
    next,      \* the next item to draw
    emitted,   \* emitted[i]: deltas of item i put on the storage channel
    chunks,    \* provider chunks consumed
    faults     \* database faults so far

vars == <<status, row, storageQ, clientQ, acks, proc, orch, listen, store, client, cancel,
          next, emitted, chunks, faults>>

NoRow == [st |-> "none", at |-> 0, text |-> 0]
Terminal == {"completed", "failed", "cancelled"}

Init ==
    /\ status = "none"
    /\ row = [i \in Items |-> NoRow]
    /\ storageQ = <<>> /\ clientQ = <<>> /\ acks = <<>>
    /\ proc = [pc |-> "none", out |-> <<>>, then |-> "none", msg |-> 0, rsn |-> 0,
               rsnDone |-> FALSE, saw |-> FALSE, tools |-> ToolTurns > 0, turns |-> 0, call |-> 0]
    /\ orch = "none"
    /\ listen = "none"
    /\ store = [pc |-> "none", pend |-> {}, at |-> [i \in Items |-> 0],
                text |-> [i \in Items |-> 0], nextAt |-> 1, end |-> "none"]
    /\ client = [pc |-> "request", seen |-> <<>>, end |-> "none"]
    /\ cancel = "idle"
    /\ next = 1
    /\ emitted = [i \in Items |-> 0]
    /\ chunks = 0
    /\ faults = 0
-----------------------------------------------------------------------------
Msg(t, i) == [t |-> t, i |-> i]

StorageOpen == store.pc \in {"recv", "settle", "status"}
ClientOpen == client.pc = "reading"

\* tx_client.try_send: lost when the channel is full or closed.
TrySend(q, m) == IF ClientOpen /\ Len(q) < ClientBuffer THEN Append(q, m) ELSE q

\* The loop goes on to send `out`, then continues at `then`.
Sending(p, out, then) == [p EXCEPT !.pc = "send", !.out = out, !.then = then]

\* close_reasoning_if_active, ensure_message_started: the sends they make.
CloseReasoning(p) == IF p.rsn # 0 /\ ~p.rsnDone THEN <<Msg("ReasoningDone", p.rsn)>> ELSE <<>>
StartMessage(p, i) == IF p.msg = 0 THEN <<Msg("MessageStarted", i)>> ELSE <<>>
Current(p, i) == IF p.msg = 0 THEN i ELSE p.msg

\* tokio::select! drops the losing branch.
Over == orch' = "over" /\ listen' = "none"
-----------------------------------------------------------------------------
(* The request handler and the SSE generator it returns. *)

\* create_response_stream, phases 1-3: a request that fails validation, context
\* building or billing writes nothing; otherwise the response row is created ...
Accept ==
    /\ client.pc = "request"
    /\ \/ /\ status' = "in_progress"
          /\ client' = [client EXCEPT !.pc = "persist"]
       \/ /\ client' = [client EXCEPT !.pc = "gone"]
          /\ UNCHANGED status
    /\ UNCHANGED <<row, storageQ, clientQ, acks, proc, orch, listen, store, cancel, next, emitted, chunks, faults>>

\* ... and then the user message, in a second statement: if that one fails (a
\* message UUID the client has used before), the response row stays behind.
PersistUserMessage ==
    /\ client.pc = "persist"
    /\ \E ok \in BOOLEAN :
         client' = [client EXCEPT !.pc = IF ok /\ status # "deleted" THEN "created" ELSE "gone"]
    /\ UNCHANGED <<status, row, storageQ, clientQ, acks, proc, orch, listen, store, cancel, next, emitted, chunks, faults>>

\* After response.created and response.in_progress: spawn both tasks.
Spawn ==
    /\ client.pc = "created"
    /\ client' = [client EXCEPT !.pc = "reading"]
    /\ store' = [store EXCEPT !.pc = "recv"]
    /\ orch' = "spawned"
    /\ UNCHANGED <<status, row, storageQ, clientQ, acks, proc, listen, cancel, next, emitted, chunks, faults>>

\* push_message, push_reasoning, push_tool_call, push_tool_output.
Announce(c, i) == [c EXCEPT !.seen = Append(@, i)]

\* Events of a message item, of a reasoning item and of a tool call: the first
\* announces the item, the later ones are skipped if the client never saw it.
MessageEvent(c, m) == IF m.t = "MessageStarted" THEN Announce(c, m.i) ELSE c
ReasoningEvent(c, m) == IF m.t = "ReasoningStarted" THEN Announce(c, m.i) ELSE c
ToolEvent(c, m) == Announce(c, m.i)

\* response.completed, response.cancelled and response.error end the stream.
EndEvent(c, m) == [c EXCEPT !.pc = "ended", !.end = m.t]

\* One message of rx_client.
ClientRecv ==
    /\ ClientOpen /\ clientQ # <<>>
    /\ LET m == Head(clientQ) IN
       client' = CASE m.t \in {"MessageStarted", "ContentDelta", "MessageDone"} -> MessageEvent(client, m)
                   [] m.t \in {"ReasoningStarted", "ReasoningDelta", "ReasoningDone"} -> ReasoningEvent(client, m)
                   [] m.t \in {"ToolCall", "ToolOutput"} -> ToolEvent(client, m)
                   [] m.t \in {"ResponseDone", "Cancelled", "Error"} -> EndEvent(client, m)
                   [] OTHER -> client
    /\ clientQ' = IF client'.pc = "ended" THEN <<>> ELSE Tail(clientQ)
    /\ UNCHANGED <<status, row, storageQ, acks, proc, orch, listen, store, cancel, next, emitted, chunks, faults>>

\* The connection closes and the generator is dropped.
Disconnect ==
    /\ client.pc \in {"created", "reading"}
    /\ client' = [client EXCEPT !.pc = "gone"]
    /\ clientQ' = <<>>
    /\ UNCHANGED <<status, row, storageQ, acks, proc, orch, listen, store, cancel, next, emitted, chunks, faults>>
-----------------------------------------------------------------------------
(* The orchestrator: the assistant/tool loop. *)

LoopUnchanged == UNCHANGED <<status, row, acks, listen, store, client, cancel, faults>>
Quiet == UNCHANGED <<storageQ, clientQ, orch, emitted>>

\* The task subscribes to the cancellation broadcast and starts its first turn.
OrchestratorStart ==
    /\ orch = "spawned"
    /\ orch' = "running"
    /\ listen' = "listening"
    /\ proc' = [proc EXCEPT !.pc = "turn"]
    /\ UNCHANGED <<status, row, storageQ, clientQ, acks, store, client, cancel, next, emitted, chunks, faults>>

\* stream_one_assistant_turn: get_chat_completion_response answers or fails.
StartTurn ==
    /\ proc.pc = "turn"
    /\ \/ proc' = [proc EXCEPT !.pc = "stream", !.msg = 0, !.rsn = 0, !.rsnDone = FALSE, !.saw = FALSE]
       \/ proc' = [proc EXCEPT !.pc = "fail"]
    /\ UNCHANGED <<next, chunks>> /\ LoopUnchanged /\ Quiet

\* A chunk with a reasoning delta.  Ignored once the reasoning item is closed.
ReasoningChunk ==
    /\ proc.pc = "stream" /\ chunks < MaxChunks
    /\ \/ proc.rsnDone /\ UNCHANGED <<proc, next>>
       \/ /\ proc.rsn = 0 /\ ~proc.rsnDone
          /\ proc' = Sending([proc EXCEPT !.rsn = next],
                             <<Msg("ReasoningStarted", next), Msg("ReasoningDelta", next)>>, "stream")
          /\ next' = next + 1
       \/ /\ proc.rsn # 0 /\ ~proc.rsnDone
          /\ proc' = Sending(proc, <<Msg("ReasoningDelta", proc.rsn)>>, "stream")
          /\ UNCHANGED next
    /\ chunks' = chunks + 1
    /\ LoopUnchanged /\ Quiet

\* A chunk with tool-call entries: ends the message, then the reasoning item.
\* Ignored on a turn where no tool was advertised.
ToolChunk ==
    /\ proc.pc = "stream" /\ chunks < MaxChunks
    /\ proc' = IF ~proc.tools THEN proc
               ELSE Sending([proc EXCEPT !.msg = 0, !.saw = TRUE,
                                         !.rsnDone = @ \/ proc.rsn # 0],
                            (IF proc.msg = 0 THEN <<>> ELSE <<Msg("MessageDone", proc.msg)>>)
                                \o CloseReasoning(proc),
                            "stream")
    /\ chunks' = chunks + 1
    /\ UNCHANGED next /\ LoopUnchanged /\ Quiet

\* A chunk with assistant text.  Ignored after tool-call entries.
ContentChunk ==
    /\ proc.pc = "stream" /\ chunks < MaxChunks
    /\ \/ proc.saw /\ UNCHANGED <<proc, next>>
       \/ /\ ~proc.saw
          /\ proc' = Sending([proc EXCEPT !.rsnDone = @ \/ proc.rsn # 0, !.msg = Current(proc, next)],
                             CloseReasoning(proc) \o StartMessage(proc, next)
                                 \o <<Msg("ContentDelta", Current(proc, next))>>,
                             "stream")
          /\ next' = IF proc.msg = 0 THEN next + 1 ELSE next
    /\ chunks' = chunks + 1
    /\ LoopUnchanged /\ Quiet

UsageChunk ==
    /\ proc.pc = "stream" /\ chunks < MaxChunks
    /\ proc' = Sending(proc, <<Msg("Usage", 0)>>, "stream")
    /\ chunks' = chunks + 1
    /\ UNCHANGED next /\ LoopUnchanged /\ Quiet

\* CompletionChunk::Done.  The turn ends with a tool call (refused when the
\* model never named one), or with the final message, made up if it is missing.
DoneChunk(toolReason, named) ==
    /\ proc.pc = "stream"
    /\ IF proc.saw \/ (proc.tools /\ toolReason)
       THEN /\ proc' = Sending([proc EXCEPT !.rsnDone = @ \/ proc.rsn # 0], CloseReasoning(proc),
                               IF proc.saw /\ named THEN "tool" ELSE "fail")
            /\ UNCHANGED next
       ELSE /\ proc' = Sending([proc EXCEPT !.rsnDone = @ \/ proc.rsn # 0, !.msg = Current(proc, next)],
                               CloseReasoning(proc) \o StartMessage(proc, next)
                                   \o <<Msg("MessageDone", Current(proc, next)), Msg("ResponseDone", 0)>>,
                               "done")
            /\ next' = IF proc.msg = 0 THEN next + 1 ELSE next
    /\ UNCHANGED chunks /\ LoopUnchanged /\ Quiet

\* CompletionChunk::Error, FullResponse, or the stream closing without Done.
StreamFails ==
    /\ proc.pc = "stream"
    /\ proc' = [proc EXCEPT !.pc = "fail"]
    /\ UNCHANGED <<next, chunks>> /\ LoopUnchanged /\ Quiet

\* execute_tool_call_and_wait: the call is enqueued before it runs ...
ToolStart ==
    /\ proc.pc = "tool"
    /\ proc' = Sending([proc EXCEPT !.turns = @ + 1, !.call = next], <<Msg("ToolCall", next)>>, "exec")
    /\ next' = next + 2
    /\ UNCHANGED chunks /\ LoopUnchanged /\ Quiet

\* ... and its output (a failure is formatted as output too) after it ran.
ToolRan ==
    /\ proc.pc = "exec"
    /\ proc' = Sending(proc, <<Msg("ToolOutput", proc.call + 1)>>, "ack")
    /\ UNCHANGED <<next, chunks>> /\ LoopUnchanged /\ Quiet

\* Mutant: the next turn starts without waiting for the acknowledgement.
ToolAckIgnored ==
    /\ proc.pc = "ack"
    /\ proc' = [proc EXCEPT !.pc = "turn", !.tools = proc.turns < ToolTurns]
    /\ UNCHANGED <<acks, status, row, listen, store, client, cancel, faults, next, chunks>> /\ Quiet

\* The acknowledgement: Ok goes on to the next turn (if the prompt can be
\* rebuilt); Err, a dropped storage task and the 5 s timeout fail the loop.
ToolAck ==
    /\ proc.pc = "ack"
    /\ \/ /\ acks # <<>> /\ Head(acks)
          /\ \/ proc' = [proc EXCEPT !.pc = "turn", !.tools = proc.turns < ToolTurns]
             \/ proc' = [proc EXCEPT !.pc = "fail"]
          /\ acks' = Tail(acks)
       \/ /\ acks # <<>> => ~Head(acks)
          /\ proc' = [proc EXCEPT !.pc = "fail"]
          /\ acks' = IF acks = <<>> THEN acks ELSE Tail(acks)
    /\ UNCHANGED <<status, row, listen, store, client, cancel, faults, next, chunks>> /\ Quiet

\* send_storage_message (and the tool sends): wait for room in storage, then
\* offer the message to the client.  A closed storage channel fails the loop;
\* during a tool call the client is told first, with a blocking send.
Send ==
    /\ proc.pc = "send"
    /\ \/ /\ proc.out = <<>> /\ proc.then # "done"
          /\ proc' = [proc EXCEPT !.pc = proc.then]
          /\ UNCHANGED listen /\ Quiet
       \/ /\ proc.out = <<>> /\ proc.then = "done"
          /\ proc' = [proc EXCEPT !.pc = "over"]
          /\ Over
          /\ UNCHANGED <<storageQ, clientQ, emitted>>
       \/ /\ proc.out # <<>> /\ StorageOpen /\ Len(storageQ) < StorageBuffer
          /\ LET m == Head(proc.out) IN
             /\ storageQ' = Append(storageQ, m)
             /\ clientQ' = TrySend(clientQ, m)
             /\ emitted' = IF m.t \in {"ContentDelta", "ReasoningDelta"}
                           THEN [emitted EXCEPT ![m.i] = @ + 1] ELSE emitted
          /\ proc' = [proc EXCEPT !.out = Tail(@)]
          /\ UNCHANGED <<orch, listen>>
       \/ /\ proc.out # <<>> /\ ~StorageOpen
          /\ proc' = [proc EXCEPT !.out = <<>>,
                                  !.pc = IF proc.then \in {"exec", "ack"} THEN "tellClient" ELSE "fail"]
          /\ UNCHANGED listen /\ Quiet
    /\ UNCHANGED <<status, row, acks, store, client, cancel, faults, next, chunks>>

\* "Internal storage failure - request aborted": a blocking client send.
TellClient ==
    /\ proc.pc = "tellClient"
    /\ ClientOpen => Len(clientQ) < ClientBuffer
    /\ clientQ' = TrySend(clientQ, Msg("Error", 0))
    /\ proc' = [proc EXCEPT !.pc = "fail"]
    /\ UNCHANGED <<storageQ, orch, emitted, next, chunks>> /\ LoopUnchanged

\* Mutant: a failed loop tells only the client.
FailSilently ==
    /\ proc.pc = "fail"
    /\ clientQ' = TrySend(clientQ, Msg("Error", 0))
    /\ proc' = [proc EXCEPT !.pc = "over"]
    /\ Over
    /\ UNCHANGED <<status, row, storageQ, acks, store, client, cancel, faults, next, emitted, chunks>>

\* setup_completion_processor's error path, after which the select! completes.
Fail ==
    /\ proc.pc = "fail"
    /\ StorageOpen => Len(storageQ) < StorageBuffer
    /\ storageQ' = IF StorageOpen THEN Append(storageQ, Msg("Error", 0)) ELSE storageQ
    /\ clientQ' = TrySend(clientQ, Msg("Error", 0))
    /\ proc' = [proc EXCEPT !.pc = "over"]
    /\ Over
    /\ UNCHANGED <<status, row, acks, store, client, cancel, faults, next, emitted, chunks>>
-----------------------------------------------------------------------------
(* The orchestrator: wait_for_response_cancellation. *)

\* A lagging broadcast receiver loses messages, its own cancellation included.
Lagged ==
    /\ listen = "signalled"
    /\ listen' = "listening"
    /\ UNCHANGED <<status, row, storageQ, clientQ, acks, proc, orch, store, client, cancel, next, emitted, chunks, faults>>

\* Tell storage first ...
CancelStorage ==
    /\ listen = "signalled"
    /\ StorageOpen => Len(storageQ) < StorageBuffer
    /\ storageQ' = IF StorageOpen THEN Append(storageQ, Msg("Cancelled", 0)) ELSE storageQ
    /\ listen' = "toClient"
    /\ UNCHANGED <<status, row, clientQ, acks, proc, orch, store, client, cancel, next, emitted, chunks, faults>>

\* ... then the client, waiting for room while the loop keeps running; only
\* then does the select! drop the loop.
CancelClient ==
    /\ listen = "toClient"
    /\ ClientOpen => Len(clientQ) < ClientBuffer
    /\ clientQ' = TrySend(clientQ, Msg("Cancelled", 0))
    /\ proc' = [proc EXCEPT !.pc = "over", !.out = <<>>]
    /\ Over
    /\ UNCHANGED <<status, row, storageQ, acks, store, client, cancel, next, emitted, chunks, faults>>
-----------------------------------------------------------------------------
(* The cancel and delete endpoints. *)

\* cancel_response: read the status; only an unfinished response goes on.
CancelRead ==
    /\ cancel = "idle" /\ status = "in_progress"
    /\ cancel' = "update"
    /\ UNCHANGED <<status, row, storageQ, clientQ, acks, proc, orch, listen, store, client, next, emitted, chunks, faults>>

\* cancel_by_uuid_and_user: the row moves only if it is still unfinished.
CancelUpdate ==
    /\ cancel = "update"
    /\ status' = IF status = "in_progress" THEN "cancelled" ELSE status
    /\ cancel' = IF status = "in_progress" THEN "broadcast" ELSE "refused"
    /\ UNCHANGED <<row, storageQ, clientQ, acks, proc, orch, listen, store, client, next, emitted, chunks, faults>>

\* cancellation_broadcast.send reaches whoever has subscribed by now.
CancelBroadcast ==
    /\ cancel = "broadcast"
    /\ cancel' = "done"
    /\ listen' = IF listen = "listening" THEN "signalled" ELSE listen
    /\ UNCHANGED <<status, row, storageQ, clientQ, acks, proc, orch, store, client, next, emitted, chunks, faults>>

\* delete_response, or the deletion of its conversation: the rows cascade.
Delete ==
    /\ status \notin {"none", "deleted"}
    /\ status' = "deleted"
    /\ row' = [i \in Items |-> NoRow]
    /\ UNCHANGED <<storageQ, clientQ, acks, proc, orch, listen, store, client, cancel, next, emitted, chunks, faults>>
-----------------------------------------------------------------------------
(* The storage task. *)

StoreUnchanged == UNCHANGED <<clientQ, proc, orch, listen, client, cancel, next, emitted, chunks>>

\* A database call that fails counts against the bound.
Fault(ok) == faults' = (IF ok THEN faults ELSE faults + 1) /\ faults' <= DbFaults

\* A new row needs its response row (foreign key).
Inserted(i, st, at) ==
    IF status # "deleted" /\ row[i].st = "none"
    THEN [row EXCEPT ![i] = [st |-> st, at |-> at, text |-> 0]] ELSE row

\* finalize_assistant_message, finalize_reasoning_item: an UPDATE by uuid.
Finalized(rows, S, st) ==
    [i \in Items |-> IF i \in S /\ rows[i].st # "none"
                     THEN [rows[i] EXCEPT !.st = st, !.text = store.text[i]] ELSE rows[i]]

\* MessageStarted, ReasoningStarted: allocate created_at, remember the item,
\* create its row.
StoreStarted(ok) ==
    LET m == Head(storageQ) IN
    /\ m.t \in {"MessageStarted", "ReasoningStarted"}
    /\ store' = [store EXCEPT !.pend = @ \union {m.i}, !.at[m.i] = store.nextAt, !.nextAt = @ + 1]
    /\ row' = IF ok THEN Inserted(m.i, "in_progress", store.nextAt) ELSE row
    /\ UNCHANGED <<status, acks>>

\* Mutant: a delta replaces the pending text.
StoreDeltaReplaces(ok) ==
    LET m == Head(storageQ) IN
    /\ ok
    /\ m.t \in {"ContentDelta", "ReasoningDelta", "Usage"}
    /\ store' = IF m.t = "Usage" THEN store
                ELSE [store EXCEPT !.pend = @ \union {m.i}, !.text[m.i] = 1]
    /\ UNCHANGED <<status, row, acks>>

\* ContentDelta, ReasoningDelta: append to the pending text.  Usage: ignored.
StoreDelta(ok) ==
    LET m == Head(storageQ) IN
    /\ ok
    /\ m.t \in {"ContentDelta", "ReasoningDelta", "Usage"}
    /\ store' = IF m.t = "Usage" THEN store
                ELSE [store EXCEPT !.pend = @ \union {m.i}, !.text[m.i] = @ + 1]
    /\ UNCHANGED <<status, row, acks>>

\* MessageDone (which also creates a missing row) and ReasoningDone.  After a
\* failed UPDATE the row stays as it was, or as it was just created.
StoreDone(ok) ==
    LET m == Head(storageQ)
        made == IF m.t = "MessageDone" THEN Inserted(m.i, "in_progress", store.at[m.i]) ELSE row
    IN
    /\ m.t \in {"MessageDone", "ReasoningDone"}
    /\ store' = [store EXCEPT !.pend = @ \ {m.i}]
    /\ row' \in IF ok THEN {Finalized(made, {m.i}, "completed")} ELSE {row, made}
    /\ UNCHANGED <<status, acks>>

\* Mutant: created_at is read but never advanced for a tool call.
StoreToolCallSameTime(ok) ==
    LET m == Head(storageQ) IN
    /\ m.t = "ToolCall"
    /\ row' = IF ok THEN Inserted(m.i, "completed", store.nextAt) ELSE row
    /\ acks' = IF row'[m.i].st = "none" THEN Append(acks, FALSE) ELSE acks
    /\ UNCHANGED <<status, store>>

\* ToolCall: acknowledged only when it fails.
StoreToolCall(ok) ==
    LET m == Head(storageQ) IN
    /\ m.t = "ToolCall"
    /\ store' = [store EXCEPT !.nextAt = @ + 1]
    /\ row' = IF ok THEN Inserted(m.i, "completed", store.nextAt) ELSE row
    /\ acks' = IF row'[m.i].st = "none" THEN Append(acks, FALSE) ELSE acks
    /\ UNCHANGED status

\* ToolOutput: needs the row of its call, acknowledged either way.
StoreToolOutput(ok) ==
    LET m == Head(storageQ) IN
    /\ m.t = "ToolOutput"
    /\ store' = [store EXCEPT !.nextAt = @ + 1]
    /\ row' = IF ok /\ row[m.i - 1].st # "none" THEN Inserted(m.i, "completed", store.nextAt) ELSE row
    /\ acks' = Append(acks, row'[m.i].st # "none")
    /\ UNCHANGED status

StoreItem ==
    /\ store.pc = "recv" /\ storageQ # <<>>
    /\ storageQ' = Tail(storageQ)
    /\ \E ok \in BOOLEAN :
         /\ Fault(ok)
         /\ \/ StoreStarted(ok) \/ StoreDelta(ok) \/ StoreDone(ok)
            \/ StoreToolCall(ok) \/ StoreToolOutput(ok)
    /\ StoreUnchanged

\* A terminal message, or the channel closed by its last sender: ResponseDone
\* settles stragglers and then the status, the others the status first.
StoreEnd ==
    /\ store.pc = "recv"
    /\ \/ /\ storageQ # <<>>
          /\ Head(storageQ).t \in {"ResponseDone", "Cancelled", "Error"}
          /\ store' = [store EXCEPT !.end = CASE Head(storageQ).t = "ResponseDone" -> "completed"
                                              [] Head(storageQ).t = "Cancelled" -> "cancelled"
                                              [] OTHER -> "failed",
                                    !.pc = IF Head(storageQ).t = "ResponseDone" THEN "settle" ELSE "status"]
          /\ storageQ' = Tail(storageQ)
       \/ /\ storageQ = <<>> /\ orch = "over" /\ client.pc \in {"ended", "gone"}
          /\ store' = [store EXCEPT !.end = "failed", !.pc = "status"]
          /\ UNCHANGED storageQ
    /\ UNCHANGED <<status, row, acks, faults>> /\ StoreUnchanged

\* The task returns; its receiver and whatever is queued go with it.
Returns(from) == from = (IF store.end = "completed" THEN "status" ELSE "settle")

\* Mutant: the status is set whatever it is by now.
StoreStatusAlways ==
    /\ store.pc = "status"
    /\ status' = IF status = "deleted" THEN status ELSE store.end
    /\ store' = [store EXCEPT !.pc = IF Returns("status") THEN "over" ELSE "settle"]
    /\ storageQ' = IF Returns("status") THEN <<>> ELSE storageQ
    /\ UNCHANGED <<row, acks, faults>> /\ StoreUnchanged

\* update_terminal_response_status: only from in_progress.
StoreStatus ==
    /\ store.pc = "status"
    /\ \E ok \in BOOLEAN :
         /\ Fault(ok)
         /\ status' = IF ok /\ status = "in_progress" THEN store.end ELSE status
    /\ store' = [store EXCEPT !.pc = IF Returns("status") THEN "over" ELSE "settle"]
    /\ storageQ' = IF Returns("status") THEN <<>> ELSE storageQ
    /\ UNCHANGED <<row, acks>> /\ StoreUnchanged

\* mark_pending_items_incomplete.
StoreSettle ==
    /\ store.pc = "settle"
    /\ \E missed \in SUBSET store.pend :
         /\ Cardinality(missed) <= 1
         /\ Fault(missed = {})
         /\ row' = Finalized(row, store.pend \ missed, "incomplete")
    /\ store' = [store EXCEPT !.pend = {}, !.pc = IF Returns("settle") THEN "over" ELSE "status"]
    /\ storageQ' = IF Returns("settle") THEN <<>> ELSE storageQ
    /\ UNCHANGED <<status, acks>> /\ StoreUnchanged
-----------------------------------------------------------------------------
Loop ==
    \/ OrchestratorStart \/ StartTurn
    \/ ReasoningChunk \/ ToolChunk \/ ContentChunk \/ UsageChunk \/ StreamFails
    \/ \E toolReason, named \in BOOLEAN : DoneChunk(toolReason, named)
    \/ ToolStart \/ ToolRan \/ ToolAck \/ Send \/ TellClient \/ Fail
Listener == Lagged \/ CancelStorage \/ CancelClient
Endpoints == CancelRead \/ CancelUpdate \/ CancelBroadcast \/ Delete
Storage == StoreItem \/ StoreEnd \/ StoreStatus \/ StoreSettle

Next == Accept \/ PersistUserMessage \/ Spawn \/ ClientRecv \/ Disconnect \/ Loop \/ Listener \/ Endpoints \/ Storage

Spec == Init /\ [][Next]_vars

\* The spawned tasks run: the provider's stream ends, storage drains its channel,
\* the cancel endpoint finishes.  Nothing is assumed of the client.
FairSpec == Spec /\ WF_vars(Loop) /\ WF_vars(Storage) /\ WF_vars(CancelUpdate \/ CancelBroadcast)

\* The same with a client that stays connected and keeps reading.
AttentiveSpec == FairSpec /\ WF_vars(ClientRecv) /\ WF_vars(CancelStorage \/ CancelClient)
-----------------------------------------------------------------------------
Messages == [t : {"MessageStarted", "ContentDelta", "MessageDone", "ReasoningStarted", "ReasoningDelta",
                  "ReasoningDone", "Usage", "ResponseDone", "Error", "Cancelled", "ToolCall", "ToolOutput"},
             i : 0 .. MaxItems]

TypeOK ==
    /\ status \in Terminal \union {"none", "in_progress", "deleted"}
    /\ \A i \in Items : row[i].st \in {"none", "in_progress", "completed", "incomplete"}
    /\ \A k \in DOMAIN storageQ : storageQ[k] \in Messages
    /\ \A k \in DOMAIN clientQ : clientQ[k] \in Messages
    /\ Len(storageQ) <= StorageBuffer /\ Len(clientQ) <= ClientBuffer
    /\ Len(acks) <= 2
    /\ next \in 1 .. MaxItems + 1
    /\ proc.turns \in 0 .. ToolTurns
    /\ listen \in {"none", "listening", "signalled", "toClient"}
    /\ store.pend \subseteq Items

(* "Sender invariant: stream_one_assistant_turn always emits MessageDone /     *)
(* ReasoningDone before ResponseDone" (storage.rs:438-439), whatever mixture   *)
(* of reasoning, tool and text chunks the provider sends over several turns:   *)
(* the straggler branch of storage_task is never needed.                       *)
SenderInvariant == store.pc = "settle" /\ store.end = "completed" => store.pend = {}

(* "retrieval order matches stream order" (handlers.rs:3254): rows carry       *)
(* created_at in the order their items were drawn and announced, whichever     *)
(* messages the client channel dropped.                                        *)
RetrievalOrderIsStreamOrder ==
    /\ \A a, b \in Items :
         a < b /\ row[a].st # "none" /\ row[b].st # "none" => row[a].at < row[b].at
    /\ \A j, k \in DOMAIN client.seen : j < k => client.seen[j] < client.seen[k]

(* "wait for storage to confirm the tool output is durable before the next     *)
(* model turn is started" (handlers.rs:2431-2432): timeouts, failed inserts and     *)
(* leftover acknowledgements never let a turn start on an undurable output.    *)
ToolOutputIsDurable ==
    proc.pc \in {"turn", "stream"} /\ proc.turns > 0 /\ status # "deleted" =>
        row[proc.call].st = "completed" /\ row[proc.call + 1].st = "completed"

(* When the storage task returns, nothing it owns is left "in_progress for     *)
(* ever": not the response, not an item, whichever way the stream ended        *)
(* (database failures apart, which are only logged).                           *)
NothingLeftOpen ==
    store.pc = "over" /\ faults = 0 =>
        status # "in_progress" /\ \A i \in Items : row[i].st # "in_progress"

(* A response stored as completed has all its items, each with the whole text  *)
(* the model produced.                                                         *)
CompletedIsWhole ==
    status = "completed" /\ faults = 0 =>
        \A i \in Items : i < next =>
            row[i].st = "completed" /\ row[i].text = emitted[i]

(* Whichever way a stream ends, its senders close what they opened, nothing is *)
(* left open when the storage task returns, and a transcript marked completed  *)
(* is whole.                                                                   *)
TranscriptIsWhole == TypeOK /\ SenderInvariant /\ NothingLeftOpen /\ CompletedIsWhole

(* Once its tasks are spawned, a response always comes to rest: the storage    *)
(* task returns, with a terminal status unless the database refused it,        *)
(* whether or not the client keeps reading or stays connected.                 *)
Settles == (store.pc = "recv") ~> (store.pc = "over")

(* "one terminal condition" (.agents/skills/validate-opensecret/SKILL.md:140): *)
(* a client that stays connected and keeps reading sees its stream end.        *)
StreamEnds == (client.pc = "reading") ~> (client.pc # "reading")

(* What the stored response promises its readers. *)
Record == INSTANCE ResponseRecord WITH
    item <- [i \in Items |-> [st |-> row[i].st, at |-> row[i].at]]

(* The stored response and its items only ever move forward (ResponseRecord):  *)
(* one terminal status, no reopened item, nothing back after a deletion.       *)
RecordSpec == Record!Spec
=============================================================================
