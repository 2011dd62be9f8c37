------------------------------ MODULE WebTools ------------------------------
(***************************************************************************)
(* The web tools of a response: which URLs the model may open.  A          *)
(* conversation is a history of messages; a response collects the URLs the *)
(* visible part of it authorises, adds those its own searches return, and  *)
(* opens only those.  Tool outputs are stored as text and parsed again by  *)
(* the next response, so texts are sequences of lines here: what a line    *)
(* looks like to the parser, and the URL written on it.                    *)
(***************************************************************************)
EXTENDS Naturals, Sequences, FiniteSets, SequencesExt

CONSTANTS
    Urls,               \* public https URLs, normalised
    Texts,              \* titles, snippets, errors and page bodies: sequences of lines
    SearchResponses,    \* what Kagi may return: [web, news], sequences of results
    Configured,         \* the clients the process was started with
    MaxResults,         \* MAX_SEARCH_RESULTS
    MaxNews,            \* MAX_NEWS_RESULTS
    MaxOpen,            \* MAX_OPEN_URLS
    MaxCollected,       \* MAX_PROMPT_ALLOWED_URLS
    MaxToolTurns,       \* MAX_WEB_SEARCH_TOOL_TURNS
    MaxMessages         \* bound on the conversation

ASSUME WebToolsAssumption ==
    /\ {MaxResults, MaxNews, MaxOpen, MaxCollected, MaxToolTurns, MaxMessages} \subseteq Nat \ {0}
    /\ Configured \subseteq {"brave", "kagi"}

VARIABLES
    history,    \* the stored messages of the conversation
    pc,         \* "idle", "turn" (the model is asked) or "tool" (a call is executed)
    provider,   \* the response's search provider, or "none"
    prompt,     \* the messages the response started from
    allowed,    \* kagi_allowed_urls
    turns,      \* tool_turn_count
    surfaced,   \* history variable: URLs the user wrote or a Kagi search returned
    opened      \* history variable: URLs sent to Kagi's extractor
vars == <<history, pc, provider, prompt, allowed, turns, surfaced, opened>>

-----------------------------------------------------------------------------
(* URLs.  A raw URL is a spelling of one of Urls: a plain one, one with a  *)
(* fragment or the default port, which are dropped, or a refused one.      *)

Refused == {"too long", "control character", "http", "credentials", "private host"}
Raw(form, u) == [form |-> form, url |-> u]

\* The set holding the normalised URL, or nothing if the spelling is refused. (A spelling that
\* encoding makes longer than MAX_PUBLIC_URL_CHARS is normalised, and refused when it comes back:
\* left out, as it opens less.)
Normalized(raw) == IF raw.form \in Refused THEN {} ELSE {raw.url}

-----------------------------------------------------------------------------
(* Lines and the formatters.                                               *)

NoUrl == [form |-> "none", url |-> "none"]
Line(kind) == [kind |-> kind, raw |-> NoUrl]
UrlLine(kind, u) == [kind |-> kind, raw |-> Raw("plain", u)]

\* Untrusted text is compacted to the single line that starts with its label.
Labelled(kind, text) == <<Line(kind)>>

\* The results of one category that are printed, and the URLs already seen after them.
Category(results, limit, seen) ==
    LET shown[n \in 0 .. Len(results)] ==
          IF n = 0 THEN <<>>
          ELSE LET urls == {results[i].url.url : i \in ToSet(shown[n - 1])}
                   new == Normalized(results[n].url) \ (urls \union seen)
               IN  IF Len(shown[n - 1]) < limit /\ new # {} THEN Append(shown[n - 1], n) ELSE shown[n - 1]
    IN  [k \in 1 .. Len(shown[Len(results)]) |-> results[shown[Len(results)][k]]]

UrlsOf(results) == {results[i].url.url : i \in DOMAIN results}

Printed(response) ==
    LET web == Category(response.web, MaxResults, {})
    IN  web \o Category(response.news, MaxNews, UrlsOf(web))

FormatSearch(response) ==
    LET entry(r) == Labelled("heading", r.title) \o <<UrlLine("url", r.url.url)>>
                      \o Labelled("snippet", r.snippet) \o <<Line("blank")>>
    IN  <<Line("kagi search"), Line("blank")>>
          \o FlattenSeq([k \in DOMAIN Printed(response) |-> entry(Printed(response)[k])])
          \o <<Line("advice")>>

\* Brave's results are printed as they come, under another first line.
FormatBrave(response) ==
    LET entry(r) == <<Line("heading")>> \o r.title \o <<UrlLine("url", r.url.url)>> \o r.snippet
    IN  <<Line("brave search"), Line("blank")>>
          \o FlattenSeq([k \in DOMAIN response.web |-> entry(response.web[k])])

\* `pages` gives what the extractor returned for each URL that has an entry.
FormatExtract(urls, pages, diagnostics) ==
    LET status(u) == IF u \in DOMAIN pages /\ pages[u].state = "error"
                     THEN Labelled("error", pages[u].text) ELSE <<Line("status")>>
        body(u) == IF u \in DOMAIN pages /\ pages[u].state = "content"
                   THEN <<UrlLine("source", u)>> \o pages[u].text \o <<Line("blank")>> ELSE <<>>
        diagnostic == IF diagnostics = <<>> THEN <<>>
                      ELSE <<Line("blank"), Line("diagnostics")>> \o Labelled("error", diagnostics)
    IN  <<Line("kagi pages"), Line("blank"), Line("pages")>>
          \o FlattenSeq([k \in DOMAIN urls |-> <<UrlLine("page", urls[k])>> \o status(urls[k])])
          \o diagnostic \o <<Line("blank"), Line("contents"), Line("blank")>>
          \o FlattenSeq([k \in DOMAIN urls |-> body(urls[k])])

FormatError == <<Line("error")>>

\* A long output is cut and written again by the Markdown library, which may change the
\* marker of the list of pages: the lines are then no longer the ones the parser knows.
Bounded(lines) ==
    {lines, [i \in DOMAIN lines |-> IF lines[i].kind = "page" THEN [lines[i] EXCEPT !.kind = "item"]
                                    ELSE lines[i]]}

-----------------------------------------------------------------------------
(* The parsers.                                                            *)

Kinds(lines, i) == IF i \in DOMAIN lines THEN lines[i].kind ELSE "end"
RawsAt(lines, places) ==
    LET picked == SelectSeq([i \in DOMAIN lines |-> i], LAMBDA i : i \in places)
    IN  [k \in DOMAIN picked |-> lines[picked[k]].raw]

\* A URL counts only on the line directly after a numbered heading.
SearchUrls(lines) ==
    LET expects[i \in 1 .. Len(lines)] == i > 1 /\ ~ expects[i - 1] /\ lines[i - 1].kind = "heading"
    IN  RawsAt(lines, {i \in DOMAIN lines : expects[i] /\ lines[i].kind = "url"})

\* Only the list of requested pages counts: it ends at the first blank line.
OpenedUrls(lines) ==
    LET starts == {i \in DOMAIN lines : Kinds(lines, i) = "blank" /\ Kinds(lines, i + 1) = "pages"}
        start == CHOOSE i \in starts : \A j \in starts : i <= j
        inside(i) == i > start + 1 /\ \A j \in start + 2 .. i : lines[j].kind # "blank"
    IN  IF starts = {} THEN <<>> ELSE RawsAt(lines, {i \in DOMAIN lines : inside(i) /\ lines[i].kind = "page"})

TrustedUrls(tool, lines) ==
    IF tool = "web_search" /\ Kinds(lines, 1) = "kagi search" THEN SearchUrls(lines)
    ELSE IF tool = "open_urls" /\ Kinds(lines, 1) = "kagi pages" THEN OpenedUrls(lines)
    ELSE <<>>

\* The tool a visible call names, for an output that answers it.
ToolNamed(messages, id) ==
    LET calls == {i \in DOMAIN messages : messages[i].role = "call" /\ messages[i].id = id}
    IN  IF calls = {} THEN "none" ELSE messages[CHOOSE i \in calls : TRUE].tool

Candidates(messages, m) ==
    IF m.role = "user" THEN RawsAt(m.lines, {i \in DOMAIN m.lines : m.lines[i].raw # NoUrl})
    ELSE IF m.role = "tool" THEN TrustedUrls(ToolNamed(messages, m.id), m.lines)
    ELSE <<>>

\* The candidates are inserted one by one while fewer than MaxCollected are held.
Gather(raws) ==
    LET held[n \in 0 .. Len(raws)] ==
          IF n = 0 THEN {}
          ELSE IF Cardinality(held[n - 1]) >= MaxCollected THEN held[n - 1]
          ELSE held[n - 1] \union Normalized(raws[n])
    IN  held[Len(raws)]

\* collect_kagi_allowed_urls_from_prompt: newest message first.
Collect(messages) ==
    LET newest(k) == messages[Len(messages) + 1 - k]
    IN  Gather(FlattenSeq([k \in DOMAIN messages |-> Candidates(messages, newest(k))]))

-----------------------------------------------------------------------------
Message(role, id, tool, lines) == [role |-> role, id |-> id, tool |-> tool, lines |-> lines]

Init ==
    /\ history = <<>> /\ prompt = <<>> /\ turns = 0
    /\ pc = "idle" /\ provider = "none"
    /\ allowed = {} /\ surfaced = {} /\ opened = {}

\* The prompt keeps the newest messages and may leave out a block before them.
Visible(messages) ==
    {SubSeq(messages, 1, i) \o SubSeq(messages, j, Len(messages)) :
        <<i, j>> \in {p \in (0 .. Len(messages) - 1) \X (1 .. Len(messages)) : p[1] < p[2]}}

\* select_web_search_provider: Kagi needs its flag and its client; a failed, missing or late
\* answer about the flag counts as off, and the flag is asked only when tools are wanted.
ChooseProvider(wanted, flag) ==
    IF ~ wanted THEN "none"
    ELSE IF flag = "on" /\ "kagi" \in Configured THEN "kagi"
    ELSE IF "brave" \in Configured THEN "brave"
    ELSE "none"

\* A request stores the user's message, builds the prompt and collects the URLs, once.
BeginResponse ==
    \E text \in {<<>>} \union {<<[kind |-> "text", raw |-> Raw(f, u)]>> : f \in {"fragment", "http"}, u \in Urls} :
        LET stored == Append(history, Message("user", 0, "none", text))
        IN  /\ pc = "idle" /\ Len(history) < MaxMessages
            /\ history' = stored
            /\ surfaced' = surfaced \union UNION {Normalized(text[i].raw) : i \in DOMAIN text}
            /\ provider' \in {ChooseProvider(w, f) : w \in BOOLEAN, f \in {"on", "off", "failed"}}
            /\ \E visible \in Visible(stored) :
                  /\ prompt' = visible
                  /\ allowed' = Collect(visible)
            /\ pc' = "turn" /\ turns' = 0
            /\ UNCHANGED opened

ToolsEnabled == provider # "none" /\ turns < MaxToolTurns

\* The model answers with a tool call: it is stored, then executed.
CallTool(tool) ==
    /\ pc = "turn" /\ ToolsEnabled /\ Len(history) + 1 < MaxMessages
    /\ history' = Append(history, Message("call", Len(history) + 1, tool, <<>>))
    /\ turns' = turns + 1
    /\ pc' = "tool"
    /\ UNCHANGED <<provider, prompt, allowed, surfaced, opened>>

Pending(tool) == pc = "tool" /\ Last(history).tool = tool

\* The output is stored as the text that format_tool_result leaves.
Store(lines) ==
    /\ history' = Append(history, Message("tool", Last(history).id, "none", lines))
    /\ pc' = "turn"
    /\ UNCHANGED <<provider, prompt, turns>>

KagiSearch(response) ==
    /\ Pending("web_search") /\ provider = "kagi"
    /\ allowed' = allowed \union UrlsOf(Printed(response))
    /\ surfaced' = surfaced \union UrlsOf(Printed(response))
    /\ Store(FormatSearch(response))
    /\ UNCHANGED opened

BraveSearch(response) ==
    /\ Pending("web_search") /\ provider = "brave"
    /\ Store(FormatBrave(response))
    /\ UNCHANGED <<allowed, surfaced, opened>>

\* Mutant: one authorised URL is enough for the whole call.
OpenTargetsIfAny(raws) ==
    LET named == UNION {Normalized(raws[i]) : i \in DOMAIN raws}
    IN  IF Len(raws) \in 1 .. MaxOpen /\ named \cap allowed # {} THEN named ELSE {}

\* validate_open_urls: every URL normalises to an allowed one; repetitions are dropped.
OpenTargets(raws) ==
    LET named == UNION {Normalized(raws[i]) : i \in DOMAIN raws}
        authorized == \A i \in DOMAIN raws : \E u \in Normalized(raws[i]) : u \in allowed
    IN  IF Len(raws) \in 1 .. MaxOpen /\ authorized THEN named ELSE {}

PageStates == {"error", "content", "empty"}

OpenUrls(raws, states, text) ==
    LET targets == OpenTargets(raws)
        pages == [u \in DOMAIN states |-> [state |-> states[u], text |-> text]]
    IN  /\ Pending("open_urls") /\ provider = "kagi"
        /\ targets # {} /\ DOMAIN states \subseteq targets
        /\ opened' = opened \union targets
        /\ \E diagnostics \in {<<>>, text} :
             \E lines \in Bounded(FormatExtract(SetToSeq(targets), pages, diagnostics)) : Store(lines)
        /\ UNCHANGED <<allowed, surfaced>>

\* A call that fails (bad arguments, a URL that is not authorised, a tool the provider does
\* not have, the provider's error) is answered with an error text.
FailTool ==
    /\ pc = "tool"
    /\ Store(FormatError)
    /\ UNCHANGED <<allowed, surfaced, opened>>

\* The final answer may repeat any text the model saw or made up; the response's own state goes.
Finish(text) ==
    /\ pc = "turn"
    /\ Len(history) < MaxMessages
    /\ history' = Append(history, Message("assistant", 0, "none", text))
    /\ pc' = "idle" /\ provider' = "none" /\ prompt' = <<>> /\ allowed' = {} /\ turns' = 0
    /\ UNCHANGED <<surfaced, opened>>

RawArguments == {Raw(f, u) : f \in {"plain", "fragment", "private host"}, u \in Urls}
OpenArguments == UNION {[1 .. n -> RawArguments] : n \in 0 .. MaxOpen}

Next ==
    \/ BeginResponse
    \/ \E tool \in {"web_search", "open_urls"} : CallTool(tool)
    \/ \E response \in SearchResponses : KagiSearch(response) \/ BraveSearch(response)
    \/ \E raws \in OpenArguments, text \in Texts :
         \E found \in SUBSET OpenTargets(raws) :
           \E states \in [found -> PageStates] : OpenUrls(raws, states, text)
    \/ FailTool
    \/ \E text \in Texts : Finish(text)

Spec == Init /\ [][Next]_vars

-----------------------------------------------------------------------------
(* Properties.                                                             *)

\* The variables hold what the code's types allow.
TypeOK ==
    /\ pc \in {"idle", "turn", "tool"} /\ provider \in {"none", "brave", "kagi"}
    /\ turns \in 0 .. MaxToolTurns /\ Len(history) <= MaxMessages
    /\ allowed \union surfaced \union opened \subseteq Urls
    /\ \A i \in DOMAIN history : history[i].role \in {"user", "call", "tool", "assistant"}

\* Only a URL that the user wrote, or that a Kagi search returned as the address of a result,
\* is ever opened: no title, snippet, error text, page body, answer of the model or Brave
\* result makes a URL openable, in this response or in a later one that reads the stored
\* text again (collect_trusted_tool_output_urls, validate_open_urls).
OpenedWasSurfaced == opened \subseteq surfaced

\* Reading the stored text gives back the authorisation the response had: what the parser
\* finds in the prompt and the messages stored since is what the running response allows,
\* up to the limit on collected URLs, which may only make it smaller.
ReplayAgrees ==
    pc = "turn" /\ prompt # <<>> =>
        LET begun == CHOOSE i \in DOMAIN history :
                        history[i].role = "user" /\ \A j \in i + 1 .. Len(history) : history[j].role # "user"
            replayed == Collect(prompt \o SubSeq(history, begun + 1, Len(history)))
        IN  /\ replayed \subseteq allowed
            /\ Cardinality(allowed) <= MaxCollected => replayed = allowed

\* However long the conversation, a public URL of the user's newest message can be opened
\* while the response runs: the newest messages are collected first.  (The user's messages
\* hold one URL here; more than the limit of them would be cut.)
UserUrlCanBeOpened ==
    pc # "idle" =>
        \A i \in DOMAIN history :
            history[i].role = "user" /\ (\A j \in i + 1 .. Len(history) : history[j].role # "user")
              => \A l \in DOMAIN history[i].lines : Normalized(history[i].lines[l].raw) \subseteq allowed
=============================================================================
