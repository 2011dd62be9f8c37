------------------------------ MODULE WebRoutes -----------------------------
(***************************************************************************)
(* The paid web search and extraction routes: a request is validated, the  *)
(* user's plan is asked of billing under a timeout, the provider is called *)
(* once and its answer is matched to what was asked.                       *)
(***************************************************************************)
EXTENDS Naturals, Sequences, FiniteSets, SequencesExt

CONSTANTS
    Reqs,           \* requests, each served once
    Urls,           \* public https URLs, normalised
    MaxExtractUrls, \* MAX_EXTRACT_URLS
    MaxLimit        \* MAX_SEARCH_LIMIT

WebRoutesAssumption ==
    MaxExtractUrls \in Nat \ {0} /\ MaxLimit \in Nat \ {0}

VARIABLES
    config,         \* local mode, billing client and provider client, set at start-up
    paid,           \* the user's plan, as billing knows it
    pc, req,        \* each request's position and local state
    wasPaid         \* history variable: the plan was paid at some time while the request ran
vars == <<config, paid, pc, req, wasPaid>>

-----------------------------------------------------------------------------
(* Validation.                                                             *)

Raws == [form : {"plain", "fragment", "private host"}, url : Urls]
Normalized(raw) == IF raw.form # "private host" THEN {raw.url} ELSE {}

SeqsUpTo(S, n) == UNION {[1 .. k -> S] : k \in 0 .. n}

\* A lens is named or given, not both; dates are relative (a lens field) or absolute, not
\* both; the single fields are well formed or not.
SearchArgs ==
    {a \in [wellFormed : BOOLEAN, limit : 0 .. MaxLimit + 1,
            has : SUBSET {"lens_id", "lens", "relative", "absolute"}] :
        "relative" \in a.has => "lens" \in a.has}
ValidSearch(a) ==
    /\ a.wellFormed /\ a.limit \in 1 .. MaxLimit
    /\ ~ {"lens_id", "lens"} \subseteq a.has
    /\ ~ {"relative", "absolute"} \subseteq a.has

\* Every URL is public, and none is named twice, however it is spelled.
ValidExtract(raws) ==
    /\ Len(raws) \in 1 .. MaxExtractUrls
    /\ \A i \in DOMAIN raws : Normalized(raws[i]) # {}
    /\ \A i, j \in DOMAIN raws : raws[i].url = raws[j].url => i = j

NoReq == [kind |-> "none", guest |-> FALSE, limit |-> 0, urls |-> <<>>, asked |-> FALSE,
          data |-> <<>>, failed |-> {}, out |-> <<>>]

Init ==
    /\ config \in [local : BOOLEAN, billing : BOOLEAN, client : BOOLEAN] /\ paid \in BOOLEAN
    /\ pc = [r \in Reqs |-> "new"] /\ req = [r \in Reqs |-> NoReq]
    /\ wasPaid = [r \in Reqs |-> FALSE]

Goto(r, label, q) == pc' = [pc EXCEPT ![r] = label] /\ req' = [req EXCEPT ![r] = q]
Running == {r \in Reqs : pc[r] \notin {"new", "done", "refused"}}

Search(r) ==
    /\ pc[r] = "new"
    /\ \E a \in SearchArgs, guest \in BOOLEAN :
        /\ Goto(r, IF ValidSearch(a) THEN "access" ELSE "refused",
                [NoReq EXCEPT !.kind = "search", !.guest = guest, !.limit = a.limit])
        /\ wasPaid' = [wasPaid EXCEPT ![r] = paid]
        /\ UNCHANGED <<config, paid>>

Extract(r) ==
    /\ pc[r] = "new"
    /\ \E raws \in SeqsUpTo(Raws, MaxExtractUrls + 1), guest \in BOOLEAN :
        /\ Goto(r, IF ValidExtract(raws) THEN "access" ELSE "refused",
                [NoReq EXCEPT !.kind = "extract", !.guest = guest,
                              !.urls = [i \in DOMAIN raws |-> raws[i].url]])
        /\ wasPaid' = [wasPaid EXCEPT ![r] = paid]
        /\ UNCHANGED <<config, paid>>

\* The provider's client was not configured.
NoClient(r) ==
    /\ pc[r] = "access" /\ ~ config.client
    /\ Goto(r, "refused", req[r])
    /\ UNCHANGED <<config, paid, wasPaid>>

-----------------------------------------------------------------------------
(* Access.                                                                 *)

\* paid_web_access_decision
Decision(access, guest) ==
    access = "paid" \/ (access = "billing unavailable" /\ config.local /\ ~ guest)

Access(r, access) == Goto(r, IF Decision(access, req[r].guest) THEN "provider" ELSE "refused", req[r])

AccessWithoutBilling(r) ==
    /\ pc[r] = "access" /\ config.client /\ ~ config.billing
    /\ Access(r, "billing unavailable")
    /\ UNCHANGED <<config, paid, wasPaid>>

\* Billing reads the plan; its answer is on its way.
BillingReads(r) ==
    /\ pc[r] = "access" /\ config.client /\ config.billing
    /\ Goto(r, "answer", [req[r] EXCEPT !.asked = paid])
    /\ UNCHANGED <<config, paid, wasPaid>>

BillingAnswers(r) ==
    /\ pc[r] = "answer"
    /\ Access(r, IF req[r].asked THEN "paid" ELSE "free")
    /\ UNCHANGED <<config, paid, wasPaid>>

\* The check failed, or its answer did not come within the timeout.
BillingFails(r) ==
    /\ pc[r] \in {"access", "answer"} /\ config.client /\ config.billing
    /\ Access(r, "check failed")
    /\ UNCHANGED <<config, paid, wasPaid>>

\* The plan changes while requests run.
PlanChanges ==
    /\ paid' = ~ paid
    /\ wasPaid' = [r \in Reqs |-> wasPaid[r] \/ (r \in Running /\ paid')]
    /\ Running # {}
    /\ UNCHANGED <<config, pc, req>>

-----------------------------------------------------------------------------
(* Search results.                                                         *)

\* The results of all categories, in order: public, each once, no more than asked for.
Results(raws, limit) ==
    LET kept[n \in 0 .. Len(raws)] ==
          IF n = 0 THEN <<>>
          ELSE IF Len(kept[n - 1]) < limit /\ Normalized(raws[n]) # {}
                  /\ raws[n].url \notin ToSet(kept[n - 1])
               THEN Append(kept[n - 1], raws[n].url) ELSE kept[n - 1]
    IN  kept[Len(raws)]

\* The provider answers with the results of its categories, joined.
ProviderSearches(r) ==
    /\ pc[r] = "provider" /\ req[r].kind = "search"
    /\ \E raws \in SeqsUpTo(Raws, MaxLimit + 1) :
        /\ Goto(r, "done", [req[r] EXCEPT !.data = raws, !.out = Results(raws, req[r].limit)])
        /\ UNCHANGED <<config, paid, wasPaid>>

-----------------------------------------------------------------------------
(* Extracted pages.  A page's text is known by the URL it was taken from.  *)

Markdown == {"none", "blank", "image", "text"}
Pages == [raw : Raws, markdown : Markdown, error : BOOLEAN]

\* Removing an image that stands alone leaves nothing.
StripImages(markdown) == IF markdown = "image" THEN "blank" ELSE markdown

Failure(u, code) == [url |-> u, code |-> code, from |-> "nothing"]

\* format_extract_page
FormatPage(u, page, failed) ==
    IF page.error \/ failed THEN Failure(u, "extraction_failed")
    ELSE IF StripImages(page.markdown) # "text" THEN Failure(u, "no_content")
    ELSE [url |-> u, code |-> "ok", from |-> page.raw.url]

\* Mutant: the pages are taken to come in the order they were asked for.
FormatByPosition(urls, data, failed) ==
    [i \in DOMAIN urls |->
        IF i \in DOMAIN data THEN FormatPage(urls[i], data[i], i \in failed)
        ELSE Failure(urls[i], "missing_result")]

\* format_extract_response: the first page returned for a URL is the one that counts.
FormatExtract(urls, data, failed) ==
    LET of(u) == {k \in DOMAIN data : Normalized(data[k].raw) = {u}}
        first(u) == data[CHOOSE k \in of(u) : \A l \in of(u) : k <= l]
    IN  [i \in DOMAIN urls |->
            IF of(urls[i]) = {} THEN Failure(urls[i], "missing_result")
            ELSE FormatPage(urls[i], first(urls[i]), i \in failed)]

\* `failed` are the positions that diagnostics of the form pages[i] name.
ProviderExtracts(r) ==
    /\ pc[r] = "provider" /\ req[r].kind = "extract"
    /\ \E data \in SeqsUpTo(Pages, MaxExtractUrls), failed \in SUBSET (1 .. MaxExtractUrls) :
        /\ Goto(r, "done", [req[r] EXCEPT !.data = data, !.failed = failed,
                                          !.out = FormatExtract(req[r].urls, data, failed)])
        /\ UNCHANGED <<config, paid, wasPaid>>

\* map_kagi_error: an error, a timeout, an oversized or unreadable answer.
ProviderFails(r) ==
    /\ pc[r] = "provider"
    /\ Goto(r, "refused", req[r])
    /\ UNCHANGED <<config, paid, wasPaid>>

Next ==
    \/ PlanChanges
    \/ \E r \in Reqs :
         \/ Search(r) \/ Extract(r) \/ NoClient(r)
         \/ AccessWithoutBilling(r) \/ BillingReads(r) \/ BillingAnswers(r) \/ BillingFails(r)
         \/ ProviderSearches(r) \/ ProviderExtracts(r) \/ ProviderFails(r)

Spec == Init /\ [][Next]_vars

-----------------------------------------------------------------------------
(* Properties.                                                             *)

\* The provider is called only for a user whose plan was paid at some time while the request
\* ran, or, where no billing exists, in local mode for a user who is no guest: a billing
\* error, a late answer or a plan that ended before the request never lets it through.
ProviderIsPaidFor ==
    \A r \in Reqs : pc[r] \in {"provider", "done"} =>
        wasPaid[r] \/ (~ config.billing /\ config.local /\ ~ req[r].guest)

\* A search returns distinct public URLs, no more than asked for, and leaves one out only
\* because the limit was reached.
SearchIsComplete ==
    \A r \in Reqs : pc[r] = "done" /\ req[r].kind = "search" =>
        LET found == UNION {Normalized(req[r].data[i]) : i \in DOMAIN req[r].data}
        IN  /\ Cardinality(ToSet(req[r].out)) = Len(req[r].out)
            /\ ToSet(req[r].out) \subseteq found
            /\ Len(req[r].out) <= req[r].limit
            /\ Len(req[r].out) < req[r].limit => ToSet(req[r].out) = found

\* Every URL asked for gets one page in its place, with that URL's own text or an error, and
\* a text only if the provider returned one for it and did not report it as failed; when the
\* provider returned one good page for it, that page is served.
PageIsItsOwn ==
    \A r \in Reqs : pc[r] = "done" /\ req[r].kind = "extract" =>
        LET q == req[r]
            good(i, k) == /\ q.data[k].raw.form # "private host" /\ q.data[k].raw.url = q.urls[i]
                          /\ q.data[k].markdown = "text" /\ ~ q.data[k].error
            single(i) == Cardinality({k \in DOMAIN q.data : q.data[k].raw.url = q.urls[i]}) = 1
        IN  /\ Len(q.out) = Len(q.urls)
            /\ \A i \in DOMAIN q.urls :
                 /\ q.out[i].url = q.urls[i]
                 /\ q.out[i].code = "ok" => /\ q.out[i].from = q.urls[i] /\ i \notin q.failed
                                            /\ \E k \in DOMAIN q.data : good(i, k)
                 /\ single(i) /\ i \notin q.failed /\ (\E k \in DOMAIN q.data : good(i, k))
                      => q.out[i].code = "ok"
=============================================================================
