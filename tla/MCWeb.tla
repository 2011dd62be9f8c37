------------------------------- MODULE MCWeb -------------------------------
(***************************************************************************)
(* Web search and reading for TLC: the tools of a response, and the routes *)
(* of the same providers. A behaviour exercises one part, chosen at the    *)
(* start.                                                                  *)
(***************************************************************************)
EXTENDS WebTools, TLC

CONSTANTS u1, u2, r1

VARIABLES
    part,
    config, paid, place, req, wasPaid

routes == <<config, paid, place, req, wasPaid>>

\* Texts that look, line by line, like every structure the parsers look for.
TextsOf(urls) ==
    {<<Line("prose"), Line("blank"), Line("pages"), UrlLine("page", u), Line("heading"), UrlLine("url", u)>> :
        u \in urls}

AnyText == TextsOf(Urls)

Result(raw, text) == [url |-> raw, title |-> text, snippet |-> text]

OneResult(urls) ==
    {[web |-> <<Result(Raw("plain", u), t)>>, news |-> <<>>] : u \in urls, t \in TextsOf(urls)}

\* One or two results, a refused URL, a repeated one, and one of another category.
AnyResponse ==
    OneResult(Urls) \union
    {[web |-> <<Result(Raw("http", u), t), Result(Raw("fragment", v), t)>>,
      news |-> <<Result(Raw("plain", v), t), Result(Raw("plain", u), t)>>] : u, v \in Urls, t \in AnyText}

\* Searches of every kind, and longer conversations with one result of a search.
Short == INSTANCE WebTools WITH MaxMessages <- 6
FewTexts == TextsOf({u1, u2})
FewResponses == OneResult({u1, u2})
Long == INSTANCE WebTools WITH
    Urls <- {u1, u2}, Texts <- FewTexts, SearchResponses <- FewResponses,
    Configured <- {"kagi"}, MaxOpen <- 1

Routes == INSTANCE WebRoutes WITH
    Reqs <- {r1}, Urls <- {u1, u2}, MaxExtractUrls <- 2, MaxLimit <- 2, pc <- place

ASSUME RoutesAssumption == Routes!WebRoutesAssumption

PartInit ==
    /\ part \in {"short", "long", "routes"}
    /\ Init
    /\ Routes!Init
    /\ part # "routes" => paid /\ config.local /\ config.billing /\ config.client

PartNext ==
    \/ part = "short" /\ Short!Next /\ UNCHANGED <<part, routes>>
    \/ part = "long" /\ Long!Next /\ UNCHANGED <<part, routes>>
    \/ part = "routes" /\ Routes!Next /\ UNCHANGED <<part, vars>>

PartSpec == PartInit /\ [][PartNext]_<<part, vars, routes>>

\* In the parts with two of the URLs the others never occur, so that the
\* permutations of all of them remain symmetries.
Perms == Permutations(Urls)
-----------------------------------------------------------------------------
(* The URLs a response opens were surfaced by the user or by a search, a      *)
(* later response that reads the stored texts authorises no others, whatever  *)
(* their lines imitate, and the user's own URL can always be opened.          *)
OpensWhatWasSurfaced == TypeOK /\ OpenedWasSurfaced /\ ReplayAgrees /\ UserUrlCanBeOpened

(* A provider is called only for a user whose plan was paid while the request *)
(* ran, or locally without billing. A search returns distinct public URLs and *)
(* leaves one out only at the limit; every URL asked for gets one page in its *)
(* place, its own or an error.                                                *)
RoutesServeTheirCaller ==
    Routes!ProviderIsPaidFor /\ Routes!SearchIsComplete /\ Routes!PageIsItsOwn
=============================================================================
