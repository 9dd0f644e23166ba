----------------------------- MODULE DocsBrowser -----------------------------
(***************************************************************************)
(* The documentation reader: one loop that takes a message at a time, keys *)
(* and resizes of the user among the answers of commands that run          *)
(* meanwhile: debounce timers, searches, fetches, renderings and the       *)
(* messages an executed item sends.  They arrive in any order, and the     *)
(* palette they were meant for may have been closed, or replaced with the  *)
(* page.                                                                   *)
(*                                                                         *)
(* A page is the number of its fetch, since documents are compared by      *)
(* pointer.  Widths are below the maximum of the word wrap.  Quitting,     *)
(* after which every message is ignored, is left out.                      *)
(***************************************************************************)
EXTENDS Naturals, Sequences, Bags

CONSTANTS
    Queries,   \* what is typed into the search
    Widths,    \* of the window
    Unrenderable,  \* pages whose rendering fails
    None,      \* no page, no query, no search to cancel
    MaxEvents  \* bound: keys, pastes and resizes

SearchInputs == Queries \cup {""}
Inputs == SearchInputs \cup {">", "@"}

ASSUME BrowserAssumption ==
    /\ {"", ">", "@", None} \cap Queries = {}
    /\ Widths \subseteq Nat \ {0}
    /\ None \notin Nat
    /\ Unrenderable \subseteq Nat
    /\ MaxEvents \in Nat

VARIABLES
    \* Model
    width,     \* of the window, 0 before it is known
    wrap,      \* width of the renderer
    doc,       \* the page
    docs,      \* pages fetched
    shown,     \* what the viewport shows
    history,   \* pages to go back to
    loading,
    \* its palette
    visible, input,
    searchGen,
    pending,   \* a debounce timer runs
    searching, \* a search was sent
    results,   \* the search and whether it had hits
    searchCancel, \* the search that is cancelled next
    \* the rest
    inflight,  \* commands that have not sent their message yet
    events

view == <<width, wrap, doc, docs, shown, history>>
palette == <<visible, input, searchGen, pending, searching, results, searchCancel>>
vars == <<view, loading, palette, inflight, events>>

Rendered(d, w) == [doc |-> d, width |-> w]
Nothing == Rendered(None, 0)
NoResults == [query |-> None, hits |-> FALSE]

Debounce(g) == [msg |-> "debounce", gen |-> g]
Search(q, live) == [msg |-> "search", query |-> q, live |-> live]
Selected(item) == [msg |-> "selected", item |-> item]
Rerender(d, w) == [msg |-> "rerender", doc |-> d, width |-> w]
Fetch == [msg |-> "fetch"]
Status == [msg |-> "status"]
Close == [msg |-> "close"]
OpenWithQuery == [msg |-> "openWithQuery"]
Paste == [msg |-> "paste"]

Without(c) == inflight (-) SetToBag({c})
With(bag, S) == bag (+) SetToBag(S)

(* A landing page, with or without a query to open the palette with, or a
   page; the size of the window may be known. *)
Init ==
    /\ width \in Widths \cup {0}
    /\ wrap = width
    /\ docs \in {0, 1}
    /\ doc = IF docs = 0 THEN None ELSE 1
    /\ shown = IF docs = 0 \/ width = 0 \/ 1 \in Unrenderable THEN Nothing ELSE Rendered(1, width)
    /\ history = <<>>
    /\ loading = FALSE
    /\ visible = FALSE /\ input = ""
    /\ searchGen = 0
    /\ pending = FALSE /\ searching = FALSE
    /\ results = NoResults
    /\ searchCancel = None
    /\ inflight \in {EmptyBag} \cup {SetToBag({OpenWithQuery}) : d \in {0} \ {docs}}
    /\ events = 0

-----------------------------------------------------------------------------
(* The palette. *)

(* A cancelled search may still have its answer, or send nothing. *)
Cancelled(bag) ==
    IF BagIn(Search(searchCancel, TRUE), bag)
    THEN (bag (-) SetToBag({Search(searchCancel, TRUE)})) (+) SetToBag({Search(searchCancel, FALSE)})
    ELSE bag

Cleared ==
    /\ visible' = FALSE /\ input' = ""
    /\ pending' = FALSE /\ searching' = FALSE
    /\ results' = NoResults
    /\ searchCancel' = None

(* Dismiss.  The generation stays, and the timer runs on. *)
Dismiss(bag) ==
    /\ Cleared
    /\ inflight' = Cancelled(bag)
    /\ UNCHANGED searchGen

(* Each page has a palette of its own; a search of the former one runs on. *)
NewPalette == Cleared /\ searchGen' = 0

(* Mutant: the spinner of the search that is cancelled is left on. *)
ScheduleSearchLoading(i, bag) ==
    /\ input' = i
    /\ UNCHANGED searching
    /\ searchCancel' = None
    /\ IF i \in SearchInputs
       THEN /\ pending' = TRUE
            /\ searchGen' = searchGen + 1
            /\ inflight' = With(Cancelled(bag), {Debounce(searchGen + 1)})
       ELSE /\ pending' = FALSE
            /\ inflight' = Cancelled(bag)
            /\ UNCHANGED searchGen
    /\ UNCHANGED results

(* scheduleSearch: the input has become i. *)
ScheduleSearch(i, bag) ==
    /\ input' = i
    /\ searching' = FALSE
    /\ searchCancel' = None
    /\ IF i \in SearchInputs
       THEN /\ pending' = TRUE
            /\ searchGen' = searchGen + 1
            /\ inflight' = With(Cancelled(bag), {Debounce(searchGen + 1)})
       ELSE /\ pending' = FALSE
            /\ inflight' = Cancelled(bag)
            /\ UNCHANGED searchGen
    /\ UNCHANGED results

Event == events < MaxEvents /\ events' = events + 1

OpenPalette(i) ==
    /\ ~visible /\ Event
    /\ visible' = TRUE
    /\ IF i = "" THEN UNCHANGED <<input, searching, searchCancel, pending, searchGen, results, inflight>>
       ELSE ScheduleSearch(i, inflight)
    /\ UNCHANGED <<view, loading>>

Type(i) ==
    /\ visible /\ i # input /\ Event
    /\ ScheduleSearch(i, inflight)
    /\ UNCHANGED <<view, loading, visible>>

Escape ==
    /\ visible /\ Event
    /\ Dismiss(inflight)
    /\ UNCHANGED <<view, loading>>

(* The items of the mode the input stands for. *)
Items ==
    CASE input = ">" -> {"command"}
      [] input = "@" -> IF doc = None THEN {} ELSE {"page", "external"}
      [] OTHER -> IF results.hits THEN {"page"} ELSE {}

(* execute: a message for the selection, one to close, one of the command. *)
Execute(item) ==
    /\ visible /\ item \in Items /\ Event
    /\ inflight' = With(inflight, {Selected(item), Close}
                                    \cup IF item = "command" THEN {Status} ELSE {})
    /\ UNCHANGED <<view, loading, palette>>

(* handleDebounce; no message but these reaches a palette that is closed. *)
HandleDebounce(g) ==
    /\ BagIn(Debounce(g), inflight)
    /\ IF visible /\ g = searchGen /\ input \in SearchInputs
       THEN /\ pending' = FALSE /\ searching' = TRUE
            /\ searchCancel' = input
            /\ inflight' = With(Without(Debounce(g)), {Search(input, TRUE)})
       ELSE /\ inflight' = Without(Debounce(g))
            /\ UNCHANGED <<pending, searching, searchCancel>>
    /\ UNCHANGED <<view, loading, visible, input, searchGen, results, events>>

(* Mutant: an answer to what was typed before is taken. *)
HandleSearchResultOfAny(q, live) ==
    /\ BagIn(Search(q, live), inflight)
    /\ inflight' = Without(Search(q, live))
    /\ \/ /\ visible /\ input \in SearchInputs
          /\ searching' = FALSE
          /\ \E hits \in IF q = "" THEN {FALSE} ELSE BOOLEAN : results' = [query |-> q, hits |-> hits]
       \/ ~live /\ UNCHANGED <<searching, results>>
       \/ ~(visible /\ input \in SearchInputs) /\ UNCHANGED <<searching, results>>
    /\ UNCHANGED <<view, loading, visible, input, searchGen, pending, searchCancel, events>>

(* handleSearchResult: an answer to what is no longer asked is dropped.  A
   search that failed has no hits. *)
HandleSearchResult(q, live) ==
    /\ BagIn(Search(q, live), inflight)
    /\ inflight' = Without(Search(q, live))
    /\ \/ /\ visible /\ q = input
          /\ searching' = FALSE
          /\ \E hits \in IF q = "" THEN {FALSE} ELSE BOOLEAN : results' = [query |-> q, hits |-> hits]
       \/ ~live /\ UNCHANGED <<searching, results>>
       \/ ~(visible /\ q = input) /\ UNCHANGED <<searching, results>>
    /\ UNCHANGED <<view, loading, visible, input, searchGen, pending, searchCancel, events>>

-----------------------------------------------------------------------------
(* The reader. *)

(* The viewport keeps what it shows if the rendering fails. *)
Render(d, w) == shown' = IF d \in Unrenderable THEN shown ELSE Rendered(d, w)

(* updateWithPage. *)
Show(d) ==
    /\ doc' = d
    /\ loading' = FALSE
    /\ NewPalette
    /\ IF wrap = 0 THEN UNCHANGED shown ELSE Render(d, wrap)
    /\ UNCHANGED <<width, wrap>>

Browse ==
    /\ ~visible /\ doc = None /\ ~loading /\ Event
    /\ loading' = TRUE
    /\ inflight' = With(inflight, {Fetch})
    /\ UNCHANGED <<view, palette>>

HandleSelected(item) ==
    /\ BagIn(Selected(item), inflight)
    /\ CASE item = "page" ->
              /\ loading' = TRUE
              /\ Dismiss(With(Without(Selected(item)), {Fetch}))
         [] item = "external" ->
              /\ Dismiss(With(Without(Selected(item)), {Status}))
              /\ UNCHANGED loading
         [] item = "command" ->
              /\ inflight' = Without(Selected(item))
              /\ UNCHANGED <<palette, loading>>
    /\ UNCHANGED <<view, events>>

ClosePalette ==
    /\ BagIn(Close, inflight)
    /\ Dismiss(Without(Close))
    /\ UNCHANGED <<view, loading, events>>

(* statusMsg: whatever it reports, nothing is loading any more. *)
ShowStatus ==
    /\ BagIn(Status, inflight)
    /\ inflight' = Without(Status)
    /\ loading' = FALSE
    /\ UNCHANGED <<view, palette, events>>

PageReady ==
    /\ BagIn(Fetch, inflight)
    /\ inflight' = Without(Fetch)
    /\ docs' = docs + 1
    /\ history' = IF doc = None THEN history ELSE Append(history, doc)
    /\ Show(docs + 1)
    /\ UNCHANGED events

FetchFails ==
    /\ BagIn(Fetch, inflight)
    /\ inflight' = Without(Fetch)
    /\ loading' = FALSE
    /\ UNCHANGED <<view, palette, events>>

Back ==
    /\ ~visible /\ history # <<>> /\ Event
    /\ history' = SubSeq(history, 1, Len(history) - 1)
    /\ Show(history[Len(history)])
    /\ UNCHANGED <<docs, inflight>>

(* The first size makes the renderer; later ones have the page rendered by a
   command. *)
Resize(w) ==
    /\ Event
    /\ width' = w
    /\ IF width = 0
       THEN /\ wrap' = w
            /\ IF doc = None THEN UNCHANGED shown ELSE Render(doc, w)
            /\ UNCHANGED inflight
       ELSE /\ inflight' = IF doc = None THEN inflight ELSE With(inflight, {Rerender(doc, w)})
            /\ UNCHANGED <<wrap, shown>>
    /\ UNCHANGED <<doc, docs, history, loading, palette>>

(* Mutant: a rendering of a page that was left is shown. *)
RerenderedAnyPage(d, w) ==
    /\ BagIn(Rerender(d, w), inflight)
    /\ inflight' = Without(Rerender(d, w))
    /\ IF w = width THEN Render(d, w) ELSE UNCHANGED shown
    /\ UNCHANGED <<width, wrap, doc, docs, history, loading, palette, events>>

Rerendered(d, w) ==
    /\ BagIn(Rerender(d, w), inflight)
    /\ inflight' = Without(Rerender(d, w))
    /\ IF w = width /\ d = doc THEN Render(d, w) ELSE UNCHANGED shown
    /\ UNCHANGED <<width, wrap, doc, docs, history, loading, palette, events>>

(* stripe docs search: the palette opens, and its query is pasted. *)
OpenQuery ==
    /\ BagIn(OpenWithQuery, inflight)
    /\ visible' = TRUE
    /\ inflight' = With(Without(OpenWithQuery), {Paste})
    /\ UNCHANGED <<view, loading, input, searchGen, pending, searching, results, searchCancel, events>>

PasteQuery ==
    /\ BagIn(Paste, inflight)
    /\ IF visible /\ input \in SearchInputs
       THEN \E q \in Queries \ {input} : ScheduleSearch(q, Without(Paste))
       ELSE /\ inflight' = Without(Paste)
            /\ UNCHANGED <<input, searchGen, pending, searching, results, searchCancel>>
    /\ UNCHANGED <<view, loading, visible, events>>

User ==
    \/ \E i \in {"", ">", "@"} : OpenPalette(i)
    \/ \E i \in Inputs : Type(i)
    \/ Escape
    \/ \E item \in {"page", "external", "command"} : Execute(item)
    \/ Browse \/ Back
    \/ \E w \in Widths : Resize(w)

Answer ==
    \/ \E g \in {c.gen : c \in {c \in BagToSet(inflight) : c.msg = "debounce"}} : HandleDebounce(g)
    \/ \E q \in SearchInputs, live \in BOOLEAN : HandleSearchResult(q, live)
    \/ \E item \in {"page", "external", "command"} : HandleSelected(item)
    \/ ClosePalette \/ ShowStatus
    \/ PageReady \/ FetchFails
    \/ \E d \in 1..docs, w \in Widths : Rerendered(d, w)
    \/ OpenQuery \/ PasteQuery

Next == User \/ Answer

(* A command sends its message: timers fire, and the HTTP client gives up
   after ten seconds. *)
Fairness == WF_vars(Answer)

Spec == Init /\ [][Next]_vars /\ Fairness

-----------------------------------------------------------------------------
(* When the palette has stopped spinning, the results are those of what is
   typed, whatever was typed, closed, opened and answered before. *)
SettledIsCurrent ==
    visible /\ input \in Queries /\ ~pending /\ ~searching =>
        results.query = input

(* The viewport shows the page the reader is on, unless its rendering failed, however
   late renderings of other pages and widths come. *)
ShownIsDoc == width # 0 /\ doc # None /\ doc \notin Unrenderable => shown.doc = doc

(* A spinner is not left on: while one turns, the timer, the search or the fetch
   it turns for is under way, and the palette will take its message, whatever was
   cancelled, superseded or left in between (palette.go: handleDebounce and
   handleSearchResult drop what is not for them). *)
SpinnerHasCause ==
    /\ pending \/ searching => visible /\ input \in SearchInputs
    /\ pending => BagIn(Debounce(searchGen), inflight)
    /\ searching => BagIn(Search(input, TRUE), inflight)
    /\ loading => BagIn(Fetch, inflight)

(* The reader stops spinning once the user pauses. *)
Settles == (pending \/ searching \/ loading) ~> ~(pending \/ searching \/ loading)

(* "The TUI rebuilds the renderer on each window resize" (tui/model.go:109):
   refuted. *)
WrappedToWindow ==
    shown.doc # None /\ (\A w \in Widths : ~BagIn(Rerender(doc, w), inflight)) => shown.width = width
=============================================================================
