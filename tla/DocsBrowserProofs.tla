-------------------------- MODULE DocsBrowserProofs --------------------------
(***************************************************************************)
(* What the reader shows is true whatever is typed, pressed and resized,   *)
(* as often as one likes, and in whatever order the answers come; and what *)
(* a spinner waits for is still to come (SpinInv).                         *)
(***************************************************************************)
EXTENDS DocsBrowser, TLAPS

(* A palette that is closed is empty, and the renderer is there as soon as the
   size of the window is. *)
ClosedIsEmpty == ~visible => input = ""
RendererIsThere == width # 0 => wrap # 0

BrowserInv == ClosedIsEmpty /\ RendererIsThere /\ SettledIsCurrent /\ ShownIsDoc

(* Before the first key everything is closed. *)
LEMMA InitInv == Init => BrowserInv
  <1> SUFFICES ASSUME Init PROVE BrowserInv  OBVIOUS
  <1> USE BrowserAssumption
  <1>1. SettledIsCurrent
    BY DEF Init, SettledIsCurrent
  <1>2. ShownIsDoc
    BY DEF Init, ShownIsDoc, Rendered
  <1> QED
    BY <1>1, <1>2 DEF Init, BrowserInv, ClosedIsEmpty, RendererIsThere

(* What the palette does leaves the page alone, and the page what the palette
   does. *)
PaletteInv == ClosedIsEmpty /\ SettledIsCurrent
PageInv == RendererIsThere /\ ShownIsDoc

(* A palette that was cleared is closed; one whose input changed is pending. *)
LEMMA ClearedInv == Cleared => PaletteInv'
  BY DEF Cleared, PaletteInv, ClosedIsEmpty, SettledIsCurrent

LEMMA ScheduledInv ==
  ASSUME NEW i, NEW bag, ScheduleSearch(i, bag), visible'
  PROVE  PaletteInv'
  BY BrowserAssumption DEF ScheduleSearch, PaletteInv, ClosedIsEmpty, SettledIsCurrent, SearchInputs

LEMMA UnchangedPalette == PaletteInv /\ UNCHANGED palette => PaletteInv'
  <1> SUFFICES ASSUME PaletteInv, UNCHANGED palette PROVE PaletteInv'
    OBVIOUS
  <1>1. /\ visible' = visible /\ input' = input /\ results' = results
        /\ pending' = pending /\ searching' = searching
    BY DEF palette
  <1>2. ClosedIsEmpty'
    BY <1>1, Zenon DEF PaletteInv, ClosedIsEmpty
  <1>3. SettledIsCurrent'
    BY <1>1, Zenon DEF PaletteInv, SettledIsCurrent
  <1> QED BY <1>2, <1>3 DEF PaletteInv

LEMMA UnchangedView == PageInv /\ UNCHANGED view => PageInv'
  BY DEF view, PageInv, RendererIsThere, ShownIsDoc

(* A page that is shown has its own palette and its own rendering. *)
LEMMA ShowInv ==
  ASSUME NEW d, PageInv, Show(d)
  PROVE  PaletteInv' /\ PageInv'
  <1>1. PaletteInv'
    BY ClearedInv DEF Show, NewPalette
  <1>2. PageInv'
    BY DEF Show, Render, PageInv, RendererIsThere, ShownIsDoc, Rendered
  <1> QED BY <1>1, <1>2

(* Every key and every answer keeps it. *)
LEMMA StepInv == BrowserInv /\ [Next]_vars => BrowserInv'
  <1> SUFFICES ASSUME PaletteInv, PageInv, [Next]_vars PROVE PaletteInv' /\ PageInv'
    BY DEF BrowserInv, PaletteInv, PageInv
  <1>1. ASSUME NEW i \in {"", ">", "@"}, OpenPalette(i) PROVE PaletteInv' /\ PageInv'
    <2>1. PageInv'
      BY <1>1, UnchangedView DEF OpenPalette
    <2>2. CASE i = ""
      BY <1>1, <2>1, <2>2, BrowserAssumption DEF OpenPalette, PaletteInv, ClosedIsEmpty, SettledIsCurrent
    <2>3. CASE i # ""
      BY <1>1, <2>1, <2>3, ScheduledInv DEF OpenPalette
    <2> QED BY <2>2, <2>3
  <1>2. ASSUME NEW i \in Inputs, Type(i) PROVE PaletteInv' /\ PageInv'
    BY <1>2, ScheduledInv, UnchangedView DEF Type
  <1>3. CASE Escape
    BY <1>3, ClearedInv, UnchangedView DEF Escape, Dismiss
  <1>4. ASSUME NEW item \in {"page", "external", "command"}, Execute(item)
        PROVE PaletteInv' /\ PageInv'
    BY <1>4, UnchangedPalette, UnchangedView DEF Execute
  <1>5. CASE Browse
    BY <1>5, UnchangedPalette, UnchangedView DEF Browse
  <1>6. CASE Back
    BY <1>6, ShowInv DEF Back
  <1>7. ASSUME NEW w \in Widths, Resize(w) PROVE PaletteInv' /\ PageInv'
    <2>1. PaletteInv'
      BY <1>7, UnchangedPalette DEF Resize
    <2>2. CASE width = 0
      <3>1. wrap' = width' /\ doc' = doc
        BY <1>7, <2>2 DEF Resize
      <3>2. doc # None /\ doc \notin Unrenderable => shown' = Rendered(doc, w)
        BY <1>7, <2>2 DEF Resize, Render
      <3>3. RendererIsThere'
        BY <3>1 DEF RendererIsThere
      <3>4. ShownIsDoc'
        <4>1. ASSUME doc # None, doc \notin Unrenderable PROVE shown'.doc = doc
          BY <3>2, <4>1 DEF Rendered
        <4> QED BY <3>1, <4>1 DEF ShownIsDoc
      <3> QED
        BY <2>1, <3>3, <3>4 DEF PageInv
    <2>3. CASE width # 0
      <3>1. wrap' = wrap /\ doc' = doc /\ shown' = shown
        BY <1>7, <2>3 DEF Resize
      <3>2. RendererIsThere'
        BY <2>3, <3>1 DEF PageInv, RendererIsThere
      <3>3. ShownIsDoc'
        BY <2>3, <3>1 DEF PageInv, ShownIsDoc
      <3> QED
        BY <2>1, <3>2, <3>3 DEF PageInv
    <2> QED BY <2>2, <2>3
  <1>8. ASSUME NEW g, HandleDebounce(g) PROVE PaletteInv' /\ PageInv'
    <2>1. PageInv'
      BY <1>8, UnchangedView DEF HandleDebounce
    <2>2. PaletteInv'
      BY <1>8 DEF HandleDebounce, PaletteInv, ClosedIsEmpty, SettledIsCurrent
    <2> QED BY <2>1, <2>2
  <1>9. ASSUME NEW q, NEW live, HandleSearchResult(q, live) PROVE PaletteInv' /\ PageInv'
    <2>1. PageInv'
      BY <1>9, UnchangedView DEF HandleSearchResult
    <2>2. PaletteInv'
      <3>1. CASE UNCHANGED <<searching, results>>
        BY <1>9, <3>1, UnchangedPalette DEF HandleSearchResult, palette
      <3>2. ASSUME visible, q = input, NEW hits, results' = [query |-> q, hits |-> hits]
            PROVE  PaletteInv'
        <4>1. results'.query = input'
          BY <1>9, <3>2 DEF HandleSearchResult
        <4> QED
          BY <1>9, <3>2, <4>1 DEF HandleSearchResult, PaletteInv, ClosedIsEmpty, SettledIsCurrent
      <3> QED BY <1>9, <3>1, <3>2 DEF HandleSearchResult
    <2> QED BY <2>1, <2>2
  <1>10. ASSUME NEW item \in {"page", "external", "command"}, HandleSelected(item)
         PROVE PaletteInv' /\ PageInv'
    <2>1. PageInv'
      BY <1>10, UnchangedView DEF HandleSelected
    <2>2. Cleared \/ UNCHANGED palette
      BY <1>10 DEF HandleSelected, Dismiss
    <2> QED BY <2>1, <2>2, ClearedInv, UnchangedPalette
  <1>11. CASE ClosePalette
    BY <1>11, ClearedInv, UnchangedView DEF ClosePalette, Dismiss
  <1>12. CASE ShowStatus
    BY <1>12, UnchangedPalette, UnchangedView DEF ShowStatus
  <1>13. CASE PageReady
    BY <1>13, ShowInv DEF PageReady
  <1>14. CASE FetchFails
    BY <1>14, UnchangedPalette, UnchangedView DEF FetchFails
  <1>15. ASSUME NEW d, NEW w, Rerendered(d, w) PROVE PaletteInv' /\ PageInv'
    <2>1. PaletteInv'
      BY <1>15, UnchangedPalette DEF Rerendered
    <2>2. PageInv'
      BY <1>15 DEF Rerendered, Render, PageInv, RendererIsThere, ShownIsDoc, Rendered
    <2> QED BY <2>1, <2>2
  <1>16. CASE OpenQuery
    <2>1. PageInv'
      BY <1>16, UnchangedView DEF OpenQuery
    <2>2. visible' /\ input' = input /\ results' = results
          /\ pending' = pending /\ searching' = searching
      BY <1>16 DEF OpenQuery
    <2>3. CASE visible
      BY <2>1, <2>2, <2>3 DEF PaletteInv, ClosedIsEmpty, SettledIsCurrent
    <2>4. CASE ~visible
      BY <2>1, <2>2, <2>4, BrowserAssumption DEF PaletteInv, ClosedIsEmpty, SettledIsCurrent
    <2> QED BY <2>3, <2>4
  <1>17. CASE PasteQuery
    <2>1. PageInv'
      BY <1>17, UnchangedView DEF PasteQuery
    <2>2. CASE visible /\ input \in SearchInputs
      BY <1>17, <2>1, <2>2, ScheduledInv DEF PasteQuery
    <2>3. CASE ~(visible /\ input \in SearchInputs)
      BY <1>17, <2>1, <2>3, UnchangedPalette DEF PasteQuery, palette
    <2> QED BY <2>2, <2>3
  <1>18. CASE UNCHANGED vars
    BY <1>18, UnchangedPalette, UnchangedView DEF vars
  <1>19. CASE User
    BY <1>19, <1>1, <1>2, <1>3, <1>4, <1>5, <1>6, <1>7 DEF User
  <1>20. CASE Answer
    BY <1>20, <1>8, <1>9, <1>10, <1>11, <1>12, <1>13, <1>14, <1>15, <1>16, <1>17 DEF Answer
  <1> QED BY <1>18, <1>19, <1>20 DEF Next

(* The strengthening: besides what is shown, that a closed palette is empty, so
   that opening it shows nothing stale, and that a window whose size is known
   has a renderer, so that no page comes without being shown. *)
THEOREM BrowserInvariant == Spec => []BrowserInv
  <1> QED BY InitInv, StepInv, PTL DEF Spec

(* For any number of keys and resizes, a palette at rest shows the results of
   what is typed (palette.go, handleSearchResult). *)
THEOREM BrowserSettledIsCurrent == Spec => []SettledIsCurrent
  <1>1. BrowserInv => SettledIsCurrent
    BY DEF BrowserInv
  <1> QED BY <1>1, BrowserInvariant, PTL

(* For any number of pages and widths, what is on the screen is the page the
   reader is on, unless its rendering failed (tui/model.go, rerenderMsg). *)
THEOREM BrowserShownIsDoc == Spec => []ShownIsDoc
  <1>1. BrowserInv => ShownIsDoc
    BY DEF BrowserInv
  <1> QED BY <1>1, BrowserInvariant, PTL
-----------------------------------------------------------------------------
(* The bag of commands under way. *)

(* What is sent off is in the bag with what was there. *)
LEMMA InWith ==
  ASSUME NEW bag, IsABag(bag), NEW S
  PROVE  /\ IsABag(With(bag, S))
         /\ \A e : BagIn(e, With(bag, S)) <=> BagIn(e, bag) \/ e \in S
  BY DEF IsABag, With, SetToBag, (+), BagIn, BagToSet

(* One message taken out leaves the others. *)
LEMMA InMinus ==
  ASSUME NEW bag, IsABag(bag), NEW c
  PROVE  /\ IsABag(bag (-) SetToBag({c}))
         /\ \A e : e # c => (BagIn(e, bag (-) SetToBag({c})) <=> BagIn(e, bag))
  BY DEF IsABag, SetToBag, (-), BagIn, BagToSet

(* A search that is cancelled is the only one in the bag that may change. *)
LEMMA InCancelled ==
  ASSUME NEW bag, IsABag(bag)
  PROVE  /\ IsABag(Cancelled(bag))
         /\ \A e : e.msg # "search" => (BagIn(e, Cancelled(bag)) <=> BagIn(e, bag))
  <1> DEFINE live == Search(searchCancel, TRUE)
             dead == Search(searchCancel, FALSE)
  <1>1. CASE BagIn(live, bag)
    <2>1. Cancelled(bag) = With(bag (-) SetToBag({live}), {dead})
      BY <1>1 DEF Cancelled, With
    <2>2. \A e : e.msg # "search" => e # live /\ e # dead
      BY DEF Search
    <2> HIDE DEF live, dead
    <2>3. IsABag(bag (-) SetToBag({live}))
      BY InMinus
    <2>4. \A e : e # live => (BagIn(e, bag (-) SetToBag({live})) <=> BagIn(e, bag))
      BY InMinus
    <2> DEFINE rest == bag (-) SetToBag({live})
    <2> HIDE DEF rest
    <2>5. /\ IsABag(With(rest, {dead}))
          /\ \A e : BagIn(e, With(rest, {dead})) <=> BagIn(e, rest) \/ e \in {dead}
      BY <2>3, InWith DEF rest
    <2> QED
      BY <2>1, <2>2, <2>4, <2>5 DEF rest
  <1>2. CASE ~BagIn(live, bag)
    BY <1>2 DEF Cancelled
  <1> QED BY <1>1, <1>2

(* The three kinds of commands that something waits for are told apart. *)
LEMMA MessagesDiffer ==
  /\ Fetch.msg = "fetch"
  /\ \A g : Debounce(g).msg = "debounce"
  /\ \A q, l : Search(q, l).msg = "search"
  /\ \A i : Selected(i).msg = "selected"
  /\ \A d, w : Rerender(d, w).msg = "rerender"
  /\ Status.msg = "status" /\ Close.msg = "close"
  /\ OpenWithQuery.msg = "openWithQuery" /\ Paste.msg = "paste"
  /\ \A g, h : Debounce(g) = Debounce(h) => g = h
  /\ \A q, r, l, m : Search(q, l) = Search(r, m) => q = r /\ l = m
  BY DEF Fetch, Debounce, Search, Selected, Rerender, Status, Close, OpenWithQuery, Paste

SpinInv == IsABag(inflight) /\ SpinnerHasCause

(* Typing leaves a timer for what is typed, and no search. *)
LEMMA ScheduledSpin ==
  ASSUME NEW i, NEW bag, IsABag(bag), ScheduleSearch(i, bag), visible',
         loading' => BagIn(Fetch, bag)
  PROVE  SpinInv'
  <1>1. ~searching' /\ input' = i
    BY DEF ScheduleSearch
  <1>2. IsABag(Cancelled(bag)) /\ (loading' => BagIn(Fetch, Cancelled(bag)))
    BY InCancelled, MessagesDiffer
  <1>3. CASE i \in SearchInputs
    <2>1. /\ searchGen' = searchGen + 1
          /\ inflight' = With(Cancelled(bag), {Debounce(searchGen + 1)})
      BY <1>3 DEF ScheduleSearch
    <2> QED
      BY <1>1, <1>2, <1>3, <2>1, InWith DEF SpinInv, SpinnerHasCause
  <1>4. CASE i \notin SearchInputs
    <2>1. ~pending' /\ inflight' = Cancelled(bag)
      BY <1>4 DEF ScheduleSearch
    <2> QED
      BY <1>1, <1>2, <2>1 DEF SpinInv, SpinnerHasCause
  <1> QED BY <1>3, <1>4

(* A palette that is cleared does not spin. *)
LEMMA ClearedSpin ==
  ASSUME Cleared, IsABag(inflight'), loading' => BagIn(Fetch, inflight')
  PROVE  SpinInv'
  <1>1. ~pending' /\ ~searching'
    BY Zenon DEF Cleared
  <1> QED BY <1>1 DEF SpinInv, SpinnerHasCause

LEMMA DismissedSpin ==
  ASSUME NEW bag, IsABag(bag), Dismiss(bag), loading' => BagIn(Fetch, bag)
  PROVE  SpinInv'
  <1>1. IsABag(inflight') /\ (loading' => BagIn(Fetch, inflight'))
    BY InCancelled, MessagesDiffer DEF Dismiss
  <1> QED BY <1>1, ClearedSpin DEF Dismiss

(* More commands under way take no cause away. *)
LEMMA MoreSpin ==
  ASSUME SpinInv, NEW S, inflight' = With(inflight, S),
         loading' => loading \/ Fetch \in S, UNCHANGED palette
  PROVE  SpinInv'
  BY InWith DEF SpinInv, SpinnerHasCause, palette

(* A message other than the cause of a spinner may be received. *)
LEMMA FewerSpin ==
  ASSUME SpinInv, NEW c, inflight' = Without(c),
         loading' => loading /\ c # Fetch,
         pending => c # Debounce(searchGen), searching => c # Search(input, TRUE),
         UNCHANGED <<input, searchGen, pending, searching>>, visible => visible'
  PROVE  SpinInv'
  <1>1. IsABag(inflight') /\ \A e : e # c => (BagIn(e, inflight') <=> BagIn(e, inflight))
    BY InMinus DEF SpinInv, Without
  <1>2. /\ input' = input /\ searchGen' = searchGen
        /\ pending' = pending /\ searching' = searching
    OBVIOUS
  <1>3. pending' \/ searching' => visible' /\ input' \in SearchInputs
    BY <1>2 DEF SpinInv, SpinnerHasCause
  <1>4. pending' => BagIn(Debounce(searchGen'), inflight')
    BY <1>1, <1>2 DEF SpinInv, SpinnerHasCause
  <1>5. ASSUME searching' PROVE BagIn(Search(input', TRUE), inflight')
    <2> DEFINE sought == Search(input, TRUE)
    <2>1. BagIn(sought, inflight) /\ c # sought
      BY <1>2, <1>5 DEF SpinInv, SpinnerHasCause
    <2> HIDE DEF sought
    <2>2. BagIn(sought, inflight')
      BY <1>1, <2>1
    <2> QED
      BY <1>2, <2>2 DEF sought
  <1>6. loading' => BagIn(Fetch, inflight')
    BY <1>1 DEF SpinInv, SpinnerHasCause
  <1> QED BY <1>1, <1>3, <1>4, <1>5, <1>6 DEF SpinInv, SpinnerHasCause

(* Every key and every answer keeps it. *)
LEMMA SpinStep == SpinInv /\ [Next]_vars => SpinInv'
  <1> SUFFICES ASSUME SpinInv, [Next]_vars PROVE SpinInv'
    OBVIOUS
  <1>0. IsABag(inflight) /\ (loading => BagIn(Fetch, inflight))
    BY DEF SpinInv, SpinnerHasCause
  <1>1. ASSUME NEW i \in {"", ">", "@"}, OpenPalette(i) PROVE SpinInv'
    <2>1. visible' /\ loading' = loading /\ ~visible
      BY <1>1 DEF OpenPalette
    <2>2. CASE i = ""
      <3>1. UNCHANGED <<input, searching, pending, searchGen, inflight>>
        BY <1>1, <2>2 DEF OpenPalette
      <3>2. ~pending /\ ~searching
        BY <2>1 DEF SpinInv, SpinnerHasCause
      <3> QED
        BY <1>0, <2>1, <3>1, <3>2 DEF SpinInv, SpinnerHasCause
    <2>3. CASE i # ""
      <3>1. ScheduleSearch(i, inflight)
        BY <1>1, <2>3 DEF OpenPalette
      <3> QED
        BY <1>0, <2>1, <3>1, ScheduledSpin
    <2> QED BY <2>2, <2>3
  <1>2. ASSUME NEW i \in Inputs, Type(i) PROVE SpinInv'
    <2>1. visible' /\ loading' = loading /\ ScheduleSearch(i, inflight)
      BY <1>2 DEF Type
    <2> QED BY <1>0, <2>1, ScheduledSpin
  <1>3. CASE Escape
    BY <1>0, <1>3, DismissedSpin DEF Escape
  <1>4. ASSUME NEW item \in {"page", "external", "command"}, Execute(item) PROVE SpinInv'
    <2> DEFINE S == {Selected(item), Close} \cup IF item = "command" THEN {Status} ELSE {}
    <2>1. inflight' = With(inflight, S) /\ loading' = loading /\ UNCHANGED palette
      BY <1>4 DEF Execute
    <2> HIDE DEF S
    <2> QED BY <2>1, MoreSpin
  <1>5. CASE Browse
    BY <1>5, MoreSpin DEF Browse
  <1>6. CASE Back
    BY <1>0, <1>6, ClearedSpin DEF Back, Show, NewPalette
  <1>7. ASSUME NEW w \in Widths, Resize(w) PROVE SpinInv'
    <2>1. UNCHANGED palette /\ loading' = loading
      BY <1>7 DEF Resize
    <2>2. CASE inflight' = inflight
      BY <2>1, <2>2 DEF palette, SpinInv, SpinnerHasCause
    <2>3. CASE inflight' = With(inflight, {Rerender(doc, w)})
      BY <2>1, <2>3, MoreSpin
    <2> QED BY <1>7, <2>2, <2>3 DEF Resize
  <1>8. ASSUME NEW g, HandleDebounce(g) PROVE SpinInv'
    <2>1. UNCHANGED <<loading, visible, input, searchGen>>
      BY <1>8 DEF HandleDebounce, view
    <2>2. CASE visible /\ g = searchGen /\ input \in SearchInputs
      <3>1. /\ ~pending' /\ visible' /\ input' \in SearchInputs
            /\ inflight' = With(Without(Debounce(g)), {Search(input, TRUE)})
        BY <1>8, <2>1, <2>2 DEF HandleDebounce
      <3>2. /\ IsABag(Without(Debounce(g)))
            /\ loading' => BagIn(Fetch, Without(Debounce(g)))
        BY <1>0, <2>1, InMinus, MessagesDiffer DEF Without
      <3> DEFINE sought == Search(input, TRUE)
      <3>3. inflight' = With(Without(Debounce(g)), {sought})
        BY <3>1
      <3>4. sought = Search(input', TRUE)
        BY <2>1
      <3> HIDE DEF sought
      <3>5. /\ IsABag(inflight') /\ BagIn(sought, inflight')
            /\ loading' => BagIn(Fetch, inflight')
        BY <3>2, <3>3, InWith
      <3> QED
        BY <3>1, <3>4, <3>5 DEF SpinInv, SpinnerHasCause
    <2>3. CASE ~(visible /\ g = searchGen /\ input \in SearchInputs)
      <3>1. inflight' = Without(Debounce(g)) /\ UNCHANGED <<pending, searching>>
        BY <1>8, <2>3 DEF HandleDebounce
      <3>2. pending => Debounce(g) # Debounce(searchGen)
        BY <2>3, MessagesDiffer DEF SpinInv, SpinnerHasCause
      <3>3. Debounce(g) # Search(input, TRUE) /\ Debounce(g) # Fetch
        BY DEF Debounce, Search, Fetch
      <3> QED
        BY <2>1, <3>1, <3>2, <3>3, FewerSpin
    <2> QED BY <2>2, <2>3
  <1>9. ASSUME NEW q, NEW live \in BOOLEAN, HandleSearchResult(q, live) PROVE SpinInv'
    <2>1. /\ inflight' = Without(Search(q, live))
          /\ UNCHANGED <<loading, visible, input, searchGen, pending>>
      BY <1>9 DEF HandleSearchResult, view
    <2>2. Search(q, live) # Debounce(searchGen) /\ Search(q, live) # Fetch
      BY DEF Debounce, Search, Fetch
    <2>3. CASE visible /\ q = input /\ ~searching'
      <3> DEFINE found == Search(q, live)
      <3>1. found # Debounce(searchGen) /\ found # Fetch /\ inflight' = Without(found)
        BY <2>1, <2>2
      <3> HIDE DEF found
      <3>2. /\ IsABag(inflight')
            /\ \A e : e # found => (BagIn(e, inflight') <=> BagIn(e, inflight))
        BY <1>0, <3>1, InMinus DEF Without
      <3>3. /\ pending' => visible' /\ input' \in SearchInputs
            /\ pending' => BagIn(Debounce(searchGen'), inflight')
            /\ loading' => BagIn(Fetch, inflight')
        BY <2>1, <3>1, <3>2 DEF SpinInv, SpinnerHasCause
      <3> QED
        BY <2>3, <3>2, <3>3 DEF SpinInv, SpinnerHasCause
    <2>4. CASE UNCHANGED searching /\ (~live \/ ~(visible /\ q = input))
      <3>1. searching => Search(q, live) # Search(input, TRUE)
        BY <2>4 DEF SpinInv, SpinnerHasCause, Search
      <3> QED
        BY <2>1, <2>2, <2>4, <3>1, FewerSpin
    <2> QED BY <1>9, <2>3, <2>4 DEF HandleSearchResult
  <1>10. ASSUME NEW item \in {"page", "external", "command"}, HandleSelected(item)
         PROVE SpinInv'
    <2>1. /\ IsABag(Without(Selected(item)))
          /\ loading => BagIn(Fetch, Without(Selected(item)))
      BY <1>0, InMinus, MessagesDiffer DEF Without
    <2>2. CASE item = "page"
      <3>1. Dismiss(With(Without(Selected(item)), {Fetch}))
        BY <1>10, <2>2 DEF HandleSelected
      <3>2. /\ IsABag(With(Without(Selected(item)), {Fetch}))
            /\ BagIn(Fetch, With(Without(Selected(item)), {Fetch}))
        BY <2>1, InWith
      <3> QED BY <3>1, <3>2, DismissedSpin
    <2>3. CASE item = "external"
      <3>1. Dismiss(With(Without(Selected(item)), {Status})) /\ loading' = loading
        BY <1>10, <2>3 DEF HandleSelected
      <3>2. /\ IsABag(With(Without(Selected(item)), {Status}))
            /\ loading' => BagIn(Fetch, With(Without(Selected(item)), {Status}))
        BY <2>1, <3>1, InWith
      <3> QED BY <3>1, <3>2, DismissedSpin
    <2>4. CASE item = "command"
      <3>1. inflight' = Without(Selected(item)) /\ loading' = loading /\ UNCHANGED palette
        BY <1>10, <2>4 DEF HandleSelected
      <3>2. Selected(item) # Debounce(searchGen) /\ Selected(item) # Fetch
            /\ Selected(item) # Search(input, TRUE)
        BY DEF Selected, Debounce, Search, Fetch
      <3>3. UNCHANGED <<input, searchGen, pending, searching, visible>>
        BY <3>1 DEF palette
      <3> QED BY <3>1, <3>2, <3>3, FewerSpin
    <2> QED BY <2>2, <2>3, <2>4
  <1>11. CASE ClosePalette
    <2>1. /\ IsABag(Without(Close)) /\ (loading' => BagIn(Fetch, Without(Close)))
      BY <1>0, <1>11, InMinus, MessagesDiffer DEF Without, ClosePalette
    <2> QED BY <1>11, <2>1, DismissedSpin DEF ClosePalette
  <1>12. CASE ShowStatus
    <2>1. Status # Debounce(searchGen) /\ Status # Search(input, TRUE)
      BY DEF Status, Debounce, Search
    <2>2. /\ inflight' = Without(Status) /\ ~loading'
          /\ UNCHANGED <<input, searchGen, pending, searching, visible>>
      BY <1>12 DEF ShowStatus, palette
    <2> QED BY <2>1, <2>2, FewerSpin
  <1>13. CASE PageReady
    <2>1. Cleared /\ ~loading' /\ inflight' = Without(Fetch)
      BY <1>13 DEF PageReady, Show, NewPalette
    <2> QED BY <1>0, <2>1, InMinus, ClearedSpin DEF Without
  <1>14. CASE FetchFails
    <2>1. Fetch # Debounce(searchGen) /\ Fetch # Search(input, TRUE)
      BY DEF Fetch, Debounce, Search
    <2>2. /\ inflight' = Without(Fetch) /\ ~loading'
          /\ UNCHANGED <<input, searchGen, pending, searching, visible>>
      BY <1>14 DEF FetchFails, palette
    <2> QED BY <2>1, <2>2, FewerSpin
  <1>15. ASSUME NEW d, NEW w, Rerendered(d, w) PROVE SpinInv'
    <2>1. /\ Rerender(d, w) # Debounce(searchGen) /\ Rerender(d, w) # Fetch
          /\ Rerender(d, w) # Search(input, TRUE)
      BY DEF Rerender, Debounce, Search, Fetch
    <2>2. /\ inflight' = Without(Rerender(d, w)) /\ loading' = loading
          /\ UNCHANGED <<input, searchGen, pending, searching, visible>>
      BY <1>15 DEF Rerendered, palette
    <2> QED BY <2>1, <2>2, FewerSpin
  <1>16. CASE OpenQuery
    <2>1. /\ IsABag(Without(OpenWithQuery))
          /\ \A e : e # OpenWithQuery =>
                (BagIn(e, Without(OpenWithQuery)) <=> BagIn(e, inflight))
      BY <1>0, InMinus DEF Without
    <2>2. /\ IsABag(inflight')
          /\ \A e : e # OpenWithQuery /\ BagIn(e, inflight) => BagIn(e, inflight')
      BY <1>16, <2>1, InWith DEF OpenQuery
    <2>3. visible' /\ UNCHANGED <<loading, input, searchGen, pending, searching>>
      BY <1>16 DEF OpenQuery
    <2> DEFINE sought == Search(input, TRUE)
    <2>4. OpenWithQuery # Debounce(searchGen) /\ OpenWithQuery # sought /\ OpenWithQuery # Fetch
      BY DEF OpenWithQuery, Debounce, Search, Fetch
    <2>5. sought = Search(input', TRUE) /\ (searching => BagIn(sought, inflight))
      BY <2>3 DEF SpinInv, SpinnerHasCause
    <2> HIDE DEF sought
    <2>6. searching' => BagIn(sought, inflight')
      BY <2>2, <2>3, <2>4, <2>5
    <2>7. /\ pending' \/ searching' => input' \in SearchInputs
          /\ pending' => BagIn(Debounce(searchGen'), inflight')
          /\ loading' => BagIn(Fetch, inflight')
      BY <2>2, <2>3, <2>4 DEF SpinInv, SpinnerHasCause
    <2> QED
      BY <2>2, <2>3, <2>5, <2>6, <2>7 DEF SpinInv, SpinnerHasCause
  <1>17. CASE PasteQuery
    <2>1. /\ IsABag(Without(Paste)) /\ (loading => BagIn(Fetch, Without(Paste)))
      BY <1>0, InMinus, MessagesDiffer DEF Without
    <2>2. visible' = visible /\ loading' = loading
      BY <1>17 DEF PasteQuery
    <2>3. CASE visible /\ input \in SearchInputs
      <3>1. PICK q : ScheduleSearch(q, Without(Paste))
        BY <1>17, <2>3 DEF PasteQuery
      <3> QED BY <2>1, <2>2, <2>3, <3>1, ScheduledSpin
    <2>4. CASE ~(visible /\ input \in SearchInputs)
      <3>1. Paste # Debounce(searchGen) /\ Paste # Search(input, TRUE) /\ Paste # Fetch
        BY DEF Paste, Debounce, Search, Fetch
      <3>2. inflight' = Without(Paste) /\ UNCHANGED <<input, searchGen, pending, searching>>
        BY <1>17, <2>4 DEF PasteQuery
      <3> QED BY <2>2, <3>1, <3>2, FewerSpin
    <2> QED BY <2>3, <2>4
  <1>18. CASE UNCHANGED vars
    BY <1>18 DEF vars, palette, SpinInv, SpinnerHasCause
  <1>19. CASE User
    BY <1>19, <1>1, <1>2, <1>3, <1>4, <1>5, <1>6, <1>7 DEF User
  <1>20. CASE Answer
    BY <1>20, <1>8, <1>9, <1>10, <1>11, <1>12, <1>13, <1>14, <1>15, <1>16, <1>17 DEF Answer
  <1> QED BY <1>18, <1>19, <1>20 DEF Next

(* For any number of keys and answers, nothing spins for an answer that is not
   under way or will be dropped: the part of Settles that is not scheduling. *)
THEOREM BrowserSpinnerHasCause == Spec => []SpinnerHasCause
  <1>1. Init => SpinInv
    <2> SUFFICES ASSUME Init PROVE SpinInv
      OBVIOUS
    <2>1. ~pending /\ ~searching /\ ~loading
      BY DEF Init
    <2>2. PICK S : inflight = SetToBag(S)
      BY DEF Init, EmptyBag
    <2>3. IsABag(SetToBag(S))
      BY DEF IsABag, SetToBag
    <2> QED BY <2>1, <2>2, <2>3 DEF SpinInv, SpinnerHasCause
  <1>2. SpinInv => SpinnerHasCause
    BY DEF SpinInv
  <1> QED BY <1>1, <1>2, SpinStep, PTL DEF Spec
=============================================================================
