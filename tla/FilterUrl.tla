------------------------------ MODULE FilterUrl ------------------------------
(***************************************************************************)
(* The filters of the directory and the map (useCameraFilters,              *)
(* app/lib/use-camera-filters.ts): the address is what users share, a mirror   *)
(* of it in the hook is what the page filters by, and the search box commits  *)
(* what was typed after a pause.                                           *)
(*                                                                         *)
(* An action is one event of the browser.  The effects of a render run in an  *)
(* action of their own, RunEffects: at once after a click or a key, but possibly    *)
(* later when a timer or the router caused the render.                       *)
(*                                                                         *)
(* Simplifications:                                                        *)
(*  - free text (for origin and the state of confirmation, too) and type (for     *)
(*    freshness, too) stand for the dimensions of a filter; focus and            *)
(*    parameters the hook does not own are left out;                           *)
(*  - the router is modelled from its use: it does not see                     *)
(*    history.replaceState, it writes the address when a navigation lands, and  *)
(*    a newer navigation replaces the one under way.                           *)
(***************************************************************************)
EXTENDS Integers, FiniteSets

CONSTANTS
    Texts, NoText,    \* what can be searched for
    Types, All,
    Sorts, Alphabetical,
    Pages,            \* numbers of result pages, 1 among them
    Links,            \* filters that links and history entries lead to
    MaxActs           \* acts of the user
ASSUME FilterAssumption ==
    /\ NoText \in Texts /\ All \in Types /\ Alphabetical \in Sorts
    /\ 1 \in Pages /\ Pages \subseteq Nat \ {0} /\ MaxActs \in Nat

Filters == [q : Texts, type : Types, sort : Sorts, page : Pages]
NoFilters == [q |-> NoText, type |-> All, sort |-> Alphabetical, page |-> 1]
ASSUME LinksAssumption == Links \subseteq Filters
Nowhere == [NoFilters EXCEPT !.page = 0]
NoTimer == [text |-> NoText, on |-> FALSE]

VARIABLES
    address,          \* the address bar
    router,           \* useSearchParams
    going,            \* the navigation under way, Nowhere if none
    committed,        \* the mirror
    typed,            \* qInput
    timer,            \* the debounce
    ref,              \* filtersRef
    seen,             \* routerVisibleSearchRef
    synced,           \* committed.q when the search box was last synchronised
    flush,            \* effects that wait: "none", "now" after a discrete event, "later"
    acts

fvars == <<address, router, going, committed, typed, timer, ref, seen, synced, flush, acts>>

FilterTypeOK ==
    /\ {address, router, committed, ref, seen} \subseteq Filters
    /\ going \in Filters \cup {Nowhere}
    /\ typed \in Texts /\ synced \in Texts
    /\ timer \in [text : Texts, on : BOOLEAN]
    /\ flush \in {"none", "now", "later"} /\ acts \in Nat

\* The hook is mounted on an address.
FilterInit(f) ==
    /\ address = f /\ router = f /\ committed = f /\ seen = f
    /\ typed = f.q /\ synced = f.q
    /\ going = Nowhere /\ timer = NoTimer /\ ref = NoFilters
    /\ flush = "later" /\ acts = 0
Mount(f) ==
    /\ address' = f /\ router' = f /\ committed' = f /\ seen' = f
    /\ typed' = f.q /\ synced' = f.q
    /\ going' = Nowhere /\ timer' = NoTimer /\ ref' = NoFilters
    /\ flush' = "later"
-----------------------------------------------------------------------------
(* A render.                                                               *)

\* The effect that derives the mirror from the address ran for the last render.
External == router # seen /\ router # committed
\* The effect that keeps the search box in step with the mirror.
BoxSynced(text) == IF committed.q # synced THEN committed.q ELSE text
\* An event asks for the mirror next and the text in the box.  The effects of the last
\* render run before the next one: after the handler, if they were still waiting.
Rendered(next, text) ==
    /\ ref' = committed /\ seen' = router /\ synced' = committed.q
    /\ committed' = IF External THEN router ELSE next
    /\ typed' = BoxSynced(text)

RunEffects ==
    /\ flush # "none"
    /\ Rendered(committed, typed)
    /\ flush' = IF External THEN "later" ELSE "none"
    /\ UNCHANGED <<address, router, going, timer, acts>>
-----------------------------------------------------------------------------
(* Events.                                                                 *)

\* An event handler runs once the effects of the last event have.
User == flush # "now" /\ acts < MaxActs /\ acts' = acts + 1 /\ flush' = "now"

\* applyFilters: nothing is written when the URL would stay what the ref says.
Write(next, via) ==
    /\ address' = IF next # ref /\ via = "history" THEN next ELSE address
    /\ going' = IF next # ref /\ via = "router" THEN next ELSE going

TextCommitted(text) == [ref EXCEPT !.q = text, !.page = 1]

\* setQ: back to what is committed, cleared, or typed on.
Unchanged(text) ==
    /\ text = committed.q
    /\ Rendered(committed, text) /\ timer' = NoTimer
    /\ UNCHANGED <<address, going>>
Cleared(text) ==
    /\ text = NoText /\ committed.q # NoText
    /\ LET next == [committed EXCEPT !.q = NoText, !.page = 1]
       IN  Rendered(next, text) /\ Write(next, "history")
    /\ timer' = NoTimer
TypedOn(text) ==
    /\ text \notin {NoText, committed.q}
    /\ Rendered(committed, text)
    /\ timer' = [text |-> text, on |-> TRUE]
    /\ UNCHANGED <<address, going>>
Type(text) ==
    /\ User
    /\ Unchanged(text) \/ Cleared(text) \/ TypedOn(text)
    /\ UNCHANGED router

Debounced ==
    /\ timer.on /\ flush # "now"
    /\ Rendered(TextCommitted(timer.text), typed) /\ Write(TextCommitted(timer.text), "history")
    /\ timer' = NoTimer /\ flush' = "later"
    /\ UNCHANGED <<router, acts>>

\* setType, setFreshness, setState, setOrigin, setSort, setPage
Selections == {[ref EXCEPT !.type = t, !.page = 1] : t \in Types}
     \cup {[ref EXCEPT !.sort = s, !.page = 1] : s \in Sorts}
     \cup {[ref EXCEPT !.page = p] : p \in Pages}
Choose(next) ==
    /\ User
    /\ Rendered(next, typed) /\ Write(next, "router")
    /\ UNCHANGED <<router, timer>>

Reset ==
    /\ User
    /\ Rendered(NoFilters, NoText) /\ Write(NoFilters, "router")
    /\ timer' = NoTimer
    /\ UNCHANGED router

\* A link, or the history of the browser, leads to this page.
Follow(link) ==
    /\ User
    /\ going' = link /\ Rendered(committed, typed)
    /\ UNCHANGED <<address, router, timer>>

Navigated ==
    /\ going # Nowhere /\ flush # "now"
    /\ address' = going /\ router' = going /\ going' = Nowhere
    /\ Rendered(committed, typed)
    /\ flush' = "later"
    /\ UNCHANGED <<timer, acts>>

FilterStep ==
    \/ \E text \in Texts : Type(text)
    \/ \E next \in Selections : Choose(next)
    \/ Reset
    \/ \E link \in Links : Follow(link)

AtRest == flush = "none" /\ ~timer.on /\ going = Nowhere

-----------------------------------------------------------------------------
(* What the comments say and some order of events refutes.                  *)

\* "keep the input in sync with the committed q" (use-camera-filters.ts): at rest the search
\* box shows what the page filters by, also when the debounce ran out between the landing of
\* a navigation and the effects of its render.
SearchBoxAgrees == AtRest => typed = committed.q

\* "deep links and back/forward just work -- every EXTERNAL URL change re-derives the
\* mirror" (use-camera-filters.ts): at rest the page filters by its address.
AddressIsMirror == AtRest => address = committed
=============================================================================
