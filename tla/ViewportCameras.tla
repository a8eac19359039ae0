--------------------------- MODULE ViewportCameras ---------------------------
(***************************************************************************)
(* The data layer of the map: what the browser asks for when the viewport or  *)
(* the filter changes, what it caches and merges, and when it says that the   *)
(* viewport has settled (app/lib/use-viewport-cameras.ts).                   *)
(*                                                                         *)
(* Simplifications:                                                        *)
(*  - a viewport is the sequence of the boxes it is normalised into;         *)
(*  - one page uses the hook once, so no request is joined by another run:    *)
(*    inFlight never holds a key that a run asks for;                        *)
(*  - an aborted fetch is rejected before the page changes its mind again,    *)
(*    while the worker goes on with the request;                             *)
(*  - total and the length of a cooldown decide nothing here; no caller uses  *)
(*    reload.                                                              *)
(***************************************************************************)
EXTENDS EdgeCache

CONSTANTS
    Viewports, NoView,
    Cell,             \* the cell of the client's cache a box rounds to
    MaxActs           \* acts of the user

NoRun == 0
ASSUME ViewportAssumption ==
    /\ Viewports \subseteq Seq(Boxes) /\ NoView \notin Viewports
    /\ NoRun \notin Readers /\ MaxActs \in Nat

VARIABLES
    view, filter,     \* what the page shows
    run, live,        \* runs of the fetch effect, and the one not cleaned up yet
    cells,            \* bboxCache
    store,            \* storeRef: the payload merged for each record, 0 for none
    merged,           \* mergedKeysRef
    settled, loading,
    cooldown, retries,
    refusals,         \* answers 429 since the last new viewport or success (history)
    torn,             \* some walk mixed answers made at different times (history)
    acts

vvars == <<view, filter, run, live, cells, store, merged, settled, loading, cooldown, retries,
           refusals, torn, acts>>

Keys == Boxes \X Filters
Entry == [box : Boxes, filter : Filters, records : SUBSET Record, complete : BOOLEAN, fresh : BOOLEAN]
\* pages are the boxes resolved, part the pages of the walk under way.
Run == [pc : {"idle", "timer", "resolve", "wait"}, view : Viewports \cup {NoView}, filter : Filters,
        pages : Seq(SUBSET Record), part : SUBSET Record, made : SUBSET Nat, aborted : BOOLEAN]
IdleRun == [pc |-> "idle", view |-> NoView, filter |-> NoFilter, pages |-> <<>>,
            part |-> {}, made |-> {}, aborted |-> FALSE]
Settlements == {"none", "ok", "error"}
Unsettled == [view |-> NoView, filter |-> NoFilter, status |-> "none"]

ViewportTypeOK ==
    /\ view \in Viewports \cup {NoView} /\ filter \in Filters
    /\ run \in [Readers -> Run] /\ live \in Readers \cup {NoRun}
    /\ cells \subseteq Entry
    /\ store \in [Cameras -> Nat] /\ merged \subseteq Keys
    /\ settled \in [view : Viewports \cup {NoView}, filter : Filters, status : Settlements]
    /\ loading \in BOOLEAN /\ cooldown \in BOOLEAN /\ torn \in BOOLEAN
    /\ retries \in Nat /\ refusals \in Nat /\ acts \in Nat

ViewportInit ==
    /\ view = NoView /\ filter = NoFilter
    /\ run = [r \in Readers |-> IdleRun] /\ live = NoRun
    /\ cells = {} /\ store = [c \in Cameras |-> 0] /\ merged = {}
    /\ settled = Unsettled /\ loading = TRUE
    /\ cooldown = FALSE /\ retries = 0 /\ refusals = 0 /\ torn = FALSE /\ acts = 0
-----------------------------------------------------------------------------
(* The effect.                                                             *)

\* Its cleanup clears the timer or aborts the fetch.
Stopped(r) ==
    [run EXCEPT ![r] = IF @.pc = "timer" THEN IdleRun ELSE [@ EXCEPT !.pc = "wait", !.aborted = TRUE]]
CleanedUp == IF live = NoRun THEN run ELSE Stopped(live)
\* Mutant of Effect: a run in flight is left to finish and no new one starts.
OneAtATime(v, f, cool) ==
    IF v = NoView \/ cool \/ live # NoRun
      THEN UNCHANGED <<run, live>>
      ELSE \E r \in Readers :
             /\ run[r].pc = "idle" /\ get[r].pc = "idle"
             /\ run' = [run EXCEPT ![r] = [IdleRun EXCEPT !.pc = "timer", !.view = v, !.filter = f]]
             /\ live' = r
\* A cooldown or a map that is not there yet starts no run.
Effect(v, f, cool) ==
    IF v = NoView \/ cool
      THEN run' = CleanedUp /\ live' = NoRun
      ELSE \E r \in Readers :
             /\ CleanedUp[r].pc = "idle" /\ get[r].pc = "idle"
             /\ run' = [CleanedUp EXCEPT ![r] = [IdleRun EXCEPT !.pc = "timer", !.view = v, !.filter = f]]
             /\ live' = r

\* A new identity of the request has a retry of its own.
NewIdentity ==
    /\ retries' = 0 /\ refusals' = 0
    /\ UNCHANGED <<cells, store, merged, settled, loading, cooldown, torn>>

\* The map reports bounds.
Pan(v) ==
    /\ v # view
    /\ view' = v
    /\ Effect(v, filter, cooldown)
    /\ NewIdentity
    /\ UNCHANGED <<evars, filter, acts>>

SetFilter(f) ==
    /\ f # filter /\ acts < MaxActs
    /\ filter' = f /\ acts' = acts + 1
    /\ Effect(view, f, cooldown)
    /\ NewIdentity
    /\ UNCHANGED <<evars, view>>

CooldownEnds ==
    /\ cooldown
    /\ cooldown' = FALSE
    /\ Effect(view, filter, FALSE)
    /\ UNCHANGED <<evars, view, filter, cells, store, merged, settled, loading, retries, refusals,
                   torn, acts>>
-----------------------------------------------------------------------------
(* The caches.                                                             *)

\* Mutant of Covers: an entry of the same cell is taken for the box.
SharesCell(e, box, f) == e.complete /\ e.fresh /\ e.filter = f /\ Cell[box] = Cell[e.box]
\* cachedEntryCovers: a whole answer, not expired, for the filter, containing the box.
Covers(e, box, f) == e.complete /\ e.fresh /\ e.filter = f /\ box \subseteq e.box

Covering(box, f) == {e \in cells : Covers(e, box, f)}
\* coveringEntry prefers the smallest box.
Tightest(box, f) ==
    CHOOSE e \in Covering(box, f) :
        \A d \in Covering(box, f) : Cardinality(e.box) <= Cardinality(d.box)

\* The cache has one entry for a cell and a filter.
Remember(box, f, records) ==
    {e \in cells : Cell[e.box] # Cell[box] \/ e.filter # f}
        \cup {[box |-> box, filter |-> f, records |-> records, complete |-> box \notin Wide,
               fresh |-> TRUE]}

CellExpires(e) ==
    /\ e \in cells /\ e.fresh
    /\ cells' = (cells \ {e}) \cup {[e EXCEPT !.fresh = FALSE]}
    /\ UNCHANGED <<evars, view, filter, run, live, store, merged, settled, loading, cooldown,
                   retries, refusals, torn, acts>>

Merge(records) ==
    [c \in Cameras |-> IF \E x \in records : x.id = c
                         THEN (CHOOSE x \in records : x.id = c).payload ELSE store[c]]
-----------------------------------------------------------------------------
(* A run.                                                                  *)

\* What a run has to show: the boxes whose key it has not merged yet.
Unmerged(v, f, pages) == UNION {pages[i] : i \in {j \in DOMAIN v : <<v[j], f>> \notin merged}}
SettleOk(r, v, f, pages) ==
    /\ store' = Merge(Unmerged(v, f, pages))
    /\ merged' = merged \cup {<<v[i], f>> : i \in DOMAIN v}
    /\ settled' = [view |-> v, filter |-> f, status |-> "ok"]
    /\ loading' = FALSE /\ retries' = 0 /\ refusals' = 0
    /\ run' = [run EXCEPT ![r] = IdleRun] /\ live' = NoRun

\* The debounce is over: no request when every box is covered.
TimerFires(r) ==
    LET v == run[r].view
        f == run[r].filter
    IN  /\ run[r].pc = "timer"
        /\ \/ /\ \A i \in DOMAIN v : Covering(v[i], f) # {}
              /\ SettleOk(r, v, f, [i \in DOMAIN v |-> Tightest(v[i], f).records])
           \/ /\ \E i \in DOMAIN v : Covering(v[i], f) = {}
              /\ run' = [run EXCEPT ![r].pc = "resolve"]
              /\ UNCHANGED <<live, store, merged, settled, loading, retries, refusals>>
        /\ UNCHANGED <<evars, view, filter, cells, cooldown, torn, acts>>

\* One box is resolved: go on with the next or settle.
Resolved(r, records) ==
    LET pages == Append(run[r].pages, records)
    IN  IF Len(pages) = Len(run[r].view)
          THEN SettleOk(r, run[r].view, run[r].filter, pages)
          ELSE /\ run' = [run EXCEPT ![r].pc = "resolve", ![r].pages = pages,
                                     ![r].part = {}, ![r].made = {}]
               /\ UNCHANGED <<live, store, merged, settled, loading, retries, refusals>>

\* resolveRectangle: the entry of the cell if it covers the box, a request otherwise.
Resolve(r) ==
    LET box == run[r].view[Len(run[r].pages) + 1]
        f == run[r].filter
        own == {e \in Covering(box, f) : Cell[e.box] = Cell[box]}
    IN  /\ run[r].pc = "resolve"
        /\ \/ /\ own # {} /\ \E e \in own : Resolved(r, e.records)
              /\ UNCHANGED get
           \/ /\ own = {} /\ Ask(r, [box |-> box, filter |-> f, offset |-> 0])
              /\ run' = [run EXCEPT ![r].pc = "wait"]
              /\ UNCHANGED <<live, store, merged, settled, loading, retries, refusals>>
        /\ UNCHANGED <<db, changes, desk, edge, view, filter, cells, cooldown, torn, acts>>

Waits(r) == run[r].pc = "wait" /\ ~run[r].aborted /\ get[r].pc = "done"
\* An answer: walk on, or cache what was walked.
Arrive(r) ==
    LET page == get[r].page
        box == get[r].url.box
        records == run[r].part \cup page.records
        made == run[r].made \cup {page.made}
    IN  /\ Waits(r) /\ get[r].answer = "ok"
        /\ \/ /\ page.next # 0
              /\ get' = [get EXCEPT ![r] = [pc |-> "match", url |-> [get[r].url EXCEPT !.offset = page.next],
                                            answer |-> "ok", page |-> NoPage]]
              /\ run' = [run EXCEPT ![r].part = records, ![r].made = made]
              /\ UNCHANGED <<live, cells, store, merged, settled, loading, retries, refusals, torn>>
           \/ /\ page.next = 0
              /\ get' = [get EXCEPT ![r] = IdleGet]
              /\ cells' = Remember(box, run[r].filter, records)
              /\ torn' = (torn \/ Cardinality(made) > 1)
              /\ Resolved(r, records)
        /\ UNCHANGED <<db, changes, desk, edge, view, filter, cooldown, acts>>

\* Mutant of Again: a retry is not counted.
Uncounted == retries
\* One automatic retry for each identity.
Again == retries + 1
CanRetry == retries < 1
\* The catch of a run.
Fail(r, answer) ==
    /\ settled' = [view |-> run[r].view, filter |-> run[r].filter, status |-> "error"]
    /\ loading' = FALSE
    /\ run' = [run EXCEPT ![r] = IdleRun] /\ live' = IF live = r THEN NoRun ELSE live
    /\ IF answer = "limited"
         THEN /\ cooldown' = CanRetry /\ refusals' = refusals + 1
              /\ retries' = IF CanRetry THEN Again ELSE retries
         ELSE UNCHANGED <<cooldown, retries, refusals>>
Refused(r) ==
    /\ Waits(r) /\ get[r].answer # "ok"
    /\ get' = [get EXCEPT ![r] = IdleGet]
    /\ Fail(r, get[r].answer)
    /\ UNCHANGED <<db, changes, desk, edge, view, filter, cells, store, merged, torn, acts>>

\* Mutant of Silenced: the catch does not look at the signal.
Loud(r) == FALSE
\* An aborted run says nothing.
Silenced(r) == run[r].aborted
\* The fetch of an aborted run is rejected.
Rejected(r) ==
    /\ run[r].pc = "wait" /\ run[r].aborted
    /\ \/ /\ Silenced(r)
          /\ run' = [run EXCEPT ![r] = IdleRun]
          /\ UNCHANGED <<live, settled, loading, cooldown, retries, refusals>>
       \/ ~Silenced(r) /\ Fail(r, "failed")
    /\ UNCHANGED <<evars, view, filter, cells, store, merged, torn, acts>>

\* The worker is done with a request nobody waits for.
Forget(r) ==
    /\ get[r].pc = "done" /\ run[r].pc # "wait"
    /\ get' = [get EXCEPT ![r] = IdleGet]
    /\ UNCHANGED <<db, changes, desk, edge, vvars>>

\* ?focus=: a record not in the store is fetched by its number and merged.
Focus(c) ==
    /\ acts < MaxActs /\ store[c] = 0 /\ db[c] # 0
    /\ acts' = acts + 1
    /\ store' = [store EXCEPT ![c] = db[c]]
    /\ UNCHANGED <<evars, view, filter, run, live, cells, merged, settled, loading, cooldown,
                   retries, refusals, torn>>

RunStep(r) == TimerFires(r) \/ Resolve(r) \/ Arrive(r) \/ Refused(r) \/ Rejected(r) \/ Forget(r)
HookStep ==
    \/ \E r \in Readers : RunStep(r)
    \/ \E f \in Filters : SetFilter(f)
    \/ \E c \in Cameras : Focus(c)
    \/ \E e \in cells : CellExpires(e)
    \/ CooldownEnds
    \/ EdgeStep /\ UNCHANGED vvars

\* What the hook returns: a settlement of another filter is withheld.
Exposed == IF settled.filter = filter THEN settled ELSE Unsettled
-----------------------------------------------------------------------------
(* Properties.                                                             *)

\* When the viewport has settled, every record in it that matches the filter and has
\* been public and unchanged all along is in the store, unless its box was answered by
\* a sample or a walk mixed two states: the reuse decisions of the client's caches.
ShownIfSettled ==
    (Exposed.status = "ok" /\ Exposed.view = view /\ ~torn) =>
        \A i \in DOMAIN view, c \in Cameras :
            (/\ view[i] \notin Wide /\ db[c] = 1
             /\ Place[c] \in view[i] /\ filter \in {NoFilter, Kind[c]}) => store[c] # 0

\* A viewport is refused twice at most before the user does something: the budget of
\* automatic retries survives cooldowns, caches and other viewports.
OneAutoRetry == refusals <= 2

\* Only the run of what the page shows settles: an aborted run never does.
AbortedNeverSettles ==
    [][settled' # settled => settled'.view = view /\ settled'.filter = filter]_<<settled>>

\* What a cache entry was merged from never leaves the store behind it: the newest
\* payload wins (mergeRecords).
NewestPayloadWins ==
    \A e \in cells : <<e.box, e.filter>> \in merged =>
        \A x \in e.records : store[x.id] >= x.payload

\* A record taken down and purged is not served any more (the purge that follows a
\* decision in app/api/moderation/route.ts).
TakedownStopsServing ==
    \A e \in edge : \A x \in e.page.records : db[x.id] # 0 \/ x.id \in desk
=============================================================================
