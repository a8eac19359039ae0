---------------------------- MODULE ViewportProofs ----------------------------
(***************************************************************************)
(* Proofs about MapLanding and the data layer under it, for any viewports,    *)
(* filters, records, requests in flight and limits.                         *)
(*                                                                         *)
(* Both properties rest on one invariant: whatever the user, the timers and   *)
(* the worker did, a run that has not been aborted is the run of what the     *)
(* page shows, and none is under way during a cooldown.                      *)
(***************************************************************************)
EXTENDS MapLanding, FiniteSetTheorems, SequenceTheorems, WellFoundedInduction, TLAPS

Fields == {"pc", "view", "filter", "pages", "part", "made", "aborted"}
Over(rec) == rec.pc = "idle" \/ (rec.pc = "wait" /\ rec.aborted)
Current(rec, r) == r = live /\ rec.view = view /\ rec.filter = filter /\ ~cooldown

RunsInv ==
    /\ DOMAIN run = Readers
    /\ \A r \in Readers : DOMAIN run[r] = Fields /\ (Over(run[r]) \/ Current(run[r], r))

\* A second refusal ends it: nothing is left that could start another run.
Budget ==
    /\ retries \in {0, 1} /\ refusals \in Nat
    /\ refusals <= retries \/ (refusals = 2 /\ live = NoRun /\ ~cooldown)

\* What a settlement may say.
Settling == settled' # settled => settled'.view = view /\ settled'.filter = filter
Kept == RunsInv' /\ Budget' /\ Settling

LEMMA IdleShape == DOMAIN IdleRun = Fields /\ Over(IdleRun)
BY DEF IdleRun, Fields, Over

LEMMA InitHolds == Init => RunsInv /\ Budget
BY IdleShape DEF Init, ViewportInit, RunsInv, Budget
-----------------------------------------------------------------------------
(* The effect and its cleanup.                                             *)

LEMMA CleanRuns ==
    ASSUME RunsInv
    PROVE  DOMAIN CleanedUp = Readers
           /\ \A r \in Readers : DOMAIN CleanedUp[r] = Fields /\ Over(CleanedUp[r])
<1>1. CASE live = NoRun
  BY <1>1, ViewportAssumption DEF CleanedUp, RunsInv, Current
<1>2. CASE live # NoRun
  <2>1. CleanedUp = Stopped(live)
    BY <1>2 DEF CleanedUp
  <2>2. ASSUME NEW r \in Readers \ {live} PROVE Stopped(live)[r] = run[r]
    BY DEF Stopped, RunsInv
  <2>3. ASSUME live \in Readers PROVE DOMAIN Stopped(live)[live] = Fields /\ Over(Stopped(live)[live])
    <3>1. PICK rec : rec = [run[live] EXCEPT !.pc = "wait", !.aborted = TRUE]
      OBVIOUS
    <3>2. DOMAIN rec = Fields /\ Over(rec)
      BY <2>3, <3>1 DEF RunsInv, Fields, Over
    <3>3. Stopped(live)[live] = IdleRun \/ Stopped(live)[live] = rec
      BY <2>3, <3>1 DEF Stopped, RunsInv
    <3> QED
      BY <3>2, <3>3, IdleShape
  <2>4. DOMAIN Stopped(live) = Readers
    BY DEF Stopped, RunsInv
  <2> QED
    BY <2>1, <2>2, <2>3, <2>4 DEF RunsInv, Current
<1> QED
  BY <1>1, <1>2

LEMMA EffectRuns ==
    ASSUME RunsInv, NEW v, NEW f, NEW cool, Effect(v, f, cool),
           view' = v, filter' = f, cooldown' = cool
    PROVE  RunsInv'
<1>1. PICK clean : clean = CleanedUp
  OBVIOUS
<1>2. DOMAIN clean = Readers /\ \A r \in Readers : DOMAIN clean[r] = Fields /\ Over(clean[r])
  BY <1>1, CleanRuns
<1>3. CASE v = NoView \/ cool
  BY <1>1, <1>2, <1>3 DEF Effect, RunsInv, Over
<1>4. CASE ~(v = NoView \/ cool)
  <2>1. PICK r \in Readers :
          /\ run' = [clean EXCEPT ![r] = [IdleRun EXCEPT !.pc = "timer", !.view = v, !.filter = f]]
          /\ live' = r
    BY <1>1, <1>4 DEF Effect
  <2>2. PICK rec : rec = [IdleRun EXCEPT !.pc = "timer", !.view = v, !.filter = f]
    OBVIOUS
  <2>3. DOMAIN rec = Fields /\ rec.view = v /\ rec.filter = f
    BY <2>2 DEF IdleRun, Fields
  <2>4. /\ DOMAIN run' = Readers /\ run'[r] = rec
        /\ \A s \in Readers \ {r} : run'[s] = clean[s]
    BY <1>2, <2>1, <2>2
  <2> QED
    BY <1>2, <1>4, <2>1, <2>3, <2>4 DEF RunsInv, Over, Current
<1> QED
  BY <1>3, <1>4

LEMMA PanSteps ==
    ASSUME RunsInv, Budget,
           \/ \E v : Pan(v)
           \/ \E f \in Filters : SetFilter(f)
           \/ CooldownEnds
    PROVE  Kept
<1>1. ASSUME NEW v, Pan(v) PROVE Kept
  <2>1. UNCHANGED <<filter, cooldown, settled>> /\ view' = v /\ retries' = 0 /\ refusals' = 0
    BY <1>1 DEF Pan, NewIdentity
  <2>2. RunsInv'
    BY <1>1, <2>1, EffectRuns DEF Pan
  <2> QED
    BY <2>1, <2>2 DEF Kept, Budget, Settling
<1>2. ASSUME NEW f, SetFilter(f) PROVE Kept
  <2>1. UNCHANGED <<view, cooldown, settled>> /\ filter' = f /\ retries' = 0 /\ refusals' = 0
    BY <1>2 DEF SetFilter, NewIdentity
  <2>2. RunsInv'
    BY <1>2, <2>1, EffectRuns DEF SetFilter
  <2> QED
    BY <2>1, <2>2 DEF Kept, Budget, Settling
<1>3. CASE CooldownEnds
  <2>1. UNCHANGED <<view, filter, settled, retries, refusals>> /\ cooldown /\ cooldown' = FALSE
    BY <1>3 DEF CooldownEnds
  <2>2. RunsInv'
    BY <1>3, <2>1, EffectRuns DEF CooldownEnds
  <2> QED
    BY <2>1, <2>2 DEF Kept, Budget, Settling
<1> QED
  BY <1>1, <1>2, <1>3
-----------------------------------------------------------------------------
(* A run.                                                                  *)

\* A run goes on without settling.
LEMMA RunGoesOn ==
    ASSUME RunsInv, Budget, NEW r \in Readers, NEW rec, run' = [run EXCEPT ![r] = rec],
           DOMAIN rec = Fields, Over(rec) \/ (rec.view = run[r].view /\ rec.filter = run[r].filter
                                              /\ Current(run[r], r)),
           UNCHANGED <<view, filter, live, cooldown, settled, retries, refusals>>
    PROVE  Kept
<1>1. DOMAIN run' = Readers /\ run'[r] = rec /\ \A s \in Readers \ {r} : run'[s] = run[s]
  BY DEF RunsInv
<1>2. RunsInv'
  BY <1>1 DEF RunsInv, Over, Current
<1> QED
  BY <1>2 DEF Kept, Budget, Settling

\* The current run settles or fails: no other one is current.
LEMMA RunEnds ==
    ASSUME RunsInv, NEW r \in Readers, Current(run[r], r), run' = [run EXCEPT ![r] = IdleRun]
    PROVE  RunsInv'
<1>1. DOMAIN run' = Readers /\ run'[r] = IdleRun /\ \A s \in Readers \ {r} : run'[s] = run[s]
  BY DEF RunsInv
<1>2. \A s \in Readers \ {r} : Over(run[s])
  BY DEF RunsInv, Current
<1> QED
  BY <1>1, <1>2, IdleShape DEF RunsInv, Over

LEMMA OkEnds ==
    ASSUME RunsInv, Budget, NEW r \in Readers, Current(run[r], r), NEW pages,
           SettleOk(r, run[r].view, run[r].filter, pages)
    PROVE  Kept
<1>1. RunsInv'
  BY RunEnds DEF SettleOk
<1>2. settled'.view = view /\ settled'.filter = filter
  BY DEF SettleOk, Current
<1>3. retries' = 0 /\ refusals' = 0
  BY DEF SettleOk
<1> QED
  BY <1>1, <1>2, <1>3 DEF Kept, Budget, Settling

LEMMA FailureEnds ==
    ASSUME RunsInv, Budget, NEW r \in Readers, Current(run[r], r), NEW answer, Fail(r, answer)
    PROVE  Kept
<1>1. RunsInv'
  BY RunEnds DEF Fail
<1>2. settled'.view = view /\ settled'.filter = filter
  BY DEF Fail, Current
<1>3. live = r /\ live' = NoRun /\ ~cooldown /\ r # NoRun
  BY ViewportAssumption DEF Fail, Current
<1>4. Budget'
  <2>1. refusals <= retries
    BY <1>3 DEF Budget
  <2>2. CASE answer = "limited"
    <3>1. refusals' = refusals + 1 /\ retries' = IF retries < 1 THEN retries + 1 ELSE retries
      BY <2>2 DEF Fail, CanRetry, Again
    <3>2. cooldown' = CanRetry
      BY <2>2 DEF Fail
    <3>3. CASE retries = 0
      BY <2>1, <3>1, <3>3 DEF Budget
    <3>4. CASE retries = 1
      <4>1. ~CanRetry
        BY <3>4 DEF CanRetry
      <4>2. ~cooldown'
        BY <3>2, <4>1, Zenon
      <4>3. retries' = 1 /\ refusals' \in {1, 2}
        BY <2>1, <3>1, <3>4 DEF Budget
      <4> QED
        BY <1>3, <4>2, <4>3 DEF Budget
    <3> QED
      BY <3>3, <3>4 DEF Budget
  <2>3. CASE answer # "limited"
    BY <1>3, <2>1, <2>3 DEF Fail, Budget
  <2> QED
    BY <2>2, <2>3
<1> QED
  BY <1>1, <1>2, <1>4 DEF Kept, Settling

LEMMA ResolvedRun ==
    ASSUME RunsInv, Budget, NEW r \in Readers, Current(run[r], r), NEW records, Resolved(r, records),
           UNCHANGED <<view, filter, cooldown>>
    PROVE  Kept
<1>1. PICK pages : pages = Append(run[r].pages, records)
  OBVIOUS
<1>2. CASE SettleOk(r, run[r].view, run[r].filter, pages)
  BY <1>2, OkEnds
<1>3. CASE ~SettleOk(r, run[r].view, run[r].filter, pages)
  <2>1. PICK rec : rec = [run[r] EXCEPT !.pc = "resolve", !.pages = pages, !.part = {}, !.made = {}]
    OBVIOUS
  <2>2. run' = [run EXCEPT ![r] = rec] /\ UNCHANGED <<live, settled, retries, refusals>>
    BY <1>1, <1>3, <2>1 DEF Resolved
  <2>3. DOMAIN rec = Fields /\ rec.view = run[r].view /\ rec.filter = run[r].filter
    BY <2>1 DEF RunsInv, Fields
  <2> QED
    BY <2>2, <2>3, RunGoesOn
<1> QED
  BY <1>2, <1>3

LEMMA RunSteps ==
    ASSUME RunsInv, Budget, NEW r \in Readers, RunStep(r)
    PROVE  Kept
<1>1. ASSUME ~Over(run[r]) PROVE Current(run[r], r)
  BY <1>1 DEF RunsInv
<1>2. CASE TimerFires(r)
  <2>1. Current(run[r], r)
    BY <1>1, <1>2 DEF TimerFires, Over
  <2>2. CASE \E pages : SettleOk(r, run[r].view, run[r].filter, pages)
    BY <2>1, <2>2, OkEnds
  <2>3. CASE ~\E pages : SettleOk(r, run[r].view, run[r].filter, pages)
    <3>1. PICK rec : rec = [run[r] EXCEPT !.pc = "resolve"]
      OBVIOUS
    <3>2. run' = [run EXCEPT ![r] = rec]
          /\ UNCHANGED <<view, filter, live, cooldown, settled, retries, refusals>>
      BY <1>2, <2>3, <3>1 DEF TimerFires
    <3>3. DOMAIN rec = Fields /\ rec.view = run[r].view /\ rec.filter = run[r].filter
      BY <3>1 DEF RunsInv, Fields
    <3> QED
      BY <2>1, <3>2, <3>3, RunGoesOn
  <2> QED
    BY <2>2, <2>3
<1>3. CASE Resolve(r)
  <2>1. Current(run[r], r)
    BY <1>1, <1>3 DEF Resolve, Over
  <2>2. UNCHANGED <<view, filter, cooldown>>
    BY <1>3 DEF Resolve
  <2>3. CASE \E records : Resolved(r, records)
    BY <2>1, <2>2, <2>3, ResolvedRun
  <2>4. CASE ~\E records : Resolved(r, records)
    <3>1. PICK rec : rec = [run[r] EXCEPT !.pc = "wait"]
      OBVIOUS
    <3>2. run' = [run EXCEPT ![r] = rec] /\ UNCHANGED <<live, settled, retries, refusals>>
      BY <1>3, <2>4, <3>1 DEF Resolve
    <3>3. DOMAIN rec = Fields /\ rec.view = run[r].view /\ rec.filter = run[r].filter
      BY <3>1 DEF RunsInv, Fields
    <3> QED
      BY <2>1, <2>2, <3>2, <3>3, RunGoesOn
  <2> QED
    BY <2>3, <2>4
<1>4. CASE Arrive(r)
  <2>1. Current(run[r], r)
    BY <1>1, <1>4 DEF Arrive, Waits, Over
  <2>2. UNCHANGED <<view, filter, cooldown>>
    BY <1>4 DEF Arrive
  <2>3. CASE \E records : Resolved(r, records)
    BY <2>1, <2>2, <2>3, ResolvedRun
  <2>4. CASE ~\E records : Resolved(r, records)
    <3>1. PICK rec : rec = [run[r] EXCEPT !.part = run[r].part \cup get[r].page.records,
                                          !.made = run[r].made \cup {get[r].page.made}]
      OBVIOUS
    <3>2. run' = [run EXCEPT ![r] = rec] /\ UNCHANGED <<live, settled, retries, refusals>>
      BY <1>4, <2>4, <3>1 DEF Arrive
    <3>3. DOMAIN rec = Fields /\ rec.view = run[r].view /\ rec.filter = run[r].filter
      BY <3>1 DEF RunsInv, Fields
    <3> QED
      BY <2>1, <2>2, <3>2, <3>3, RunGoesOn
  <2> QED
    BY <2>3, <2>4
<1>5. CASE Refused(r)
  <2>1. Current(run[r], r)
    BY <1>1, <1>5 DEF Refused, Waits, Over
  <2> QED
    BY <1>5, <2>1, FailureEnds DEF Refused
<1>6. CASE Rejected(r)
  <2>1. run' = [run EXCEPT ![r] = IdleRun]
        /\ UNCHANGED <<view, filter, live, cooldown, settled, retries, refusals>>
    BY <1>6 DEF Rejected, Silenced
  <2> QED
    BY <2>1, IdleShape, RunGoesOn
<1>7. CASE Forget(r)
  BY <1>7 DEF Forget, vvars, Kept, RunsInv, Current, Over, Budget, Settling
<1> QED
  BY <1>2, <1>3, <1>4, <1>5, <1>6, <1>7 DEF RunStep
-----------------------------------------------------------------------------
LEMMA NextKeeps ==
    ASSUME RunsInv, Budget, [Next]_vars
    PROVE  Kept
<1>1. ASSUME UNCHANGED <<view, filter, run, live, cooldown, settled, retries, refusals>> PROVE Kept
  BY <1>1 DEF Kept, RunsInv, Current, Over, Budget, Settling
<1>2. CASE HookStep
  <2>1. CASE EdgeStep /\ UNCHANGED vvars
    BY <1>1, <2>1 DEF vvars
  <2>2. ASSUME NEW c \in Cameras, Focus(c) PROVE Kept
    BY <1>1, <2>2 DEF Focus
  <2>3. ASSUME NEW e \in cells, CellExpires(e) PROVE Kept
    BY <1>1, <2>3 DEF CellExpires
  <2> QED
    BY <1>2, <2>1, <2>2, <2>3, PanSteps, RunSteps DEF HookStep
<1>3. CASE Report
  <2>1. CASE Pan(shown)
    BY <2>1, PanSteps
  <2> QED
    BY <1>1, <1>3, <2>1 DEF Report, vvars
<1>4. ASSUME NEW v \in Viewports, UserPan(v) \/ SelectPlace(v) PROVE Kept
  BY <1>1, <1>4 DEF UserPan, SelectPlace, Rest
<1>5. CASE ApplyFocus \/ Land \/ UNCHANGED vars
  BY <1>1, <1>5 DEF ApplyFocus, Land, vars, vvars
<1> QED
  BY <1>2, <1>3, <1>4, <1>5 DEF Next

\* Only the run of what the page shows settles: what an aborted run was told, after
\* the user moved on, changes nothing on the page.
THEOREM CurrentRunSettles == Safety => AbortedNeverSettles
<1>1. RunsInv /\ Budget /\ [Next]_vars => (RunsInv /\ Budget)' /\ [settled' # settled =>
        settled'.view = view /\ settled'.filter = filter]_<<settled>>
  BY NextKeeps DEF Kept, Settling
<1> QED
  BY <1>1, InitHolds, PTL DEF Safety, AbortedNeverSettles

\* A viewport is refused twice at most before the user does something.
THEOREM RetriesOnce == Safety => []OneAutoRetry
<1>1. RunsInv /\ Budget /\ [Next]_vars => (RunsInv /\ Budget)'
  BY NextKeeps DEF Kept
<1>2. Budget => OneAutoRetry
  BY DEF Budget, OneAutoRetry
<1> QED
  BY <1>1, <1>2, InitHolds, PTL DEF Safety
-----------------------------------------------------------------------------
(* What is shown.  A record that never changes is among the rows of a request *)
(* whenever they are read; a walk that saw one state therefore meets it, the   *)
(* caches hand it on, and the store has it when a viewport settles.  What was  *)
(* public after each change is not kept by the model: the invariant says that   *)
(* there is a history every page fits.                                       *)

\* A record that is what it was from the start, public, and that a request asks for.
Stays(c, box, f) == db[c] = 1 /\ Place[c] \in box /\ f \in {NoFilter, Kind[c]}
\* Records that were public when they were read.
Public == [id : Cameras, payload : Nat \ {0}]
Has(records, c) == \E x \in records : x.id = c
\* An answer that is no sample shows every record that stays.
Shows(records, box, f) ==
    box \notin Wide => \A c \in Cameras : Stays(c, box, f) => Has(records, c)

\* The rows of a request as they were after change m of the history H.
RowsThen(H, url, m) ==
    {c \in Cameras : /\ H[m][c] # 0 /\ Place[c] \in url.box
                     /\ url.filter \in {NoFilter, Kind[c]}}
StandingThen(H, url, m, c) == Standing(RowsThen(H, url, m), c)

\* H remembers what was public after each change.
History(H) ==
    /\ db \in [Cameras -> Nat] /\ changes \in Nat \ {0}
    /\ H[changes] = db
    /\ \A c \in Cameras : db[c] = 1 => \A m \in 1..changes : H[m][c] # 0

\* A page is a piece of the rows of its time.
PageGood(H, url, page) ==
    /\ page.records \subseteq Public /\ page.made \in 1..changes /\ page.next \in Nat
    /\ url.box \notin Wide =>
         \A c \in RowsThen(H, url, page.made) :
            (/\ url.offset < StandingThen(H, url, page.made, c)
             /\ page.next # 0 => StandingThen(H, url, page.made, c) <= page.next) => Has(page.records, c)
GetGood(H, g) ==
    /\ g.pc # "idle" => /\ DOMAIN g = {"pc", "url", "answer", "page"}
                        /\ DOMAIN g.url = {"box", "filter", "offset"} /\ g.url.offset \in Nat
    /\ g.pc = "put" \/ (g.pc = "done" /\ g.answer = "ok") => PageGood(H, g.url, g.page)
EdgeGood(H) ==
    /\ \A e \in edge : PageGood(H, e.url, e.page)
    /\ DOMAIN get = Readers /\ \A r \in Readers : GetGood(H, get[r])

\* A walk has passed the records before its offset, if it has seen one state.
WalkGood(H, rec, g) ==
    rec.pc = "wait" /\ ~rec.aborted =>
        /\ g.pc # "idle"
        /\ g.url.box = rec.view[Len(rec.pages) + 1] /\ g.url.filter = rec.filter
        /\ rec.made \subseteq 1..changes /\ IsFiniteSet(rec.made)
        /\ rec.made = {} => g.url.offset = 0
        /\ \A m \in rec.made : rec.made = {m} /\ g.url.box \notin Wide =>
             \A c \in RowsThen(H, g.url, m) :
                StandingThen(H, g.url, m, c) <= g.url.offset => Has(rec.part, c)
RunGood(rec) ==
    /\ rec.pages \in Seq(SUBSET Public) /\ rec.part \subseteq Public
    /\ ~Over(rec) => rec.view \in Viewports
    /\ ~Over(rec) /\ rec.pc # "timer" => Len(rec.pages) < Len(rec.view)
    /\ rec.pc \in {"timer", "resolve"} => rec.part = {} /\ rec.made = {}
    /\ rec.pc = "timer" => rec.pages = <<>>
    /\ ~torn => \A i \in DOMAIN rec.pages : Shows(rec.pages[i], rec.view[i], rec.filter)
CellGood(e) ==
    /\ e.records \subseteq Public /\ e.box \in Boxes
    /\ e.complete => e.box \notin Wide
    /\ ~torn => Shows(e.records, e.box, e.filter)
Mirrored ==
    /\ store \in [Cameras -> Nat]
    /\ ~torn => \A c \in Cameras : \A k \in merged : k[1] \notin Wide /\ Stays(c, k[1], k[2]) => store[c] # 0
    /\ settled.status = "ok" => \A i \in DOMAIN settled.view : <<settled.view[i], settled.filter>> \in merged
Placed ==
    /\ view \in Viewports \cup {NoView} /\ shown \in Viewports /\ command \in Viewports \cup {NoView}

ShowsInv(H) ==
    /\ History(H) /\ EdgeGood(H) /\ Mirrored /\ Placed
    /\ \A r \in Readers : RunGood(run[r]) /\ WalkGood(H, run[r], get[r])
    /\ \A e \in cells : CellGood(e)
-----------------------------------------------------------------------------
(* Pages and histories.                                                    *)

LEMMA StandingBounds ==
    ASSUME NEW rows \in SUBSET Cameras, NEW c \in rows
    PROVE  /\ Standing(rows, c) \in Nat \ {0} /\ Cardinality(rows) \in Nat
           /\ Standing(rows, c) <= Cardinality(rows)
<1> DEFINE front == {d \in rows : d >= c}
<1>1. IsFiniteSet(rows) /\ c \in Nat
  BY EdgeAssumption, FS_Subset
<1>2. front \subseteq rows /\ c \in front
  BY <1>1
<1> HIDE DEF front
<1>3. IsFiniteSet(front) /\ Cardinality(front) <= Cardinality(rows)
  BY <1>1, <1>2, FS_Subset
<1>4. Cardinality(front) \in Nat /\ Cardinality(rows) \in Nat
  BY <1>1, <1>3, FS_CardinalityType
<1>5. Cardinality(front) # 0
  BY <1>2, <1>3, FS_EmptySet
<1> QED
  BY <1>3, <1>4, <1>5 DEF Standing, front

\* What is built now fits the history.
LEMMA AnswerGood ==
    ASSUME NEW H, History(H), NEW url, url.offset \in Nat
    PROVE  PageGood(H, url, Answer(url))
<1>1. PICK rows : rows = Rows(url)
  OBVIOUS
<1>2. rows \in SUBSET Cameras /\ \A c \in rows : db[c] \in Nat \ {0}
  BY <1>1 DEF Rows, History
<1>3. Cardinality(rows) \in Nat /\ PageSize \in Nat \ {0}
  <2>1. IsFiniteSet(rows)
    BY <1>2, EdgeAssumption, FS_Subset
  <2> QED
    BY <2>1, EdgeAssumption, FS_CardinalityType
<1>4. PICK last : last = IF url.box \in Wide \/ Cardinality(rows) < url.offset + PageSize
                           THEN Cardinality(rows) ELSE url.offset + PageSize
  OBVIOUS
<1>5. PICK page : page = Answer(url)
  OBVIOUS
<1>6. /\ page.records = {[id |-> c, payload |-> db[c]] :
                           c \in {d \in rows : url.offset < Standing(rows, d) /\ Standing(rows, d) <= last}}
      /\ page.next = IF last < Cardinality(rows) THEN last ELSE 0
      /\ page.made = changes
  BY <1>1, <1>4, <1>5 DEF Answer
<1>7. page.records \subseteq Public
  BY <1>2, <1>6 DEF Public
<1>8. page.made \in 1..changes /\ page.next \in Nat
  BY <1>3, <1>4, <1>6 DEF History
<1>9. ASSUME url.box \notin Wide, NEW c \in RowsThen(H, url, page.made),
             url.offset < StandingThen(H, url, page.made, c),
             page.next # 0 => StandingThen(H, url, page.made, c) <= page.next
      PROVE  Has(page.records, c)
  <2>1. RowsThen(H, url, page.made) = rows
    BY <1>1, <1>6, <1>9 DEF RowsThen, Rows, History
  <2>2. /\ c \in rows /\ url.offset < Standing(rows, c)
        /\ page.next # 0 => Standing(rows, c) <= page.next
    BY <1>9, <2>1 DEF StandingThen
  <2>3. Standing(rows, c) \in Nat /\ Standing(rows, c) <= Cardinality(rows)
    BY <1>2, <2>2, StandingBounds
  <2>4. last \in Nat /\ last # 0
    BY <1>3, <1>4, <2>2, <2>3
  <2>5. Standing(rows, c) <= last
    BY <1>3, <1>6, <2>2, <2>3, <2>4
  <2>6. [id |-> c, payload |-> db[c]] \in page.records
    BY <1>6, <2>2, <2>5
  <2> QED
    BY <2>6 DEF Has
<1> QED
  BY <1>5, <1>7, <1>8, <1>9 DEF PageGood

\* A longer history.
Extends(H, G) ==
    /\ changes \in Nat /\ changes' \in Nat /\ changes <= changes'
    /\ \A m \in 1..changes : G[m] = H[m]

LEMMA PageStays ==
    ASSUME NEW H, NEW G, Extends(H, G), NEW url, NEW page, PageGood(H, url, page)
    PROVE  PageGood(G, url, page)'
<1>1. page.made \in 1..changes'
  BY DEF PageGood, Extends
<1>2. RowsThen(G, url, page.made) = RowsThen(H, url, page.made)
  BY DEF RowsThen, PageGood, Extends
<1> QED
  BY <1>1, <1>2 DEF PageGood, StandingThen

LEMMA WalkStays ==
    ASSUME NEW H, NEW G, Extends(H, G), NEW rec, NEW g, WalkGood(H, rec, g)
    PROVE  WalkGood(G, rec, g)'
<1> SUFFICES ASSUME rec.pc = "wait" /\ ~rec.aborted PROVE WalkGood(G, rec, g)'
  BY DEF WalkGood
<1>1. rec.made \subseteq 1..changes /\ rec.made \subseteq 1..changes'
  BY DEF WalkGood, Extends
<1>2. \A m \in rec.made : RowsThen(G, g.url, m) = RowsThen(H, g.url, m)
  BY <1>1 DEF RowsThen, Extends
<1> QED
  BY <1>1, <1>2 DEF WalkGood, StandingThen

\* A change of a record adds one state to the history.
LEMMA WriteExtends ==
    ASSUME NEW H, History(H), NEW c \in Cameras, NEW payload \in {changes + 1, 0}, Write(c, payload)
    PROVE  \E G : History(G)' /\ Extends(H, G) /\ \A d \in Cameras : db'[d] = 1 => db[d] = 1
<1>1. PICK new : new = db'
  OBVIOUS
<1>2. changes' = changes + 1 /\ new = [db EXCEPT ![c] = payload] /\ changes \in Nat \ {0}
      /\ db \in [Cameras -> Nat]
  BY <1>1 DEF Write, History
<1>3. payload \in Nat /\ payload # 1
  BY <1>2
<1>4. new \in [Cameras -> Nat] /\ \A d \in Cameras : new[d] = 1 => db[d] = 1
  BY <1>2, <1>3
<1>5. PICK G : G = [m \in Nat |-> IF m = changes + 1 THEN new ELSE H[m]]
  OBVIOUS
<1>6. Extends(H, G)
  BY <1>2, <1>5 DEF Extends
<1>7. G[changes'] = db' /\ changes' \in Nat \ {0}
  BY <1>1, <1>2, <1>5
<1>8. ASSUME NEW d \in Cameras, new[d] = 1, NEW m \in 1..changes' PROVE G[m][d] # 0
  <2>1. CASE m = changes + 1
    BY <1>2, <1>5, <1>8, <2>1
  <2>2. CASE m \in 1..changes
    BY <1>4, <1>6, <1>8, <2>2 DEF Extends, History
  <2> QED
    BY <1>2, <2>1, <2>2
<1>9. History(G)'
  BY <1>1, <1>4, <1>7, <1>8 DEF History
<1> QED
  BY <1>1, <1>4, <1>6, <1>9
-----------------------------------------------------------------------------
(* What stands when the database changes or a walk turns out torn.          *)

Older == (\A c \in Cameras : db'[c] = 1 => db[c] = 1) /\ (torn => torn')

LEMMA ShowsStays ==
    ASSUME Older, NEW records, NEW box, NEW f, Shows(records, box, f)
    PROVE  Shows(records, box, f)'
BY DEF Older, Shows, Stays, Has

LEMMA RunStays ==
    ASSUME Older, NEW rec, RunGood(rec)
    PROVE  RunGood(rec)'
<1>1. ASSUME ~torn', NEW i \in DOMAIN rec.pages PROVE Shows(rec.pages[i], rec.view[i], rec.filter)'
  <2>1. Shows(rec.pages[i], rec.view[i], rec.filter)
    BY <1>1 DEF Older, RunGood
  <2> QED
    BY <2>1, ShowsStays
<1> QED
  BY <1>1 DEF RunGood

LEMMA CellStays ==
    ASSUME Older, NEW e, CellGood(e)
    PROVE  CellGood(e)'
<1>1. ASSUME ~torn' PROVE Shows(e.records, e.box, e.filter)'
  BY <1>1, ShowsStays DEF Older, CellGood
<1> QED
  BY <1>1 DEF CellGood

LEMMA MirrorStays ==
    ASSUME Older, Mirrored, UNCHANGED <<store, merged, settled>>
    PROVE  Mirrored'
<1>1. ASSUME ~torn', NEW c \in Cameras, NEW k \in merged, k[1] \notin Wide, Stays(c, k[1], k[2])'
      PROVE  store[c] # 0
  BY <1>1 DEF Older, Mirrored, Stays
<1> QED
  BY <1>1 DEF Mirrored

\* One slot moves: its run and its request.
Becomes(r, rec, g) ==
    /\ DOMAIN get' = Readers /\ run'[r] = rec /\ get'[r] = g
    /\ \A s \in Readers \ {r} : run'[s] = run[s] /\ get'[s] = get[s]

LEMMA Moved ==
    ASSUME RunsInv, NEW H, ShowsInv(H), NEW r \in Readers, NEW rec, NEW g
    PROVE  /\ run' = [run EXCEPT ![r] = rec] /\ get' = [get EXCEPT ![r] = g] => Becomes(r, rec, g)
           /\ run' = [run EXCEPT ![r] = rec] /\ get' = get /\ g = get[r] => Becomes(r, rec, g)
           /\ run' = run /\ rec = run[r] /\ get' = [get EXCEPT ![r] = g] => Becomes(r, rec, g)
BY DEF RunsInv, ShowsInv, EdgeGood, Becomes

\* The page stays where it is.
LEMMA SlotMoves ==
    ASSUME RunsInv, NEW H, ShowsInv(H), NEW r \in Readers, NEW rec, NEW g, Becomes(r, rec, g),
           UNCHANGED <<db, changes, edge, view, shown, command>>, torn => torn',
           RunGood(rec)', GetGood(H, g), WalkGood(H, rec, g), Mirrored', \A e \in cells' : CellGood(e)'
    PROVE  ShowsInv(H)'
<1>1. /\ run'[r] = rec /\ get'[r] = g /\ DOMAIN get' = Readers
      /\ \A s \in Readers \ {r} : run'[s] = run[s] /\ get'[s] = get[s]
  BY DEF Becomes
<1>2. Older /\ Extends(H, H) /\ History(H)'
  BY DEF Older, Extends, ShowsInv, History
<1>3. EdgeGood(H)'
  <2>1. ASSUME NEW url, NEW page, PageGood(H, url, page) PROVE PageGood(H, url, page)'
    BY <1>2, <2>1, PageStays
  <2>2. ASSUME NEW h, GetGood(H, h) PROVE GetGood(H, h)'
    BY <2>1, <2>2 DEF GetGood
  <2>3. GetGood(H, get[r])'
    BY <1>1, <2>2 DEF GetGood, PageGood
  <2>4. ASSUME NEW s \in Readers \ {r} PROVE GetGood(H, get[s])'
    <3>1. PICK h : h = get[s] /\ h = get'[s]
      BY <1>1
    <3>2. GetGood(H, h)'
      BY <2>2, <3>1 DEF ShowsInv, EdgeGood
    <3> QED
      BY <3>1, <3>2 DEF GetGood, PageGood
  <2>5. ASSUME NEW e \in edge' PROVE PageGood(H, e.url, e.page)'
    BY <2>1 DEF ShowsInv, EdgeGood
  <2> QED
    BY <1>1, <2>3, <2>4, <2>5 DEF EdgeGood
<1>4. ASSUME NEW s \in Readers PROVE RunGood(run[s])' /\ WalkGood(H, run[s], get[s])'
  <2>1. CASE s = r
    <3>1. WalkGood(H, rec, g)'
      BY <1>2, WalkStays
    <3> QED
      BY <1>1, <2>1, <3>1 DEF RunGood, WalkGood, Over
  <2>2. CASE s # r
    <3>1. PICK old, h : old = run[s] /\ old = run'[s] /\ h = get[s] /\ h = get'[s]
      BY <1>1, <2>2
    <3>2. RunGood(old) /\ WalkGood(H, old, h)
      BY <3>1 DEF ShowsInv
    <3>3. RunGood(old)' /\ WalkGood(H, old, h)'
      BY <1>2, <3>2, RunStays, WalkStays
    <3> QED
      BY <3>1, <3>3 DEF RunGood, WalkGood, Over
  <2> QED
    BY <2>1, <2>2
<1>5. Placed'
  BY DEF ShowsInv, Placed
<1> QED
  BY <1>2, <1>3, <1>4, <1>5 DEF ShowsInv
-----------------------------------------------------------------------------
(* Reuse.                                                                  *)

LEMMA LeastNat ==
    ASSUME NEW T \in SUBSET Nat, T # {}
    PROVE  \E n \in T : \A m \in T : n <= m
<1>1. PICK R : R = OpToRel(<, Nat)
  OBVIOUS
<1>2. IsWellFoundedOn(R, Nat)
  BY <1>1, NatLessThanWellFounded
<1>3. PICK n \in T : \A m \in T : ~(<<m, n>> \in R)
  BY <1>2, WFMin
<1>4. \A m \in T : m < n => <<m, n>> \in R
  BY <1>1, <1>3 DEF OpToRel
<1>5. ASSUME NEW m \in T PROVE n <= m
  <2>1. ~(m < n)
    BY <1>3, <1>4
  <2>2. m \in Nat /\ n \in Nat
    OBVIOUS
  <2> QED
    BY <2>1, <2>2
<1> QED
  BY <1>5

LEMMA TightestCovers ==
    ASSUME \A e \in cells : CellGood(e), NEW box, NEW f, Covering(box, f) # {}
    PROVE  Tightest(box, f) \in Covering(box, f)
<1>1. PICK covering : covering = Covering(box, f)
  OBVIOUS
<1>2. \A e \in covering : Cardinality(e.box) \in Nat
  <2>1. \A e \in covering : e.box \subseteq Points
    BY <1>1, EdgeAssumption DEF Covering, CellGood
  <2> QED
    BY <2>1, EdgeAssumption, FS_Subset, FS_CardinalityType
<1>3. PICK sizes : sizes = {Cardinality(e.box) : e \in covering}
  OBVIOUS
<1>4. sizes \in SUBSET Nat /\ sizes # {}
  BY <1>1, <1>2, <1>3
<1>5. PICK n \in sizes : \A m \in sizes : n <= m
  BY <1>4, LeastNat
<1>6. PICK e \in covering : Cardinality(e.box) = n
  BY <1>3, <1>5
<1>7. \A d \in covering : Cardinality(e.box) <= Cardinality(d.box)
  BY <1>3, <1>5, <1>6
<1> QED
  BY <1>1, <1>6, <1>7 DEF Tightest

\* An entry that covers a box shows what stays in it.
LEMMA CoverShows ==
    ASSUME ~torn, NEW e \in cells, CellGood(e), NEW box, NEW f, Covers(e, box, f)
    PROVE  Shows(e.records, box, f)
<1>1. e.box \notin Wide /\ box \subseteq e.box /\ e.filter = f /\ Shows(e.records, e.box, e.filter)
  BY DEF CellGood, Covers
<1>2. \A c \in Cameras : Stays(c, box, f) => Stays(c, e.box, f)
  BY <1>1 DEF Stays
<1> QED
  BY <1>1, <1>2 DEF Shows

\* What a settlement merges is in the store, and what was there stays.
LEMMA SettlementMirrors ==
    ASSUME Mirrored, NEW r, NEW v, NEW f, NEW pages, SettleOk(r, v, f, pages), db' = db, torn => torn',
           \A i \in DOMAIN v : pages[i] \subseteq Public /\ (~torn' => Shows(pages[i], v[i], f))
    PROVE  Mirrored'
<1>1. PICK records : records = Unmerged(v, f, pages)
  OBVIOUS
<1>2. records \subseteq Public
  BY <1>1 DEF Unmerged
<1>3. store' = Merge(records) /\ merged' = merged \cup {<<v[i], f>> : i \in DOMAIN v}
      /\ settled' = [view |-> v, filter |-> f, status |-> "ok"]
  BY <1>1 DEF SettleOk
<1>4. ASSUME NEW c \in Cameras
      PROVE  store'[c] \in Nat /\ (Has(records, c) \/ store[c] # 0 => store'[c] # 0)
  <2>1. CASE Has(records, c)
    <3>1. PICK x : x = CHOOSE y \in records : y.id = c
      OBVIOUS
    <3>2. x \in records
      BY <2>1, <3>1 DEF Has
    <3>3. x.payload \in Nat \ {0}
      BY <1>2, <3>2 DEF Public
    <3>4. store'[c] = x.payload
      BY <1>3, <2>1, <3>1 DEF Merge, Has
    <3> QED
      BY <3>3, <3>4
  <2>2. CASE ~Has(records, c)
    BY <1>3, <2>2 DEF Merge, Has, Mirrored
  <2> QED
    BY <2>1, <2>2
<1>5. store' \in [Cameras -> Nat]
  BY <1>3, <1>4 DEF Merge
<1>6. ASSUME ~torn', NEW c \in Cameras, NEW k \in merged', k[1] \notin Wide, Stays(c, k[1], k[2])'
      PROVE  store'[c] # 0
  <2>1. Stays(c, k[1], k[2])
    BY <1>6 DEF Stays
  <2>2. CASE k \in merged
    BY <1>4, <1>6, <2>1, <2>2 DEF Mirrored
  <2>3. CASE k \notin merged
    <3>1. PICK i \in DOMAIN v : k = <<v[i], f>>
      BY <1>3, <1>6, <2>3
    <3>2. Shows(pages[i], v[i], f) /\ v[i] \notin Wide /\ Stays(c, v[i], f)
      BY <1>6, <2>1, <3>1
    <3>3. Has(pages[i], c)
      BY <3>2 DEF Shows
    <3>4. pages[i] \subseteq records
      BY <1>1, <2>3, <3>1 DEF Unmerged
    <3> QED
      BY <1>4, <3>3, <3>4 DEF Has
  <2> QED
    BY <2>2, <2>3
<1>7. \A i \in DOMAIN settled'.view : <<settled'.view[i], settled'.filter>> \in merged'
  BY <1>3
<1> QED
  BY <1>5, <1>6, <1>7 DEF Mirrored
-----------------------------------------------------------------------------
(* The steps of a run.                                                     *)

LEMMA IdleGood ==
    /\ \A H, g : WalkGood(H, IdleRun, g)
    /\ RunGood(IdleRun) /\ RunGood(IdleRun)'
<1>1. /\ IdleRun.pc = "idle" /\ IdleRun.pages = <<>> /\ IdleRun.part = {}
  BY DEF IdleRun
<1>2. <<>> \in Seq(SUBSET Public) /\ DOMAIN <<>> = {}
  BY EmptySeq
<1> QED
  BY <1>1, <1>2 DEF WalkGood, RunGood, Over

\* The shape of a run that is not over.
LEMMA OpenRun ==
    ASSUME RunsInv, NEW H, ShowsInv(H), NEW r \in Readers, ~Over(run[r]), run[r].pc # "timer"
    PROVE  /\ DOMAIN run[r] = Fields /\ run[r].view \in Seq(Boxes) /\ run[r].pages \in Seq(SUBSET Public)
           /\ Len(run[r].pages) \in Nat /\ Len(run[r].pages) + 1 \in 1..Len(run[r].view)
           /\ run[r].view[Len(run[r].pages) + 1] \in Boxes
<1>1. PICK rec : rec = run[r]
  OBVIOUS
<1>2. rec.view \in Seq(Boxes) /\ rec.pages \in Seq(SUBSET Public) /\ Len(rec.pages) < Len(rec.view)
      /\ DOMAIN rec = Fields
  BY <1>1, ViewportAssumption DEF ShowsInv, RunGood, RunsInv
<1>3. Len(rec.pages) \in Nat /\ Len(rec.view) \in Nat
  BY <1>2, LenProperties
<1>4. Len(rec.pages) + 1 \in 1..Len(rec.view)
  BY <1>2, <1>3
<1>5. rec.view[Len(rec.pages) + 1] \in Boxes
  BY <1>2, <1>4, ElementOfSeq
<1> QED
  BY <1>1, <1>2, <1>3, <1>4, <1>5

LEMMA ResolvedShows ==
    ASSUME RunsInv, NEW H, ShowsInv(H), NEW r \in Readers, ~Over(run[r]), run[r].pc # "timer",
           NEW g, GetGood(H, g), get' = [get EXCEPT ![r] = g] \/ (get' = get /\ g = get[r]),
           NEW records \in SUBSET Public,
           ~torn' => Shows(records, run[r].view[Len(run[r].pages) + 1], run[r].filter),
           Resolved(r, records), torn => torn', UNCHANGED <<db, changes, edge, view, shown, command>>,
           \A e \in cells' : CellGood(e)'
    PROVE  ShowsInv(H)'
<1>1. PICK old : old = run[r]
  OBVIOUS
<1>2. PICK n : n = Len(old.pages)
  OBVIOUS
<1>3. /\ DOMAIN old = Fields /\ old.view \in Seq(Boxes) /\ old.pages \in Seq(SUBSET Public)
      /\ n \in Nat /\ n + 1 \in 1..Len(old.view) /\ Len(old.view) \in Nat /\ RunGood(old)
  BY <1>1, <1>2, OpenRun, LenProperties DEF ShowsInv
<1>4. PICK pages : pages = Append(old.pages, records)
  OBVIOUS
<1>5. /\ pages \in Seq(SUBSET Public) /\ Len(pages) = n + 1 /\ pages[n + 1] = records
      /\ \A i \in 1..n : pages[i] = old.pages[i]
  BY <1>2, <1>3, <1>4, AppendProperties
<1>6. DOMAIN old.pages = 1..n /\ DOMAIN pages = 1..n + 1 /\ DOMAIN old.view = 1..Len(old.view)
  BY <1>2, <1>3, <1>5, LenProperties
<1>7. ASSUME NEW i \in DOMAIN pages
      PROVE  pages[i] \subseteq Public /\ (~torn' => Shows(pages[i], old.view[i], old.filter))
  <2>1. CASE i = n + 1
    BY <1>1, <1>2, <1>5, <2>1
  <2>2. CASE i # n + 1
    <3>1. i \in 1..n
      BY <1>3, <1>6, <2>2
    <3>2. pages[i] = old.pages[i] /\ i \in DOMAIN old.pages
      BY <1>5, <1>6, <3>1
    <3>3. old.pages[i] \in SUBSET Public
      BY <1>2, <1>3, <3>1, ElementOfSeq
    <3> QED
      BY <1>3, <3>2, <3>3 DEF RunGood
  <2> QED
    BY <2>1, <2>2
<1>8. CASE Len(pages) = Len(old.view)
  <2>1. SettleOk(r, old.view, old.filter, pages)
    BY <1>1, <1>4, <1>8 DEF Resolved
  <2>2. Mirrored
    BY DEF ShowsInv
  <2>3. \A i \in DOMAIN old.view : pages[i] \subseteq Public /\ (~torn' => Shows(pages[i], old.view[i], old.filter))
    BY <1>5, <1>6, <1>7, <1>8
  <2>4. Mirrored'
    BY <2>1, <2>2, <2>3, SettlementMirrors
  <2>5. run' = [run EXCEPT ![r] = IdleRun]
    BY <2>1 DEF SettleOk
  <2> QED
    BY <2>4, <2>5, IdleGood, Moved, SlotMoves
<1>9. CASE Len(pages) # Len(old.view)
  <2>1. PICK rec : rec = [old EXCEPT !.pc = "resolve", !.pages = pages, !.part = {}, !.made = {}]
    OBVIOUS
  <2>2. run' = [run EXCEPT ![r] = rec] /\ UNCHANGED <<store, merged, settled>>
    BY <1>1, <1>4, <1>9, <2>1 DEF Resolved
  <2>3. /\ rec.pc = "resolve" /\ rec.pages = pages /\ rec.part = {} /\ rec.made = {}
        /\ rec.view = old.view /\ rec.filter = old.filter
    BY <1>3, <2>1 DEF Fields
  <2>4. Mirrored'
    BY <2>2, MirrorStays DEF ShowsInv, Older
  <2>5. Len(pages) < Len(old.view)
    BY <1>3, <1>5, <1>9
  <2>6. ASSUME ~torn', NEW i \in DOMAIN pages PROVE Shows(pages[i], old.view[i], old.filter)'
    BY <1>7, <2>6 DEF Shows, Stays, Has
  <2>7. old.view \in Viewports
    BY <1>1, <1>3 DEF RunGood
  <2>8. RunGood(rec)'
    BY <1>5, <2>3, <2>5, <2>6, <2>7 DEF RunGood
  <2>9. WalkGood(H, rec, g)
    BY <2>3 DEF WalkGood
  <2> QED
    BY <2>2, <2>4, <2>8, <2>9, Moved, SlotMoves
<1> QED
  BY <1>8, <1>9

\* The run in a slot goes on; the caches and the mirror stay.
LEMMA RunPasses ==
    ASSUME RunsInv, NEW H, ShowsInv(H), NEW r \in Readers, NEW rec, NEW g, Becomes(r, rec, g),
           RunGood(rec), GetGood(H, g), WalkGood(H, rec, g),
           UNCHANGED <<db, changes, edge, view, shown, command, cells, store, merged, torn>>,
           UNCHANGED settled \/ settled'.status # "ok"
    PROVE  ShowsInv(H)'
<1>1. Older
  BY DEF Older
<1>2. RunGood(rec)'
  BY <1>1, RunStays
<1>3. Mirrored'
  <2>1. \A c \in Cameras : \A k \in merged : Stays(c, k[1], k[2])' => Stays(c, k[1], k[2])
    BY DEF Stays
  <2> QED
    BY <2>1 DEF ShowsInv, Mirrored
<1>4. \A e \in cells' : CellGood(e)'
  BY <1>1, CellStays DEF ShowsInv
<1> QED
  BY <1>2, <1>3, <1>4, SlotMoves

LEMMA TimerShows ==
    ASSUME RunsInv, NEW H, ShowsInv(H), NEW r \in Readers, TimerFires(r), UNCHANGED <<shown, command>>
    PROVE  ShowsInv(H)'
<1>1. PICK old : old = run[r]
  OBVIOUS
<1>2. /\ old.pc = "timer" /\ DOMAIN old = Fields /\ RunGood(old) /\ old.view \in Viewports
      /\ old.view \in Seq(Boxes) /\ old.pages = <<>>
      /\ UNCHANGED <<db, changes, edge, get, view, cells, torn>>
  BY <1>1, ViewportAssumption DEF TimerFires, evars, ShowsInv, RunGood, Over, RunsInv
<1>3. \A g : WalkGood(H, IdleRun, g)
  BY IdleGood
<1>4. GetGood(H, get[r])
  BY DEF ShowsInv, EdgeGood
<1>5. CASE /\ \A i \in DOMAIN old.view : Covering(old.view[i], old.filter) # {}
           /\ SettleOk(r, old.view, old.filter,
                       [i \in DOMAIN old.view |-> Tightest(old.view[i], old.filter).records])
  <2>1. PICK pages : pages = [i \in DOMAIN old.view |-> Tightest(old.view[i], old.filter).records]
    OBVIOUS
  <2>2. ASSUME NEW i \in DOMAIN old.view
        PROVE  pages[i] \subseteq Public /\ (~torn' => Shows(pages[i], old.view[i], old.filter))
    <3>1. PICK e \in Covering(old.view[i], old.filter) : e = Tightest(old.view[i], old.filter)
      BY <1>5, TightestCovers DEF ShowsInv
    <3>2. e \in cells /\ CellGood(e) /\ Covers(e, old.view[i], old.filter) /\ pages[i] = e.records
      BY <2>1, <3>1 DEF Covering, ShowsInv
    <3> QED
      BY <1>2, <3>2, CoverShows DEF CellGood
  <2>3. Mirrored'
    BY <1>2, <1>5, <2>1, <2>2, SettlementMirrors DEF ShowsInv
  <2>4. \A e \in cells' : CellGood(e)'
    BY <1>2, CellStays DEF ShowsInv, Older
  <2>5. Becomes(r, IdleRun, get[r])
    BY <1>2, <1>5, Moved DEF SettleOk
  <2> QED
    BY <1>2, <1>4, <2>3, <2>4, <2>5, IdleGood, SlotMoves
<1>6. CASE /\ \E i \in DOMAIN old.view : Covering(old.view[i], old.filter) = {}
           /\ run' = [run EXCEPT ![r].pc = "resolve"]
           /\ UNCHANGED <<live, store, merged, settled, loading, retries, refusals>>
  <2>1. PICK rec : rec = [old EXCEPT !.pc = "resolve"]
    OBVIOUS
  <2>2. Becomes(r, rec, get[r])
    BY <1>1, <1>2, <1>6, <2>1, Moved
  <2>3. /\ rec.pc = "resolve" /\ rec.pages = old.pages /\ rec.part = old.part /\ rec.made = old.made
        /\ rec.view = old.view /\ rec.filter = old.filter
    BY <1>2, <2>1 DEF Fields
  <2>4. Len(rec.pages) < Len(rec.view)
    BY <1>2, <1>6, <2>3, LenProperties
  <2>5. RunGood(rec)
    BY <1>2, <2>3, <2>4 DEF RunGood, Over
  <2>6. WalkGood(H, rec, get[r])
    BY <2>3 DEF WalkGood
  <2> QED
    BY <1>2, <1>4, <1>6, <2>2, <2>5, <2>6, RunPasses
<1> QED
  BY <1>1, <1>5, <1>6 DEF TimerFires

LEMMA ResolveShows ==
    ASSUME RunsInv, NEW H, ShowsInv(H), NEW r \in Readers, Resolve(r), UNCHANGED <<shown, command>>
    PROVE  ShowsInv(H)'
<1>1. PICK old : old = run[r]
  OBVIOUS
<1>2. /\ old.pc = "resolve" /\ ~Over(old) /\ DOMAIN old = Fields /\ RunGood(old)
      /\ UNCHANGED <<db, changes, edge, view, cells, torn>>
  BY <1>1 DEF Resolve, ShowsInv, Over, RunsInv
<1>3. PICK box : box = old.view[Len(old.pages) + 1]
  OBVIOUS
<1>4. \A e \in cells' : CellGood(e)'
  BY <1>2, CellStays DEF ShowsInv, Older
<1>5. ASSUME NEW e \in Covering(box, old.filter), Resolved(r, e.records), get' = get PROVE ShowsInv(H)'
  <2>1. e \in cells /\ CellGood(e) /\ Covers(e, box, old.filter)
    BY <1>5 DEF Covering, ShowsInv
  <2>2. e.records \in SUBSET Public /\ (~torn' => Shows(e.records, box, old.filter))
    BY <1>2, <2>1, CoverShows DEF CellGood
  <2>3. GetGood(H, get[r])
    BY DEF ShowsInv, EdgeGood
  <2> QED
    BY <1>1, <1>2, <1>3, <1>4, <1>5, <2>2, <2>3, ResolvedShows
<1>6. CASE /\ Ask(r, [box |-> box, filter |-> old.filter, offset |-> 0])
           /\ run' = [run EXCEPT ![r].pc = "wait"]
           /\ UNCHANGED <<live, store, merged, settled, loading, retries, refusals>>
  <2>1. PICK rec : rec = [old EXCEPT !.pc = "wait"]
    OBVIOUS
  <2>2. PICK g : g = [pc |-> "match", url |-> [box |-> box, filter |-> old.filter, offset |-> 0],
                      answer |-> "ok", page |-> NoPage]
    OBVIOUS
  <2>3. Becomes(r, rec, g)
    BY <1>1, <1>6, <2>1, <2>2, Moved DEF Ask
  <2>4. /\ rec.pc = "wait" /\ rec.pages = old.pages /\ rec.part = {} /\ rec.made = {}
        /\ rec.view = old.view /\ rec.filter = old.filter
    BY <1>2, <2>1 DEF Fields, RunGood
  <2>5. RunGood(rec)
    BY <1>2, <2>4 DEF RunGood, Over
  <2>6. GetGood(H, g)
    BY <2>2 DEF GetGood
  <2>7. WalkGood(H, rec, g)
    BY <1>3, <2>2, <2>4, FS_EmptySet DEF WalkGood
  <2> QED
    BY <1>2, <1>6, <2>3, <2>5, <2>6, <2>7, RunPasses
<1> QED
  BY <1>1, <1>3, <1>5, <1>6 DEF Resolve

\* What a walk has after one more page.
LEMMA PageWalked ==
    ASSUME NEW H, NEW rec, NEW g, WalkGood(H, rec, g), rec.pc = "wait", ~rec.aborted,
           PageGood(H, g.url, g.page), g.url.offset \in Nat, g.url.box \notin Wide, changes \in Nat,
           NEW m, rec.made \cup {g.page.made} = {m}, NEW c \in RowsThen(H, g.url, m),
           g.page.next # 0 => StandingThen(H, g.url, m, c) <= g.page.next
    PROVE  Has(rec.part \cup g.page.records, c)
<1>1. m = g.page.made /\ (rec.made = {} \/ rec.made = {m})
  OBVIOUS
<1>2. StandingThen(H, g.url, m, c) \in Nat \ {0}
  <2>1. RowsThen(H, g.url, m) \in SUBSET Cameras
    BY DEF RowsThen
  <2> QED
    BY <2>1, StandingBounds DEF StandingThen
<1>3. CASE StandingThen(H, g.url, m, c) <= g.url.offset
  <2>1. rec.made = {m}
    BY <1>1, <1>2, <1>3 DEF WalkGood
  <2>2. Has(rec.part, c)
    BY <1>3, <2>1 DEF WalkGood
  <2> QED
    BY <2>2 DEF Has
<1>4. CASE g.url.offset < StandingThen(H, g.url, m, c)
  <2>1. Has(g.page.records, c)
    BY <1>1, <1>4 DEF PageGood
  <2> QED
    BY <2>1 DEF Has
<1> QED
  BY <1>2, <1>3, <1>4

LEMMA ArriveShows ==
    ASSUME RunsInv, NEW H, ShowsInv(H), NEW r \in Readers, Arrive(r), UNCHANGED <<shown, command>>
    PROVE  ShowsInv(H)'
<1>1. PICK old, h : old = run[r] /\ h = get[r]
  OBVIOUS
<1>2. /\ old.pc = "wait" /\ ~old.aborted /\ ~Over(old) /\ DOMAIN old = Fields /\ RunGood(old)
      /\ h.pc = "done" /\ h.answer = "ok" /\ GetGood(H, h) /\ WalkGood(H, old, h) /\ PageGood(H, h.url, h.page)
      /\ UNCHANGED <<db, changes, edge, view>> /\ changes \in Nat
  BY <1>1 DEF Arrive, Waits, ShowsInv, EdgeGood, GetGood, Over, RunsInv, History
<1>3. PICK records, made : records = old.part \cup h.page.records /\ made = old.made \cup {h.page.made}
  OBVIOUS
<1>4. /\ records \in SUBSET Public /\ made \subseteq 1..changes /\ IsFiniteSet(made) /\ h.url.offset \in Nat
      /\ DOMAIN h.url = {"box", "filter", "offset"} /\ h.page.next \in Nat
  BY <1>2, <1>3, FS_AddElement DEF RunGood, PageGood, WalkGood, GetGood
<1>5. h.url.box = old.view[Len(old.pages) + 1] /\ h.url.filter = old.filter
  BY <1>2 DEF WalkGood
<1>6. CASE /\ h.page.next # 0
           /\ get' = [get EXCEPT ![r] = [pc |-> "match", url |-> [h.url EXCEPT !.offset = h.page.next],
                                         answer |-> "ok", page |-> NoPage]]
           /\ run' = [run EXCEPT ![r].part = records, ![r].made = made]
           /\ UNCHANGED <<live, cells, store, merged, settled, loading, retries, refusals, torn>>
  <2>1. PICK rec : rec = [old EXCEPT !.part = records, !.made = made]
    OBVIOUS
  <2>2. PICK url : url = [h.url EXCEPT !.offset = h.page.next]
    OBVIOUS
  <2>3. url.box = h.url.box /\ url.filter = h.url.filter /\ url.offset = h.page.next
        /\ DOMAIN url = {"box", "filter", "offset"}
    BY <1>4, <2>2
  <2>4. PICK g : g = [pc |-> "match", url |-> url, answer |-> "ok", page |-> NoPage]
    OBVIOUS
  <2>5. Becomes(r, rec, g)
    <3>1. run' = [run EXCEPT ![r] = rec]
      BY <1>1, <1>6, <2>1 DEF RunsInv
    <3>2. get' = [get EXCEPT ![r] = g]
      BY <1>6, <2>2, <2>4
    <3> QED
      BY <3>1, <3>2, Moved
  <2>6. /\ rec.pc = "wait" /\ rec.pages = old.pages /\ rec.part = records /\ rec.made = made
        /\ rec.view = old.view /\ rec.filter = old.filter
    BY <1>2, <2>1 DEF Fields
  <2>7. RunGood(rec)
    BY <1>2, <1>4, <2>6 DEF RunGood, Over
  <2>8. GetGood(H, g)
    BY <1>4, <2>3, <2>4 DEF GetGood
  <2>9. WalkGood(H, rec, g)
    <3>1. ASSUME NEW m \in made, made = {m}, url.box \notin Wide, NEW c \in RowsThen(H, url, m),
                 StandingThen(H, url, m, c) <= url.offset
          PROVE  Has(records, c)
      <4>1. RowsThen(H, url, m) = RowsThen(H, h.url, m)
        BY <2>3 DEF RowsThen
      <4>2. StandingThen(H, h.url, m, c) <= h.page.next
        BY <2>3, <3>1, <4>1 DEF StandingThen
      <4> QED
        BY <1>2, <1>3, <1>4, <2>3, <3>1, <4>1, <4>2, PageWalked
    <3>2. made # {}
      BY <1>3
    <3>3. g.pc # "idle" /\ g.url = url
      BY <2>4
    <3>4. g.url.box = rec.view[Len(rec.pages) + 1] /\ g.url.filter = rec.filter
      BY <1>5, <2>3, <2>6, <3>3
    <3> QED
      BY <1>4, <2>6, <3>1, <3>2, <3>3, <3>4 DEF WalkGood
  <2> QED
    BY <1>2, <1>6, <2>5, <2>7, <2>8, <2>9, RunPasses
<1>7. CASE /\ h.page.next = 0
           /\ get' = [get EXCEPT ![r] = IdleGet]
           /\ cells' = Remember(h.url.box, old.filter, records)
           /\ torn' = (torn \/ Cardinality(made) > 1)
           /\ Resolved(r, records)
  <2>1. ASSUME ~torn' PROVE Shows(records, h.url.box, old.filter)
    <3>1. ~(Cardinality(made) > 1)
      BY <1>7, <2>1
    <3>2. made = {h.page.made}
      <4>1. Cardinality(made) \in Nat
        BY <1>4, FS_CardinalityType
      <4>2. Cardinality(made) # 0
        BY <1>3, <1>4, FS_EmptySet
      <4>3. Cardinality(made) = 1
        BY <3>1, <4>1, <4>2
      <4>4. PICK x : made = {x}
        BY <1>4, <4>3, FS_Singleton
      <4> QED
        BY <1>3, <4>4
    <3>3. ASSUME h.url.box \notin Wide, NEW c \in Cameras, Stays(c, h.url.box, old.filter)
          PROVE  Has(records, c)
      <4>1. PICK m : m = h.page.made
        OBVIOUS
      <4>2. m \in 1..changes
        BY <1>2, <4>1 DEF PageGood
      <4>3. c \in RowsThen(H, h.url, m)
        BY <1>5, <3>3, <4>2 DEF RowsThen, Stays, ShowsInv, History
      <4> QED
        BY <1>2, <1>3, <1>4, <1>7, <3>2, <3>3, <4>1, <4>3, PageWalked
    <3> QED
      BY <3>3 DEF Shows
  <2>2. torn => torn'
    BY <1>7
  <2>3. ASSUME NEW e \in cells' PROVE CellGood(e)'
    <3>1. CASE e \in cells
      BY <1>2, <2>2, <3>1, CellStays DEF ShowsInv, Older
    <3>2. CASE e \notin cells
      <4>1. e = [box |-> h.url.box, filter |-> old.filter, records |-> records,
                 complete |-> h.url.box \notin Wide, fresh |-> TRUE]
        BY <1>7, <2>3, <3>2 DEF Remember
      <4>2. /\ e.box = h.url.box /\ e.filter = old.filter /\ e.records = records
            /\ e.complete => h.url.box \notin Wide
        BY <4>1, Zenon
      <4>3. e.box \in Boxes
        BY <1>1, <1>2, <1>5, <4>2, OpenRun
      <4>4. ~torn' => Shows(e.records, e.box, e.filter)'
        BY <1>2, <2>1, <4>2 DEF Shows, Stays, Has
      <4> QED
        BY <1>4, <4>2, <4>3, <4>4 DEF CellGood
    <3> QED
      BY <3>1, <3>2
  <2>4. GetGood(H, IdleGet)
    BY DEF GetGood, IdleGet
  <2>5. ~torn' => Shows(records, old.view[Len(old.pages) + 1], old.filter)
    BY <1>5, <2>1
  <2> QED
    BY <1>1, <1>2, <1>4, <1>7, <2>2, <2>3, <2>4, <2>5, ResolvedShows
<1> QED
  BY <1>1, <1>3, <1>6, <1>7 DEF Arrive

LEMMA RunShows ==
    ASSUME RunsInv, NEW H, ShowsInv(H), NEW r \in Readers, RunStep(r), UNCHANGED <<shown, command>>
    PROVE  ShowsInv(H)'
<1>1. GetGood(H, IdleGet) /\ GetGood(H, get[r])
  BY DEF GetGood, IdleGet, ShowsInv, EdgeGood
<1>2. CASE Refused(r)
  <2>1. /\ run' = [run EXCEPT ![r] = IdleRun] /\ get' = [get EXCEPT ![r] = IdleGet]
        /\ UNCHANGED <<db, changes, edge, view, cells, store, merged, torn>> /\ settled'.status # "ok"
    BY <1>2 DEF Refused, Fail
  <2>2. Becomes(r, IdleRun, IdleGet)
    BY <2>1, Moved
  <2> QED
    BY <1>1, <2>1, <2>2, IdleGood, RunPasses
<1>3. CASE Rejected(r)
  <2>1. /\ run' = [run EXCEPT ![r] = IdleRun] /\ get' = get
        /\ UNCHANGED <<db, changes, edge, view, cells, store, merged, torn, settled>>
    BY <1>3 DEF Rejected, Silenced, evars
  <2>2. Becomes(r, IdleRun, get[r])
    BY <2>1, Moved
  <2> QED
    BY <1>1, <2>1, <2>2, IdleGood, RunPasses
<1>4. CASE Forget(r)
  <2>1. PICK old : old = run[r]
    OBVIOUS
  <2>2. /\ run' = run /\ get' = [get EXCEPT ![r] = IdleGet] /\ old.pc # "wait"
        /\ UNCHANGED <<db, changes, edge, view, cells, store, merged, torn, settled>>
    BY <1>4, <2>1 DEF Forget, vvars
  <2>3. Becomes(r, old, IdleGet)
    BY <2>1, <2>2, Moved
  <2>4. RunGood(old) /\ WalkGood(H, old, IdleGet)
    BY <2>1, <2>2 DEF ShowsInv, WalkGood
  <2> QED
    BY <1>1, <2>2, <2>3, <2>4, RunPasses
<1> QED
  BY <1>2, <1>3, <1>4, TimerShows, ResolveShows, ArriveShows DEF RunStep
-----------------------------------------------------------------------------
(* The steps around the runs.                                              *)

\* The page moves, the requests and the database do not.
LEMMA PageMoves ==
    ASSUME NEW H, ShowsInv(H), UNCHANGED <<db, changes, edge, get, torn>>,
           \A r \in Readers : RunGood(run'[r]) /\ WalkGood(H, run'[r], get[r]),
           Mirrored', \A e \in cells' : CellGood(e)', Placed'
    PROVE  ShowsInv(H)'
<1>1. \A r \in Readers : RunGood(run[r])' /\ WalkGood(H, run[r], get[r])'
  BY DEF RunGood, WalkGood, Shows, Stays, Has, RowsThen, StandingThen, Over
<1>2. History(H)' /\ EdgeGood(H)'
  BY DEF ShowsInv, History, EdgeGood, GetGood, PageGood
<1> QED
  BY <1>1, <1>2 DEF ShowsInv

LEMMA RunsShow ==
    ASSUME NEW H, ShowsInv(H), UNCHANGED <<evars, cells, store, merged, settled, torn>>,
           \A r \in Readers : RunGood(run'[r]) /\ WalkGood(H, run'[r], get[r]), Placed'
    PROVE  ShowsInv(H)'
<1>1. UNCHANGED <<db, changes, edge, get>>
  BY DEF evars
<1>2. Mirrored'
  BY <1>1, MirrorStays DEF ShowsInv, Older
<1>3. \A e \in cells' : CellGood(e)'
  BY <1>1, CellStays DEF ShowsInv, Older
<1> QED
  BY <1>1, <1>2, <1>3, PageMoves

LEMMA EffectShows ==
    ASSUME RunsInv, NEW H, ShowsInv(H), NEW v, NEW f, NEW cool, Effect(v, f, cool),
           v \in Viewports \cup {NoView}
    PROVE  \A r \in Readers : RunGood(run'[r]) /\ WalkGood(H, run'[r], get[r])
<1>1. PICK clean : clean = CleanedUp
  OBVIOUS
<1>2. ASSUME NEW r \in Readers PROVE RunGood(clean[r]) /\ WalkGood(H, clean[r], get[r])
  <2>1. PICK old : old = run[r]
    OBVIOUS
  <2>2. RunGood(old) /\ WalkGood(H, old, get[r]) /\ DOMAIN old = Fields
    BY <2>1 DEF ShowsInv, RunsInv
  <2>3. PICK rec : rec = [old EXCEPT !.pc = "wait", !.aborted = TRUE]
    OBVIOUS
  <2>4. clean[r] = old \/ clean[r] = IdleRun \/ clean[r] = rec
    BY <1>1, <2>1, <2>3 DEF CleanedUp, Stopped, RunsInv
  <2>5. rec.pc = "wait" /\ rec.aborted /\ rec.pages = old.pages /\ rec.part = old.part
        /\ rec.view = old.view /\ rec.filter = old.filter
    BY <2>2, <2>3 DEF Fields
  <2>6. RunGood(rec) /\ WalkGood(H, rec, get[r])
    BY <2>2, <2>5 DEF RunGood, WalkGood, Over
  <2> QED
    BY <2>2, <2>4, <2>6, IdleGood
<1>3. CASE v = NoView \/ cool
  BY <1>1, <1>2, <1>3 DEF Effect
<1>4. CASE ~(v = NoView \/ cool)
  <2>1. PICK r \in Readers :
          run' = [clean EXCEPT ![r] = [IdleRun EXCEPT !.pc = "timer", !.view = v, !.filter = f]]
    BY <1>1, <1>4 DEF Effect
  <2>2. PICK rec : rec = [IdleRun EXCEPT !.pc = "timer", !.view = v, !.filter = f]
    OBVIOUS
  <2>3. /\ rec.pc = "timer" /\ rec.view = v /\ rec.pages = <<>> /\ rec.part = {} /\ rec.made = {}
        /\ v \in Viewports
    BY <1>4, <2>2 DEF IdleRun
  <2>4. RunGood(rec) /\ WalkGood(H, rec, get[r])
    <3>1. <<>> \in Seq(SUBSET Public) /\ DOMAIN <<>> = {}
      BY EmptySeq
    <3> QED
      BY <2>3, <3>1 DEF RunGood, WalkGood
  <2>5. DOMAIN clean = Readers
    BY <1>1, CleanRuns
  <2>6. run'[r] = rec /\ \A s \in Readers \ {r} : run'[s] = clean[s]
    BY <2>1, <2>2, <2>5
  <2> QED
    BY <1>2, <2>4, <2>6
<1> QED
  BY <1>3, <1>4

\* The worker and the database move on, the page does not.
LEMMA ServerShows ==
    ASSUME NEW H, ShowsInv(H), NEW G, History(G)', Extends(H, G), UNCHANGED <<vvars, shown, command>>,
           \A c \in Cameras : db'[c] = 1 => db[c] = 1,
           \A e \in edge' : PageGood(H, e.url, e.page), DOMAIN get' = Readers,
           \A r \in Readers : GetGood(H, get'[r]) /\ WalkGood(H, run[r], get'[r])
    PROVE  ShowsInv(G)'
<1>1. UNCHANGED <<view, run, cells, store, merged, settled, torn>> /\ Older
  BY DEF vvars, Older
<1>2. EdgeGood(G)'
  <2>1. \A e \in edge' : PageGood(G, e.url, e.page)'
    BY PageStays
  <2>2. ASSUME NEW r \in Readers PROVE GetGood(G, get[r])'
    <3>1. PICK g : g = get'[r]
      OBVIOUS
    <3>2. PageGood(H, g.url, g.page) => PageGood(G, g.url, g.page)'
      BY PageStays
    <3>3. GetGood(G, g)'
      BY <3>1, <3>2 DEF GetGood
    <3> QED
      BY <3>1, <3>3 DEF GetGood, PageGood
  <2> QED
    BY <2>1, <2>2 DEF EdgeGood
<1>3. ASSUME NEW r \in Readers PROVE RunGood(run[r])' /\ WalkGood(G, run[r], get[r])'
  <2>1. PICK rec, g : rec = run[r] /\ g = get'[r]
    OBVIOUS
  <2>2. RunGood(rec)' /\ WalkGood(G, rec, g)'
    BY <1>1, <2>1, RunStays, WalkStays DEF ShowsInv
  <2> QED
    BY <1>1, <2>1, <2>2 DEF RunGood, WalkGood, Over
<1>4. Mirrored'
  BY <1>1, MirrorStays DEF ShowsInv
<1>5. \A e \in cells' : CellGood(e)'
  BY <1>1, CellStays DEF ShowsInv
<1> QED
  BY <1>1, <1>2, <1>3, <1>4, <1>5 DEF ShowsInv, Placed

LEMMA EdgeShows ==
    ASSUME NEW H, ShowsInv(H), EdgeStep, UNCHANGED <<vvars, shown, command>>
    PROVE  \E G : ShowsInv(G)'
<1>0. History(H) /\ changes \in Nat /\ EdgeGood(H) /\ \A r \in Readers : GetGood(H, get[r]) /\ WalkGood(H, run[r], get[r])
  BY DEF ShowsInv, History, EdgeGood
<1>1. ASSUME UNCHANGED <<db, changes>> PROVE History(H)' /\ Extends(H, H)
  BY <1>0, <1>1 DEF History, Extends
\* A request moves on with its address.
<1>2. ASSUME NEW r \in Readers, NEW g, get[r].pc # "idle", get' = [get EXCEPT ![r] = g],
             g.pc # "idle", g.url = get[r].url, GetGood(H, g), UNCHANGED <<db, changes>>,
             \A e \in edge' : PageGood(H, e.url, e.page)
      PROVE  ShowsInv(H)'
  <2>1. DOMAIN get' = Readers /\ get'[r] = g /\ \A s \in Readers \ {r} : get'[s] = get[s]
    BY <1>0, <1>2 DEF EdgeGood
  <2>2. WalkGood(H, run[r], g)
    BY <1>0, <1>2 DEF WalkGood
  <2>3. \A s \in Readers : GetGood(H, get'[s]) /\ WalkGood(H, run[s], get'[s])
    BY <1>0, <1>2, <2>1, <2>2
  <2> QED
    BY <1>1, <1>2, <2>1, <2>3, ServerShows
<1>3. ASSUME NEW r \in Readers, Serve(r) PROVE ShowsInv(H)'
  <2>1. PICK h : h = get[r]
    OBVIOUS
  <2>2. h.pc # "idle" /\ DOMAIN h = {"pc", "url", "answer", "page"} /\ DOMAIN h.url = {"box", "filter", "offset"}
        /\ h.url.offset \in Nat /\ GetGood(H, h)
    BY <1>0, <1>3, <2>1 DEF Serve, MatchEdge, Build, Put, GetGood
  <2>3. \A e \in edge : PageGood(H, e.url, e.page)
    BY <1>0 DEF EdgeGood
  <2>4. CASE MatchEdge(r)
    <3>1. UNCHANGED <<db, changes, edge>>
      BY <2>4 DEF MatchEdge
    <3>2. CASE \E e \in edge : e.url = h.url /\ get' = [get EXCEPT ![r].pc = "done", ![r].page = e.page]
      <4>1. PICK e \in edge : e.url = h.url /\ get' = [get EXCEPT ![r].pc = "done", ![r].page = e.page]
        BY <3>2
      <4>2. PICK g : g = [h EXCEPT !.pc = "done", !.page = e.page]
        OBVIOUS
      <4>3. g.pc = "done" /\ g.url = h.url /\ g.page = e.page /\ DOMAIN g = {"pc", "url", "answer", "page"}
        BY <2>2, <4>2
      <4>4. GetGood(H, g)
        BY <2>2, <2>3, <4>1, <4>3 DEF GetGood
      <4>5. get' = [get EXCEPT ![r] = g]
        BY <1>0, <2>1, <4>1, <4>2 DEF EdgeGood
      <4> QED
        BY <1>2, <2>1, <2>2, <2>3, <3>1, <4>3, <4>4, <4>5
    <3>3. CASE get' = [get EXCEPT ![r].pc = "build"]
      <4>1. PICK g : g = [h EXCEPT !.pc = "build"]
        OBVIOUS
      <4>2. g.pc = "build" /\ g.url = h.url /\ DOMAIN g = {"pc", "url", "answer", "page"}
        BY <2>2, <4>1
      <4>3. GetGood(H, g) /\ get' = [get EXCEPT ![r] = g]
        BY <2>1, <2>2, <3>3, <4>1, <4>2 DEF GetGood
      <4> QED
        BY <1>2, <2>1, <2>2, <2>3, <3>1, <4>2, <4>3
    <3> QED
      BY <2>1, <2>4, <3>2, <3>3 DEF MatchEdge
  <2>5. CASE Build(r)
    <3>1. UNCHANGED <<db, changes, edge>>
      BY <2>5 DEF Build
    <3>2. CASE get' = [get EXCEPT ![r].pc = "put", ![r].page = Answer(get[r].url)]
      <4>1. PICK g : g = [h EXCEPT !.pc = "put", !.page = Answer(h.url)]
        OBVIOUS
      <4>2. g.pc = "put" /\ g.url = h.url /\ g.page = Answer(h.url) /\ DOMAIN g = {"pc", "url", "answer", "page"}
        BY <2>2, <4>1
      <4>3. PageGood(H, h.url, Answer(h.url))
        BY <1>0, <2>2, AnswerGood
      <4>4. GetGood(H, g)
        BY <2>2, <4>2, <4>3 DEF GetGood
      <4>5. get' = [get EXCEPT ![r] = g]
        BY <1>0, <2>1, <3>2, <4>1 DEF EdgeGood
      <4> QED
        BY <1>2, <2>1, <2>2, <2>3, <3>1, <4>2, <4>4, <4>5
    <3>3. CASE \E answer \in {"limited", "failed"} : get' = [get EXCEPT ![r].pc = "done", ![r].answer = answer]
      <4>1. PICK answer \in {"limited", "failed"} : get' = [get EXCEPT ![r].pc = "done", ![r].answer = answer]
        BY <3>3
      <4>2. PICK g : g = [h EXCEPT !.pc = "done", !.answer = answer]
        OBVIOUS
      <4>3. g.pc = "done" /\ g.url = h.url /\ g.answer # "ok" /\ DOMAIN g = {"pc", "url", "answer", "page"}
        BY <2>2, <4>2
      <4>4. GetGood(H, g)
        BY <2>2, <4>3 DEF GetGood
      <4>5. get' = [get EXCEPT ![r] = g]
        BY <1>0, <2>1, <4>1, <4>2 DEF EdgeGood
      <4> QED
        BY <1>2, <2>1, <2>2, <2>3, <3>1, <4>3, <4>4, <4>5
    <3> QED
      BY <2>5, <3>2, <3>3 DEF Build
  <2>6. CASE Put(r)
    <3>1. UNCHANGED <<db, changes>> /\ h.pc = "put"
      BY <2>1, <2>6 DEF Put
    <3>2. PageGood(H, h.url, h.page)
      BY <2>2, <3>1 DEF GetGood
    <3>3. \A e \in edge' : PageGood(H, e.url, e.page)
      <4>1. edge' = {e \in edge : e.url # h.url} \cup {[url |-> h.url, page |-> h.page]}
        BY <2>1, <2>6 DEF Put
      <4> QED
        BY <2>3, <3>2, <4>1
    <3>4. PICK g : g = [h EXCEPT !.pc = "done"]
      OBVIOUS
    <3>5. g.pc = "done" /\ g.url = h.url /\ g.page = h.page /\ DOMAIN g = {"pc", "url", "answer", "page"}
      BY <2>2, <3>4
    <3>6. GetGood(H, g) /\ get' = [get EXCEPT ![r] = g]
      BY <2>1, <2>2, <2>6, <3>2, <3>4, <3>5 DEF GetGood, Put
    <3> QED
      BY <1>2, <2>1, <2>2, <3>1, <3>3, <3>5, <3>6
  <2> QED
    BY <1>3, <2>4, <2>5, <2>6 DEF Serve
\* The set of public records changes or the cache forgets.
<1>4. ASSUME NEW G, History(G)', Extends(H, G), \A c \in Cameras : db'[c] = 1 => db[c] = 1,
             edge' \subseteq edge, get' = get
      PROVE  ShowsInv(G)'
  BY <1>0, <1>4, ServerShows DEF EdgeGood
<1>5. ASSUME NEW e \in edge, EdgeExpires(e) PROVE ShowsInv(H)'
  BY <1>1, <1>4, <1>5 DEF EdgeExpires
<1>6. ASSUME NEW c \in Cameras, Purge(c) PROVE ShowsInv(H)'
  BY <1>1, <1>4, <1>6 DEF Purge
<1>7. ASSUME NEW c \in Cameras, Decide(c) \/ Community(c) PROVE \E G : ShowsInv(G)'
  <2>1. PICK payload \in {changes + 1, 0} : Write(c, payload)
    BY <1>7 DEF Decide, Community
  <2>2. PICK G : History(G)' /\ Extends(H, G) /\ \A d \in Cameras : db'[d] = 1 => db[d] = 1
    BY <1>0, <2>1, WriteExtends
  <2>3. UNCHANGED <<edge, get>>
    BY <1>7 DEF Decide, Community
  <2> QED
    BY <1>4, <2>2, <2>3
<1> QED
  BY <1>3, <1>5, <1>6, <1>7 DEF EdgeStep

LEMMA ShowsInit == Init => \E H : ShowsInv(H)
<1> SUFFICES ASSUME Init PROVE \E H : ShowsInv(H)
  OBVIOUS
<1>1. PICK H : H = [m \in Nat |-> db]
  OBVIOUS
<1>2. History(H)
  BY <1>1 DEF Init, EdgeInit, History
<1>3. EdgeGood(H)
  BY DEF Init, EdgeInit, IdleGet, EdgeGood, GetGood
<1>4. Mirrored
  BY DEF Init, ViewportInit, Mirrored, Unsettled
<1>5. Placed
  BY DEF Init, ViewportInit, Placed
<1>6. \A r \in Readers : RunGood(run[r]) /\ WalkGood(H, run[r], get[r])
  BY IdleGood DEF Init, ViewportInit
<1>7. cells = {}
  BY DEF Init, ViewportInit
<1> QED
  BY <1>2, <1>3, <1>4, <1>5, <1>6, <1>7 DEF ShowsInv

LEMMA ShowsNext ==
    ASSUME RunsInv, NEW H, ShowsInv(H), [Next]_vars
    PROVE  \E G : ShowsInv(G)'
<1>1. ASSUME UNCHANGED <<evars, run, cells, store, merged, settled, torn>>, Placed' PROVE ShowsInv(H)'
  BY <1>1, RunsShow DEF ShowsInv
<1>2. view \in Viewports \cup {NoView} /\ shown \in Viewports /\ command \in Viewports \cup {NoView}
  BY DEF ShowsInv, Placed
<1>3. CASE HookStep /\ UNCHANGED mvars
  <2>0. UNCHANGED <<shown, command>>
    BY <1>3 DEF mvars
  <2>1. ASSUME NEW r \in Readers, RunStep(r) PROVE ShowsInv(H)'
    BY <2>0, <2>1, RunShows
  <2>2. ASSUME NEW f \in Filters, SetFilter(f) PROVE ShowsInv(H)'
    <3>1. Effect(view, f, cooldown) /\ UNCHANGED <<evars, view, cells, store, merged, settled, torn>>
      BY <2>2 DEF SetFilter, NewIdentity
    <3>2. Placed'
      BY <1>2, <2>0, <3>1 DEF Placed
    <3>3. \A r \in Readers : RunGood(run'[r]) /\ WalkGood(H, run'[r], get[r])
      BY <1>2, <3>1, EffectShows
    <3> QED
      BY <3>1, <3>2, <3>3, RunsShow
  <2>3. CASE CooldownEnds
    <3>1. Effect(view, filter, FALSE) /\ UNCHANGED <<evars, view, cells, store, merged, settled, torn>>
      BY <2>3 DEF CooldownEnds
    <3>2. Placed'
      BY <1>2, <2>0, <3>1 DEF Placed
    <3>3. \A r \in Readers : RunGood(run'[r]) /\ WalkGood(H, run'[r], get[r])
      BY <1>2, <3>1, EffectShows
    <3> QED
      BY <3>1, <3>2, <3>3, RunsShow
  <2>4. ASSUME NEW c \in Cameras, Focus(c) PROVE ShowsInv(H)'
    <3>1. UNCHANGED <<evars, view, run, cells, merged, settled, torn>> /\ store' = [store EXCEPT ![c] = db[c]]
          /\ db[c] # 0
      BY <2>4 DEF Focus
    <3>2. UNCHANGED <<db, changes, edge, get>> /\ db \in [Cameras -> Nat] /\ store \in [Cameras -> Nat]
      BY <3>1 DEF evars, ShowsInv, History, Mirrored
    <3>3. store' \in [Cameras -> Nat] /\ \A d \in Cameras : store[d] # 0 => store'[d] # 0
      BY <3>1, <3>2
    <3>4. Mirrored'
      BY <3>1, <3>2, <3>3 DEF ShowsInv, Mirrored, Stays
    <3>5. Placed' /\ \A r \in Readers : RunGood(run'[r]) /\ WalkGood(H, run'[r], get[r])
      BY <1>2, <2>0, <3>1 DEF ShowsInv, Placed
    <3>6. \A e \in cells' : CellGood(e)'
      BY <3>1, <3>2, CellStays DEF ShowsInv, Older
    <3> QED
      BY <3>1, <3>2, <3>4, <3>5, <3>6, PageMoves
  <2>5. ASSUME NEW e \in cells, CellExpires(e) PROVE ShowsInv(H)'
    <3>1. UNCHANGED <<evars, view, run, store, merged, settled, torn>>
          /\ cells' = (cells \ {e}) \cup {[e EXCEPT !.fresh = FALSE]}
      BY <2>5 DEF CellExpires
    <3>2. UNCHANGED <<db, changes, edge, get>>
      BY <3>1 DEF evars
    <3>3. PICK aged : aged = [e EXCEPT !.fresh = FALSE]
      OBVIOUS
    <3>4. aged.records = e.records /\ aged.box = e.box /\ aged.filter = e.filter /\ aged.complete = e.complete
      BY <3>3
    <3>5. CellGood(aged)
      BY <3>4 DEF ShowsInv, CellGood
    <3>6. \A d \in cells' : CellGood(d)'
      BY <3>1, <3>2, <3>3, <3>5, CellStays DEF ShowsInv, Older
    <3>7. Placed' /\ \A r \in Readers : RunGood(run'[r]) /\ WalkGood(H, run'[r], get[r])
      BY <1>2, <2>0, <3>1 DEF ShowsInv, Placed
    <3>8. Mirrored'
      BY <3>1, <3>2, MirrorStays DEF ShowsInv, Older
    <3> QED
      BY <3>1, <3>2, <3>6, <3>7, <3>8, PageMoves
  <2>6. CASE EdgeStep /\ UNCHANGED vvars
    BY <2>0, <2>6, EdgeShows
  <2> QED
    BY <1>3, <2>1, <2>2, <2>3, <2>4, <2>5, <2>6 DEF HookStep
<1>4. CASE Report
  <2>1. UNCHANGED <<shown, command>>
    BY <1>4 DEF Report
  <2>2. CASE Pan(shown)
    <3>1. Effect(shown, filter, cooldown) /\ view' = shown
          /\ UNCHANGED <<evars, cells, store, merged, settled, torn>>
      BY <2>2 DEF Pan, NewIdentity
    <3>2. Placed'
      BY <1>2, <2>1, <3>1 DEF Placed
    <3>3. \A r \in Readers : RunGood(run'[r]) /\ WalkGood(H, run'[r], get[r])
      BY <1>2, <3>1, EffectShows
    <3> QED
      BY <3>1, <3>2, <3>3, RunsShow
  <2>3. CASE UNCHANGED <<evars, vvars>>
    BY <1>1, <1>2, <2>1, <2>3 DEF vvars, Placed
  <2> QED
    BY <1>4, <2>2, <2>3 DEF Report
<1>5. ASSUME NEW v \in Viewports, UserPan(v) \/ SelectPlace(v) PROVE ShowsInv(H)'
  BY <1>1, <1>2, <1>5 DEF UserPan, SelectPlace, Rest, Placed
<1>6. CASE ApplyFocus \/ Land \/ UNCHANGED vars
  BY <1>1, <1>2, <1>6 DEF ApplyFocus, Land, vars, vvars, mvars, Placed
<1> QED
  BY <1>3, <1>4, <1>5, <1>6 DEF Next

\* Whatever the page, the worker, the moderators and the community did: when a viewport has
\* settled and no walk mixed two states of the database, every record of it that matches
\* the filter and never changed is in the store, unless its box was answered by a sample.
\* Neither the caches, the merged keys nor the skipped request lose one.
THEOREM SettledShows == Safety => []ShownIfSettled
<1> DEFINE Inv == RunsInv /\ Budget /\ \E H : ShowsInv(H)
<1>1. Init => Inv
  BY InitHolds, ShowsInit
<1>2. Inv /\ [Next]_vars => Inv'
  BY NextKeeps, ShowsNext DEF Kept
<1>3. Inv => ShownIfSettled
  <2> SUFFICES ASSUME NEW H, ShowsInv(H), Exposed.status = "ok", Exposed.view = view, ~torn,
                      NEW i \in DOMAIN view, NEW c \in Cameras, view[i] \notin Wide, db[c] = 1,
                      Place[c] \in view[i], filter \in {NoFilter, Kind[c]}
               PROVE  store[c] # 0
    BY DEF ShownIfSettled
  <2>1. settled.status = "ok" /\ settled.view = view /\ settled.filter = filter
    BY DEF Exposed, Unsettled
  <2>2. PICK k : k = <<view[i], filter>>
    OBVIOUS
  <2>3. k \in merged /\ k[1] = view[i] /\ k[2] = filter
    BY <2>1, <2>2 DEF ShowsInv, Mirrored
  <2>4. Stays(c, k[1], k[2])
    BY <2>3 DEF Stays
  <2> QED
    BY <2>3, <2>4 DEF ShowsInv, Mirrored
<1> HIDE DEF Inv
<1> QED
  BY <1>1, <1>2, <1>3, PTL DEF Safety
=============================================================================
