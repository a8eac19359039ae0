------------------------------ MODULE MapLanding ------------------------------
(***************************************************************************)
(* The page of the map around its data layer: Leaflet moves at once and        *)
(* reports its bounds later, a place chosen in the search arms a landing that  *)
(* must happen once, at its destination, and never after the user left it      *)
(* (app/components/tools/MappaTool.tsx, app/components/SurveillanceMap.tsx).  *)
(*                                                                         *)
(* Simplifications: one pending command is known at a time, so its intent      *)
(* number is its place in the history; what a landing selects is left out.     *)
(***************************************************************************)
EXTENDS ViewportCameras

VARIABLES
    shown, moved,     \* Leaflet's own view, and a report of it is due
    command,          \* the place to be framed, NoView when it has been
    pending           \* placePendingRef

mvars == <<shown, moved, command, pending>>
vars == <<evars, vvars, mvars>>

\* The target of a landing is known once the place has been framed.
Pending == [armed : BOOLEAN, target : Viewports \cup {NoView}]
Disarmed == [armed |-> FALSE, target |-> NoView]
Armed == [armed |-> TRUE, target |-> NoView]

LandingTypeOK ==
    /\ EdgeTypeOK /\ ViewportTypeOK
    /\ shown \in Viewports /\ moved \in BOOLEAN
    /\ command \in Viewports \cup {NoView} /\ pending \in Pending

Init ==
    /\ EdgeInit /\ ViewportInit
    /\ shown \in Viewports /\ moved = TRUE /\ command = NoView /\ pending = Disarmed
-----------------------------------------------------------------------------
Departs(v) == pending.target # NoView /\ v # pending.target
\* Mutant of Reported: the landing stays armed.
StaysArmed(v) == pending
\* A report of another view than the destination cancels the landing.
Reported(v) == IF Departs(v) THEN Disarmed ELSE pending

\* handleBoundsChange, after the debounce of moveend.
Report ==
    /\ moved /\ moved' = FALSE
    /\ \/ Pan(shown)
       \/ shown = view /\ UNCHANGED <<evars, vvars>>
    /\ pending' = Reported(shown)
    /\ UNCHANGED <<shown, command>>

Act == acts < MaxActs /\ acts' = acts + 1
Rest == <<evars, view, filter, run, live, cells, store, merged, settled, loading, cooldown,
          retries, refusals, torn>>

UserPan(v) ==
    /\ v # shown /\ Act
    /\ shown' = v /\ moved' = TRUE
    /\ UNCHANGED <<Rest, command, pending>>

\* handlePlaceSelect.
SelectPlace(v) ==
    /\ Act
    /\ command' = v /\ pending' = Armed
    /\ UNCHANGED <<Rest, shown, moved>>

\* applyFocus frames the place and onFocusApplied captures the view it got.
ApplyFocus ==
    /\ command # NoView
    /\ shown' = command /\ moved' = TRUE /\ command' = NoView
    /\ pending' = IF pending.armed THEN [pending EXCEPT !.target = command] ELSE pending
    /\ UNCHANGED <<evars, vvars>>

\* The landing effect: the destination has settled and is still the view.
Land ==
    /\ pending.target # NoView
    /\ Exposed.view = pending.target /\ view = pending.target
    /\ pending' = Disarmed
    /\ UNCHANGED <<evars, vvars, shown, moved, command>>

Next ==
    \/ HookStep /\ UNCHANGED mvars
    \/ Report \/ ApplyFocus \/ Land
    \/ \E v \in Viewports : UserPan(v) \/ SelectPlace(v)

\* Timers fire, the worker answers, the debounced report comes, effects run.
Fairness ==
    /\ \A r \in Readers : /\ WF_vars(RunStep(r) /\ UNCHANGED mvars)
                          /\ WF_vars(Serve(r) /\ UNCHANGED <<vvars, mvars>>)
    /\ WF_vars(CooldownEnds /\ UNCHANGED mvars)
    /\ WF_vars(Report) /\ WF_vars(ApplyFocus) /\ WF_vars(Land)
Safety == Init /\ [][Next]_vars
Spec == Safety /\ Fairness
-----------------------------------------------------------------------------
\* Once the user stops, the view settles for its filter: the page is never left
\* spinning by an abort, a refusal, a cooldown or a cached answer.
SettlesInTheEnd == <>[](view # NoView /\ Exposed.view = view)

\* An armed landing is consumed or cancelled: it never waits for a later, unrelated
\* settlement of the same view.
LandingResolves == pending.armed ~> ~pending.armed
=============================================================================
