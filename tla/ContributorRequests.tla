------------------------- MODULE ContributorRequests -------------------------
(***************************************************************************)
(* What contributors ask of records that exist: correction reports          *)
(* (db/corrections.ts), edits of their own records (applyCameraEdit in      *)
(* db/camera-edits.ts), and the moderation of both (moderateCorrection and  *)
(* moderateCameraEdit in db/moderation.ts), next to the moderation of the   *)
(* records themselves and the erasure of accounts.                          *)
(*                                                                         *)
(* items holds the rows of correction_requests and camera_edit_requests,    *)
(* rows those of moderation_queue for either entity, trail their events.    *)
(*                                                                         *)
(* Simplifications:                                                        *)
(*  - a record's editable columns are its title, its kind and its bearing;  *)
(*  - cameras are not deleted here, so the look-ups of a camera that         *)
(*    must exist take no step;                                              *)
(*  - the outcomes "kept" and "escalated" touch no record and count as      *)
(*    none; messages, contacts, notes and assignees decide nothing.          *)
(***************************************************************************)
EXTENDS ReviewQueue, Functions

CONSTANTS
    Contributors,     \* verified accounts
    Anonymous,        \* contributor_id IS NULL
    NoRecord,         \* camera_id IS NULL, or no camera named by the reviewer
    InitialOwner,     \* cameras.contributor_id at the start
    InitialContent,   \* the editable columns of each camera at the start
    InitialItems,     \* requests pending when the model starts
    Edits,            \* the edits owners send
    Payloads,         \* the decisions reviewers send on requests
    Desks,            \* slots for requests of this module in flight together
    MaxDeskRequests   \* begun at most, over a behaviour

Columns == {"title", "kind", "bearing"}
Dome == "dome"
Null == "null"        \* no value in a column, or an explicit null in a patch
Values == {"old", "new", "fixed", Dome, "east", "west", Null}
AnyPatch == UNION {[S -> Values] : S \in SUBSET Columns}

Authors == Contributors \cup {Anonymous}
Targets == Records \cup {NoRecord}
ItemActions == {"approve", "reject", "associate", "escalate"}
Outcomes == {"none"} \cup OutcomeActions
ItemStatuses == {"pending", "reviewed", "approved", "rejected"}
Entities == {"correction", "camera_edit"}
Item == [entity : Entities, rec : Targets, by : Authors, status : ItemStatuses,
         patch : AnyPatch, outcome : Outcomes]
NewItem(entity, rec, by, patch) ==
    [entity |-> entity, rec |-> rec, by |-> by, status |-> "pending",
     patch |-> patch, outcome |-> "none"]

\* guarded: the client sends the value of "updated" that it saw.
Edit == [patch : AnyPatch, guarded : BOOLEAN]
\* link is the camera a reviewer names for a correction, asked the request for a
\* second review; an outcome only goes with the acceptance of a correction.
Payload == {p \in [action : ItemActions, outcome : Outcomes, link : Targets,
                   recused : BOOLEAN, asked : BOOLEAN] :
              /\ p.outcome # "none" => p.action = "approve"
              /\ p.action = "associate" => p.link # NoRecord}

ASSUME ContributorsAssumption ==
    /\ Anonymous \notin Contributors /\ NoRecord \notin Records
    /\ InitialOwner \in [Records -> Authors]
    /\ InitialContent \in [Records -> [Columns -> Values]]
    /\ Edits \subseteq Edit /\ Payloads \subseteq Payload
    /\ MaxDeskRequests \in Nat

\* The rows at the start: requests not yet decided and within the unique indexes, of which
\* an edit names its camera; and no dome with a bearing.
ASSUME StartAssumption ==
    /\ InitialItems \in Seq(Item)
    /\ \A i \in DOMAIN InitialItems :
         /\ InitialItems[i].status = "pending"
         /\ InitialItems[i].entity = "camera_edit" => InitialItems[i].rec # NoRecord
    /\ \A i, j \in DOMAIN InitialItems :
         /\ InitialItems[i].rec # NoRecord /\ InitialItems[i].rec = InitialItems[j].rec
         /\ InitialItems[i].entity = InitialItems[j].entity
         /\ InitialItems[i].entity = "correction" => InitialItems[i].by = InitialItems[j].by
         => i = j
    /\ \A rec \in Records :
         InitialContent[rec].kind = Dome => InitialContent[rec].bearing = Null

VARIABLES
    content,          \* the editable columns of each camera
    stamp,            \* cameras.updated, as a count of the writes to it
    owner,            \* cameras.contributor_id
    erased,           \* deleted accounts
    items, rows, trail,
    desk,             \* locals of the request in each slot
    dstarted          \* begun so far (bound)

deskVars == <<vars, content, stamp, owner, erased, items, rows, trail, desk, dstarted>>
cameraVars == <<status, events, content, stamp>>

DeskPCs == {"idle", "prior", "insert", "update", "log", "request", "enqueue",
            "find", "open", "recuse", "escalate", "intent", "lookup", "target", "decide"}
\* rec, by and patch are the payload of a contributor, and seen the row they were
\* compared with; item, action, outcome, link, recused and asked that of a reviewer,
\* whose rec is the camera that an outcome is for.
Desk == [pc : DeskPCs, rec : Targets, by : Authors, patch : AnyPatch, guarded : BOOLEAN,
         seen : Nat, item : Nat, who : Reviewers \cup {NoReviewer}, action : ItemActions,
         outcome : Outcomes, link : Targets, recused : BOOLEAN, asked : BOOLEAN,
         from : ItemStatuses, row : Nat, two : BOOLEAN, camera : Statuses]
IdleDesk == [pc |-> "idle", rec |-> NoRecord, by |-> Anonymous, patch |-> <<>>, guarded |-> FALSE,
             seen |-> 0, item |-> 0, who |-> NoReviewer, action |-> "escalate",
             outcome |-> "none", link |-> NoRecord, recused |-> FALSE, asked |-> FALSE,
             from |-> "pending", row |-> 0, two |-> FALSE, camera |-> "pending"]

ItemRow == [item : Nat, state : QueueStates, two : BOOLEAN]
\* The verdicts on edits have names of their own.
ItemEvents == ItemActions \cup {"edit_applied", "edit_rejected"}
ItemEvent == [item : Nat, from : ItemStatuses, to : ItemStatuses, action : ItemEvents,
              who : Reviewers \cup {NoReviewer}, recused : BOOLEAN]

DeskTypeOK ==
    /\ TypeOK
    /\ content \in [Records -> [Columns -> Values]]
    /\ stamp \in [Records -> Nat]
    /\ owner \in [Records -> Authors]
    /\ erased \subseteq Contributors
    /\ items \in Seq(Item)
    /\ \A i \in DOMAIN items : items[i].status \in ItemStatuses \
         {IF items[i].entity = "camera_edit" THEN "reviewed" ELSE "approved"}
    /\ rows \in Seq(ItemRow) /\ trail \in Seq(ItemEvent)
    /\ desk \in [Desks -> Desk]
    /\ dstarted \in Nat

DeskInit ==
    /\ Init
    /\ content = InitialContent /\ stamp = [rec \in Records |-> 0]
    /\ owner = InitialOwner /\ erased = {}
    /\ items = InitialItems /\ rows = <<>> /\ trail = <<>>
    /\ desk = [s \in Desks |-> IdleDesk]
    /\ dstarted = 0

AtDesk(s, pc) == desk[s].pc = pc
DeskGoto(s, pc) == desk' = [desk EXCEPT ![s].pc = pc]
EndDesk(s) == desk' = [desk EXCEPT ![s] = IdleDesk]
Started(s, locals) ==
    /\ AtDesk(s, "idle") /\ dstarted < MaxDeskRequests
    /\ dstarted' = dstarted + 1
    /\ desk' = [desk EXCEPT ![s] = locals]
Touched(rec) == stamp' = [stamp EXCEPT ![rec] = @ + 1]
-----------------------------------------------------------------------------
(* createCorrectionRequest.                                                *)

Pending(entity) == {i \in DOMAIN items : items[i].entity = entity /\ items[i].status = "pending"}
OpenReports(rec, by) == {i \in Pending("correction") : items[i].rec = rec /\ items[i].by = by}
OpenEdits(rec) == {i \in Pending("camera_edit") : items[i].rec = rec}

\* The first look-up: an open report of the same author on the same record.
BeginReport(s, rec, by) ==
    /\ Started(s, IF rec = NoRecord \/ OpenReports(rec, by) = {}
                    THEN [IdleDesk EXCEPT !.pc = IF rec = NoRecord THEN "insert" ELSE "prior",
                                          !.rec = rec, !.by = by]
                    ELSE IdleDesk)
    /\ UNCHANGED <<vars, content, stamp, owner, erased, items, rows, trail>>

RemovedBefore(rec, by) == \E i \in DOMAIN items :
    /\ items[i].entity = "correction" /\ items[i].rec = rec /\ items[i].by = by
    /\ items[i].status = "reviewed" /\ items[i].outcome = "removed"

CheckPriorRemoval(s) ==
    /\ AtDesk(s, "prior")
    /\ IF RemovedBefore(desk[s].rec, desk[s].by) THEN EndDesk(s) ELSE DeskGoto(s, "insert")
    /\ UNCHANGED <<vars, content, stamp, owner, erased, items, rows, trail, dstarted>>

\* correction_requests_open_contributor_unique and _open_anon_unique
ReportAdmitted(rec, by) == rec = NoRecord \/ OpenReports(rec, by) = {}

\* contributor_id REFERENCES contributors(id)
Known(c) == c \notin erased

\* ON CONFLICT DO NOTHING; the foreign key makes it throw for a deleted account.
InsertReport(s) ==
    LET d == desk[s] IN
    /\ AtDesk(s, "insert")
    /\ items' = IF ReportAdmitted(d.rec, d.by) /\ Known(d.by)
                  THEN Append(items, NewItem("correction", d.rec, d.by, <<>>)) ELSE items
    /\ EndDesk(s)
    /\ UNCHANGED <<vars, content, stamp, owner, erased, rows, trail, dstarted>>
-----------------------------------------------------------------------------
(* applyCameraEdit.                                                        *)

PublishedEditable == {"active", "needs_review", "stale"}

\* diffFields and applyDomeDirectionRule: the columns to change, and a dome
\* neither gains nor keeps a bearing.
Diff(row, patch) ==
    LET changed == Restrict(patch, {c \in DOMAIN patch : patch[c] # row[c]})
        kind == IF "kind" \in DOMAIN patch THEN patch.kind ELSE row.kind
        others == Restrict(changed, DOMAIN changed \ {"bearing"}) IN
    IF kind # Dome THEN changed
    ELSE IF row.bearing # Null THEN [c \in DOMAIN others \cup {"bearing"} |->
                                       IF c = "bearing" THEN Null ELSE others[c]]
    ELSE others
\* Mutant of Patched: the columns keep what they have, COALESCE(column, ?).
KeptFirst(row, patch) ==
    [c \in Columns |-> IF row[c] = Null /\ c \in DOMAIN patch THEN patch[c] ELSE row[c]]
Patched(row, patch) == [c \in Columns |-> IF c \in DOMAIN patch THEN patch[c] ELSE row[c]]
\* Columns of the proposal, where NULL means "unchanged".
Proposal(diff) == Restrict(diff, {c \in DOMAIN diff : diff[c] # Null})

\* The row is read, the author and the status checked and the diff computed.
BeginEdit(s, rec, by, edit) ==
    LET diff == Diff(content[rec], edit.patch)
        next == IF owner[rec] # by \/ diff = <<>> THEN "idle"
                ELSE IF status[rec] = "pending" THEN "update"
                ELSE IF status[rec] \in PublishedEditable THEN "request" ELSE "idle" IN
    /\ Started(s, IF next = "idle" THEN IdleDesk
                  ELSE [IdleDesk EXCEPT !.pc = next, !.rec = rec, !.by = by, !.patch = diff,
                                        !.guarded = edit.guarded, !.seen = stamp[rec]])
    /\ UNCHANGED <<vars, content, stamp, owner, erased, items, rows, trail>>

\* Mutant of Unmoved: the precondition on "updated" is forgotten.
NeverMoved(s) == TRUE
\* AND updated = ?, when the client sent the value it saw
Unmoved(s) == desk[s].guarded => stamp[desk[s].rec] = desk[s].seen

DirectUpdate(s) ==
    LET d == desk[s] IN
    /\ AtDesk(s, "update")
    /\ IF status[d.rec] = "pending" /\ owner[d.rec] = d.by /\ Unmoved(s)
         THEN /\ content' = [content EXCEPT ![d.rec] = Patched(@, d.patch)]
              /\ Touched(d.rec) /\ DeskGoto(s, "log")
         ELSE EndDesk(s) /\ UNCHANGED <<content, stamp>>
    /\ UNCHANGED <<vars, owner, erased, items, rows, trail, dstarted>>

LogDirectEdit(s) ==
    /\ AtDesk(s, "log")
    /\ events' = Append(events, [rec |-> desk[s].rec, from |-> "pending", to |-> "pending",
                   action |-> "edit_applied", who |-> NoReviewer, recused |-> FALSE, appeal |-> 0])
    /\ EndDesk(s)
    /\ UNCHANGED <<status, queue, req, started, content, stamp, owner, erased, items, rows, trail, dstarted>>

\* Mutant of EditAdmitted: the table has no partial unique index.
NoEditIndex(rec) == TRUE
\* camera_edit_requests_open_unique
EditAdmitted(rec) == OpenEdits(rec) = {}

InsertEdit(s) ==
    LET d == desk[s] IN
    /\ AtDesk(s, "request")
    /\ IF EditAdmitted(d.rec) /\ Known(d.by)
         THEN /\ items' = Append(items, NewItem("camera_edit", d.rec, d.by, Proposal(d.patch)))
              /\ desk' = [desk EXCEPT ![s].pc = "enqueue", ![s].item = Len(items) + 1]
         ELSE EndDesk(s) /\ UNCHANGED items
    /\ UNCHANGED <<vars, content, stamp, owner, erased, rows, trail, dstarted>>

OpenItemRows(i) == {q \in DOMAIN rows : rows[q].item = i /\ rows[q].state # "closed"}

\* A second call; it throws when a reviewer has opened a row for the item meanwhile.
EnqueueEdit(s) ==
    /\ AtDesk(s, "enqueue")
    /\ rows' = IF OpenItemRows(desk[s].item) = {}
                 THEN Append(rows, [item |-> desk[s].item, state |-> "queued", two |-> FALSE])
                 ELSE rows
    /\ EndDesk(s)
    /\ UNCHANGED <<vars, content, stamp, owner, erased, items, trail, dstarted>>
-----------------------------------------------------------------------------
(* moderateCorrection and moderateCameraEdit.                              *)

ItemAllows(w, entity, action) ==
    IF action = "associate" THEN Role[w] \in {"record_reviewer", "senior_moderator"}
    ELSE RoleAllows(w, action) /\ (entity = "camera_edit" => action # "escalate")

\* The role is checked and the request read.
BeginReview(s, i, w, p) ==
    /\ ItemAllows(w, items[i].entity, p.action)
    /\ items[i].entity = "camera_edit" =>
         p.action # "associate" /\ p.outcome = "none" /\ p.link = NoRecord
    /\ Started(s, [IdleDesk EXCEPT !.pc = "find", !.item = i, !.who = w, !.action = p.action,
                     !.outcome = p.outcome, !.recused = p.recused, !.asked = p.asked,
                     !.from = items[i].status, !.link = p.link,
                     !.rec = IF p.link = NoRecord THEN items[i].rec ELSE p.link])
    /\ UNCHANGED <<vars, content, stamp, owner, erased, items, rows, trail>>

IsEdit(s) == items[desk[s].item].entity = "camera_edit"
\* The camera is read when an edit is applied or an outcome needs one.
Verdict(s) == IF desk[s].action = "approve"
                   /\ (IsEdit(s) \/ (desk[s].outcome # "none" /\ desk[s].rec # NoRecord))
                THEN "target" ELSE "decide"

\* Mutant of ItemNeedsSecond: the flag of the row is ignored.
OneIsEnough(s, row) == FALSE
ItemNeedsSecond(s, row) == NeedsSecondReview(desk[s].action, row.two)

\* The synchronous code after the queue row is known.
NextDeskPC(s, row) ==
    LET d == desk[s] IN
    IF row.state = "escalated" /\ d.action # "escalate" /\ d.who \notin Resolvers THEN "idle"
    ELSE IF d.recused THEN "recuse"
    ELSE IF d.action = "escalate" THEN "escalate"
    ELSE IF IsEdit(s) /\ d.from # "pending" THEN "idle"
    ELSE IF ~ItemNeedsSecond(s, row) THEN Verdict(s)
    ELSE IF IntentRecorded(row.state) THEN "lookup" ELSE "intent"
DeskProceeds(s, q, row) ==
    IF NextDeskPC(s, row) = "idle" THEN EndDesk(s)
    ELSE desk' = [desk EXCEPT ![s].pc = NextDeskPC(s, row), ![s].row = q, ![s].two = row.two]

FindItemRow(s) ==
    /\ AtDesk(s, "find")
    /\ \/ \E q \in OpenItemRows(desk[s].item) : DeskProceeds(s, q, rows[q])
       \/ OpenItemRows(desk[s].item) = {} /\ DeskGoto(s, "open")
    /\ UNCHANGED <<vars, content, stamp, owner, erased, items, rows, trail, dstarted>>

OpenItemRow(s) ==
    LET row == [item |-> desk[s].item, state |-> "queued", two |-> desk[s].asked] IN
    /\ AtDesk(s, "open")
    /\ IF OpenItemRows(desk[s].item) = {}
         THEN rows' = Append(rows, row) /\ DeskProceeds(s, Len(rows) + 1, row)
         ELSE EndDesk(s) /\ UNCHANGED rows
    /\ UNCHANGED <<vars, content, stamp, owner, erased, items, trail, dstarted>>

Noted(s, to, recused) == [item |-> desk[s].item, from |-> desk[s].from, to |-> to,
                          action |-> desk[s].action, who |-> desk[s].who, recused |-> recused]
RowAfter(q, state) ==
    IF rows[q].state = "closed" THEN rows ELSE [rows EXCEPT ![q].state = state]

\* A recusal, an escalation or the first of two reviewers: an event, and the row
\* in its new state.
Note(s) ==
    LET r == desk[s].row IN
    /\ desk[s].pc \in {"recuse", "escalate", "intent"}
    /\ rows' = CASE AtDesk(s, "escalate") -> RowAfter(r, "escalated")
                 [] AtDesk(s, "intent") -> RowAfter(r, "second_review")
                 [] OTHER -> rows
    /\ trail' = Append(trail, Noted(s, desk[s].from, AtDesk(s, "recuse")))
    /\ EndDesk(s)
    /\ UNCHANGED <<vars, content, stamp, owner, erased, items, dstarted>>

SameItemAction(s) == {n \in DOMAIN trail : trail[n].item = desk[s].item
                                           /\ trail[n].action = desk[s].action}
LookUpFirst(s) ==
    /\ AtDesk(s, "lookup")
    /\ IF \E n \in SameItemAction(s) : /\ \A m \in SameItemAction(s) : m <= n
                                       /\ trail[n].who = desk[s].who
         THEN EndDesk(s) ELSE DeskGoto(s, Verdict(s))
    /\ UNCHANGED <<vars, content, stamp, owner, erased, items, rows, trail, dstarted>>

ReadTarget(s) ==
    LET camera == status[desk[s].rec] IN
    /\ AtDesk(s, "target")
    /\ IF IsEdit(s) /\ camera \notin PublishedEditable THEN EndDesk(s)
       ELSE desk' = [desk EXCEPT ![s].pc = "decide", ![s].camera = camera]
    /\ UNCHANGED <<vars, content, stamp, owner, erased, items, rows, trail, dstarted>>

\* What the request's row becomes if it is still pending; associate decides nothing.
Resolved(s) ==
    LET d == desk[s] IN
    CASE d.action = "associate" -> "pending"
      [] d.action = "reject" -> "rejected"
      [] OTHER -> IF IsEdit(s) THEN "approved" ELSE "reviewed"
\* Mutant of StillPending: the UPDATE carries no status guard.
AnyItem(s) == TRUE
StillPending(s) == items[desk[s].item].status = "pending"
ItemsAfter(s) ==
    LET d == desk[s] IN
    IF ~StillPending(s) THEN items
    ELSE [items EXCEPT ![d.item].status = Resolved(s),
            ![d.item].rec = IF d.link = NoRecord THEN @ ELSE d.link,
            ![d.item].outcome = IF d.action = "approve" THEN d.outcome ELSE @]
ItemEventLands(s) == items'[desk[s].item].status = Resolved(s)
Verdicted(s) ==
    [Noted(s, Resolved(s), FALSE) EXCEPT !.action =
        IF ~IsEdit(s) THEN @ ELSE IF @ = "approve" THEN "edit_applied" ELSE "edit_rejected"]

CameraEvent(rec, from, to, action) ==
    [rec |-> rec, from |-> from, to |-> to, action |-> action, who |-> NoReviewer,
     recused |-> FALSE, appeal |-> 0]

\* Mutant of CameraAfter: the update of "marked-stale" forgets its own guard.
StaleAnyway(s) ==
    LET d == desk[s] IN
    CASE d.outcome = "removed" -> [status EXCEPT ![d.rec] = "removed"]
      [] d.outcome = "marked-stale" -> [status EXCEPT ![d.rec] = "needs_review"]
      [] OTHER -> status
\* buildCorrectionOutcomeStatements: what the batch does to the camera.  Only
\* "marked-stale" looks at the status the camera has by then.
CameraAfter(s) ==
    LET d == desk[s] IN
    CASE d.outcome = "removed" -> [status EXCEPT ![d.rec] = "removed"]
      [] d.outcome = "marked-stale" /\ status[d.rec] = "active" ->
           [status EXCEPT ![d.rec] = "needs_review"]
      [] OTHER -> status
\* The status the event of the outcome names; none when nothing was to be done.
OutcomeNames(s) ==
    LET d == desk[s] IN
    CASE d.outcome = "removed" -> {"removed"}
      [] d.outcome = "marked-stale" -> IF d.camera = "active" THEN {"needs_review"} ELSE {}
      [] d.outcome = "corrected" -> {d.camera}
      [] OTHER -> {}
\* Mutant of OutcomeEventLands: the event is not guarded by the camera's status.
OutcomeEventAlways(s) == TRUE
OutcomeEventLands(s) == status'[desk[s].rec] \in OutcomeNames(s)
HasOutcome(s) == desk[s].rec # NoRecord /\ OutcomeNames(s) # {}

\* An associated report may collide with another open one of its author.
LinkAdmitted(s) ==
    desk[s].action = "associate" /\ StillPending(s) =>
      OpenReports(desk[s].rec, items[desk[s].item].by) \subseteq {desk[s].item}

\* One batch: the request, its event, then the outcome on the camera, whether or
\* not the request was still pending, then the row.
DecideCorrection(s) ==
    LET d == desk[s] IN
    /\ AtDesk(s, "decide") /\ ~IsEdit(s)
    /\ IF LinkAdmitted(s)
         THEN /\ items' = ItemsAfter(s)
              /\ trail' = IF ItemEventLands(s) THEN Append(trail, Verdicted(s)) ELSE trail
              /\ rows' = RowAfter(d.row, "closed")
              /\ IF HasOutcome(s)
                   THEN /\ status' = CameraAfter(s)
                        /\ IF d.outcome # "marked-stale" \/ status' # status THEN Touched(d.rec) ELSE UNCHANGED stamp
                        /\ \E to \in OutcomeNames(s) :
                             events' = IF OutcomeEventLands(s)
                               THEN Append(events, CameraEvent(d.rec, d.camera, to, d.outcome))
                               ELSE events
                   ELSE UNCHANGED <<status, events, stamp>>
         ELSE UNCHANGED <<items, trail, rows, status, events, stamp>>
    /\ EndDesk(s)
    /\ UNCHANGED <<queue, req, started, content, owner, erased, dstarted>>

Applied(row, patch) ==
    LET new == Patched(row, patch) IN
    IF new.kind = Dome THEN [new EXCEPT !.bearing = Null] ELSE new

\* One batch: the camera first, and unconditionally, then the request, its event, the row.
DecideEdit(s) ==
    LET d == desk[s]  applies == d.action = "approve" IN
    /\ AtDesk(s, "decide") /\ IsEdit(s)
    /\ IF applies
         THEN /\ content' = [content EXCEPT ![d.rec] = Applied(@, items[d.item].patch)]
              /\ Touched(d.rec)
         ELSE UNCHANGED <<content, stamp>>
    /\ items' = ItemsAfter(s)
    /\ trail' = IF ItemEventLands(s) THEN Append(trail, Verdicted(s)) ELSE trail
    /\ rows' = RowAfter(d.row, "closed")
    /\ EndDesk(s)
    /\ UNCHANGED <<vars, owner, erased, dstarted>>
-----------------------------------------------------------------------------
(* Erasure, failures, the specification.                                   *)

Disowned(c) == [i \in DOMAIN items |->
                  IF items[i].by = c THEN [items[i] EXCEPT !.by = Anonymous] ELSE items[i]]

\* The unique index of anonymous reports makes the batch throw when the account
\* and somebody anonymous have an open report on the same record.
ErasureAdmitted(c) == \A rec \in Records :
    OpenReports(rec, c) # {} => OpenReports(rec, Anonymous) = {}

\* eraseContributor, as far as these tables go.
Erase(c) ==
    /\ c \notin erased /\ dstarted < MaxDeskRequests
    /\ IF ErasureAdmitted(c)
         THEN /\ items' = Disowned(c)
              /\ owner' = [rec \in Records |-> IF owner[rec] = c THEN Anonymous ELSE owner[rec]]
              /\ erased' = erased \cup {c}
         ELSE UNCHANGED <<items, owner, erased>>
    /\ dstarted' = dstarted + 1
    /\ UNCHANGED <<vars, content, stamp, rows, trail, desk>>

FailDesk(s) ==
    /\ CallsCanFail /\ ~AtDesk(s, "idle")
    /\ EndDesk(s)
    /\ UNCHANGED <<vars, content, stamp, owner, erased, items, rows, trail, dstarted>>

DeskStep(s) ==
    \/ CheckPriorRemoval(s) \/ InsertReport(s)
    \/ DirectUpdate(s) \/ LogDirectEdit(s) \/ InsertEdit(s) \/ EnqueueEdit(s)
    \/ FindItemRow(s) \/ OpenItemRow(s) \/ Note(s) \/ LookUpFirst(s) \/ ReadTarget(s)
    \/ DecideCorrection(s) \/ DecideEdit(s)

\* A decision on the camera itself also writes its "updated".  Recusals and
\* two-person reviews of records are left to ReviewQueue.
Moderate ==
    /\ \E s \in Requests :
         \/ \E w \in Reviewers, rec \in Records, action \in Offered :
              Begin(s, w, rec, action, FALSE, FALSE)
         \/ Step(s)
         \/ FailRequest(s)
    /\ stamp' = [rec \in Records |-> IF status'[rec] # status[rec] THEN stamp[rec] + 1 ELSE stamp[rec]]
    /\ UNCHANGED <<content, owner, erased, items, rows, trail, desk, dstarted>>

DeskNext ==
    \/ Moderate
    \/ \E c \in Contributors \ erased : Erase(c)
    \/ \E s \in Desks :
         \/ \E c \in Contributors \ erased :
              \/ \E rec \in Targets : BeginReport(s, rec, c)
              \/ \E rec \in Records, edit \in Edits : BeginEdit(s, rec, c, edit)
         \/ \E i \in DOMAIN items, w \in Reviewers, p \in Payloads : BeginReview(s, i, w, p)
         \/ DeskStep(s)
         \/ FailDesk(s)

DeskSpec == DeskInit /\ [][DeskNext]_deskVars
-----------------------------------------------------------------------------
(* What holds under every interleaving.                                    *)

\* A request that was resolved stays as it was resolved, whoever else was deciding
\* it; only erasure may still take the author's name off it.
ItemVerdictsAreFinal == [][\A i \in DOMAIN items :
    items[i].status # "pending" =>
      items'[i] = [items[i] EXCEPT !.by = items'[i].by]]_deskVars

\* The private trail never disagrees with a request: a pending one has no deciding
\* event, and the last deciding event of another names its status.
Deciding(i) == {n \in DOMAIN trail : trail[n].item = i /\ trail[n].from # trail[n].to}
ItemTrailAgrees == \A i \in DOMAIN items :
    /\ items[i].status = "pending" => Deciding(i) = {}
    /\ \A n \in Deciding(i) : (\A m \in Deciding(i) : m <= n) => trail[n].to = items[i].status

\* One open report of an author on a record and one open edit of a record, also when
\* reviewers move reports to other records and accounts are erased.
OneOpenRequest == \A i, j \in DOMAIN items :
    /\ items[i].status = "pending" /\ items[j].status = "pending" /\ items[i].rec # NoRecord
    /\ items[i].rec = items[j].rec /\ items[i].entity = items[j].entity
    /\ items[i].entity = "correction" => items[i].by = items[j].by
    => i = j

\* ADR 0018 4: an edit that a reviewer accepts is on the record in the same step,
\* except for a bearing that a dome cannot have.
ApprovedIsApplied == [][\A i \in DOMAIN items :
    items[i].status = "pending" /\ items'[i].status = "approved" =>
      LET new == content'[items[i].rec] IN
      \A c \in DOMAIN items[i].patch :
        new[c] = items[i].patch[c] \/ (c = "bearing" /\ new.kind = Dome)]_deskVars

\* A dome never stores a bearing, whichever of two edits by one author and one
\* accepted by a reviewer comes last, if the author's client sends the stamp it saw.
DomeHasNoBearing == \A rec \in Records :
    content[rec].kind = Dome => content[rec].bearing = Null

\* Nobody is about to resolve a two-person request before an intent is on file.
ItemIntents(i) == {n \in DOMAIN trail : /\ trail[n].item = i /\ trail[n].from = trail[n].to
                                        /\ ~trail[n].recused
                                        /\ trail[n].action \in SecondReviewActions}
NoHastyItemDecision == \A s \in Desks :
    /\ desk[s].pc \in {"lookup", "target", "decide"}
    /\ NeedsSecondReview(desk[s].action, desk[s].two)
    => ItemIntents(desk[s].item) # {}

\* After an erasure nothing names the account, not even what requests that were
\* admitted before the erasure write after it.
ErasedIsUnlinked ==
    /\ \A i \in DOMAIN items : items[i].by \notin erased
    /\ \A rec \in Records : owner[rec] \notin erased
-----------------------------------------------------------------------------
(* What the documentation says and some sequence of requests refutes.      *)

\* "reject discards the diff": a published record changes only with an edit of it
\* that ends up accepted.
RejectedIsDiscarded == [][\A rec \in Records :
    content'[rec] # content[rec] /\ status[rec] # "pending" =>
      \E i \in DOMAIN items : /\ items[i].entity = "camera_edit" /\ items[i].rec = rec
                              /\ items'[i].status = "approved"]_deskVars

\* "the only way to remove a contributor who owns reports": erasing an account erases it.
ErasureSucceeds == [][\A c \in Contributors \ erased : Erase(c) => c \in erased']_deskVars
=============================================================================
