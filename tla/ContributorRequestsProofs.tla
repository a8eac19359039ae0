---------------------- MODULE ContributorRequestsProofs ----------------------
(***************************************************************************)
(* Proofs about ContributorRequests next to the review queue, for any        *)
(* records, contributors, reviewers, edits, payloads and requests in flight, *)
(* and with calls that fail.                                                *)
(*                                                                         *)
(* A request keeps locals that were read from rows other requests may write. *)
(* Knows says what stays true of them, World what no step does to the rows;   *)
(* each action is then described by what it does to the rows and to its slot. *)
(***************************************************************************)
EXTENDS ContributorRequests, ReviewQueueProofs

-----------------------------------------------------------------------------
(* Patches.                                                                *)

LEMMA PatchType ==
    ASSUME NEW S \in SUBSET Columns, NEW f \in [S -> Values]
    PROVE  f \in AnyPatch
BY DEF AnyPatch

LEMMA PatchParts ==
    ASSUME NEW f \in AnyPatch
    PROVE  /\ DOMAIN f \subseteq Columns
           /\ f = [c \in DOMAIN f |-> f[c]]
           /\ \A c \in DOMAIN f : f[c] \in Values
<1>1. PICK S \in SUBSET Columns : f \in [S -> Values]
  BY DEF AnyPatch
<1> QED
  BY <1>1

LEMMA EmptyPatch == <<>> \in AnyPatch
<1>1. <<>> = [c \in {} |-> c]
  OBVIOUS
<1>2. [c \in {} |-> c] \in [{} -> Values]
  OBVIOUS
<1> QED
  BY <1>1, <1>2, PatchType

LEMMA RestrictType ==
    ASSUME NEW f \in AnyPatch, NEW S \in SUBSET DOMAIN f
    PROVE  /\ Restrict(f, S) \in AnyPatch
           /\ DOMAIN Restrict(f, S) = S
           /\ \A c \in S : Restrict(f, S)[c] = f[c]
<1>1. S \in SUBSET Columns /\ Restrict(f, S) \in [S -> Values]
  BY PatchParts DEF Restrict
<1> QED
  BY <1>1, PatchType DEF Restrict

LEMMA ProposalType ==
    ASSUME NEW f \in AnyPatch
    PROVE  Proposal(f) \in AnyPatch
BY RestrictType DEF Proposal

\* The diff of a patch is a patch, and a record it is applied to as it was read is no dome
\* with a bearing, if it was none before.
LEMMA DiffType ==
    ASSUME NEW row \in [Columns -> Values], NEW patch \in AnyPatch
    PROVE  /\ Diff(row, patch) \in AnyPatch
           /\ (row.kind = Dome => row.bearing = Null) =>
                LET new == Patched(row, Diff(row, patch)) IN new.kind = Dome => new.bearing = Null
<1> DEFINE changed == Restrict(patch, {c \in DOMAIN patch : patch[c] # row[c]})
           kind == IF "kind" \in DOMAIN patch THEN patch.kind ELSE row.kind
           others == Restrict(changed, DOMAIN changed \ {"bearing"})
           bare == [c \in DOMAIN others \cup {"bearing"} |->
                      IF c = "bearing" THEN Null ELSE others[c]]
           new == Patched(row, Diff(row, patch))
<1>1. /\ changed \in AnyPatch /\ DOMAIN changed \subseteq Columns
      /\ DOMAIN changed = {c \in DOMAIN patch : patch[c] # row[c]}
      /\ \A c \in DOMAIN changed : changed[c] = patch[c]
  BY RestrictType, PatchParts
<1> HIDE DEF changed
<1>2. /\ others \in AnyPatch /\ DOMAIN others = DOMAIN changed \ {"bearing"}
      /\ \A c \in DOMAIN others : others[c] = changed[c] /\ others[c] \in Values
  BY <1>1, RestrictType, PatchParts
<1> HIDE DEF others
<1>3. bare \in AnyPatch
  <2>1. DOMAIN others \cup {"bearing"} \in SUBSET Columns
    BY <1>1, <1>2 DEF Columns
  <2>2. bare \in [DOMAIN others \cup {"bearing"} -> Values]
    BY <1>2 DEF Values
  <2> QED
    BY <2>1, <2>2, PatchType
<1>4. DOMAIN bare = DOMAIN others \cup {"bearing"} /\ bare["bearing"] = Null
      /\ \A c \in DOMAIN others : bare[c] = others[c]
  BY <1>2
<1> HIDE DEF bare
<1>5. Diff(row, patch) = IF kind # Dome THEN changed
                         ELSE IF row.bearing # Null THEN bare ELSE others
  BY DEF Diff, changed, others, bare
<1>6. \A d : Patched(row, d).kind = IF "kind" \in DOMAIN d THEN d["kind"] ELSE row.kind
  BY DEF Patched, Columns
<1>7. \A d : Patched(row, d).bearing = IF "bearing" \in DOMAIN d THEN d["bearing"] ELSE row.bearing
  BY DEF Patched, Columns
<1>8. "kind" \in DOMAIN others <=> "kind" \in DOMAIN changed
  BY <1>2
<1>9. "kind" \in DOMAIN changed => changed["kind"] = kind
  BY <1>1
<1>10. "kind" \notin DOMAIN changed => row.kind = kind
  BY <1>1
<1>11. CASE kind # Dome
  <2>1. new.kind = kind
    BY <1>5, <1>6, <1>9, <1>10, <1>11
  <2> QED
    BY <1>1, <1>5, <1>11, <2>1
<1>12. CASE kind = Dome /\ row.bearing # Null
  <2>1. new.bearing = Null
    BY <1>4, <1>5, <1>7, <1>12
  <2> QED
    BY <1>3, <1>5, <1>12, <2>1
<1>13. CASE kind = Dome /\ row.bearing = Null
  <2>1. "bearing" \notin DOMAIN others
    BY <1>2
  <2>2. new.bearing = Null
    BY <1>5, <1>7, <1>13, <2>1
  <2> QED
    BY <1>2, <1>5, <1>13, <2>2
<1> QED
  BY <1>11, <1>12, <1>13

LEMMA PatchedType ==
    ASSUME NEW row \in [Columns -> Values], NEW patch \in AnyPatch
    PROVE  /\ Patched(row, patch) \in [Columns -> Values]
           /\ \A c \in DOMAIN patch : Patched(row, patch)[c] = patch[c]
BY PatchParts DEF Patched

\* What an accepted edit does to a record: its columns, save the bearing of a dome.
LEMMA AppliedType ==
    ASSUME NEW row \in [Columns -> Values], NEW patch \in AnyPatch
    PROVE  /\ Applied(row, patch) \in [Columns -> Values]
           /\ Applied(row, patch).kind = Dome => Applied(row, patch).bearing = Null
           /\ \A c \in DOMAIN patch :
                \/ Applied(row, patch)[c] = patch[c]
                \/ c = "bearing" /\ Applied(row, patch).kind = Dome
<1> DEFINE new == Patched(row, patch)
<1>1. new \in [Columns -> Values] /\ \A c \in DOMAIN patch : c \in Columns /\ new[c] = patch[c]
  BY PatchedType, PatchParts
<1> HIDE DEF new
<1>2. Applied(row, patch) = IF new.kind = Dome THEN [new EXCEPT !.bearing = Null] ELSE new
  BY DEF Applied, new
<1>3. Null \in Values /\ "bearing" \in Columns /\ "kind" \in Columns /\ "kind" # "bearing"
  BY DEF Values, Columns
<1> QED
  BY <1>1, <1>2, <1>3
-----------------------------------------------------------------------------
(* What a request knows, and what no step does to the rows.                *)

ContributorPCs == {"prior", "insert", "update", "log", "request", "enqueue"}
RowPCs == {"recuse", "escalate", "intent", "lookup", "target", "decide"}
ReviewPCs == {"find", "open"} \cup RowPCs

\* The columns that correction and edit requests do not share.
ItemsOK(its) == \A i \in DOMAIN its :
    IF its[i].entity = "camera_edit" THEN its[i].rec \in Records /\ its[i].status # "reviewed"
    ELSE its[i].status # "approved"

\* The request of a contributor names records and rows that exist.
Contributes(d, its) ==
    /\ d.pc \in ContributorPCs => d.by \in Contributors
    /\ d.pc \in {"prior", "update", "log", "request", "enqueue"} => d.rec \in Records
    /\ d.pc = "enqueue" => d.item \in DOMAIN its

\* So does that of a reviewer; an edit is decided on its own record, and a request that
\* was resolved when it was read is still resolved that way.
Reviews(d, its) ==
    /\ d.item \in DOMAIN its /\ d.who \in Reviewers
    /\ d.outcome # "none" => d.action = "approve"
    /\ d.link \in {NoRecord, d.rec} /\ (d.action = "associate" => d.link # NoRecord)
    /\ its[d.item].entity = "camera_edit" =>
         /\ d.rec = its[d.item].rec /\ d.link = NoRecord /\ d.outcome = "none"
         /\ d.action \in {"approve", "reject"}
    /\ d.from # "pending" => its[d.item].status = d.from
    /\ d.pc # "decide" => d.camera = "pending"

\* With a queue row in hand; a takedown that was seen is still one.
Holds(d, its, rws, st) ==
    /\ d.row \in DOMAIN rws /\ rws[d.row].item = d.item
    /\ d.pc = "intent" => d.action \in SecondReviewActions
    /\ d.pc \in {"lookup", "target", "decide"} => d.action # "escalate"
    /\ d.pc = "target" => d.rec \in Records
    /\ d.pc = "decide" /\ d.camera = "removed" => d.rec \in Records /\ st[d.rec] = "removed"

Knows(d, its, rws, st) ==
    /\ d \in Desk
    /\ Contributes(d, its)
    /\ d.pc \in ReviewPCs => Reviews(d, its)
    /\ d.pc \in RowPCs => Holds(d, its, rws, st)

Tables ==
    /\ TypeOK
    /\ content \in [Records -> [Columns -> Values]] /\ stamp \in [Records -> Nat]
    /\ owner \in [Records -> Authors] /\ erased \subseteq Contributors
    /\ items \in Seq(Item) /\ ItemsOK(items)
    /\ rows \in Seq(ItemRow) /\ trail \in Seq(ItemEvent)
    /\ dstarted \in Nat
Slots == desk \in [Desks -> Desk] /\ \A s \in Desks : Knows(desk[s], items, rows, status)
DeskInv == Tables /\ Slots

\* Rows keep their ids, what they are about, and a verdict once there is one.
ItemsKept ==
    /\ DOMAIN items \subseteq DOMAIN items'
    /\ \A i \in DOMAIN items :
         /\ items'[i].entity = items[i].entity
         /\ items[i].entity = "camera_edit" => items'[i].rec = items[i].rec
         /\ items[i].status # "pending" =>
              items'[i] = [items[i] EXCEPT !.by = items'[i].by]
RowsKept ==
    /\ DOMAIN rows \subseteq DOMAIN rows'
    /\ \A q \in DOMAIN rows : rows'[q].item = rows[q].item
RemovedStays == \A rec \in Records : status[rec] = "removed" => status'[rec] = "removed"
World == ItemsKept /\ RowsKept /\ RemovedStays

LEMMA InvByParts == DeskInv => DeskTypeOK
<1> SUFFICES ASSUME DeskInv
             PROVE  \A i \in DOMAIN items : items[i].status \in ItemStatuses \
                      {IF items[i].entity = "camera_edit" THEN "reviewed" ELSE "approved"}
  BY DEF DeskInv, Tables, Slots, DeskTypeOK
<1>1. \A i \in DOMAIN items : items[i] \in Item
  BY ElementOfSeq, DOMAIN items = 1..Len(items) DEF DeskInv, Tables
<1> QED
  BY <1>1 DEF DeskInv, Tables, ItemsOK, Item

LEMMA ItemFacts ==
    ASSUME Tables
    PROVE  /\ DOMAIN items \subseteq Nat
           /\ \A i \in DOMAIN items :
                /\ items[i] \in Item /\ items[i].entity \in Entities
                /\ items[i].rec \in Targets /\ items[i].by \in Authors
                /\ items[i].status \in ItemStatuses /\ items[i].patch \in AnyPatch
                /\ items[i].entity = "camera_edit" => items[i].rec \in Records
<1>1. \A i \in DOMAIN items : items[i] \in Item
  BY ElementOfSeq, DOMAIN items = 1..Len(items) DEF Tables
<1>2. DOMAIN items = 1..Len(items) /\ Len(items) \in Nat
  BY LenProperties DEF Tables
<1> QED
  BY <1>1, <1>2 DEF Tables, ItemsOK, Item

LEMMA RowFacts ==
    ASSUME Tables
    PROVE  /\ DOMAIN rows \subseteq Nat
           /\ \A q \in DOMAIN rows : rows[q] \in ItemRow /\ rows[q].two \in BOOLEAN
<1>1. \A q \in DOMAIN rows : rows[q] \in ItemRow
  BY ElementOfSeq, DOMAIN rows = 1..Len(rows) DEF Tables
<1>2. DOMAIN rows = 1..Len(rows) /\ Len(rows) \in Nat
  BY LenProperties DEF Tables
<1> QED
  BY <1>1, <1>2 DEF ItemRow

LEMMA IdleDeskKnows ==
    ASSUME NEW its, NEW rws, NEW st
    PROVE  Knows(IdleDesk, its, rws, st) /\ IdleDesk.pc = "idle"
<1>1. IdleDesk \in Desk
  BY EmptyPatch DEF IdleDesk, Desk, DeskPCs, Targets, Authors, ItemActions, Outcomes,
                    ItemStatuses, Statuses
<1>2. IdleDesk.pc = "idle"
  BY DEF IdleDesk
<1> QED
  BY <1>1, <1>2 DEF Knows, Contributes, ContributorPCs, ReviewPCs, RowPCs

\* Nothing a step does to the rows makes a request's knowledge untrue.
LEMMA KnowsStays ==
    ASSUME Tables, World, NEW d, Knows(d, items, rows, status)
    PROVE  Knows(d, items', rows', status')
<1>1. Contributes(d, items')
  BY DEF Knows, Contributes, World, ItemsKept
<1>2. ASSUME d.pc \in ReviewPCs
      PROVE  Reviews(d, items')
  <2>1. Reviews(d, items) /\ d.item \in DOMAIN items /\ d.item \in DOMAIN items'
    BY <1>2 DEF Knows, Reviews, World, ItemsKept
  <2>2. /\ items'[d.item].entity = items[d.item].entity
        /\ items[d.item].entity = "camera_edit" => items'[d.item].rec = items[d.item].rec
        /\ items[d.item].status # "pending" => items'[d.item].status = items[d.item].status
    BY <2>1, ItemFacts DEF World, ItemsKept, Item
  <2> QED
    BY <2>1, <2>2 DEF Reviews
<1>3. ASSUME d.pc \in RowPCs
      PROVE  Holds(d, items', rows', status')
  BY <1>3 DEF Knows, Holds, World, RowsKept, RemovedStays
<1> QED
  BY <1>1, <1>2, <1>3 DEF Knows

\* A step that changes one slot preserves what all of them know.
LEMMA SlotsStay ==
    ASSUME DeskInv, World, NEW s \in Desks, NEW d, Knows(d, items', rows', status'),
           desk' = [desk EXCEPT ![s] = d]
    PROVE  Slots'
<1>1. d \in Desk
  BY DEF Knows
<1>2. desk' \in [Desks -> Desk]
  BY <1>1 DEF DeskInv, Slots
<1>3. \A t \in Desks : Knows(desk'[t], items', rows', status')
  BY KnowsStays DEF DeskInv, Slots
<1> QED
  BY <1>2, <1>3 DEF Slots

LEMMA EndStays ==
    ASSUME DeskInv, World, NEW s \in Desks, EndDesk(s)
    PROVE  Slots'
BY SlotsStay, IdleDeskKnows DEF EndDesk

\* A slot that only moves on keeps its locals.
LEMMA GotoStays ==
    ASSUME DeskInv, World, NEW s \in Desks, NEW pc \in DeskPCs, DeskGoto(s, pc),
           Knows([desk[s] EXCEPT !.pc = pc], items, rows, status)
    PROVE  Slots'
<1> DEFINE d == [desk[s] EXCEPT !.pc = pc]
<1>1. desk' = [desk EXCEPT ![s] = d]
  BY DEF DeskGoto, DeskInv, Slots
<1>2. Knows(d, items', rows', status')
  BY KnowsStays DEF DeskInv
<1> HIDE DEF d
<1> QED
  BY <1>1, <1>2, SlotsStay
-----------------------------------------------------------------------------
(* What the single operators do to the tables.                             *)

LEMMA TypeStays ==
    ASSUME TypeOK, status' \in [Records -> Statuses], events' \in Seq(Event),
           UNCHANGED <<queue, req, started>>
    PROVE  TypeOK'
BY DEF TypeOK

LEMMA SameItems ==
    ASSUME Tables, items' = items
    PROVE  items' \in Seq(Item) /\ ItemsOK(items') /\ ItemsKept
<1>1. \A i \in DOMAIN items : items[i] = [items[i] EXCEPT !.by = items[i].by]
  BY ItemFacts DEF Item
<1> QED
  BY <1>1 DEF Tables, ItemsKept

LEMMA SameRows ==
    ASSUME Tables, rows' = rows
    PROVE  rows' \in Seq(ItemRow) /\ RowsKept
BY DEF Tables, RowsKept

\* A new request is pending and leaves the others alone.
LEMMA ItemAppended ==
    ASSUME Tables, NEW entity \in Entities, NEW rec \in Targets, NEW by \in Authors,
           NEW patch \in AnyPatch, entity = "camera_edit" => rec \in Records,
           items' = Append(items, NewItem(entity, rec, by, patch))
    PROVE  /\ items' \in Seq(Item) /\ ItemsOK(items') /\ ItemsKept
           /\ DOMAIN items' = DOMAIN items \cup {Len(items) + 1}
           /\ Len(items) + 1 \notin DOMAIN items /\ Len(items) + 1 \in Nat
           /\ \A i \in DOMAIN items : items'[i] = items[i]
           /\ items'[Len(items) + 1] = NewItem(entity, rec, by, patch)
<1> DEFINE new == NewItem(entity, rec, by, patch)
<1>1. new \in Item /\ new.entity = entity /\ new.rec = rec /\ new.status = "pending"
  BY DEF NewItem, Item, ItemStatuses, Outcomes
<1> HIDE DEF new
<1>2. /\ items' \in Seq(Item) /\ DOMAIN items' = DOMAIN items \cup {Len(items) + 1}
      /\ Len(items) + 1 \notin DOMAIN items
      /\ \A i \in DOMAIN items : items'[i] = items[i]
      /\ items'[Len(items) + 1] = new
  BY <1>1, AppendKeeps DEF Tables, new
<1>3. Len(items) + 1 \in Nat
  BY LenProperties DEF Tables
<1>4. ItemsOK(items')
  BY <1>1, <1>2 DEF Tables, ItemsOK
<1>5. \A i \in DOMAIN items : items[i] = [items[i] EXCEPT !.by = items[i].by]
  BY ItemFacts DEF Item
<1>6. ItemsKept
  BY <1>2, <1>5 DEF ItemsKept
<1> QED
  BY <1>2, <1>3, <1>4, <1>6 DEF new

LEMMA RowAppended ==
    ASSUME Tables, NEW row \in ItemRow, rows' = Append(rows, row)
    PROVE  /\ rows' \in Seq(ItemRow) /\ RowsKept
           /\ DOMAIN rows' = DOMAIN rows \cup {Len(rows) + 1} /\ Len(rows) + 1 \in Nat
           /\ \A q \in DOMAIN rows : rows'[q] = rows[q]
           /\ rows'[Len(rows) + 1] = row
BY AppendKeeps, LenProperties DEF Tables, RowsKept

\* Setting the state of a row keeps its item and its flag.
LEMMA RowAfterType ==
    ASSUME Tables, NEW q \in DOMAIN rows, NEW state \in QueueStates, rows' = RowAfter(q, state)
    PROVE  /\ rows' \in Seq(ItemRow) /\ RowsKept
           /\ DOMAIN rows' = DOMAIN rows
           /\ \A p \in DOMAIN rows :
                /\ rows'[p].item = rows[p].item
                /\ rows'[p].state =
                     IF p = q /\ rows[q].state # "closed" THEN state ELSE rows[p].state
<1> DEFINE after == [rows EXCEPT ![q].state = state]
<1>1. \A p \in DOMAIN rows : rows[p] \in ItemRow
  BY RowFacts
<1>2. [rows[q] EXCEPT !.state = state] \in ItemRow
  BY <1>1 DEF ItemRow
<1>3. after \in Seq(ItemRow) /\ DOMAIN after = DOMAIN rows
  BY <1>2, ExceptSeq DEF Tables
<1>4. \A p \in DOMAIN rows : /\ after[p].item = rows[p].item
                             /\ after[p].state = IF p = q THEN state ELSE rows[p].state
  BY <1>1 DEF ItemRow
<1> QED
  BY <1>3, <1>4 DEF RowAfter, RowsKept, Tables

\* The update of a request in the deciding batch only touches a pending one.
LEMMA ItemDecided ==
    ASSUME DeskInv, NEW s \in Desks, AtDesk(s, "decide"), items' = ItemsAfter(s)
    PROVE  /\ items' \in Seq(Item) /\ ItemsOK(items') /\ ItemsKept
           /\ DOMAIN items' = DOMAIN items /\ desk[s].item \in DOMAIN items
           /\ Resolved(s) \in ItemStatuses
           /\ \A i \in DOMAIN items : i # desk[s].item => items'[i] = items[i]
           /\ ~StillPending(s) => items' = items
           /\ StillPending(s) =>
                LET d == desk[s]  old == items[d.item]  new == items'[d.item] IN
                /\ new.status = Resolved(s) /\ new.entity = old.entity /\ new.by = old.by
                /\ new.rec = IF d.link = NoRecord THEN old.rec ELSE d.link
                /\ new.patch = old.patch
                /\ new.outcome = IF d.action = "approve" THEN d.outcome ELSE old.outcome
<1>0. Tables
  BY DEF DeskInv
<1>1. PICK d \in Desk : d = desk[s]
  BY DEF DeskInv, Slots
<1>2. Knows(d, items, rows, status) /\ d.pc = "decide"
  BY <1>1 DEF DeskInv, Slots, AtDesk
<1>3. Reviews(d, items) /\ Holds(d, items, rows, status)
  BY <1>2 DEF Knows, ReviewPCs, RowPCs
<1>4. d.item \in DOMAIN items
  BY <1>3 DEF Reviews
<1>5. PICK old \in Item : old = items[d.item]
  BY <1>0, <1>4, ItemFacts
<1>6. PICK to : to = Resolved(s)
  OBVIOUS
<1>7. to \in ItemStatuses /\ IF old.entity = "camera_edit" THEN to # "reviewed" ELSE to # "approved"
  <2>1. d.action \in ItemActions
    BY DEF Desk
  <2>2. IsEdit(s) => d.action \in {"approve", "reject"}
    BY <1>1, <1>3, <1>5 DEF IsEdit, Reviews
  <2> QED
    BY <1>1, <1>5, <1>6, <2>1, <2>2 DEF Resolved, IsEdit, ItemStatuses
<1>8. CASE ~StillPending(s)
  <2>1. items' = items
    BY <1>8 DEF ItemsAfter
  <2> QED
    BY <1>0, <1>1, <1>4, <1>6, <1>7, <1>8, <2>1, SameItems
<1>9. CASE StillPending(s)
  <2>1. PICK rec : rec = IF d.link = NoRecord THEN old.rec ELSE d.link
    OBVIOUS
  <2>2. PICK outcome : outcome = IF d.action = "approve" THEN d.outcome ELSE old.outcome
    OBVIOUS
  <2>3. rec \in Targets /\ outcome \in Outcomes
    BY <2>1, <2>2 DEF Desk, Item
  <2> DEFINE new == [old EXCEPT !.status = to, !.rec = rec, !.outcome = outcome]
  <2>4. /\ new \in Item /\ new.status = to /\ new.rec = rec /\ new.outcome = outcome
        /\ new.entity = old.entity /\ new.by = old.by /\ new.patch = old.patch
    BY <1>7, <2>3 DEF Item
  <2>5. items' = [items EXCEPT ![d.item].status = to,
                    ![d.item].rec = IF d.link = NoRecord THEN @ ELSE d.link,
                    ![d.item].outcome = IF d.action = "approve" THEN d.outcome ELSE @]
    BY <1>1, <1>6, <1>9 DEF ItemsAfter
  <2>6. items' = [items EXCEPT ![d.item] = new]
    BY <1>4, <1>5, <2>1, <2>2, <2>5 DEF Item
  <2> HIDE DEF new
  <2>7. /\ items' \in Seq(Item) /\ DOMAIN items' = DOMAIN items
        /\ items'[d.item] = new /\ \A i \in DOMAIN items : i # d.item => items'[i] = items[i]
    BY <1>0, <1>4, <2>4, <2>6, ExceptSeq DEF Tables
  <2>8. old.entity = "camera_edit" => rec = old.rec /\ old.rec \in Records
    BY <1>0, <1>3, <1>4, <1>5, <2>1, ItemFacts DEF Reviews
  <2>9. ItemsOK(items')
    BY <1>0, <1>7, <2>4, <2>7, <2>8 DEF Tables, ItemsOK
  <2>10. old.status = "pending"
    BY <1>1, <1>5, <1>9 DEF StillPending
  <2>11. \A i \in DOMAIN items : items[i] = [items[i] EXCEPT !.by = items[i].by]
    BY <1>0, ItemFacts DEF Item
  <2>12. ItemsKept
    BY <1>5, <2>4, <2>7, <2>8, <2>10, <2>11 DEF ItemsKept
  <2> QED
    BY <1>1, <1>4, <1>5, <1>6, <1>7, <1>9, <2>1, <2>2, <2>4, <2>7, <2>9, <2>12
<1> QED
  BY <1>8, <1>9
-----------------------------------------------------------------------------
(* The actions of contributors.                                            *)

\* What every step that leaves the rows alone has to say of its slot.
LEMMA OnlySlot ==
    ASSUME DeskInv, UNCHANGED <<vars, content, stamp, owner, erased, items, rows, trail>>,
           dstarted' \in Nat, NEW s \in Desks, NEW d, Knows(d, items, rows, status),
           desk' = [desk EXCEPT ![s] = d]
    PROVE  World /\ DeskInv'
<1>1. World
  BY SameItems, SameRows DEF DeskInv, World, RemovedStays, vars
<1>2. Tables'
  BY TypeStays DEF DeskInv, Tables, vars, TypeOK
<1>3. Knows(d, items', rows', status')
  BY DEF vars
<1> QED
  BY <1>1, <1>2, <1>3, SlotsStay DEF DeskInv

LEMMA BeginReportKeeps ==
    ASSUME DeskInv, NEW s \in Desks, NEW c \in Contributors, NEW rec \in Targets,
           BeginReport(s, rec, c)
    PROVE  World /\ DeskInv'
<1> DEFINE pc == IF rec = NoRecord THEN "insert" ELSE "prior"
           d == [IdleDesk EXCEPT !.pc = pc, !.rec = rec, !.by = c]
<1>1. pc \in {"insert", "prior"} /\ (pc = "prior" => rec \in Records)
  BY DEF Targets
<1> HIDE DEF pc
<1>2. d \in Desk /\ d.pc = pc /\ d.rec = rec /\ d.by = c
  BY <1>1, IdleDeskKnows DEF Knows, Desk, DeskPCs, Authors
<1>3. Knows(d, items, rows, status)
  BY <1>1, <1>2 DEF Knows, Contributes, ContributorPCs, ReviewPCs, RowPCs
<1>4. dstarted' \in Nat
  BY DEF BeginReport, Started, DeskInv, Tables
<1>5. desk' = [desk EXCEPT ![s] = d] \/ desk' = [desk EXCEPT ![s] = IdleDesk]
  BY DEF BeginReport, Started, pc
<1> HIDE DEF d
<1>6. Knows(IdleDesk, items, rows, status)
  BY IdleDeskKnows
<1>7. UNCHANGED <<vars, content, stamp, owner, erased, items, rows, trail>>
  BY DEF BeginReport
<1> QED
  BY <1>3, <1>4, <1>5, <1>6, <1>7, OnlySlot

\* A request that ends without having written.
LEMMA EndOnly ==
    ASSUME DeskInv, NEW s \in Desks, EndDesk(s),
           UNCHANGED <<vars, content, stamp, owner, erased, items, rows, trail, dstarted>>
    PROVE  World /\ DeskInv'
<1>1. dstarted' \in Nat
  BY DEF DeskInv, Tables
<1>2. desk' = [desk EXCEPT ![s] = IdleDesk] /\ Knows(IdleDesk, items, rows, status)
  BY IdleDeskKnows DEF EndDesk
<1>3. UNCHANGED <<vars, content, stamp, owner, erased, items, rows, trail>>
  OBVIOUS
<1> QED
  BY <1>1, <1>2, <1>3, OnlySlot

\* A request that goes on without having written.
LEMMA GotoOnly ==
    ASSUME DeskInv, NEW s \in Desks, NEW pc \in DeskPCs, DeskGoto(s, pc),
           Knows([desk[s] EXCEPT !.pc = pc], items, rows, status),
           UNCHANGED <<vars, content, stamp, owner, erased, items, rows, trail, dstarted>>
    PROVE  World /\ DeskInv'
<1> DEFINE d == [desk[s] EXCEPT !.pc = pc]
<1>1. dstarted' \in Nat
  BY DEF DeskInv, Tables
<1>2. desk' = [desk EXCEPT ![s] = d]
  BY DEF DeskGoto, DeskInv, Slots
<1>3. UNCHANGED <<vars, content, stamp, owner, erased, items, rows, trail>>
  OBVIOUS
<1> HIDE DEF d
<1>4. Knows(d, items, rows, status)
  BY DEF d
<1> QED
  BY <1>1, <1>2, <1>3, <1>4, OnlySlot

LEMMA CheckPriorKeeps ==
    ASSUME DeskInv, NEW s \in Desks, CheckPriorRemoval(s)
    PROVE  World /\ DeskInv'
<1>1. Knows(desk[s], items, rows, status) /\ desk[s].pc = "prior" /\ desk[s] \in Desk
  BY DEF DeskInv, Slots, CheckPriorRemoval, AtDesk
<1>2. PICK d \in Desk : d = [desk[s] EXCEPT !.pc = "insert"]
  BY <1>1 DEF Desk, DeskPCs
<1>3. d.pc = "insert" /\ d.by = desk[s].by
  BY <1>1, <1>2 DEF Desk
<1>4. Knows(d, items, rows, status) /\ "insert" \in DeskPCs
  BY <1>1, <1>3 DEF Knows, Contributes, ContributorPCs, ReviewPCs, RowPCs, DeskPCs
<1> QED
  BY <1>2, <1>4, EndOnly, GotoOnly DEF CheckPriorRemoval

LEMMA InsertReportKeeps ==
    ASSUME DeskInv, NEW s \in Desks, InsertReport(s)
    PROVE  World /\ DeskInv'
<1>1. Knows(desk[s], items, rows, status) /\ desk[s].pc = "insert" /\ desk[s] \in Desk
  BY DEF DeskInv, Slots, InsertReport, AtDesk
<1>2. desk[s].rec \in Targets /\ desk[s].by \in Authors
  BY <1>1 DEF Desk
<1>3. items' \in Seq(Item) /\ ItemsOK(items') /\ ItemsKept
  <2>1. CASE items' = items
    BY <2>1, SameItems DEF DeskInv
  <2>2. CASE items' = Append(items, NewItem("correction", desk[s].rec, desk[s].by, <<>>))
    BY <1>2, <2>2, EmptyPatch, ItemAppended DEF DeskInv, Entities
  <2> QED
    BY <2>1, <2>2 DEF InsertReport
<1>4. World
  BY <1>3, SameRows DEF DeskInv, InsertReport, World, RemovedStays, vars
<1>5. Tables'
  BY <1>3, TypeStays DEF InsertReport, DeskInv, Tables, vars, TypeOK
<1> QED
  BY <1>4, <1>5, EndStays DEF DeskInv, InsertReport

\* An edit that is let through keeps its author, its diff and the stamp it was computed at.
LEMMA EditBegins ==
    ASSUME DeskInv, NEW s \in Desks, NEW c \in Contributors, NEW rec \in Records,
           NEW edit \in Edits, BeginEdit(s, rec, c, edit)
    PROVE  \E d \in Desk :
             /\ desk' = [desk EXCEPT ![s] = d]
             /\ \/ d = IdleDesk
                \/ /\ d.pc \in {"update", "request"} /\ d.rec = rec /\ d.by = c
                   /\ d.patch = Diff(content[rec], edit.patch)
                   /\ d.guarded = edit.guarded /\ d.seen = stamp[rec]
<1> DEFINE diff == Diff(content[rec], edit.patch)
           next == IF owner[rec] # c \/ diff = <<>> THEN "idle"
                   ELSE IF status[rec] = "pending" THEN "update"
                   ELSE IF status[rec] \in PublishedEditable THEN "request" ELSE "idle"
           d == [IdleDesk EXCEPT !.pc = next, !.rec = rec, !.by = c, !.patch = diff,
                                 !.guarded = edit.guarded, !.seen = stamp[rec]]
<1>1. edit.patch \in AnyPatch /\ edit.guarded \in BOOLEAN
  BY ContributorsAssumption DEF Edit
<1>2. content[rec] \in [Columns -> Values] /\ stamp[rec] \in Nat
  BY DEF DeskInv, Tables
<1>3. diff \in AnyPatch
  BY <1>1, <1>2, DiffType
<1>4. next \in {"idle", "update", "request"}
  OBVIOUS
<1>5. desk' = [desk EXCEPT ![s] = IF next = "idle" THEN IdleDesk ELSE d]
  BY DEF BeginEdit, Started
<1> HIDE DEF diff, next
<1>6. IdleDesk \in Desk
  BY IdleDeskKnows DEF Knows
<1>7. /\ d \in Desk /\ d.pc = next /\ d.rec = rec /\ d.by = c /\ d.patch = diff
      /\ d.guarded = edit.guarded /\ d.seen = stamp[rec]
  BY <1>1, <1>2, <1>3, <1>4, <1>6 DEF Desk, DeskPCs, Authors, Targets
<1> HIDE DEF d
<1> QED
  BY <1>4, <1>5, <1>6, <1>7 DEF diff

LEMMA BeginEditKeeps ==
    ASSUME DeskInv, NEW s \in Desks, NEW c \in Contributors, NEW rec \in Records,
           NEW edit \in Edits, BeginEdit(s, rec, c, edit)
    PROVE  World /\ DeskInv'
<1>1. PICK d \in Desk :
        /\ desk' = [desk EXCEPT ![s] = d]
        /\ d = IdleDesk \/ (d.pc \in {"update", "request"} /\ d.rec = rec /\ d.by = c)
  BY EditBegins
<1>2. Knows(d, items, rows, status)
  BY <1>1, IdleDeskKnows DEF Knows, Contributes, ContributorPCs, ReviewPCs, RowPCs
<1>3. dstarted' \in Nat
  BY DEF BeginEdit, Started, DeskInv, Tables
<1>4. UNCHANGED <<vars, content, stamp, owner, erased, items, rows, trail>>
  BY DEF BeginEdit
<1> QED
  BY <1>1, <1>2, <1>3, <1>4, OnlySlot

LEMMA DirectUpdateKeeps ==
    ASSUME DeskInv, NEW s \in Desks, DirectUpdate(s)
    PROVE  World /\ DeskInv'
<1>1. Knows(desk[s], items, rows, status) /\ desk[s].pc = "update" /\ desk[s] \in Desk
  BY DEF DeskInv, Slots, DirectUpdate, AtDesk
<1>2. desk[s].rec \in Records /\ desk[s].patch \in AnyPatch
  BY <1>1 DEF Knows, Contributes, Desk
<1>3. World
  BY SameItems, SameRows DEF DeskInv, DirectUpdate, World, RemovedStays, vars
<1>4. content' \in [Records -> [Columns -> Values]] /\ stamp' \in [Records -> Nat]
  <2>1. Patched(content[desk[s].rec], desk[s].patch) \in [Columns -> Values]
    BY <1>2, PatchedType DEF DeskInv, Tables
  <2>2. PICK rec \in Records, new \in [Columns -> Values] :
          rec = desk[s].rec /\ new = Patched(content[desk[s].rec], desk[s].patch)
    BY <1>2, <2>1
  <2>3. content' = content \/ content' = [content EXCEPT ![rec] = new]
    BY <2>2 DEF DirectUpdate
  <2>4. stamp' = stamp \/ stamp' = [stamp EXCEPT ![rec] = stamp[rec] + 1]
    BY <2>2 DEF DirectUpdate, Touched
  <2> QED
    BY <2>3, <2>4 DEF DeskInv, Tables
<1>5. Tables'
  BY <1>4, TypeStays DEF DirectUpdate, DeskInv, Tables, vars, TypeOK
<1>6. PICK d \in Desk : d = [desk[s] EXCEPT !.pc = "log"]
  BY <1>1 DEF Desk, DeskPCs
<1>7. d.pc = "log" /\ d.by = desk[s].by /\ d.rec = desk[s].rec
  BY <1>1, <1>6 DEF Desk
<1>8. Knows(d, items, rows, status) /\ "log" \in DeskPCs
  BY <1>1, <1>7 DEF Knows, Contributes, ContributorPCs, ReviewPCs, RowPCs, DeskPCs
<1>9. Slots'
  BY <1>3, <1>6, <1>8, EndStays, GotoStays DEF DirectUpdate
<1> QED
  BY <1>3, <1>5, <1>9 DEF DeskInv

LEMMA LogDirectEditKeeps ==
    ASSUME DeskInv, NEW s \in Desks, LogDirectEdit(s)
    PROVE  World /\ DeskInv'
<1> DEFINE e == [rec |-> desk[s].rec, from |-> "pending", to |-> "pending",
                 action |-> "edit_applied", who |-> NoReviewer, recused |-> FALSE, appeal |-> 0]
<1>1. Knows(desk[s], items, rows, status) /\ desk[s].pc = "log"
  BY DEF DeskInv, Slots, LogDirectEdit, AtDesk
<1>2. desk[s].rec \in Records
  BY <1>1 DEF Knows, Contributes
<1>3. e \in Event
  BY <1>2 DEF Event, Statuses, EventActions
<1> HIDE DEF e
<1>4. events' \in Seq(Event)
  BY <1>3, AppendKeeps DEF LogDirectEdit, e, DeskInv, Tables, TypeOK
<1>5. World
  BY SameItems, SameRows DEF DeskInv, LogDirectEdit, World, RemovedStays
<1>6. status' \in [Records -> Statuses] /\ UNCHANGED <<queue, req, started>>
  BY DEF LogDirectEdit, DeskInv, Tables, TypeOK
<1>7. TypeOK'
  BY <1>4, <1>6, TypeStays DEF DeskInv, Tables
<1>8. Tables'
  BY <1>7 DEF LogDirectEdit, DeskInv, Tables
<1> QED
  BY <1>5, <1>8, EndStays DEF DeskInv, LogDirectEdit

LEMMA InsertEditKeeps ==
    ASSUME DeskInv, NEW s \in Desks, InsertEdit(s)
    PROVE  World /\ DeskInv'
<1>1. Knows(desk[s], items, rows, status) /\ desk[s].pc = "request" /\ desk[s] \in Desk
  BY DEF DeskInv, Slots, InsertEdit, AtDesk
<1>2. /\ desk[s].rec \in Records /\ desk[s].rec \in Targets /\ desk[s].by \in Authors
      /\ desk[s].by \in Contributors /\ Proposal(desk[s].patch) \in AnyPatch
  BY <1>1, ProposalType DEF Knows, Contributes, ContributorPCs, Desk
<1>3. CASE EditAdmitted(desk[s].rec) /\ Known(desk[s].by)
  <2>1. items' = Append(items, NewItem("camera_edit", desk[s].rec, desk[s].by, Proposal(desk[s].patch)))
    BY <1>3 DEF InsertEdit
  <2>2. /\ items' \in Seq(Item) /\ ItemsOK(items') /\ ItemsKept
        /\ DOMAIN items' = DOMAIN items \cup {Len(items) + 1} /\ Len(items) + 1 \in Nat
    BY <1>2, <2>1, ItemAppended DEF DeskInv, Entities
  <2>3. World
    BY <2>2, SameRows DEF DeskInv, InsertEdit, World, RemovedStays, vars
  <2>4. Tables'
    BY <2>2, TypeStays DEF InsertEdit, DeskInv, Tables, vars, TypeOK
  <2>5. PICK d : d = [desk[s] EXCEPT !.pc = "enqueue", !.item = Len(items) + 1]
    OBVIOUS
  <2>6. d \in Desk /\ d.pc = "enqueue" /\ d.item = Len(items) + 1
        /\ d.by = desk[s].by /\ d.rec = desk[s].rec
    BY <1>1, <2>2, <2>5 DEF Desk, DeskPCs
  <2>7. Knows(d, items', rows', status')
    BY <1>2, <2>2, <2>6 DEF Knows, Contributes, ContributorPCs, ReviewPCs, RowPCs
  <2>8. desk' = [desk EXCEPT ![s] = d]
    BY <1>1, <1>3, <2>5 DEF InsertEdit, DeskInv, Slots, Desk
  <2> QED
    BY <2>3, <2>4, <2>7, <2>8, SlotsStay DEF DeskInv
<1>4. CASE ~(EditAdmitted(desk[s].rec) /\ Known(desk[s].by))
  BY <1>4, EndOnly DEF InsertEdit
<1> QED
  BY <1>3, <1>4

LEMMA EnqueueEditKeeps ==
    ASSUME DeskInv, NEW s \in Desks, EnqueueEdit(s)
    PROVE  World /\ DeskInv'
<1>1. desk[s] \in Desk
  BY DEF DeskInv, Slots
<1> DEFINE row == [item |-> desk[s].item, state |-> "queued", two |-> FALSE]
<1>2. row \in ItemRow
  BY <1>1 DEF Desk, ItemRow, QueueStates
<1> HIDE DEF row
<1>3. rows' \in Seq(ItemRow) /\ RowsKept
  <2>1. rows' = rows \/ rows' = Append(rows, row)
    BY DEF EnqueueEdit, row
  <2> QED
    BY <1>2, <2>1, SameRows, RowAppended DEF DeskInv
<1>4. World
  BY <1>3, SameItems DEF DeskInv, EnqueueEdit, World, RemovedStays, vars
<1>5. Tables'
  BY <1>3, TypeStays DEF EnqueueEdit, DeskInv, Tables, vars, TypeOK
<1> QED
  BY <1>4, <1>5, EndStays DEF DeskInv, EnqueueEdit
-----------------------------------------------------------------------------
(* The actions of reviewers.                                               *)

\* Where the review in a slot stands before it has a queue row.
LEMMA ReviewFacts ==
    ASSUME DeskInv, NEW s \in Desks, desk[s].pc \in ReviewPCs
    PROVE  /\ desk[s] \in Desk /\ Reviews(desk[s], items)
           /\ desk[s].item \in DOMAIN items /\ desk[s].who \in Reviewers
           /\ desk[s].pc \notin ContributorPCs
           /\ desk[s].pc \in RowPCs => Holds(desk[s], items, rows, status)
           /\ IsEdit(s) => desk[s].rec = items[desk[s].item].rec /\ desk[s].rec \in Records
<1>1. Knows(desk[s], items, rows, status)
  BY DEF DeskInv, Slots
<1>2. Reviews(desk[s], items) /\ desk[s] \in Desk
  BY <1>1 DEF Knows
<1>3. desk[s].pc \notin ContributorPCs
  BY DEF ReviewPCs, RowPCs, ContributorPCs
<1>4. Tables
  BY DEF DeskInv
<1> QED
  BY <1>1, <1>2, <1>3, <1>4, ItemFacts DEF Knows, Reviews, IsEdit

LEMMA BeginReviewKeeps ==
    ASSUME DeskInv, NEW s \in Desks, NEW i \in DOMAIN items, NEW w \in Reviewers,
           NEW p \in Payloads, BeginReview(s, i, w, p)
    PROVE  World /\ DeskInv'
<1>1. /\ p.action \in ItemActions /\ p.outcome \in Outcomes /\ p.recused \in BOOLEAN
      /\ p.asked \in BOOLEAN /\ p.link \in Targets
      /\ p.outcome # "none" => p.action = "approve"
      /\ p.action = "associate" => p.link # NoRecord
  BY ContributorsAssumption DEF Payload
<1>2. PICK item \in Item : item = items[i] /\ item.rec \in Targets /\ item.status \in ItemStatuses
  BY ItemFacts DEF DeskInv
<1>3. PICK rec \in Targets : rec = IF p.link = NoRecord THEN items[i].rec ELSE p.link
  BY <1>1, <1>2
<1>4. i \in Nat
  BY ItemFacts DEF DeskInv
<1> DEFINE d == [IdleDesk EXCEPT !.pc = "find", !.item = i, !.who = w, !.action = p.action,
                     !.outcome = p.outcome, !.recused = p.recused, !.asked = p.asked,
                     !.from = item.status, !.link = p.link, !.rec = rec]
<1>5. /\ d \in Desk /\ d.pc = "find" /\ d.item = i /\ d.who = w /\ d.action = p.action
      /\ d.outcome = p.outcome /\ d.from = item.status /\ d.rec = rec /\ d.camera = "pending"
      /\ d.link = p.link
  <2>1. PICK idle \in Desk : idle = IdleDesk /\ idle.camera = "pending"
    BY IdleDeskKnows DEF Knows, IdleDesk
  <2> QED
    BY <1>1, <1>2, <1>4, <2>1 DEF Desk, DeskPCs
<1>6. desk' = [desk EXCEPT ![s] = d] /\ dstarted' \in Nat
  BY <1>2, <1>3 DEF BeginReview, Started, DeskInv, Tables
<1> HIDE DEF d
<1>7. items[i].entity = "camera_edit" =>
        /\ p.action \in {"approve", "reject"} /\ p.outcome = "none" /\ p.link = NoRecord
  BY <1>1 DEF BeginReview, ItemAllows, ItemActions
<1>8. Reviews(d, items)
  BY <1>1, <1>2, <1>3, <1>5, <1>7 DEF Reviews
<1>9. Knows(d, items, rows, status)
  BY <1>5, <1>8 DEF Knows, Contributes, ContributorPCs, RowPCs
<1>10. UNCHANGED <<vars, content, stamp, owner, erased, items, rows, trail>>
  BY DEF BeginReview
<1> QED
  BY <1>6, <1>9, <1>10, OnlySlot

LEMMA NextDeskPCType ==
    ASSUME DeskInv, NEW s \in Desks, desk[s].pc \in ReviewPCs, NEW row
    PROVE  /\ NextDeskPC(s, row) \in RowPCs \cup {"idle"}
           /\ NextDeskPC(s, row) = "intent" =>
                desk[s].action \in SecondReviewActions /\ NeedsSecondReview(desk[s].action, row.two)
           /\ NextDeskPC(s, row) = "lookup" => row.state = "second_review"
           /\ NextDeskPC(s, row) \in {"lookup", "target", "decide"} => desk[s].action # "escalate"
           /\ NextDeskPC(s, row) \in {"target", "decide"} =>
                ~NeedsSecondReview(desk[s].action, row.two)
           /\ NextDeskPC(s, row) = "target" => desk[s].rec \in Records
<1>1. Verdict(s) \in {"target", "decide"} /\ (Verdict(s) = "target" => desk[s].rec \in Records)
  BY ReviewFacts DEF Verdict, Desk, Targets
<1> QED
  BY <1>1 DEF NextDeskPC, RowPCs, ItemNeedsSecond, NeedsSecondReview, IntentRecorded

\* The checks after the queue row leave the request with that row, and its locals.
LEMMA ProceedsKnows ==
    ASSUME DeskInv, NEW s \in Desks, desk[s].pc \in {"find", "open"}, NEW q \in Nat,
           NEW row \in ItemRow, DeskProceeds(s, q, row), NEW rws,
           q \in DOMAIN rws, rws[q].item = desk[s].item
    PROVE  \E d : /\ desk' = [desk EXCEPT ![s] = d] /\ Knows(d, items, rws, status)
                  /\ \/ d = IdleDesk
                     \/ /\ d.pc = NextDeskPC(s, row) /\ d.item = desk[s].item
                        /\ d.action = desk[s].action /\ d.two = row.two
<1>1. CASE NextDeskPC(s, row) = "idle"
  BY <1>1, IdleDeskKnows DEF DeskProceeds, EndDesk
<1>2. CASE NextDeskPC(s, row) # "idle"
  <2>1. desk[s].pc \in ReviewPCs
    BY DEF ReviewPCs
  <2>2. PICK o \in Desk : o = desk[s]
    BY <2>1, ReviewFacts
  <2>3. PICK pc \in RowPCs : pc = NextDeskPC(s, row)
    BY <1>2, <2>1, NextDeskPCType
  <2>4. row.two \in BOOLEAN /\ pc \in DeskPCs
    BY <2>3 DEF ItemRow, RowPCs, DeskPCs
  <2>5. PICK d : d = [o EXCEPT !.pc = pc, !.row = q, !.two = row.two]
    OBVIOUS
  <2>6. /\ d \in Desk /\ d.pc = pc /\ d.row = q /\ d.two = row.two
        /\ d.item = o.item /\ d.who = o.who /\ d.outcome = o.outcome /\ d.action = o.action /\ d.link = o.link
        /\ d.rec = o.rec /\ d.from = o.from /\ d.camera = o.camera
    BY <2>4, <2>5 DEF Desk
  <2>7. desk' = [desk EXCEPT ![s] = d]
    BY <1>2, <2>2, <2>3, <2>5 DEF DeskProceeds, DeskInv, Slots, Desk
  <2>8. Reviews(o, items) /\ o.camera = "pending"
    BY <2>1, <2>2, ReviewFacts DEF Reviews
  <2>9. Reviews(d, items)
    BY <2>6, <2>8 DEF Reviews
  <2>10. Holds(d, items, rws, status)
    BY <2>1, <2>2, <2>3, <2>6, <2>8, NextDeskPCType DEF Holds
  <2>11. Contributes(d, items)
    BY <2>6, <2>3 DEF Contributes, ContributorPCs, RowPCs
  <2> QED
    BY <2>2, <2>3, <2>6, <2>7, <2>9, <2>10, <2>11 DEF Knows
<1> QED
  BY <1>1, <1>2

LEMMA FindItemRowKeeps ==
    ASSUME DeskInv, NEW s \in Desks, FindItemRow(s)
    PROVE  World /\ DeskInv'
<1>1. desk[s].pc = "find" /\ desk[s].pc \in ReviewPCs
  BY DEF FindItemRow, AtDesk, ReviewPCs
<1>2. dstarted' \in Nat /\ UNCHANGED <<vars, content, stamp, owner, erased, items, rows, trail>>
  BY DEF FindItemRow, DeskInv, Tables
<1>3. ASSUME NEW q \in OpenItemRows(desk[s].item), DeskProceeds(s, q, rows[q])
      PROVE  World /\ DeskInv'
  <2>1. q \in DOMAIN rows /\ q \in Nat /\ rows[q] \in ItemRow /\ rows[q].item = desk[s].item
    BY <1>3, RowFacts DEF OpenItemRows, DeskInv
  <2>2. PICK d : desk' = [desk EXCEPT ![s] = d] /\ Knows(d, items, rows, status)
    BY <1>1, <1>3, <2>1, ProceedsKnows
  <2> QED
    BY <1>2, <2>2, OnlySlot
<1>4. CASE DeskGoto(s, "open")
  <2>1. PICK o \in Desk : o = desk[s] /\ Knows(o, items, rows, status)
    BY <1>1, ReviewFacts DEF DeskInv, Slots
  <2>2. PICK d : d = [o EXCEPT !.pc = "open"]
    OBVIOUS
  <2>3. /\ d \in Desk /\ d.pc = "open"
        /\ d.item = o.item /\ d.who = o.who /\ d.outcome = o.outcome /\ d.action = o.action /\ d.link = o.link
        /\ d.rec = o.rec /\ d.from = o.from /\ d.camera = o.camera
    BY <2>2 DEF Desk, DeskPCs
  <2>4. Knows(d, items, rows, status)
    BY <1>1, <2>1, <2>3 DEF Knows, Reviews, Contributes, ContributorPCs, RowPCs, ReviewPCs
  <2> QED
    BY <1>2, <1>4, <2>1, <2>2, <2>4, OnlySlot DEF DeskGoto, DeskInv, Slots
<1> QED
  BY <1>3, <1>4 DEF FindItemRow

LEMMA OpenItemRowKeeps ==
    ASSUME DeskInv, NEW s \in Desks, OpenItemRow(s)
    PROVE  World /\ DeskInv'
<1>1. desk[s].pc = "open" /\ desk[s].pc \in ReviewPCs
  BY DEF OpenItemRow, AtDesk, ReviewPCs
<1>2. CASE OpenItemRows(desk[s].item) = {}
  <2>1. PICK row : row = [item |-> desk[s].item, state |-> "queued", two |-> desk[s].asked]
    OBVIOUS
  <2>2. row \in ItemRow /\ row.item = desk[s].item
    BY <1>1, <2>1, ReviewFacts DEF ItemRow, QueueStates, Desk
  <2>3. rows' = Append(rows, row) /\ DeskProceeds(s, Len(rows) + 1, row)
    BY <1>2, <2>1 DEF OpenItemRow
  <2>4. /\ rows' \in Seq(ItemRow) /\ RowsKept /\ Len(rows) + 1 \in Nat
        /\ Len(rows) + 1 \in DOMAIN rows' /\ rows'[Len(rows) + 1] = row
    BY <2>2, <2>3, RowAppended DEF DeskInv
  <2>5. PICK d : desk' = [desk EXCEPT ![s] = d] /\ Knows(d, items, rows', status)
    BY <1>1, <2>2, <2>3, <2>4, ProceedsKnows
  <2>6. World
    BY <2>4, SameItems DEF DeskInv, OpenItemRow, World, RemovedStays, vars
  <2>7. Tables'
    BY <2>4, TypeStays DEF OpenItemRow, DeskInv, Tables, vars, TypeOK
  <2>8. items' = items /\ status' = status
    BY DEF OpenItemRow, vars
  <2>9. Knows(d, items', rows', status')
    BY <2>5, <2>8
  <2> QED
    BY <2>5, <2>6, <2>7, <2>9, SlotsStay DEF DeskInv
<1>3. CASE OpenItemRows(desk[s].item) # {}
  BY <1>3, EndOnly DEF OpenItemRow
<1> QED
  BY <1>2, <1>3

\* An event about a request names its reviewer and the statuses a request can have.
LEMMA NotedType ==
    ASSUME DeskInv, NEW s \in Desks, desk[s].pc \in ReviewPCs, NEW to \in ItemStatuses,
           NEW recused \in BOOLEAN
    PROVE  Noted(s, to, recused) \in ItemEvent
BY ReviewFacts DEF Noted, ItemEvent, ItemEvents, Desk

LEMMA NoteKeeps ==
    ASSUME DeskInv, NEW s \in Desks, Note(s)
    PROVE  World /\ DeskInv'
<1>1. desk[s].pc \in ReviewPCs /\ desk[s].pc \in RowPCs
  BY DEF Note, ReviewPCs, RowPCs
<1>2. desk[s].row \in DOMAIN rows /\ desk[s].from \in ItemStatuses
  BY <1>1, ReviewFacts DEF Holds, Desk
<1>3. rows' \in Seq(ItemRow) /\ RowsKept
  <2>1. \/ rows' = rows \/ rows' = RowAfter(desk[s].row, "escalated")
        \/ rows' = RowAfter(desk[s].row, "second_review")
    BY DEF Note, AtDesk
  <2> QED
    BY <1>2, <2>1, SameRows, RowAfterType DEF DeskInv, QueueStates
<1>4. trail' \in Seq(ItemEvent)
  <2>1. Noted(s, desk[s].from, AtDesk(s, "recuse")) \in ItemEvent
    BY <1>1, <1>2, NotedType DEF AtDesk
  <2> QED
    BY <2>1, AppendKeeps DEF Note, DeskInv, Tables
<1>5. World
  BY <1>3, SameItems DEF DeskInv, Note, World, RemovedStays, vars
<1>6. Tables'
  BY <1>3, <1>4, TypeStays DEF Note, DeskInv, Tables, vars, TypeOK
<1> QED
  BY <1>5, <1>6, EndStays DEF DeskInv, Note

LEMMA LookUpFirstKeeps ==
    ASSUME DeskInv, NEW s \in Desks, LookUpFirst(s)
    PROVE  World /\ DeskInv'
<1>1. desk[s].pc = "lookup" /\ desk[s].pc \in ReviewPCs /\ desk[s].pc \in RowPCs
  BY DEF LookUpFirst, AtDesk, ReviewPCs, RowPCs
<1>2. dstarted' \in Nat /\ UNCHANGED <<vars, content, stamp, owner, erased, items, rows, trail>>
  BY DEF LookUpFirst, DeskInv, Tables
<1>3. CASE DeskGoto(s, Verdict(s))
  <2>1. PICK o \in Desk : o = desk[s] /\ Knows(o, items, rows, status)
    BY <1>1, ReviewFacts DEF DeskInv, Slots
  <2>2. PICK pc \in {"target", "decide"} :
          pc = Verdict(s) /\ (pc = "target" => o.rec \in Records)
    BY <1>1, <2>1, ReviewFacts DEF Verdict, Desk, Targets
  <2>3. PICK d : d = [o EXCEPT !.pc = pc]
    OBVIOUS
  <2>4. /\ d \in Desk /\ d.pc = pc /\ d.row = o.row
        /\ d.item = o.item /\ d.who = o.who /\ d.outcome = o.outcome /\ d.action = o.action /\ d.link = o.link
        /\ d.rec = o.rec /\ d.from = o.from /\ d.camera = o.camera
    BY <2>2, <2>3 DEF Desk, DeskPCs
  <2>5. Reviews(o, items) /\ Holds(o, items, rows, status) /\ o.pc = "lookup"
    BY <1>1, <2>1, ReviewFacts
  <2>6. Reviews(d, items)
    BY <2>4, <2>5 DEF Reviews
  <2>7. Holds(d, items, rows, status)
    BY <2>2, <2>4, <2>5 DEF Holds, Reviews
  <2>8. Knows(d, items, rows, status)
    BY <2>4, <2>6, <2>7, <2>2 DEF Knows, Contributes, ContributorPCs
  <2> QED
    BY <1>2, <1>3, <2>1, <2>2, <2>3, <2>8, OnlySlot DEF DeskGoto, DeskInv, Slots
<1> QED
  BY <1>3, EndOnly DEF LookUpFirst

LEMMA ReadTargetKeeps ==
    ASSUME DeskInv, NEW s \in Desks, ReadTarget(s)
    PROVE  World /\ DeskInv'
<1>1. desk[s].pc = "target" /\ desk[s].pc \in ReviewPCs /\ desk[s].pc \in RowPCs
  BY DEF ReadTarget, AtDesk, ReviewPCs, RowPCs
<1>2. dstarted' \in Nat /\ UNCHANGED <<vars, content, stamp, owner, erased, items, rows, trail>>
  BY DEF ReadTarget, DeskInv, Tables
<1>3. CASE ~EndDesk(s)
  <2>1. PICK o \in Desk : o = desk[s] /\ Knows(o, items, rows, status)
    BY <1>1, ReviewFacts DEF DeskInv, Slots
  <2>2. Reviews(o, items) /\ Holds(o, items, rows, status) /\ o.rec \in Records /\ o.pc = "target"
    BY <1>1, <2>1, ReviewFacts DEF Holds
  <2>3. PICK camera \in Statuses : camera = status[o.rec]
    BY <2>2 DEF DeskInv, Tables, TypeOK
  <2>4. PICK d : d = [o EXCEPT !.pc = "decide", !.camera = camera]
    OBVIOUS
  <2>5. /\ d \in Desk /\ d.pc = "decide" /\ d.row = o.row
        /\ d.item = o.item /\ d.who = o.who /\ d.outcome = o.outcome /\ d.action = o.action /\ d.link = o.link
        /\ d.rec = o.rec /\ d.from = o.from /\ d.camera = camera
    BY <2>4 DEF Desk, DeskPCs
  <2>6. Reviews(d, items)
    BY <2>2, <2>5 DEF Reviews
  <2>7. Holds(d, items, rows, status)
    BY <2>2, <2>3, <2>5 DEF Holds
  <2>8. Knows(d, items, rows, status)
    BY <2>5, <2>6, <2>7 DEF Knows, Contributes, ContributorPCs
  <2>9. desk' = [desk EXCEPT ![s] = d]
    BY <1>3, <2>1, <2>3, <2>4 DEF ReadTarget, DeskInv, Slots, Desk
  <2> QED
    BY <1>2, <2>8, <2>9, OnlySlot
<1>4. CASE EndDesk(s)
  BY <1>4, EndOnly DEF ReadTarget
<1> QED
  BY <1>3, <1>4
-----------------------------------------------------------------------------
(* The deciding batches, erasure, and the records' own moderation.         *)

\* What the batch does to the camera: its status only by an outcome it names, and then
\* with the event of it.
LEMMA OutcomeLands ==
    ASSUME DeskInv, NEW s \in Desks, DecideCorrection(s)
    PROVE  \/ status' = status /\ events' = events
           \/ /\ desk[s].rec \in Records /\ desk[s].action = "approve"
              /\ \E to \in {"removed", "needs_review"} :
                    /\ status' = [status EXCEPT ![desk[s].rec] = to]
                    /\ to = "needs_review" => status[desk[s].rec] = "active"
                    /\ events' = Append(events,
                         CameraEvent(desk[s].rec, desk[s].camera, to, desk[s].outcome))
                    /\ desk[s].outcome = IF to = "removed" THEN "removed" ELSE "marked-stale"
                    /\ to = "needs_review" => desk[s].camera = "active"
           \/ /\ desk[s].rec \in Records /\ status' = status
              /\ events' = Append(events,
                   CameraEvent(desk[s].rec, desk[s].camera, desk[s].camera, "corrected"))
           \/ /\ desk[s].rec \in Records /\ status' = status
              /\ status[desk[s].rec] = "needs_review"
              /\ events' = Append(events,
                   CameraEvent(desk[s].rec, desk[s].camera, "needs_review", "marked-stale"))
<1>1. desk[s] \in Desk /\ Reviews(desk[s], items)
  BY ReviewFacts DEF DecideCorrection, AtDesk, ReviewPCs, RowPCs
<1>2. status \in [Records -> Statuses]
  BY DEF DeskInv, Tables, TypeOK
<1>3. CASE ~HasOutcome(s) \/ ~LinkAdmitted(s)
  BY <1>3 DEF DecideCorrection
<1>4. CASE HasOutcome(s) /\ LinkAdmitted(s)
  <2>1. PICK rec \in Records : rec = desk[s].rec
    BY <1>1, <1>4 DEF HasOutcome, Desk, Targets
  <2>2. status' = CameraAfter(s)
    BY <1>4 DEF DecideCorrection
  <2>3. PICK to \in OutcomeNames(s) :
          events' = IF OutcomeEventLands(s)
                      THEN Append(events, CameraEvent(rec, desk[s].camera, to, desk[s].outcome))
                      ELSE events
    BY <1>4, <2>1 DEF DecideCorrection
  <2>4. PICK outcome : outcome = desk[s].outcome /\ outcome \in {"removed", "marked-stale", "corrected"}
    BY <1>1, <2>3 DEF OutcomeNames, Desk, Outcomes, OutcomeActions
  <2>5. desk[s].action = "approve"
    BY <1>1, <2>4 DEF Reviews
  <2>6. CASE outcome = "removed"
    <3>1. to = "removed" /\ status' = [status EXCEPT ![rec] = "removed"] /\ OutcomeNames(s) = {"removed"}
      BY <2>1, <2>2, <2>3, <2>4, <2>6 DEF OutcomeNames, CameraAfter
    <3>2. OutcomeEventLands(s)
      BY <1>2, <2>1, <3>1 DEF OutcomeEventLands
    <3> QED
      BY <2>1, <2>3, <2>4, <2>5, <2>6, <3>1, <3>2
  <2>7. CASE outcome = "marked-stale"
    <3>1. to = "needs_review" /\ desk[s].camera = "active" /\ OutcomeNames(s) = {"needs_review"}
      BY <2>3, <2>4, <2>7 DEF OutcomeNames
    <3>2. CASE status[rec] = "active"
      <4>1. status' = [status EXCEPT ![rec] = "needs_review"]
        BY <2>1, <2>2, <2>4, <2>7, <3>2 DEF CameraAfter
      <4>2. OutcomeEventLands(s)
        BY <1>2, <2>1, <3>1, <4>1 DEF OutcomeEventLands
      <4> QED
        BY <2>1, <2>3, <2>4, <2>5, <2>7, <3>1, <3>2, <4>1, <4>2
    <3>3. CASE status[rec] # "active"
      <4>1. status' = status
        BY <2>1, <2>2, <2>4, <2>7, <3>3 DEF CameraAfter
      <4> QED
        BY <2>1, <2>3, <2>4, <2>7, <3>1, <4>1 DEF OutcomeEventLands
    <3> QED
      BY <3>2, <3>3
  <2>8. CASE outcome = "corrected"
    <3>1. to = desk[s].camera
      BY <2>3, <2>4, <2>8 DEF OutcomeNames
    <3>2. status' = status
      BY <2>2, <2>4, <2>8 DEF CameraAfter
    <3> QED
      BY <2>1, <2>3, <2>4, <2>8, <3>1, <3>2
  <2> QED
    BY <2>4, <2>6, <2>7, <2>8
<1> QED
  BY <1>3, <1>4

LEMMA CameraEventType ==
    ASSUME NEW rec \in Records, NEW from \in Statuses, NEW to \in Statuses,
           NEW action \in OutcomeActions
    PROVE  CameraEvent(rec, from, to, action) \in Event
BY DEF CameraEvent, Event, EventActions

\* The event of the request and its row, in either deciding batch.
LEMMA BatchType ==
    ASSUME DeskInv, NEW s \in Desks, AtDesk(s, "decide")
    PROVE  /\ Verdicted(s) \in ItemEvent
           /\ Verdicted(s).item = desk[s].item /\ Verdicted(s).from = desk[s].from
           /\ Verdicted(s).to = Resolved(s)
           /\ Append(trail, Verdicted(s)) \in Seq(ItemEvent)
           /\ desk[s].row \in DOMAIN rows /\ rows[desk[s].row].item = desk[s].item
           /\ desk[s].item \in DOMAIN items
<1>1. desk[s].pc \in ReviewPCs /\ desk[s].pc \in RowPCs
  BY DEF AtDesk, ReviewPCs, RowPCs
<1>2. desk[s].action \in ItemActions /\ (IsEdit(s) => desk[s].action \in {"approve", "reject"})
  BY <1>1, ReviewFacts DEF Reviews, IsEdit, Desk
<1>3. Resolved(s) \in ItemStatuses
  BY <1>2 DEF Resolved, ItemStatuses
<1>4. /\ Verdicted(s) \in ItemEvent
      /\ Verdicted(s).item = desk[s].item /\ Verdicted(s).from = desk[s].from
      /\ Verdicted(s).to = Resolved(s)
  <2>1. PICK e \in ItemEvent : e = Noted(s, Resolved(s), FALSE)
    BY <1>1, <1>3, NotedType
  <2>2. PICK action \in ItemEvents : Verdicted(s) = [e EXCEPT !.action = action]
    BY <2>1 DEF Verdicted, ItemEvent, ItemEvents
  <2>3. e.item = desk[s].item /\ e.from = desk[s].from /\ e.to = Resolved(s)
    BY <2>1 DEF Noted
  <2> QED
    BY <2>2, <2>3 DEF ItemEvent
<1> QED
  BY <1>1, <1>4, ReviewFacts, AppendKeeps DEF Holds, DeskInv, Tables

LEMMA DecideCorrectionKeeps ==
    ASSUME DeskInv, NEW s \in Desks, DecideCorrection(s)
    PROVE  World /\ DeskInv'
<1>1. AtDesk(s, "decide") /\ EndDesk(s)
  BY DEF DecideCorrection
<1>2. items' \in Seq(Item) /\ ItemsOK(items') /\ ItemsKept
  <2>1. items' = items \/ items' = ItemsAfter(s)
    BY DEF DecideCorrection
  <2> QED
    BY <1>1, <2>1, SameItems, ItemDecided DEF DeskInv
<1>3. rows' \in Seq(ItemRow) /\ RowsKept
  <2>1. rows' = rows \/ rows' = RowAfter(desk[s].row, "closed")
    BY DEF DecideCorrection
  <2> QED
    BY <1>1, <2>1, BatchType, SameRows, RowAfterType DEF DeskInv, QueueStates
<1>4. trail' \in Seq(ItemEvent)
  BY <1>1, BatchType DEF DecideCorrection, DeskInv, Tables
<1>5. desk[s].camera \in Statuses
  BY <1>1, ReviewFacts DEF AtDesk, ReviewPCs, RowPCs, Desk
<1>6. /\ status' \in [Records -> Statuses] /\ events' \in Seq(Event) /\ RemovedStays
  <2>1. status \in [Records -> Statuses] /\ events \in Seq(Event)
    BY DEF DeskInv, Tables, TypeOK
  <2>2. {"removed", "needs_review"} \subseteq Statuses
        /\ {"removed", "marked-stale", "corrected"} \subseteq OutcomeActions
    BY DEF Statuses, OutcomeActions
  <2>3. /\ status' \in [Records -> Statuses] /\ RemovedStays
        /\ \/ events' = events
           \/ \E rec \in Records, to \in Statuses, action \in OutcomeActions :
                events' = Append(events, CameraEvent(rec, desk[s].camera, to, action))
    BY <1>5, <2>1, <2>2, OutcomeLands DEF RemovedStays
  <2> QED
    BY <1>5, <2>1, <2>3, CameraEventType, AppendKeeps
<1>7. stamp' \in [Records -> Nat]
  <2>1. stamp' = stamp \/ stamp' = [stamp EXCEPT ![desk[s].rec] = stamp[desk[s].rec] + 1]
    BY DEF DecideCorrection, Touched
  <2> QED
    BY <2>1 DEF DeskInv, Tables
<1>8. World
  BY <1>2, <1>3, <1>6 DEF World
<1>9. TypeOK'
  BY <1>6, TypeStays DEF DecideCorrection, DeskInv, Tables
<1>10. Tables'
  BY <1>2, <1>3, <1>4, <1>7, <1>9 DEF DecideCorrection, DeskInv, Tables
<1> QED
  BY <1>1, <1>8, <1>10, EndStays DEF DeskInv

LEMMA DecideEditKeeps ==
    ASSUME DeskInv, NEW s \in Desks, DecideEdit(s)
    PROVE  World /\ DeskInv'
<1>1. AtDesk(s, "decide") /\ EndDesk(s) /\ IsEdit(s) /\ items' = ItemsAfter(s)
  BY DEF DecideEdit
<1>2. items' \in Seq(Item) /\ ItemsOK(items') /\ ItemsKept
  BY <1>1, ItemDecided
<1>3. rows' \in Seq(ItemRow) /\ RowsKept
  BY <1>1, BatchType, RowAfterType DEF DecideEdit, DeskInv, QueueStates
<1>4. trail' \in Seq(ItemEvent)
  BY <1>1, BatchType DEF DecideEdit, DeskInv, Tables
<1>5. content' \in [Records -> [Columns -> Values]] /\ stamp' \in [Records -> Nat]
  <2>1. desk[s].rec \in Records /\ items[desk[s].item].patch \in AnyPatch
    BY <1>1, ReviewFacts, ItemFacts DEF AtDesk, ReviewPCs, RowPCs, DeskInv
  <2>2. PICK rec \in Records, new \in [Columns -> Values] :
          rec = desk[s].rec /\ new = Applied(content[rec], items[desk[s].item].patch)
    BY <2>1, AppliedType DEF DeskInv, Tables
  <2>3. content' = content \/ content' = [content EXCEPT ![rec] = new]
    BY <2>2 DEF DecideEdit
  <2>4. stamp' = stamp \/ stamp' = [stamp EXCEPT ![rec] = stamp[rec] + 1]
    BY <2>2 DEF DecideEdit, Touched
  <2> QED
    BY <2>3, <2>4 DEF DeskInv, Tables
<1>6. World
  BY <1>2, <1>3 DEF DecideEdit, World, RemovedStays, vars
<1>7. Tables'
  BY <1>2, <1>3, <1>4, <1>5, TypeStays DEF DecideEdit, DeskInv, Tables, vars, TypeOK
<1> QED
  BY <1>1, <1>6, <1>7, EndStays DEF DeskInv

LEMMA EraseKeeps ==
    ASSUME DeskInv, NEW c \in Contributors, Erase(c)
    PROVE  World /\ DeskInv'
<1>1. Anonymous \in Authors
  BY DEF Authors
<1>2. Disowned(c) \in Seq(Item) /\ DOMAIN Disowned(c) = DOMAIN items
      /\ \A i \in DOMAIN items :
           /\ Disowned(c)[i].entity = items[i].entity /\ Disowned(c)[i].rec = items[i].rec
           /\ Disowned(c)[i].status = items[i].status
           /\ Disowned(c)[i] = [items[i] EXCEPT !.by = Disowned(c)[i].by]
  <2>1. DOMAIN items = 1..Len(items) /\ Len(items) \in Nat
    BY LenProperties DEF DeskInv, Tables
  <2>2. \A i \in DOMAIN items : items[i] \in Item
    BY ItemFacts DEF DeskInv
  <2>3. \A i \in DOMAIN items : Disowned(c)[i] \in Item
    BY <1>1, <2>2 DEF Disowned, Item
  <2>4. DOMAIN Disowned(c) = DOMAIN items
    BY DEF Disowned
  <2>5. Disowned(c) \in [1..Len(items) -> Item]
    BY <2>1, <2>3, <2>4 DEF Disowned
  <2> QED
    BY <2>1, <2>2, <2>4, <2>5, SeqDef DEF Disowned, Item
<1>3. items' \in Seq(Item) /\ ItemsOK(items') /\ ItemsKept
  <2>1. CASE items' = items
    BY <2>1, SameItems DEF DeskInv
  <2>2. CASE items' = Disowned(c)
    BY <1>2, <2>2 DEF ItemsOK, ItemsKept, DeskInv, Tables
  <2> QED
    BY <2>1, <2>2 DEF Erase
<1>4. owner' \in [Records -> Authors] /\ erased' \subseteq Contributors
  BY <1>1 DEF Erase, DeskInv, Tables
<1>5. World
  BY <1>3, SameRows DEF DeskInv, Erase, World, RemovedStays, vars
<1>6. Tables'
  BY <1>3, <1>4, TypeStays DEF Erase, DeskInv, Tables, vars, TypeOK
<1>7. Slots'
  BY <1>5, KnowsStays DEF Erase, DeskInv, Slots
<1> QED
  BY <1>5, <1>6, <1>7 DEF DeskInv

\* The moderation of the records is a step of the review queue.
LEMMA ModerateIsReview ==
    ASSUME Moderate
    PROVE  [Next]_vars
BY DEF Moderate, Next

LEMMA ModerateKeeps ==
    ASSUME DeskInv, Moderate
    PROVE  World /\ DeskInv'
<1>1. [Next]_vars
  BY ModerateIsReview
<1>2. TypeOK'
  BY <1>1, TypeNext DEF DeskInv, Tables
<1>3. RemovedStays
  BY <1>1, TakedownStep DEF DeskInv, Tables, RemovedStays
<1>4. stamp' \in [Records -> Nat]
  BY DEF Moderate, DeskInv, Tables
<1>5. World
  BY <1>3, SameItems, SameRows DEF DeskInv, Moderate, World
<1>6. Tables'
  BY <1>2, <1>4 DEF Moderate, DeskInv, Tables
<1>7. Slots'
  BY <1>5, KnowsStays DEF Moderate, DeskInv, Slots
<1> QED
  BY <1>5, <1>6, <1>7 DEF DeskInv
-----------------------------------------------------------------------------
(* Type correctness.                                                       *)

LEMMA DeskStarts == DeskInit => DeskInv
<1> SUFFICES ASSUME DeskInit
             PROVE  DeskInv
  OBVIOUS
<1>1. ItemsOK(items)
  <2>1. \A i \in DOMAIN items : items[i] \in Item
    BY StartAssumption, ElementOfSeq, DOMAIN items = 1..Len(items) DEF DeskInit
  <2> QED
    BY <2>1, StartAssumption DEF DeskInit, ItemsOK, Item, Targets
<1>2. Tables
  BY <1>1, TypeInit, ContributorsAssumption, StartAssumption DEF DeskInit, Tables
<1>3. Slots
  BY IdleDeskKnows DEF DeskInit, Slots, Knows
<1> QED
  BY <1>2, <1>3 DEF DeskInv

LEMMA DeskKeeps == DeskInv /\ [DeskNext]_deskVars => World /\ DeskInv'
<1> SUFFICES ASSUME DeskInv, [DeskNext]_deskVars
             PROVE  World /\ DeskInv'
  OBVIOUS
<1>1. CASE UNCHANGED deskVars
  <2>1. World
    BY <1>1, SameItems, SameRows DEF DeskInv, World, RemovedStays, deskVars, vars
  <2>2. Tables'
    BY <1>1, TypeStays DEF DeskInv, Tables, deskVars, vars, TypeOK
  <2>3. Slots'
    BY <1>1, <2>1, KnowsStays DEF DeskInv, Slots, deskVars
  <2> QED
    BY <2>1, <2>2, <2>3 DEF DeskInv
<1>2. ASSUME NEW s \in Desks, DeskStep(s)
      PROVE  World /\ DeskInv'
  BY <1>2, CheckPriorKeeps, InsertReportKeeps, DirectUpdateKeeps, LogDirectEditKeeps,
     InsertEditKeeps, EnqueueEditKeeps, FindItemRowKeeps, OpenItemRowKeeps, NoteKeeps,
     LookUpFirstKeeps, ReadTargetKeeps, DecideCorrectionKeeps, DecideEditKeeps DEF DeskStep
<1>3. ASSUME NEW s \in Desks, FailDesk(s)
      PROVE  World /\ DeskInv'
  BY <1>3, EndOnly DEF FailDesk
<1>4. ASSUME NEW s \in Desks, NEW c \in Contributors, NEW rec \in Targets, BeginReport(s, rec, c)
      PROVE  World /\ DeskInv'
  BY <1>4, BeginReportKeeps
<1>5. ASSUME NEW s \in Desks, NEW c \in Contributors, NEW rec \in Records, NEW edit \in Edits,
             BeginEdit(s, rec, c, edit)
      PROVE  World /\ DeskInv'
  BY <1>5, BeginEditKeeps
<1>6. ASSUME NEW s \in Desks, NEW i \in DOMAIN items, NEW w \in Reviewers, NEW p \in Payloads,
             BeginReview(s, i, w, p)
      PROVE  World /\ DeskInv'
  BY <1>6, BeginReviewKeeps
<1> QED
  BY <1>1, <1>2, <1>3, <1>4, <1>5, <1>6, EraseKeeps, ModerateKeeps DEF DeskNext

\* Whatever contributors, reviewers and erasures interleave, the tables are well typed; an
\* edit is never "reviewed" and a correction never "approved".
THEOREM DeskTypeCorrect == DeskSpec => []DeskTypeOK
<1> QED
  BY DeskStarts, DeskKeeps, InvByParts, PTL DEF DeskSpec

\* What a reviewer decided about a request is not decided again: two reviewers who both
\* read it pending, or one who read it before an erasure, leave the first verdict.
THEOREM VerdictsFinal == DeskSpec => ItemVerdictsAreFinal
<1>1. DeskInv /\ [DeskNext]_deskVars =>
        [\A i \in DOMAIN items : items[i].status # "pending" =>
            items'[i] = [items[i] EXCEPT !.by = items'[i].by]]_deskVars
  BY DeskKeeps DEF World, ItemsKept
<1> QED
  BY <1>1, DeskStarts, DeskKeeps, PTL DEF DeskSpec, ItemVerdictsAreFinal
-----------------------------------------------------------------------------
(* Which actions write what.                                               *)

\* A step that only reads, or begins or ends a request.
Quiet == UNCHANGED <<status, events, content, items, rows, trail>>

LEMMA QuietActions ==
    ASSUME NEW s
    PROVE  /\ CheckPriorRemoval(s) => Quiet
           /\ FindItemRow(s) => Quiet
           /\ LookUpFirst(s) => Quiet
           /\ ReadTarget(s) => Quiet
           /\ FailDesk(s) => Quiet
           /\ \A c, rec : BeginReport(s, rec, c) => Quiet
           /\ \A c, rec, edit : BeginEdit(s, rec, c, edit) => Quiet
           /\ \A i, w, p : BeginReview(s, i, w, p) => Quiet
<1>1. CheckPriorRemoval(s) => Quiet
  BY DEF CheckPriorRemoval, Quiet, vars
<1>2. FindItemRow(s) => Quiet
  BY DEF FindItemRow, Quiet, vars
<1>3. LookUpFirst(s) => Quiet
  BY DEF LookUpFirst, Quiet, vars
<1>4. ReadTarget(s) => Quiet
  BY DEF ReadTarget, Quiet, vars
<1>5. FailDesk(s) => Quiet
  BY DEF FailDesk, Quiet, vars
<1>6. \A c, rec : BeginReport(s, rec, c) => Quiet
  BY DEF BeginReport, Quiet, vars
<1>7. \A c, rec, edit : BeginEdit(s, rec, c, edit) => Quiet
  BY DEF BeginEdit, Quiet, vars
<1>8. \A i, w, p : BeginReview(s, i, w, p) => Quiet
  BY DEF BeginReview, Quiet, vars
<1> QED
  BY <1>1, <1>2, <1>3, <1>4, <1>5, <1>6, <1>7, <1>8

Writes(s) ==
    \/ InsertReport(s) \/ DirectUpdate(s) \/ LogDirectEdit(s) \/ InsertEdit(s)
    \/ EnqueueEdit(s) \/ OpenItemRow(s) \/ Note(s) \/ DecideCorrection(s) \/ DecideEdit(s)

LEMMA Writers ==
    ASSUME [DeskNext]_deskVars
    PROVE  Quiet \/ Moderate \/ (\E c \in Contributors : Erase(c)) \/ \E s \in Desks : Writes(s)
<1>1. CASE UNCHANGED deskVars
  BY <1>1 DEF deskVars, vars, Quiet
<1>2. ASSUME NEW s \in Desks, DeskStep(s)
      PROVE  Quiet \/ Writes(s)
  BY <1>2, QuietActions DEF DeskStep, Writes
<1>3. ASSUME NEW s \in Desks, NEW c \in Contributors,
             \/ \E rec \in Targets : BeginReport(s, rec, c)
             \/ \E rec \in Records, edit \in Edits : BeginEdit(s, rec, c, edit)
      PROVE  Quiet
  BY <1>3, QuietActions
<1>4. ASSUME NEW s \in Desks, \E i \in DOMAIN items, w \in Reviewers, p \in Payloads :
                                BeginReview(s, i, w, p)
      PROVE  Quiet
  BY <1>4, QuietActions
<1>5. ASSUME NEW s \in Desks, FailDesk(s)
      PROVE  Quiet
  BY <1>5, QuietActions
<1> QED
  BY <1>1, <1>2, <1>3, <1>4, <1>5 DEF DeskNext

LEMMA CameraWriters ==
    ASSUME [DeskNext]_deskVars
    PROVE  \/ status' = status /\ events' = events
           \/ Moderate
           \/ \E s \in Desks : LogDirectEdit(s) \/ DecideCorrection(s)
<1>1. ASSUME NEW s, \/ InsertReport(s) \/ DirectUpdate(s) \/ InsertEdit(s) \/ EnqueueEdit(s)
                    \/ OpenItemRow(s) \/ Note(s) \/ DecideEdit(s)
      PROVE  UNCHANGED vars
  BY <1>1 DEF InsertReport, DirectUpdate, InsertEdit, EnqueueEdit, OpenItemRow, Note, DecideEdit
<1>2. ASSUME NEW c, Erase(c)
      PROVE  UNCHANGED vars
  BY <1>2 DEF Erase
<1> QED
  BY <1>1, <1>2, Writers DEF Writes, Quiet, vars

LEMMA ItemWriters ==
    ASSUME [DeskNext]_deskVars
    PROVE  \/ items' = items
           \/ \E c \in Contributors : Erase(c)
           \/ \E s \in Desks : \/ InsertReport(s) \/ InsertEdit(s)
                               \/ DecideCorrection(s) \/ DecideEdit(s)
<1>1. ASSUME NEW s, \/ DirectUpdate(s) \/ LogDirectEdit(s) \/ EnqueueEdit(s)
                    \/ OpenItemRow(s) \/ Note(s)
      PROVE  items' = items
  BY <1>1 DEF DirectUpdate, LogDirectEdit, EnqueueEdit, OpenItemRow, Note
<1>2. Moderate => items' = items
  BY DEF Moderate
<1> QED
  BY <1>1, <1>2, Writers DEF Writes, Quiet

LEMMA TrailWriters ==
    ASSUME [DeskNext]_deskVars
    PROVE  \/ trail' = trail
           \/ \E s \in Desks : Note(s) \/ DecideCorrection(s) \/ DecideEdit(s)
<1>1. ASSUME NEW s, \/ InsertReport(s) \/ DirectUpdate(s) \/ LogDirectEdit(s) \/ InsertEdit(s)
                    \/ EnqueueEdit(s) \/ OpenItemRow(s)
      PROVE  trail' = trail
  BY <1>1 DEF InsertReport, DirectUpdate, LogDirectEdit, InsertEdit, EnqueueEdit, OpenItemRow
<1>2. Moderate \/ (\E c : Erase(c)) => trail' = trail
  BY DEF Moderate, Erase
<1> QED
  BY <1>1, <1>2, Writers DEF Writes, Quiet

LEMMA RowWriters ==
    ASSUME [DeskNext]_deskVars
    PROVE  \/ rows' = rows
           \/ \E s \in Desks : \/ EnqueueEdit(s) \/ OpenItemRow(s) \/ Note(s)
                               \/ DecideCorrection(s) \/ DecideEdit(s)
<1>1. ASSUME NEW s, \/ InsertReport(s) \/ DirectUpdate(s) \/ LogDirectEdit(s) \/ InsertEdit(s)
      PROVE  rows' = rows
  BY <1>1 DEF InsertReport, DirectUpdate, LogDirectEdit, InsertEdit
<1>2. Moderate \/ (\E c : Erase(c)) => rows' = rows
  BY DEF Moderate, Erase
<1> QED
  BY <1>1, <1>2, Writers DEF Writes, Quiet

LEMMA ContentWriters ==
    ASSUME [DeskNext]_deskVars
    PROVE  \/ content' = content
           \/ \E s \in Desks : DirectUpdate(s) \/ DecideEdit(s)
<1>1. ASSUME NEW s, \/ InsertReport(s) \/ LogDirectEdit(s) \/ InsertEdit(s) \/ EnqueueEdit(s)
                    \/ OpenItemRow(s) \/ Note(s) \/ DecideCorrection(s)
      PROVE  content' = content
  BY <1>1 DEF InsertReport, LogDirectEdit, InsertEdit, EnqueueEdit, OpenItemRow, Note,
              DecideCorrection
<1>2. Moderate \/ (\E c : Erase(c)) => content' = content
  BY DEF Moderate, Erase
<1> QED
  BY <1>1, <1>2, Writers DEF Writes, Quiet
-----------------------------------------------------------------------------
(* The records: takedowns and the audit trail.                             *)

LEMMA DeskTakedownStep ==
    ASSUME DeskInv, [DeskNext]_deskVars, NEW rec \in Records,
           status[rec] \in {"removed", "rejected"}
    PROVE  status'[rec] \in {status[rec], "removed"}
<1>1. CASE Moderate
  BY <1>1, ModerateIsReview, TakedownStep DEF DeskInv, Tables
<1>2. ASSUME NEW s \in Desks, DecideCorrection(s)
      PROVE  status'[rec] \in {status[rec], "removed"}
  BY <1>2, OutcomeLands DEF DeskInv, Tables, TypeOK
<1>3. ASSUME NEW s \in Desks, LogDirectEdit(s)
      PROVE  status' = status
  BY <1>3 DEF LogDirectEdit
<1> QED
  BY <1>1, <1>2, <1>3, CameraWriters

\* Also with corrections accepted meanwhile, whose outcomes are written to the camera
\* without its status being read again: at most a rejected record is taken down as well.
THEOREM DeskTakedownFinal == DeskSpec => TakedownStands
<1>1. DeskInv /\ [DeskNext]_deskVars =>
        [\A rec \in Records : status[rec] \in {"removed", "rejected"} =>
            status'[rec] \in {status[rec], "removed", "pending"}]_vars
  BY DeskTakedownStep
<1> QED
  BY <1>1, DeskStarts, DeskKeeps, PTL DEF DeskSpec, TakedownStands

LEMMA DeskTrailNext ==
    ASSUME DeskInv, StatusIsLastClaim, [DeskNext]_deskVars
    PROVE  StatusIsLastClaim'
<1>0. /\ TypeOK /\ events \in Seq(Event) /\ status \in [Records -> Statuses]
  BY DEF DeskInv, Tables, TypeOK
<1>1. CASE status' = status /\ events' = events
  BY <1>1 DEF StatusIsLastClaim, Claims
<1>2. CASE Moderate
  BY <1>0, <1>2, ModerateIsReview, TrailNext
<1>3. ASSUME NEW s \in Desks, LogDirectEdit(s)
      PROVE  StatusIsLastClaim'
  <2>1. Knows(desk[s], items, rows, status) /\ desk[s].pc = "log"
    BY <1>3 DEF DeskInv, Slots, LogDirectEdit, AtDesk
  <2>2. desk[s].rec \in Records
    BY <2>1 DEF Knows, Contributes
  <2>3. PICK e : e = [rec |-> desk[s].rec, from |-> "pending", to |-> "pending",
                      action |-> "edit_applied", who |-> NoReviewer, recused |-> FALSE,
                      appeal |-> 0]
    OBVIOUS
  <2>4. e \in Event /\ ~ClaimsChange(e)
    BY <2>2, <2>3 DEF Event, Statuses, EventActions, ClaimsChange
  <2>5. events' = Append(events, e) /\ status' = status
    BY <1>3, <2>3 DEF LogDirectEdit
  <2> QED
    BY <1>0, <2>4, <2>5, TrailGrows
<1>4. ASSUME NEW s \in Desks, DecideCorrection(s)
      PROVE  StatusIsLastClaim'
  <2>1. desk[s].pc = "decide" /\ desk[s].pc \in ReviewPCs /\ desk[s].pc \in RowPCs
    BY <1>4 DEF DecideCorrection, AtDesk, ReviewPCs, RowPCs
  <2>2. PICK d \in Desk : d = desk[s] /\ Holds(d, items, rows, status) /\ d.pc = "decide"
    BY <2>1, ReviewFacts
  <2>3. d.camera \in Statuses
    BY DEF Desk
  <2>4. {"removed", "needs_review"} \subseteq Statuses
        /\ {"removed", "marked-stale", "corrected"} \subseteq OutcomeActions
    BY DEF Statuses, OutcomeActions
  <2>5. ASSUME NEW rec \in Records, NEW to \in Statuses, NEW action \in OutcomeActions,
               events' = Append(events, CameraEvent(rec, d.camera, to, action)),
               \A r \in Records : r # rec => status'[r] = status[r],
               IF d.camera # to THEN status'[rec] = to ELSE status'[rec] = status[rec]
        PROVE  StatusIsLastClaim'
    <3>1. PICK e \in Event : e = CameraEvent(rec, d.camera, to, action)
      BY <2>3, CameraEventType
    <3>2. e.rec = rec /\ e.to = to /\ (ClaimsChange(e) <=> d.camera # to)
      BY <3>1 DEF CameraEvent, ClaimsChange, OutcomeActions
    <3> QED
      BY <1>0, <2>5, <3>1, <3>2, TrailGrows
  <2>6. CASE /\ d.rec \in Records
             /\ \E to \in {"removed", "needs_review"} :
                  /\ status' = [status EXCEPT ![d.rec] = to]
                  /\ events' = Append(events, CameraEvent(d.rec, d.camera, to, d.outcome))
                  /\ d.outcome = IF to = "removed" THEN "removed" ELSE "marked-stale"
                  /\ to = "needs_review" => d.camera = "active"
    <3>1. PICK to \in {"removed", "needs_review"} :
                  /\ status' = [status EXCEPT ![d.rec] = to]
                  /\ events' = Append(events, CameraEvent(d.rec, d.camera, to, d.outcome))
                  /\ d.outcome = IF to = "removed" THEN "removed" ELSE "marked-stale"
                  /\ to = "needs_review" => d.camera = "active"
      BY <2>6
    <3>2. d.camera = to => status[d.rec] = to
      BY <2>2, <3>1 DEF Holds
    <3>3. d.outcome \in OutcomeActions /\ to \in Statuses
      BY <2>4, <3>1
    <3>4. status'[d.rec] = to /\ \A r \in Records : r # d.rec => status'[r] = status[r]
      BY <1>0, <2>6, <3>1
    <3> QED
      BY <2>5, <2>6, <3>1, <3>2, <3>3, <3>4
  <2>7. CASE /\ d.rec \in Records /\ status' = status
             /\ events' = Append(events, CameraEvent(d.rec, d.camera, d.camera, "corrected"))
    BY <2>3, <2>4, <2>5, <2>7
  <2>8. CASE /\ d.rec \in Records /\ status' = status /\ status[d.rec] = "needs_review"
             /\ events' = Append(events, CameraEvent(d.rec, d.camera, "needs_review", "marked-stale"))
    BY <2>4, <2>5, <2>8
  <2> QED
    BY <1>1, <1>4, <2>2, <2>6, <2>7, <2>8, OutcomeLands
<1> QED
  BY <1>1, <1>2, <1>3, <1>4, CameraWriters

\* The outcome of a correction is written with what the reviewer's request read of the
\* camera, and the public trail still names the status every camera has.
THEOREM DeskTrailNamesStatus == DeskSpec => []StatusIsLastClaim
<1>1. DeskInit => StatusIsLastClaim
  BY DEF DeskInit, Init, StatusIsLastClaim, Claims
<1> QED
  BY <1>1, DeskTrailNext, DeskStarts, DeskKeeps, PTL DEF DeskSpec
-----------------------------------------------------------------------------
(* One open request.                                                       *)

LEMMA OneOpenNext ==
    ASSUME DeskInv, OneOpenRequest, [DeskNext]_deskVars
    PROVE  OneOpenRequest'
<1>0. Tables
  BY DEF DeskInv
<1>1. CASE items' = items
  BY <1>1 DEF OneOpenRequest
<1>2. ASSUME NEW c \in Contributors, Erase(c), items' # items
      PROVE  OneOpenRequest'
  <2>1. ErasureAdmitted(c) /\ items' = Disowned(c)
    BY <1>2 DEF Erase
  <2>2. DOMAIN items' = DOMAIN items
        /\ \A i \in DOMAIN items :
             /\ items'[i].entity = items[i].entity /\ items'[i].rec = items[i].rec
             /\ items'[i].status = items[i].status
             /\ items'[i].by = IF items[i].by = c THEN Anonymous ELSE items[i].by
    BY <1>0, <2>1, ItemFacts DEF Disowned, Item
  <2>3. \A i, j \in DOMAIN items :
          ~(/\ items[i].entity = "correction" /\ items[j].entity = "correction"
            /\ items[i].status = "pending" /\ items[j].status = "pending"
            /\ items[i].rec \in Records /\ items[i].rec = items[j].rec
            /\ items[i].by = c /\ items[j].by = Anonymous)
    BY <2>1 DEF ErasureAdmitted, OpenReports, Pending
  <2>4. \A i \in DOMAIN items : items[i].rec # NoRecord => items[i].rec \in Records
    BY <1>0, ItemFacts DEF Targets
  <2> QED
    BY <2>2, <2>3, <2>4 DEF OneOpenRequest
<1>3. ASSUME NEW s \in Desks, InsertReport(s), items' # items
      PROVE  OneOpenRequest'
  <2>1. PICK d \in Desk : d = desk[s]
    BY DEF DeskInv, Slots
  <2>2. /\ ReportAdmitted(d.rec, d.by)
        /\ items' = Append(items, NewItem("correction", d.rec, d.by, <<>>))
    BY <1>3, <2>1 DEF InsertReport
  <2>3. d.rec \in Targets /\ d.by \in Authors
    BY DEF Desk
  <2>4. /\ DOMAIN items' = DOMAIN items \cup {Len(items) + 1}
        /\ \A i \in DOMAIN items : items'[i] = items[i]
        /\ items'[Len(items) + 1] = NewItem("correction", d.rec, d.by, <<>>)
    BY <1>0, <2>2, <2>3, EmptyPatch, ItemAppended DEF Entities
  <2>5. d.rec # NoRecord => \A i \in DOMAIN items :
          ~(/\ items[i].entity = "correction" /\ items[i].status = "pending"
            /\ items[i].rec = d.rec /\ items[i].by = d.by)
    BY <2>2 DEF ReportAdmitted, OpenReports, Pending
  <2> QED
    BY <2>4, <2>5 DEF OneOpenRequest, NewItem
<1>4. ASSUME NEW s \in Desks, InsertEdit(s), items' # items
      PROVE  OneOpenRequest'
  <2>1. PICK d \in Desk : d = desk[s] /\ Knows(d, items, rows, status) /\ d.pc = "request"
    BY <1>4 DEF DeskInv, Slots, InsertEdit, AtDesk
  <2>2. /\ EditAdmitted(d.rec)
        /\ items' = Append(items, NewItem("camera_edit", d.rec, d.by, Proposal(d.patch)))
    BY <1>4, <2>1 DEF InsertEdit
  <2>3. d.rec \in Targets /\ d.by \in Authors /\ d.rec \in Records /\ Proposal(d.patch) \in AnyPatch
    BY <2>1, ProposalType DEF Desk, Knows, Contributes
  <2>4. /\ DOMAIN items' = DOMAIN items \cup {Len(items) + 1}
        /\ \A i \in DOMAIN items : items'[i] = items[i]
        /\ items'[Len(items) + 1] = NewItem("camera_edit", d.rec, d.by, Proposal(d.patch))
    BY <1>0, <2>2, <2>3, ItemAppended DEF Entities
  <2>5. \A i \in DOMAIN items : ~(/\ items[i].entity = "camera_edit"
                                  /\ items[i].status = "pending" /\ items[i].rec = d.rec)
    BY <2>2 DEF EditAdmitted, OpenEdits, Pending
  <2> QED
    BY <2>4, <2>5 DEF OneOpenRequest, NewItem
<1>5. ASSUME NEW s \in Desks, DecideCorrection(s) \/ DecideEdit(s), items' # items
      PROVE  OneOpenRequest'
  <2>1. AtDesk(s, "decide") /\ items' = ItemsAfter(s)
    BY <1>5 DEF DecideCorrection, DecideEdit
  <2>2. PICK d \in Desk : d = desk[s]
    BY DEF DeskInv, Slots
  <2>3. Reviews(d, items)
    BY <2>1, <2>2, ReviewFacts DEF AtDesk, ReviewPCs, RowPCs
  <2>4. /\ DOMAIN items' = DOMAIN items /\ d.item \in DOMAIN items
        /\ \A i \in DOMAIN items : i # d.item => items'[i] = items[i]
        /\ StillPending(s)
        /\ items'[d.item].status = Resolved(s) /\ items'[d.item].by = items[d.item].by
        /\ items'[d.item].entity = items[d.item].entity
        /\ d.link # NoRecord => items'[d.item].rec = d.link
    BY <1>5, <2>1, <2>2, ItemDecided
  <2>5. CASE Resolved(s) # "pending"
    BY <2>4, <2>5 DEF OneOpenRequest
  <2>6. CASE Resolved(s) = "pending"
    <3>1. d.action = "associate" /\ items[d.item].entity # "camera_edit"
      BY <2>2, <2>3, <2>6 DEF Resolved, IsEdit, Reviews
    <3>2. items[d.item].entity = "correction" /\ DecideCorrection(s)
      BY <1>0, <1>5, <2>2, <2>4, <3>1, ItemFacts DEF Entities, DecideEdit, IsEdit
    <3>3. LinkAdmitted(s)
      BY <1>5, <3>2 DEF DecideCorrection
    <3>4. \A i \in DOMAIN items : /\ items[i].entity = "correction" /\ items[i].status = "pending"
                                  /\ items[i].rec = d.rec /\ items[i].by = items[d.item].by
                                  => i = d.item
      BY <2>2, <2>4, <3>1, <3>3 DEF LinkAdmitted, OpenReports, Pending
    <3>5. items'[d.item].rec = d.rec
      BY <2>3, <2>4, <3>1 DEF Reviews
    <3> QED
      BY <2>4, <3>2, <3>4, <3>5 DEF OneOpenRequest
  <2> QED
    BY <2>5, <2>6
<1> QED
  BY <1>1, <1>2, <1>3, <1>4, <1>5, ItemWriters

\* However inserts, re-associations and erasures race, one author has one open report on a
\* record and a record has one open edit.
THEOREM RequestUnique == DeskSpec => []OneOpenRequest
<1>1. DeskInit => OneOpenRequest
  <2> SUFFICES ASSUME DeskInit
               PROVE  OneOpenRequest
    OBVIOUS
  <2> QED
    BY StartAssumption DEF DeskInit, OneOpenRequest
<1> QED
  BY <1>1, OneOpenNext, DeskStarts, DeskKeeps, PTL DEF DeskSpec
-----------------------------------------------------------------------------
(* Where the slots go.                                                     *)

Elsewhere(t) == \A s \in Desks : s # t => desk'[s] = desk[s]

LEMMA SlotWrites ==
    ASSUME DeskInv, NEW t \in Desks
    PROVE  /\ EndDesk(t) => Elsewhere(t) /\ desk'[t].pc = "idle"
           /\ \A pc : DeskGoto(t, pc) => /\ Elsewhere(t) /\ desk'[t].pc = pc
                                         /\ desk'[t] = [desk[t] EXCEPT !.pc = pc]
           /\ \A d : Started(t, d) => Elsewhere(t) /\ desk'[t] = d
           /\ \A q, row : DeskProceeds(t, q, row) => Elsewhere(t)
<1>1. EndDesk(t) => Elsewhere(t) /\ desk'[t].pc = "idle"
  BY IdleDeskKnows DEF EndDesk, DeskInv, Slots, Elsewhere
<1>2. ASSUME NEW pc, DeskGoto(t, pc)
      PROVE  Elsewhere(t) /\ desk'[t].pc = pc /\ desk'[t] = [desk[t] EXCEPT !.pc = pc]
  <2>1. PICK o \in Desk : o = desk[t]
    BY DEF DeskInv, Slots
  <2>2. desk' = [desk EXCEPT ![t] = [o EXCEPT !.pc = pc]]
    BY <1>2, <2>1 DEF DeskGoto, DeskInv, Slots
  <2>3. [o EXCEPT !.pc = pc].pc = pc
    BY DEF Desk
  <2> QED
    BY <2>1, <2>2, <2>3 DEF DeskInv, Slots, Elsewhere
<1>3. \A d : Started(t, d) => Elsewhere(t) /\ desk'[t] = d
  BY DEF Started, DeskInv, Slots, Elsewhere
<1>4. ASSUME NEW q, NEW row, DeskProceeds(t, q, row)
      PROVE  Elsewhere(t)
  BY <1>1, <1>4 DEF DeskProceeds, DeskInv, Slots, Elsewhere
<1> QED
  BY <1>1, <1>2, <1>3, <1>4

\* A step changes one slot at most, and four actions take a review to a row or beyond.
LEMMA SlotMoves ==
    ASSUME DeskInv, [DeskNext]_deskVars, NEW s \in Desks
    PROVE  \/ desk'[s] = desk[s]
           \/ desk'[s].pc \in {"idle", "prior", "insert", "log", "enqueue", "find"}
           \/ \E c \in Contributors, rec \in Records, edit \in Edits : BeginEdit(s, rec, c, edit)
           \/ FindItemRow(s) \/ OpenItemRow(s) \/ LookUpFirst(s) \/ ReadTarget(s)
<1> DEFINE Left == {"idle", "prior", "insert", "log", "enqueue", "find"}
<1>1. CASE desk' = desk
  BY <1>1
<1>2. ASSUME NEW t \in Desks,
             \/ InsertReport(t) \/ LogDirectEdit(t) \/ EnqueueEdit(t) \/ Note(t)
             \/ DecideCorrection(t) \/ DecideEdit(t) \/ FailDesk(t)
      PROVE  Elsewhere(t) /\ desk'[t].pc \in Left
  <2>1. EndDesk(t)
    BY <1>2 DEF InsertReport, LogDirectEdit, EnqueueEdit, Note, DecideCorrection, DecideEdit,
                FailDesk
  <2> QED
    BY <2>1, SlotWrites
<1>3. ASSUME NEW t \in Desks, CheckPriorRemoval(t) \/ DirectUpdate(t)
      PROVE  Elsewhere(t) /\ desk'[t].pc \in Left
  BY <1>3, SlotWrites DEF CheckPriorRemoval, DirectUpdate
<1>4. ASSUME NEW t \in Desks, InsertEdit(t)
      PROVE  Elsewhere(t) /\ desk'[t].pc \in Left
  <2>1. CASE EndDesk(t)
    BY <2>1, SlotWrites
  <2>2. CASE desk' = [desk EXCEPT ![t].pc = "enqueue", ![t].item = Len(items) + 1]
    BY <2>2 DEF DeskInv, Slots, Desk, Elsewhere
  <2> QED
    BY <1>4, <2>1, <2>2 DEF InsertEdit
<1>5. ASSUME NEW t \in Desks,
             FindItemRow(t) \/ OpenItemRow(t) \/ LookUpFirst(t) \/ ReadTarget(t)
      PROVE  Elsewhere(t)
  <2>1. CASE FindItemRow(t)
    BY <2>1, SlotWrites DEF FindItemRow
  <2>2. CASE OpenItemRow(t)
    BY <2>2, SlotWrites DEF OpenItemRow
  <2>3. CASE LookUpFirst(t)
    BY <2>3, SlotWrites DEF LookUpFirst
  <2>4. CASE ReadTarget(t)
    BY <2>4, SlotWrites DEF ReadTarget, DeskInv, Slots, Elsewhere
  <2> QED
    BY <1>5, <2>1, <2>2, <2>3, <2>4
<1>6. ASSUME NEW t \in Desks, NEW c \in Contributors, NEW rec \in Targets,
             BeginReport(t, rec, c)
      PROVE  Elsewhere(t) /\ desk'[t].pc \in Left
  <2>1. PICK pc \in {"insert", "prior"} :
          \/ Started(t, IdleDesk)
          \/ Started(t, [IdleDesk EXCEPT !.pc = pc, !.rec = rec, !.by = c])
    BY <1>6 DEF BeginReport
  <2>2. PICK d : Started(t, d) /\ (d = IdleDesk \/ d = [IdleDesk EXCEPT !.pc = pc, !.rec = rec, !.by = c])
    BY <2>1
  <2>3. IdleDesk \in Desk /\ IdleDesk.pc = "idle"
    BY IdleDeskKnows DEF Knows
  <2>4. d.pc \in Left
    BY <2>2, <2>3 DEF Desk
  <2> QED
    BY <2>2, <2>4, SlotWrites
<1>7. ASSUME NEW t \in Desks, NEW c \in Contributors, NEW rec \in Records, NEW edit \in Edits,
             BeginEdit(t, rec, c, edit)
      PROVE  Elsewhere(t)
  BY <1>7, SlotWrites DEF BeginEdit
<1>8. ASSUME NEW t \in Desks, NEW i \in DOMAIN items, NEW w \in Reviewers, NEW p \in Payloads,
             BeginReview(t, i, w, p)
      PROVE  Elsewhere(t) /\ desk'[t].pc \in Left
  <2>1. PICK d : d = [IdleDesk EXCEPT !.pc = "find", !.item = i, !.who = w, !.action = p.action,
                     !.outcome = p.outcome, !.recused = p.recused, !.asked = p.asked,
                     !.from = items[i].status, !.link = p.link,
                     !.rec = IF p.link = NoRecord THEN items[i].rec ELSE p.link]
    OBVIOUS
  <2>2. IdleDesk \in Desk
    BY IdleDeskKnows DEF Knows
  <2>3. d.pc = "find"
    BY <2>1, <2>2 DEF Desk
  <2>4. Started(t, d)
    BY <1>8, <2>1 DEF BeginReview
  <2> QED
    BY <2>3, <2>4, SlotWrites
<1>9. Moderate \/ (\E c : Erase(c)) \/ UNCHANGED deskVars => desk' = desk
  BY DEF Moderate, Erase, deskVars
<1>10. ASSUME NEW t \in Desks, DeskStep(t) \/ FailDesk(t)
       PROVE  \/ desk'[s] = desk[s] \/ desk'[s].pc \in Left
              \/ FindItemRow(s) \/ OpenItemRow(s) \/ LookUpFirst(s) \/ ReadTarget(s)
  BY <1>2, <1>3, <1>4, <1>5, <1>10 DEF DeskStep, Elsewhere
<1>11. CASE \E t \in Desks : DeskStep(t) \/ FailDesk(t)
  BY <1>10, <1>11
<1>12. ASSUME NEW t \in Desks, NEW c \in Contributors,
              \/ \E rec \in Targets : BeginReport(t, rec, c)
              \/ \E rec \in Records, edit \in Edits : BeginEdit(t, rec, c, edit)
       PROVE  \/ desk'[s] = desk[s] \/ desk'[s].pc \in Left
              \/ \E d \in Contributors, rec \in Records, edit \in Edits : BeginEdit(s, rec, d, edit)
  BY <1>6, <1>7, <1>12 DEF Elsewhere
<1>13. ASSUME NEW t \in Desks, NEW i \in DOMAIN items, NEW w \in Reviewers, NEW p \in Payloads,
              BeginReview(t, i, w, p)
       PROVE  desk'[s] = desk[s] \/ desk'[s].pc \in Left
  BY <1>8, <1>13 DEF Elsewhere
<1> HIDE DEF Left
<1>14. CASE DeskNext
  BY <1>1, <1>9, <1>11, <1>12, <1>13, <1>14 DEF DeskNext, Left
<1> QED
  BY <1>1, <1>9, <1>14
-----------------------------------------------------------------------------
(* Two-person reviews of requests.                                         *)

\* The inductive invariant: a row under second review has an intent on file, and so has
\* the request of every reviewer who goes on because of such a row.
RowsFiled == \A q \in DOMAIN rows :
    rows[q].state = "second_review" => ItemIntents(rows[q].item) # {}
FiledInv == RowsFiled /\ NoHastyItemDecision

LEMMA TrailAppended ==
    ASSUME DeskInv, [DeskNext]_deskVars
    PROVE  trail' = trail \/ \E e \in ItemEvent : trail' = Append(trail, e)
<1>1. ASSUME NEW s \in Desks, Note(s)
      PROVE  \E e \in ItemEvent : trail' = Append(trail, e)
  <2>1. desk[s].pc \in ReviewPCs
    BY <1>1 DEF Note, ReviewPCs, RowPCs
  <2>2. desk[s].from \in ItemStatuses
    BY <2>1, ReviewFacts DEF Desk
  <2>3. Noted(s, desk[s].from, AtDesk(s, "recuse")) \in ItemEvent
    BY <2>1, <2>2, NotedType DEF AtDesk
  <2> QED
    BY <1>1, <2>3 DEF Note
<1>2. ASSUME NEW s \in Desks, DecideCorrection(s) \/ DecideEdit(s)
      PROVE  trail' = trail \/ \E e \in ItemEvent : trail' = Append(trail, e)
  <2>1. Verdicted(s) \in ItemEvent
    BY <1>2, BatchType DEF DecideCorrection, DecideEdit
  <2>2. trail' = trail \/ trail' = Append(trail, Verdicted(s))
    BY <1>2 DEF DecideCorrection, DecideEdit
  <2> QED
    BY <2>1, <2>2
<1> QED
  BY <1>1, <1>2, TrailWriters

LEMMA ItemIntentsGrow ==
    ASSUME DeskInv, [DeskNext]_deskVars, NEW i
    PROVE  ItemIntents(i) \subseteq ItemIntents(i)'
<1>1. DOMAIN trail \subseteq DOMAIN trail' /\ \A n \in DOMAIN trail : trail'[n] = trail[n]
  <2>1. trail \in Seq(ItemEvent)
    BY DEF DeskInv, Tables
  <2>2. CASE trail' = trail
    BY <2>2
  <2>3. CASE \E e \in ItemEvent : trail' = Append(trail, e)
    BY <2>1, <2>3, AppendKeeps
  <2> QED
    BY <2>2, <2>3, TrailAppended
<1> QED
  BY <1>1 DEF ItemIntents

LEMMA RowsFiledNext ==
    ASSUME DeskInv, FiledInv, [DeskNext]_deskVars
    PROVE  RowsFiled'
<1>0. Tables
  BY DEF DeskInv
<1>1. ASSUME DOMAIN rows \subseteq DOMAIN rows',
             \A q \in DOMAIN rows' : rows'[q].state = "second_review" =>
                /\ q \in DOMAIN rows /\ rows'[q].item = rows[q].item
                /\ \/ rows[q].state = "second_review"
                   \/ \A i : i = rows[q].item => ItemIntents(i)' # {}
      PROVE  RowsFiled'
  <2> SUFFICES ASSUME NEW q \in DOMAIN rows', rows'[q].state = "second_review",
                      NEW i, i = rows'[q].item
               PROVE  ItemIntents(i)' # {}
    BY DEF RowsFiled, ItemIntents
  <2>1. q \in DOMAIN rows /\ rows[q].item = i
    BY <1>1
  <2>2. CASE rows[q].state = "second_review"
    BY <2>1, <2>2, ItemIntentsGrow DEF FiledInv, RowsFiled
  <2>3. CASE rows[q].state # "second_review"
    BY <1>1, <2>1, <2>3
  <2> QED
    BY <2>2, <2>3
<1>2. CASE rows' = rows
  BY <1>1, <1>2
<1>3. ASSUME NEW s \in Desks, EnqueueEdit(s) \/ OpenItemRow(s), rows' # rows
      PROVE  RowsFiled'
  <2>0. PICK d \in Desk : d = desk[s] /\ d.item \in Nat /\ d.asked \in BOOLEAN
    BY DEF DeskInv, Slots, Desk
  <2>1. PICK two \in BOOLEAN :
          rows' = Append(rows, [item |-> d.item, state |-> "queued", two |-> two])
    <3>1. CASE EnqueueEdit(s)
      BY <1>3, <2>0, <3>1 DEF EnqueueEdit
    <3>2. CASE OpenItemRow(s)
      BY <1>3, <2>0, <3>2 DEF OpenItemRow
    <3> QED
      BY <1>3, <3>1, <3>2
  <2>4. PICK row : row = [item |-> d.item, state |-> "queued", two |-> two]
    OBVIOUS
  <2>2. row \in ItemRow /\ row.state = "queued"
    BY <2>0, <2>4 DEF ItemRow, QueueStates
  <2>3. /\ DOMAIN rows' = DOMAIN rows \cup {Len(rows) + 1}
        /\ \A q \in DOMAIN rows : rows'[q] = rows[q]
        /\ rows'[Len(rows) + 1] = row
    BY <1>0, <2>1, <2>2, <2>4, RowAppended
  <2> QED
    BY <1>1, <2>2, <2>3
<1>4. ASSUME NEW s \in Desks, DecideCorrection(s) \/ DecideEdit(s), rows' # rows
      PROVE  RowsFiled'
  <2>1. rows' = RowAfter(desk[s].row, "closed") /\ AtDesk(s, "decide")
    BY <1>4 DEF DecideCorrection, DecideEdit
  <2>2. /\ DOMAIN rows' = DOMAIN rows
        /\ \A q \in DOMAIN rows : /\ rows'[q].item = rows[q].item
                                  /\ rows'[q].state \in {rows[q].state, "closed"}
    BY <1>0, <2>1, BatchType, RowAfterType DEF QueueStates
  <2> QED
    BY <1>1, <2>2
<1>5. ASSUME NEW s \in Desks, Note(s), rows' # rows
      PROVE  RowsFiled'
  <2>1. desk[s].pc \in ReviewPCs /\ desk[s].pc \in RowPCs
    BY <1>5 DEF Note, ReviewPCs, RowPCs
  <2>2. PICK d \in Desk : d = desk[s] /\ Holds(d, items, rows, status)
    BY <2>1, ReviewFacts
  <2>3. d.row \in DOMAIN rows /\ rows[d.row].item = d.item
    BY <2>2 DEF Holds
  <2>4. CASE d.pc = "escalate"
    <3>1. rows' = RowAfter(d.row, "escalated")
      BY <1>5, <2>2, <2>4 DEF Note, AtDesk
    <3>2. /\ DOMAIN rows' = DOMAIN rows
          /\ \A q \in DOMAIN rows : /\ rows'[q].item = rows[q].item
                                    /\ rows'[q].state \in {rows[q].state, "escalated"}
      BY <1>0, <2>3, <3>1, RowAfterType DEF QueueStates
    <3> QED
      BY <1>1, <3>2
  <2>5. CASE d.pc = "intent"
    <3>1. rows' = RowAfter(d.row, "second_review")
      BY <1>5, <2>2, <2>5 DEF Note, AtDesk
    <3>2. /\ DOMAIN rows' = DOMAIN rows
          /\ \A q \in DOMAIN rows : /\ rows'[q].item = rows[q].item
                                    /\ q # d.row => rows'[q].state = rows[q].state
      BY <1>0, <2>3, <3>1, RowAfterType DEF QueueStates
    <3>3. PICK e : e = Noted(s, desk[s].from, FALSE)
      OBVIOUS
    <3>4. trail' = Append(trail, e)
      BY <1>5, <2>2, <2>5, <3>3 DEF Note, AtDesk
    <3>5. /\ e \in ItemEvent /\ e.item = d.item /\ e.from = e.to /\ e.recused = FALSE
          /\ e.action \in SecondReviewActions
      <4>1. desk[s].from \in ItemStatuses
        BY <2>2 DEF Desk
      <4>2. e \in ItemEvent
        BY <2>1, <3>3, <4>1, NotedType
      <4> QED
        BY <2>2, <2>5, <3>3, <4>2 DEF Noted, Holds
    <3>6. Len(trail) + 1 \in DOMAIN trail' /\ trail'[Len(trail) + 1] = e
      BY <1>0, <3>4, <3>5, AppendKeeps DEF Tables
    <3>7. ASSUME NEW i, i = d.item
          PROVE  ItemIntents(i)' # {}
      BY <3>5, <3>6, <3>7 DEF ItemIntents
    <3> QED
      BY <1>1, <2>3, <3>2, <3>7
  <2> QED
    BY <1>5, <2>2, <2>4, <2>5 DEF Note, AtDesk
<1> QED
  BY <1>2, <1>3, <1>4, <1>5, RowWriters

Past == {"lookup", "target", "decide"}

LEMMA NoHastyNext ==
    ASSUME DeskInv, FiledInv, [DeskNext]_deskVars
    PROVE  NoHastyItemDecision'
<1>0. Tables
  BY DEF DeskInv
<1> SUFFICES ASSUME NEW s \in Desks, desk'[s].pc \in Past,
                    NeedsSecondReview(desk'[s].action, desk'[s].two),
                    NEW i, i = desk'[s].item
             PROVE  ItemIntents(i)' # {}
  BY DEF NoHastyItemDecision, ItemIntents, Past, NeedsSecondReview
\* The slot was there before, with the same request.
<1>1. ASSUME desk[s].pc \in Past, desk[s].item = i,
             NeedsSecondReview(desk[s].action, desk[s].two)
      PROVE  ItemIntents(i)' # {}
  <2>1. ItemIntents(desk[s].item) # {}
    BY <1>1 DEF FiledInv, NoHastyItemDecision, Past
  <2> QED
    BY <1>1, <2>1, ItemIntentsGrow
<1>2. CASE desk'[s] = desk[s]
  BY <1>1, <1>2
\* It comes from a row that was under second review.
<1>3. ASSUME desk[s].pc \in {"find", "open"}, NEW q \in Nat, NEW row \in ItemRow,
             DeskProceeds(s, q, row), NEW rws, q \in DOMAIN rws, rws[q].item = desk[s].item
      PROVE  row.state = "second_review" /\ desk[s].item = i
  <2>1. desk[s].pc \in ReviewPCs
    BY <1>3 DEF ReviewPCs
  <2>2. PICK d : /\ desk' = [desk EXCEPT ![s] = d]
                 /\ \/ d = IdleDesk
                    \/ /\ d.pc = NextDeskPC(s, row) /\ d.item = desk[s].item
                       /\ d.action = desk[s].action /\ d.two = row.two
    BY <1>3, ProceedsKnows
  <2>3. desk'[s] = d
    BY <2>2 DEF DeskInv, Slots
  <2>4. d # IdleDesk
    BY <2>3 DEF IdleDesk, Past
  <2>5. NextDeskPC(s, row) = "lookup"
    BY <2>1, <2>2, <2>3, <2>4, NextDeskPCType DEF Past
  <2> QED
    BY <2>1, <2>2, <2>3, <2>4, <2>5, NextDeskPCType
<1>4. CASE FindItemRow(s)
  <2>1. desk[s].pc = "find"
    BY <1>4 DEF FindItemRow, AtDesk
  <2>2. ~DeskGoto(s, "open")
    <3>1. desk'[s].pc # "open"
      BY DEF Past
    <3> QED
      BY <3>1, SlotWrites
  <2>3. PICK q \in OpenItemRows(desk[s].item) : DeskProceeds(s, q, rows[q])
    BY <1>4, <2>2 DEF FindItemRow
  <2>4. q \in DOMAIN rows /\ q \in Nat /\ rows[q] \in ItemRow /\ rows[q].item = desk[s].item
    BY <1>0, <2>3, RowFacts DEF OpenItemRows
  <2>5. rows[q].state = "second_review" /\ desk[s].item = i
    BY <1>3, <2>1, <2>3, <2>4
  <2>6. ItemIntents(rows[q].item) # {}
    BY <2>4, <2>5 DEF FiledInv, RowsFiled
  <2> QED
    BY <2>4, <2>5, <2>6, ItemIntentsGrow
<1>5. CASE OpenItemRow(s)
  <2>1. desk[s].pc = "open"
    BY <1>5 DEF OpenItemRow, AtDesk
  <2>2. PICK d \in Desk : d = desk[s] /\ d.item \in Nat /\ d.asked \in BOOLEAN
    BY DEF DeskInv, Slots, Desk
  <2>3. PICK row : row = [item |-> d.item, state |-> "queued", two |-> d.asked]
    OBVIOUS
  <2>4. row \in ItemRow /\ row.state = "queued" /\ row.item = d.item
    BY <2>2, <2>3 DEF ItemRow, QueueStates
  <2>5. CASE EndDesk(s)
    BY <2>5, SlotWrites DEF Past
  <2>6. CASE ~EndDesk(s)
    <3>1. rows' = Append(rows, row) /\ DeskProceeds(s, Len(rows) + 1, row)
      BY <1>5, <2>2, <2>3, <2>6 DEF OpenItemRow
    <3>2. Len(rows) + 1 \in Nat /\ Len(rows) + 1 \in DOMAIN rows' /\ rows'[Len(rows) + 1] = row
      BY <1>0, <2>4, <3>1, RowAppended
    <3> QED
      BY <1>3, <2>1, <2>2, <2>4, <3>1, <3>2
  <2> QED
    BY <2>5, <2>6
<1>6. CASE LookUpFirst(s)
  <2>1. desk[s].pc = "lookup" /\ desk[s] \in Desk
    BY <1>6 DEF LookUpFirst, AtDesk, DeskInv, Slots
  <2>2. DeskGoto(s, Verdict(s))
    BY <1>6, SlotWrites DEF LookUpFirst, Past
  <2>3. desk'[s] = [desk[s] EXCEPT !.pc = Verdict(s)]
    BY <2>2, SlotWrites
  <2>4. desk'[s].item = desk[s].item /\ desk'[s].action = desk[s].action /\ desk'[s].two = desk[s].two
    BY <2>1, <2>3 DEF Desk
  <2> QED
    BY <1>1, <2>1, <2>4 DEF Past
<1>7. CASE ReadTarget(s)
  <2>1. desk[s].pc = "target" /\ desk[s] \in Desk
    BY <1>7 DEF ReadTarget, AtDesk, DeskInv, Slots
  <2>2. ~EndDesk(s)
    BY SlotWrites DEF Past
  <2>3. PICK camera : desk' = [desk EXCEPT ![s].pc = "decide", ![s].camera = camera]
    BY <1>7, <2>2 DEF ReadTarget
  <2>4. desk'[s].item = desk[s].item /\ desk'[s].action = desk[s].action /\ desk'[s].two = desk[s].two
    BY <2>1, <2>3 DEF Desk, DeskInv, Slots
  <2> QED
    BY <1>1, <2>1, <2>4 DEF Past
<1>8. CASE \E c \in Contributors, rec \in Records, edit \in Edits : BeginEdit(s, rec, c, edit)
  <2>1. PICK c \in Contributors, rec \in Records, edit \in Edits : BeginEdit(s, rec, c, edit)
    BY <1>8
  <2>2. PICK d : /\ desk' = [desk EXCEPT ![s] = d]
                 /\ d = IdleDesk \/ d.pc \in {"update", "request"}
    BY <2>1, EditBegins
  <2>3. desk'[s].pc \in {"idle", "update", "request"}
    BY <2>2, IdleDeskKnows DEF DeskInv, Slots
  <2> QED
    BY <2>3 DEF Past
<1>9. desk'[s].pc \notin {"idle", "prior", "insert", "log", "enqueue", "find"}
  BY DEF Past
<1> QED
  BY <1>2, <1>4, <1>5, <1>6, <1>7, <1>8, <1>9, SlotMoves

\* Nobody gets to the batch that resolves a two-person request before an earlier request
\* put an intent for it on file, whatever rows were opened or closed meanwhile.
THEOREM RequestsNeverHasty == DeskSpec => []NoHastyItemDecision
<1>1. DeskInit => FiledInv
  BY DEF DeskInit, FiledInv, RowsFiled, NoHastyItemDecision, IdleDesk
<1>2. FiledInv /\ DeskInv /\ [DeskNext]_deskVars => FiledInv'
  BY RowsFiledNext, NoHastyNext DEF FiledInv
<1>3. FiledInv => NoHastyItemDecision
  BY DEF FiledInv
<1> QED
  BY <1>1, <1>2, <1>3, DeskStarts, DeskKeeps, PTL DEF DeskSpec
-----------------------------------------------------------------------------
(* What accepted edits and edits of pending records leave in a record.     *)

LEMMA AppliedStep ==
    ASSUME DeskInv, [DeskNext]_deskVars, NEW i \in DOMAIN items,
           items[i].status = "pending", items'[i].status = "approved"
    PROVE  LET new == content'[items[i].rec] IN
           \A c \in DOMAIN items[i].patch :
             new[c] = items[i].patch[c] \/ (c = "bearing" /\ new.kind = Dome)
<1>0. Tables
  BY DEF DeskInv
<1>1. ASSUME NEW c \in Contributors, Erase(c)
      PROVE  FALSE
  <2>1. items' = items \/ items' = Disowned(c)
    BY <1>1 DEF Erase
  <2> QED
    BY <1>0, <2>1, ItemFacts DEF Disowned, Item
<1>2. ASSUME NEW s \in Desks, InsertReport(s)
      PROVE  FALSE
  <2>1. desk[s].rec \in Targets /\ desk[s].by \in Authors
    BY DEF DeskInv, Slots, Desk
  <2> QED
    BY <1>0, <1>2, <2>1, EmptyPatch, ItemAppended DEF InsertReport, Entities
<1>3. ASSUME NEW s \in Desks, InsertEdit(s)
      PROVE  FALSE
  <2>1. Knows(desk[s], items, rows, status) /\ desk[s].pc = "request" /\ desk[s] \in Desk
    BY <1>3 DEF DeskInv, Slots, InsertEdit, AtDesk
  <2>2. /\ desk[s].rec \in Records /\ desk[s].rec \in Targets /\ desk[s].by \in Authors
        /\ Proposal(desk[s].patch) \in AnyPatch
    BY <2>1, ProposalType DEF Knows, Contributes, Desk
  <2>3. \/ items' = items
        \/ items' = Append(items, NewItem("camera_edit", desk[s].rec, desk[s].by, Proposal(desk[s].patch)))
    BY <1>3 DEF InsertEdit
  <2> QED
    BY <1>0, <2>2, <2>3, ItemAppended DEF Entities
<1>4. ASSUME NEW s \in Desks, DecideCorrection(s)
      PROVE  FALSE
  <2>1. AtDesk(s, "decide") /\ ~IsEdit(s) /\ (items' = items \/ items' = ItemsAfter(s))
    BY <1>4 DEF DecideCorrection
  <2>2. Resolved(s) # "approved"
    BY <2>1 DEF Resolved
  <2>3. items' = ItemsAfter(s)
    BY <2>1
  <2> QED
    BY <2>1, <2>2, <2>3, ItemDecided
<1>5. ASSUME NEW s \in Desks, DecideEdit(s)
      PROVE  LET new == content'[items[i].rec] IN
             \A c \in DOMAIN items[i].patch :
               new[c] = items[i].patch[c] \/ (c = "bearing" /\ new.kind = Dome)
  <2>1. AtDesk(s, "decide") /\ IsEdit(s) /\ items' = ItemsAfter(s)
    BY <1>5 DEF DecideEdit
  <2>2. PICK d \in Desk : d = desk[s]
    BY DEF DeskInv, Slots
  <2>3. i = d.item /\ Resolved(s) = "approved"
    BY <2>1, <2>2, ItemDecided
  <2>4. d.rec = items[i].rec /\ d.rec \in Records /\ Reviews(d, items)
    BY <2>1, <2>2, <2>3, ReviewFacts DEF AtDesk, ReviewPCs, RowPCs
  <2>5. d.action = "approve"
    BY <2>1, <2>2, <2>3, <2>4 DEF Reviews, Resolved, IsEdit
  <2>6. PICK rec \in Records : rec = items[i].rec
    BY <2>4
  <2>7. content' = [content EXCEPT ![rec] = Applied(content[rec], items[i].patch)]
    BY <1>5, <2>2, <2>3, <2>4, <2>5, <2>6 DEF DecideEdit
  <2>8. content'[rec] = Applied(content[rec], items[i].patch)
    BY <1>0, <2>7 DEF Tables
  <2>9. content[rec] \in [Columns -> Values] /\ items[i].patch \in AnyPatch
    BY <1>0, ItemFacts DEF Tables
  <2> QED
    BY <2>6, <2>8, <2>9, AppliedType
<1> QED
  BY <1>1, <1>2, <1>3, <1>4, <1>5, ItemWriters

\* An edit that ends up accepted is on its record in the same step, whichever other edit of
\* the record, by its author or by a reviewer, was written before.
THEOREM AcceptedIsApplied == DeskSpec => ApprovedIsApplied
<1>1. DeskInv /\ [DeskNext]_deskVars =>
        [\A i \in DOMAIN items :
            items[i].status = "pending" /\ items'[i].status = "approved" =>
              LET new == content'[items[i].rec] IN
              \A c \in DOMAIN items[i].patch :
                new[c] = items[i].patch[c] \/ (c = "bearing" /\ new.kind = Dome)]_deskVars
  BY AppliedStep
<1> QED
  BY <1>1, DeskStarts, DeskKeeps, PTL DEF DeskSpec, ApprovedIsApplied

\* Every write to the columns of a record also moves its stamp, and nothing moves it back.
LEMMA StampGrows ==
    ASSUME DeskInv, [DeskNext]_deskVars, NEW rec \in Records
    PROVE  /\ stamp[rec] \in Nat /\ stamp'[rec] \in Nat /\ stamp[rec] <= stamp'[rec]
           /\ content'[rec] # content[rec] => stamp[rec] < stamp'[rec]
<1>0. stamp \in [Records -> Nat] /\ content \in [Records -> [Columns -> Values]]
  BY DEF DeskInv, Tables
<1>1. ASSUME NEW at, stamp' = stamp \/ Touched(at),
             content'[rec] # content[rec] => rec = at /\ Touched(at)
      PROVE  /\ stamp'[rec] \in Nat /\ stamp[rec] <= stamp'[rec]
             /\ content'[rec] # content[rec] => stamp[rec] < stamp'[rec]
  BY <1>0, <1>1 DEF Touched
<1>2. CASE Moderate
  BY <1>0, <1>2 DEF Moderate
<1>3. ASSUME NEW s \in Desks, DirectUpdate(s)
      PROVE  /\ stamp' = stamp \/ Touched(desk[s].rec)
             /\ content'[rec] # content[rec] => rec = desk[s].rec /\ Touched(desk[s].rec)
  <2>1. CASE content' = content /\ stamp' = stamp
    BY <2>1
  <2>2. CASE content' = [content EXCEPT ![desk[s].rec] = Patched(content[desk[s].rec], desk[s].patch)]
             /\ Touched(desk[s].rec)
    BY <1>0, <2>2
  <2> QED
    BY <1>3, <2>1, <2>2 DEF DirectUpdate
<1>4. ASSUME NEW s \in Desks, DecideEdit(s)
      PROVE  /\ stamp' = stamp \/ Touched(desk[s].rec)
             /\ content'[rec] # content[rec] => rec = desk[s].rec /\ Touched(desk[s].rec)
  <2>1. CASE content' = content /\ stamp' = stamp
    BY <2>1
  <2>2. CASE content' = [content EXCEPT ![desk[s].rec] = Applied(content[desk[s].rec], items[desk[s].item].patch)]
             /\ Touched(desk[s].rec)
    BY <1>0, <2>2
  <2> QED
    BY <1>4, <2>1, <2>2 DEF DecideEdit
<1>5. ASSUME NEW s \in Desks, DecideCorrection(s)
      PROVE  content' = content /\ (stamp' = stamp \/ Touched(desk[s].rec))
  BY <1>5 DEF DecideCorrection
<1>6. ASSUME \/ UNCHANGED deskVars \/ \E c : Erase(c)
             \/ \E s : \/ InsertReport(s) \/ LogDirectEdit(s) \/ InsertEdit(s)
                       \/ EnqueueEdit(s) \/ OpenItemRow(s) \/ Note(s)
      PROVE  content' = content /\ stamp' = stamp
  BY <1>6 DEF InsertReport, LogDirectEdit, InsertEdit, EnqueueEdit, OpenItemRow, Note, Erase,
              deskVars
<1>7. ASSUME NEW s, \/ CheckPriorRemoval(s) \/ FindItemRow(s) \/ LookUpFirst(s)
                    \/ ReadTarget(s) \/ FailDesk(s)
      PROVE  content' = content /\ stamp' = stamp
  BY <1>7 DEF CheckPriorRemoval, FindItemRow, LookUpFirst, ReadTarget, FailDesk
<1>8. ASSUME NEW s, \/ \E c, r : BeginReport(s, r, c)
                    \/ \E c, r, edit : BeginEdit(s, r, c, edit)
                    \/ \E i, w, p : BeginReview(s, i, w, p)
      PROVE  content' = content /\ stamp' = stamp
  BY <1>8 DEF BeginReport, BeginEdit, BeginReview
<1>9. ASSUME NEW s \in Desks, DeskStep(s)
      PROVE  /\ stamp'[rec] \in Nat /\ stamp[rec] <= stamp'[rec]
             /\ content'[rec] # content[rec] => stamp[rec] < stamp'[rec]
  BY <1>1, <1>3, <1>4, <1>5, <1>6, <1>7, <1>9 DEF DeskStep
<1>10. CASE content' = content /\ stamp' = stamp
  BY <1>0, <1>10
<1> QED
  BY <1>0, <1>2, <1>6, <1>7, <1>8, <1>9, <1>10 DEF DeskNext

NoBearing(row) == row.kind = Dome => row.bearing = Null

\* An edit by the author that is about to be written was computed on the record as it
\* is, or the stamp it will be checked against has moved.
FreshEdits == \A s \in Desks :
    desk[s].pc = "update" =>
      /\ desk[s].guarded /\ desk[s].seen \in Nat /\ desk[s].seen <= stamp[desk[s].rec]
      /\ stamp[desk[s].rec] = desk[s].seen =>
           NoBearing(Patched(content[desk[s].rec], desk[s].patch))
DomeInv == DomeHasNoBearing /\ FreshEdits

LEMMA DomeNext ==
    ASSUME \A e \in Edits : e.guarded, DeskInv, DomeInv, [DeskNext]_deskVars
    PROVE  DomeInv'
<1>0. content \in [Records -> [Columns -> Values]] /\ stamp \in [Records -> Nat]
  BY DEF DeskInv, Tables
<1>1. ASSUME NEW rec \in Records, NoBearing(content[rec])
      PROVE  NoBearing(content'[rec])
  <2>1. CASE content' = content
    BY <1>1, <2>1
  <2>2. ASSUME NEW s \in Desks, DirectUpdate(s)
        PROVE  NoBearing(content'[rec])
    <3>1. PICK d \in Desk : d = desk[s] /\ d.pc = "update" /\ d.rec \in Records
      BY <2>2 DEF DeskInv, Slots, DirectUpdate, AtDesk, Knows, Contributes
    <3>2. CASE content' = content
      BY <1>1, <3>2
    <3>3. CASE /\ Unmoved(s)
               /\ content' = [content EXCEPT ![d.rec] = Patched(content[d.rec], d.patch)]
      <4>1. stamp[d.rec] = d.seen /\ NoBearing(Patched(content[d.rec], d.patch))
        BY <3>1, <3>3 DEF Unmoved, DomeInv, FreshEdits
      <4> QED
        BY <1>0, <1>1, <3>1, <3>3, <4>1
    <3> QED
      BY <2>2, <3>1, <3>2, <3>3 DEF DirectUpdate
  <2>3. ASSUME NEW s \in Desks, DecideEdit(s)
        PROVE  NoBearing(content'[rec])
    <3>1. PICK d \in Desk : d = desk[s] /\ d.rec \in Records
      BY <2>3, ReviewFacts DEF DeskInv, Slots, DecideEdit, AtDesk, ReviewPCs, RowPCs
    <3>2. PICK patch \in AnyPatch : patch = items[d.item].patch
      BY <2>3, <3>1, BatchType, ItemFacts DEF DecideEdit, DeskInv
    <3>3. NoBearing(Applied(content[d.rec], patch))
      BY <1>0, <3>1, AppliedType DEF NoBearing
    <3>4. \/ content' = content
          \/ content' = [content EXCEPT ![d.rec] = Applied(content[d.rec], patch)]
      BY <2>3, <3>1, <3>2 DEF DecideEdit
    <3> QED
      BY <1>0, <1>1, <3>1, <3>3, <3>4
  <2> QED
    BY <2>1, <2>2, <2>3, ContentWriters
<1>2. DomeHasNoBearing'
  BY <1>1 DEF DomeInv, DomeHasNoBearing, NoBearing
<1>3. ASSUME NEW s \in Desks, NEW d \in Desk, d.pc = "update", d.rec \in Records, d.guarded,
             d.seen <= stamp[d.rec],
             stamp[d.rec] = d.seen => NoBearing(Patched(content[d.rec], d.patch))
      PROVE  /\ d.guarded /\ d.seen \in Nat /\ d.seen <= stamp'[d.rec]
             /\ stamp'[d.rec] = d.seen => NoBearing(Patched(content'[d.rec], d.patch))
  <2>1. d.seen \in Nat
    BY DEF Desk
  <2>2. /\ stamp[d.rec] \in Nat /\ stamp'[d.rec] \in Nat /\ stamp[d.rec] <= stamp'[d.rec]
        /\ content'[d.rec] # content[d.rec] => stamp[d.rec] < stamp'[d.rec]
    BY <1>3, StampGrows
  <2> QED
    BY <1>3, <2>1, <2>2
<1>4. ASSUME NEW s \in Desks, desk'[s].pc = "update"
      PROVE  \E d \in Desk : /\ desk'[s] = d /\ d.rec \in Records /\ d.guarded
                             /\ d.seen <= stamp[d.rec]
                             /\ stamp[d.rec] = d.seen =>
                                  NoBearing(Patched(content[d.rec], d.patch))
  <2>1. CASE desk'[s] = desk[s]
    <3>1. desk[s].rec \in Records /\ desk[s] \in Desk
      BY <1>4, <2>1 DEF DeskInv, Slots, Knows, Contributes
    <3> QED
      BY <1>4, <2>1, <3>1 DEF DomeInv, FreshEdits
  <2>2. ASSUME NEW c \in Contributors, NEW rec \in Records, NEW edit \in Edits,
               BeginEdit(s, rec, c, edit)
        PROVE  \E d \in Desk : /\ desk'[s] = d /\ d.rec \in Records /\ d.guarded
                               /\ d.seen <= stamp[d.rec]
                               /\ stamp[d.rec] = d.seen =>
                                    NoBearing(Patched(content[d.rec], d.patch))
    <3>1. PICK d \in Desk :
             /\ desk' = [desk EXCEPT ![s] = d]
             /\ \/ d = IdleDesk
                \/ /\ d.pc \in {"update", "request"} /\ d.rec = rec /\ d.by = c
                   /\ d.patch = Diff(content[rec], edit.patch)
                   /\ d.guarded = edit.guarded /\ d.seen = stamp[rec]
      BY <2>2, EditBegins
    <3>2. desk'[s] = d
      BY <3>1 DEF DeskInv, Slots
    <3>3. d.rec = rec /\ d.patch = Diff(content[rec], edit.patch) /\ d.guarded /\ d.seen = stamp[rec]
      BY <1>4, <3>1, <3>2, IdleDeskKnows
    <3>4. edit.patch \in AnyPatch
      BY ContributorsAssumption DEF Edit
    <3>5. NoBearing(Patched(content[rec], d.patch))
      BY <1>0, <3>3, <3>4, DiffType DEF DomeInv, DomeHasNoBearing, NoBearing
    <3>6. d.seen <= stamp[rec]
      BY <1>0, <3>3
    <3> QED
      BY <3>2, <3>3, <3>5, <3>6
  <2>3. ~(FindItemRow(s) \/ OpenItemRow(s) \/ LookUpFirst(s) \/ ReadTarget(s))
    <3>1. ASSUME desk[s].pc \in ReviewPCs
          PROVE  ~(\E q \in Nat, row \in ItemRow : \E rws :
                     /\ desk[s].pc \in {"find", "open"} /\ DeskProceeds(s, q, row)
                     /\ q \in DOMAIN rws /\ rws[q].item = desk[s].item)
      <4> SUFFICES ASSUME NEW q \in Nat, NEW row \in ItemRow, NEW rws,
                          desk[s].pc \in {"find", "open"}, DeskProceeds(s, q, row),
                          q \in DOMAIN rws, rws[q].item = desk[s].item
                   PROVE  FALSE
        OBVIOUS
      <4>1. PICK d : /\ desk' = [desk EXCEPT ![s] = d]
                     /\ d = IdleDesk \/ d.pc = NextDeskPC(s, row)
        BY ProceedsKnows
      <4>2. desk'[s] = d
        BY <4>1 DEF DeskInv, Slots
      <4>3. NextDeskPC(s, row) \in RowPCs \cup {"idle"}
        BY <3>1, NextDeskPCType
      <4> QED
        BY <1>4, <4>1, <4>2, <4>3, IdleDeskKnows DEF RowPCs
    <3>2. ~FindItemRow(s)
      <4> SUFFICES ASSUME FindItemRow(s)
                   PROVE  FALSE
        OBVIOUS
      <4>1. desk[s].pc = "find" /\ desk[s].pc \in ReviewPCs
        BY DEF FindItemRow, AtDesk, ReviewPCs
      <4>2. ~DeskGoto(s, "open")
        BY <1>4, SlotWrites
      <4>3. PICK q \in OpenItemRows(desk[s].item) : DeskProceeds(s, q, rows[q])
        BY <4>2 DEF FindItemRow
      <4>4. q \in DOMAIN rows /\ q \in Nat /\ rows[q] \in ItemRow /\ rows[q].item = desk[s].item
        BY <4>3, RowFacts DEF OpenItemRows, DeskInv
      <4> QED
        BY <3>1, <4>1, <4>3, <4>4
    <3>3. ~OpenItemRow(s)
      <4> SUFFICES ASSUME OpenItemRow(s)
                   PROVE  FALSE
        OBVIOUS
      <4>1. desk[s].pc = "open" /\ desk[s].pc \in ReviewPCs /\ ~EndDesk(s)
        BY <1>4, SlotWrites DEF OpenItemRow, AtDesk, ReviewPCs
      <4>2. PICK d \in Desk : d = desk[s] /\ d.item \in Nat /\ d.asked \in BOOLEAN
        BY DEF DeskInv, Slots, Desk
      <4>3. PICK row : row = [item |-> d.item, state |-> "queued", two |-> d.asked]
        OBVIOUS
      <4>4. row \in ItemRow /\ row.item = d.item
        BY <4>2, <4>3 DEF ItemRow, QueueStates
      <4>5. rows' = Append(rows, row) /\ DeskProceeds(s, Len(rows) + 1, row)
        BY <4>1, <4>2, <4>3 DEF OpenItemRow
      <4>6. Len(rows) + 1 \in Nat /\ Len(rows) + 1 \in DOMAIN rows' /\ rows'[Len(rows) + 1] = row
        BY <4>4, <4>5, RowAppended DEF DeskInv
      <4> QED
        BY <3>1, <4>1, <4>2, <4>4, <4>5, <4>6
    <3>4. ~LookUpFirst(s)
      <4>1. Verdict(s) \in {"target", "decide"}
        BY DEF Verdict
      <4>2. ~DeskGoto(s, Verdict(s)) /\ ~EndDesk(s)
        BY <1>4, <4>1, SlotWrites
      <4> QED
        BY <4>2 DEF LookUpFirst
    <3>5. ~ReadTarget(s)
      <4>1. PICK o \in Desk : o = desk[s]
        BY DEF DeskInv, Slots
      <4>2. ASSUME NEW camera, desk' = [desk EXCEPT ![s].pc = "decide", ![s].camera = camera]
            PROVE  desk'[s].pc = "decide"
        <5>1. desk'[s] = [o EXCEPT !.pc = "decide", !.camera = camera]
          BY <4>1, <4>2 DEF DeskInv, Slots, Desk
        <5> QED
          BY <5>1 DEF Desk
      <4> QED
        BY <1>4, <4>2, SlotWrites DEF ReadTarget
    <3> QED
      BY <3>2, <3>3, <3>4, <3>5
  <2> QED
    BY <1>4, <2>1, <2>2, <2>3, SlotMoves
<1>5. FreshEdits'
  <2> SUFFICES ASSUME NEW s \in Desks, desk'[s].pc = "update"
               PROVE  /\ desk'[s].guarded /\ desk'[s].seen \in Nat
                      /\ desk'[s].seen <= stamp'[desk'[s].rec]
                      /\ stamp'[desk'[s].rec] = desk'[s].seen =>
                           NoBearing(Patched(content'[desk'[s].rec], desk'[s].patch))
    BY DEF FreshEdits
  <2>1. PICK d \in Desk : /\ desk'[s] = d /\ d.rec \in Records /\ d.guarded
                          /\ d.seen <= stamp[d.rec]
                          /\ stamp[d.rec] = d.seen => NoBearing(Patched(content[d.rec], d.patch))
    BY <1>4
  <2> QED
    BY <1>3, <2>1
<1> QED
  BY <1>2, <1>5 DEF DomeInv

\* If the clients of owners send the stamp they saw, as the edit page does, no interleaving
\* of edits by the owner and edits a reviewer accepts leaves a dome with a bearing.
THEOREM DomesBare ==
    ASSUME \A e \in Edits : e.guarded
    PROVE  DeskSpec => []DomeHasNoBearing
<1>1. DeskInit => DomeInv
  BY StartAssumption DEF DeskInit, DomeInv, DomeHasNoBearing, FreshEdits, IdleDesk
<1>2. DeskInv /\ DomeInv /\ [DeskNext]_deskVars => DomeInv'
  BY DomeNext
<1>3. DomeInv => DomeHasNoBearing
  BY DEF DomeInv
<1> QED
  BY <1>1, <1>2, <1>3, DeskStarts, DeskKeeps, PTL DEF DeskSpec
-----------------------------------------------------------------------------
(* The private trail, and erased accounts.                                 *)

\* Whatever reviewers raced over a request, a pending one has no deciding event and the
\* last deciding event of another names its status.
TrailOf(its, t) == \A i \in DOMAIN its :
    LET deciding == {n \in DOMAIN t : t[n].item = i /\ t[n].from # t[n].to} IN
    /\ its[i].status = "pending" => deciding = {}
    /\ \A n \in deciding : (\A m \in deciding : m <= n) => t[n].to = its[i].status

LEMMA TrailOfTrail == ItemTrailAgrees <=> TrailOf(items, trail)
BY DEF ItemTrailAgrees, TrailOf, Deciding

\* One more event: it decides nothing, or it names the status its request has by then.
LEMMA ItemTrailGrows ==
    ASSUME TrailOf(items, trail), trail \in Seq(ItemEvent), NEW its,
           NEW e \in ItemEvent, NEW t, t = Append(trail, e), e.item \in DOMAIN its,
           \A i \in DOMAIN its : i # e.item \/ e.from = e.to =>
             i \in DOMAIN items /\ its[i].status = items[i].status,
           e.from # e.to => its[e.item].status = e.to /\ e.to # "pending"
    PROVE  TrailOf(its, t)
<1> DEFINE new == Len(trail) + 1
           Of(i) == {n \in DOMAIN trail : trail[n].item = i /\ trail[n].from # trail[n].to}
           OfNew(i) == {n \in DOMAIN t : t[n].item = i /\ t[n].from # t[n].to}
<1>1. /\ DOMAIN t = DOMAIN trail \cup {new} /\ new \notin DOMAIN trail
      /\ \A n \in DOMAIN trail : t[n] = trail[n] /\ n < new
      /\ t[new] = e
  BY AppendKeeps
<1>2. new \in Nat /\ \A n \in DOMAIN trail : n \in Nat
  BY LenProperties, DOMAIN trail = 1..Len(trail)
<1> HIDE DEF new
<1> SUFFICES ASSUME NEW i \in DOMAIN its
             PROVE  /\ its[i].status = "pending" => OfNew(i) = {}
                    /\ \A n \in OfNew(i) : (\A m \in OfNew(i) : m <= n) => t[n].to = its[i].status
  BY DEF TrailOf
<1>3. CASE i = e.item /\ e.from # e.to
  <2>1. new \in OfNew(i)
    BY <1>1, <1>3
  <2>2. \A n \in OfNew(i) : (\A m \in OfNew(i) : m <= n) => n = new
    BY <1>1, <1>2, <2>1
  <2> QED
    BY <1>1, <1>3, <2>2
<1>4. CASE ~(i = e.item /\ e.from # e.to)
  <2>1. i \in DOMAIN items /\ its[i].status = items[i].status
    BY <1>4
  <2>2. OfNew(i) = Of(i) /\ \A n \in Of(i) : t[n] = trail[n]
    BY <1>1, <1>4
  <2> QED
    BY <2>1, <2>2 DEF TrailOf
<1> QED
  BY <1>3, <1>4

\* Events are about requests that exist.
TrailKnown == \A n \in DOMAIN trail : trail[n].item \in DOMAIN items

\* What a deciding batch does to a request and to the trail.
LEMMA BatchTrail ==
    ASSUME DeskInv, TrailOf(items, trail), NEW s \in Desks, AtDesk(s, "decide"),
           items' = ItemsAfter(s),
           trail' = IF ItemEventLands(s) THEN Append(trail, Verdicted(s)) ELSE trail
    PROVE  TrailOf(items', trail')
<1>0. trail \in Seq(ItemEvent)
  BY DEF DeskInv, Tables
<1>1. PICK d \in Desk : d = desk[s]
  BY DEF DeskInv, Slots
<1>2. Reviews(d, items) /\ d.item \in DOMAIN items
  BY <1>1, ReviewFacts DEF AtDesk, ReviewPCs, RowPCs
<1>3. PICK to : to = Resolved(s)
  OBVIOUS
<1>4. PICK e \in ItemEvent : e = Verdicted(s)
  BY BatchType
<1>5. e.item = d.item /\ e.from = d.from /\ e.to = to
  BY <1>1, <1>3, <1>4, BatchType
<1>6. /\ DOMAIN items' = DOMAIN items
      /\ \A i \in DOMAIN items : i # d.item => items'[i] = items[i]
      /\ ~StillPending(s) => items' = items
      /\ StillPending(s) => items'[d.item].status = to
  BY <1>1, <1>3, ItemDecided
<1>7. CASE items'[d.item].status # to
  BY <1>1, <1>3, <1>6, <1>7 DEF ItemEventLands
<1>8. CASE items'[d.item].status = to
  <2>1. trail' = Append(trail, e)
    BY <1>1, <1>3, <1>4, <1>8 DEF ItemEventLands
  <2>2. CASE StillPending(s)
    <3>1. d.from = "pending" /\ items[d.item].status = "pending"
      BY <1>1, <1>2, <2>2 DEF Reviews, StillPending
    <3>2. e.from # e.to => items'[d.item].status = e.to /\ e.to # "pending"
      BY <1>5, <1>8, <3>1
    <3>3. \A i \in DOMAIN items' : i # e.item \/ e.from = e.to =>
            i \in DOMAIN items /\ items'[i].status = items[i].status
      BY <1>5, <1>6, <1>8, <3>1
    <3>4. PICK its, t : its = items' /\ t = trail'
      OBVIOUS
    <3>5. /\ t = Append(trail, e) /\ e.item \in DOMAIN its
          /\ e.from # e.to => its[e.item].status = e.to /\ e.to # "pending"
          /\ \A i \in DOMAIN its : i # e.item \/ e.from = e.to =>
               i \in DOMAIN items /\ its[i].status = items[i].status
      BY <1>2, <1>5, <1>6, <2>1, <3>2, <3>3, <3>4
    <3>6. TrailOf(its, t)
      BY <1>0, <3>5, ItemTrailGrows
    <3> QED
      BY <3>4, <3>6
  <2>3. CASE ~StillPending(s)
    <3>1. items' = items /\ to # "pending"
      BY <1>1, <1>6, <1>8, <2>3 DEF StillPending
    <3> QED
      BY <1>0, <1>2, <1>5, <1>8, <2>1, <3>1, ItemTrailGrows
  <2> QED
    BY <2>2, <2>3
<1> QED
  BY <1>7, <1>8

LEMMA TrailKnownNext ==
    ASSUME DeskInv, TrailKnown, [DeskNext]_deskVars
    PROVE  TrailKnown'
<1>1. DOMAIN items \subseteq DOMAIN items'
  BY DeskKeeps DEF World, ItemsKept
<1>2. ASSUME NEW e \in ItemEvent, trail' = Append(trail, e), e.item \in DOMAIN items
      PROVE  TrailKnown'
  BY <1>1, <1>2, AppendKeeps DEF TrailKnown, DeskInv, Tables
<1>3. CASE trail' = trail
  BY <1>1, <1>3 DEF TrailKnown
<1>4. ASSUME NEW s \in Desks, Note(s)
      PROVE  TrailKnown'
  <2>1. desk[s].pc \in ReviewPCs
    BY <1>4 DEF Note, ReviewPCs, RowPCs
  <2>2. desk[s].from \in ItemStatuses /\ desk[s].item \in DOMAIN items
    BY <2>1, ReviewFacts DEF Desk
  <2>3. PICK e \in ItemEvent : e = Noted(s, desk[s].from, AtDesk(s, "recuse"))
    BY <2>1, <2>2, NotedType DEF AtDesk
  <2>4. e.item = desk[s].item /\ trail' = Append(trail, e)
    BY <1>4, <2>3 DEF Noted, Note
  <2> QED
    BY <1>2, <2>2, <2>4
<1>5. ASSUME NEW s \in Desks, DecideCorrection(s) \/ DecideEdit(s)
      PROVE  TrailKnown'
  <2>1. PICK e \in ItemEvent : e = Verdicted(s)
    BY <1>5, BatchType DEF DecideCorrection, DecideEdit
  <2>2. e.item = desk[s].item /\ desk[s].item \in DOMAIN items
    BY <1>5, <2>1, BatchType DEF DecideCorrection, DecideEdit
  <2>3. trail' = trail \/ trail' = Append(trail, e)
    BY <1>5, <2>1 DEF DecideCorrection, DecideEdit
  <2> QED
    BY <1>2, <1>3, <2>2, <2>3
<1> QED
  BY <1>3, <1>4, <1>5, TrailWriters

LEMMA ItemTrailNext ==
    ASSUME DeskInv, TrailKnown, ItemTrailAgrees, [DeskNext]_deskVars
    PROVE  ItemTrailAgrees'
<1>0. Tables /\ trail \in Seq(ItemEvent) /\ TrailOf(items, trail)
  BY TrailOfTrail DEF DeskInv, Tables
<1> SUFFICES TrailOf(items', trail')
  BY DEF TrailOf, ItemTrailAgrees, Deciding
\* A new request has no events yet.
<1>1. ASSUME NEW entity \in Entities, NEW rec \in Targets, NEW by \in Authors,
             NEW patch \in AnyPatch, entity = "camera_edit" => rec \in Records,
             items' = Append(items, NewItem(entity, rec, by, patch)), trail' = trail
      PROVE  TrailOf(items', trail')
  <2>1. /\ DOMAIN items' = DOMAIN items \cup {Len(items) + 1}
        /\ Len(items) + 1 \notin DOMAIN items
        /\ \A i \in DOMAIN items : items'[i] = items[i]
    BY <1>0, <1>1, ItemAppended
  <2> QED
    BY <1>0, <1>1, <2>1 DEF TrailOf, TrailKnown
<1>2. CASE items' = items /\ trail' = trail
  BY <1>0, <1>2
<1>3. ASSUME NEW c \in Contributors, Erase(c)
      PROVE  TrailOf(items', trail')
  <2>1. trail' = trail /\ (items' = items \/ items' = Disowned(c))
    BY <1>3 DEF Erase
  <2>2. DOMAIN items' = DOMAIN items /\ \A i \in DOMAIN items : items'[i].status = items[i].status
    BY <1>0, <2>1, ItemFacts DEF Disowned, Item
  <2> QED
    BY <1>0, <2>1, <2>2 DEF TrailOf
<1>4. ASSUME NEW s \in Desks, InsertReport(s)
      PROVE  TrailOf(items', trail')
  <2>1. desk[s].rec \in Targets /\ desk[s].by \in Authors
    BY DEF DeskInv, Slots, Desk
  <2>2. /\ trail' = trail
        /\ \/ items' = items
           \/ items' = Append(items, NewItem("correction", desk[s].rec, desk[s].by, <<>>))
    BY <1>4 DEF InsertReport
  <2> QED
    BY <1>1, <1>2, <2>1, <2>2, EmptyPatch DEF Entities
<1>5. ASSUME NEW s \in Desks, InsertEdit(s)
      PROVE  TrailOf(items', trail')
  <2>1. Knows(desk[s], items, rows, status) /\ desk[s].pc = "request" /\ desk[s] \in Desk
    BY <1>5 DEF DeskInv, Slots, InsertEdit, AtDesk
  <2>2. /\ desk[s].rec \in Records /\ desk[s].rec \in Targets /\ desk[s].by \in Authors
        /\ Proposal(desk[s].patch) \in AnyPatch
    BY <2>1, ProposalType DEF Knows, Contributes, Desk
  <2>3. /\ trail' = trail
        /\ \/ items' = items
           \/ items' = Append(items, NewItem("camera_edit", desk[s].rec, desk[s].by, Proposal(desk[s].patch)))
    BY <1>5 DEF InsertEdit
  <2> QED
    BY <1>1, <1>2, <2>2, <2>3 DEF Entities
<1>6. ASSUME NEW s \in Desks, DecideCorrection(s) \/ DecideEdit(s)
      PROVE  TrailOf(items', trail')
  <2>1. CASE items' = items /\ trail' = trail
    BY <1>2, <2>1
  <2>2. CASE /\ items' = ItemsAfter(s)
             /\ trail' = IF ItemEventLands(s) THEN Append(trail, Verdicted(s)) ELSE trail
    BY <1>0, <1>6, <2>2, BatchTrail DEF DecideCorrection, DecideEdit
  <2> QED
    BY <1>6, <2>1, <2>2 DEF DecideCorrection, DecideEdit
\* Recusals, escalations and intents leave the status as it was read.
<1>7. ASSUME NEW s \in Desks, Note(s)
      PROVE  TrailOf(items', trail')
  <2>1. desk[s].pc \in ReviewPCs
    BY <1>7 DEF Note, ReviewPCs, RowPCs
  <2>2. desk[s].from \in ItemStatuses /\ desk[s].item \in DOMAIN items
    BY <2>1, ReviewFacts DEF Desk
  <2>3. PICK e \in ItemEvent : e = Noted(s, desk[s].from, AtDesk(s, "recuse"))
    BY <2>1, <2>2, NotedType DEF AtDesk
  <2>4. e.item = desk[s].item /\ e.from = e.to /\ trail' = Append(trail, e) /\ items' = items
    BY <1>7, <2>3 DEF Noted, Note
  <2> QED
    BY <1>0, <2>2, <2>4, ItemTrailGrows
<1> QED
  BY <1>2, <1>3, <1>4, <1>5, <1>6, <1>7, ItemWriters, TrailWriters

\* The private trail names the status of every request that was decided, and has no
\* decision of one that is pending, whichever of two racing reviewers came first.
THEOREM ItemTrailNamesStatus == DeskSpec => []ItemTrailAgrees
<1>1. DeskInit => TrailKnown /\ ItemTrailAgrees
  <2> SUFFICES ASSUME DeskInit
               PROVE  TrailKnown /\ ItemTrailAgrees
    OBVIOUS
  <2>1. DOMAIN trail = {}
    BY DEF DeskInit
  <2> QED
    BY <2>1 DEF TrailKnown, ItemTrailAgrees, Deciding
<1>2. DeskInv /\ TrailKnown /\ ItemTrailAgrees /\ [DeskNext]_deskVars
        => TrailKnown' /\ ItemTrailAgrees'
  BY TrailKnownNext, ItemTrailNext
<1> QED
  BY <1>1, <1>2, DeskStarts, DeskKeeps, PTL DEF DeskSpec

LEMMA OnlyErasure ==
    ASSUME [DeskNext]_deskVars, ~\E c \in Contributors : Erase(c)
    PROVE  erased' = erased /\ owner' = owner
<1>1. ASSUME NEW s, \/ InsertReport(s) \/ DirectUpdate(s) \/ LogDirectEdit(s) \/ InsertEdit(s)
                    \/ EnqueueEdit(s) \/ OpenItemRow(s) \/ Note(s)
      PROVE  erased' = erased /\ owner' = owner
  BY <1>1 DEF InsertReport, DirectUpdate, LogDirectEdit, InsertEdit, EnqueueEdit, OpenItemRow,
              Note
<1>2. ASSUME NEW s, DecideCorrection(s) \/ DecideEdit(s)
      PROVE  erased' = erased /\ owner' = owner
  BY <1>2 DEF DecideCorrection, DecideEdit
<1>3. ASSUME NEW s, \/ CheckPriorRemoval(s) \/ FindItemRow(s) \/ LookUpFirst(s)
                    \/ ReadTarget(s) \/ FailDesk(s)
      PROVE  erased' = erased /\ owner' = owner
  BY <1>3 DEF CheckPriorRemoval, FindItemRow, LookUpFirst, ReadTarget, FailDesk
<1>4. ASSUME NEW s, \/ \E c, r : BeginReport(s, r, c)
                    \/ \E c, r, edit : BeginEdit(s, r, c, edit)
                    \/ \E i, w, p : BeginReview(s, i, w, p)
      PROVE  erased' = erased /\ owner' = owner
  BY <1>4 DEF BeginReport, BeginEdit, BeginReview
<1>5. Moderate \/ UNCHANGED deskVars => erased' = erased /\ owner' = owner
  BY DEF Moderate, deskVars
<1>6. ASSUME NEW s \in Desks, DeskStep(s)
      PROVE  erased' = erased /\ owner' = owner
  BY <1>1, <1>2, <1>3, <1>6 DEF DeskStep
<1> QED
  BY <1>3, <1>4, <1>5, <1>6 DEF DeskNext

LEMMA UnlinkedNext ==
    ASSUME DeskInv, ErasedIsUnlinked, [DeskNext]_deskVars
    PROVE  ErasedIsUnlinked'
<1>0. Tables /\ erased \subseteq Contributors /\ owner \in [Records -> Authors]
  BY DEF DeskInv, Tables
<1>1. ASSUME NEW c \in Contributors, Erase(c)
      PROVE  ErasedIsUnlinked'
  <2>1. CASE UNCHANGED <<items, owner, erased>>
    BY <2>1 DEF ErasedIsUnlinked
  <2>2. CASE /\ items' = Disowned(c) /\ erased' = erased \cup {c}
             /\ owner' = [rec \in Records |-> IF owner[rec] = c THEN Anonymous ELSE owner[rec]]
    <3>1. Anonymous \notin erased \cup {c}
      BY <1>0, ContributorsAssumption
    <3>2. DOMAIN items' = DOMAIN items
          /\ \A i \in DOMAIN items :
               items'[i].by = IF items[i].by = c THEN Anonymous ELSE items[i].by
      BY <1>0, <2>2, ItemFacts DEF Disowned, Item
    <3> QED
      BY <2>2, <3>1, <3>2 DEF ErasedIsUnlinked
  <2> QED
    BY <1>1, <2>1, <2>2 DEF Erase
<1>2. CASE ~\E c \in Contributors : Erase(c)
  <2>1. erased' = erased /\ owner' = owner
    BY <1>2, OnlyErasure
  <2>2. ASSUME NEW entity \in Entities, NEW rec \in Targets, NEW by \in Authors,
               NEW patch \in AnyPatch, entity = "camera_edit" => rec \in Records,
               items' = Append(items, NewItem(entity, rec, by, patch)), Known(by)
        PROVE  ErasedIsUnlinked'
    <3>1. /\ DOMAIN items' = DOMAIN items \cup {Len(items) + 1}
          /\ \A i \in DOMAIN items : items'[i] = items[i]
          /\ items'[Len(items) + 1] = NewItem(entity, rec, by, patch)
      BY <1>0, <2>2, ItemAppended
    <3> QED
      BY <2>1, <2>2, <3>1 DEF ErasedIsUnlinked, Known, NewItem
  <2>3. CASE items' = items
    BY <2>1, <2>3 DEF ErasedIsUnlinked
  <2>4. ASSUME NEW s \in Desks, InsertReport(s)
        PROVE  ErasedIsUnlinked'
    <3>1. desk[s].rec \in Targets /\ desk[s].by \in Authors
      BY DEF DeskInv, Slots, Desk
    <3>2. \/ items' = items
          \/ /\ Known(desk[s].by)
             /\ items' = Append(items, NewItem("correction", desk[s].rec, desk[s].by, <<>>))
      BY <2>4 DEF InsertReport
    <3> QED
      BY <2>2, <2>3, <3>1, <3>2, EmptyPatch DEF Entities
  <2>5. ASSUME NEW s \in Desks, InsertEdit(s)
        PROVE  ErasedIsUnlinked'
    <3>1. Knows(desk[s], items, rows, status) /\ desk[s].pc = "request" /\ desk[s] \in Desk
      BY <2>5 DEF DeskInv, Slots, InsertEdit, AtDesk
    <3>2. /\ desk[s].rec \in Records /\ desk[s].rec \in Targets /\ desk[s].by \in Authors
          /\ Proposal(desk[s].patch) \in AnyPatch
      BY <3>1, ProposalType DEF Knows, Contributes, Desk
    <3>3. \/ items' = items
          \/ /\ Known(desk[s].by)
             /\ items' = Append(items, NewItem("camera_edit", desk[s].rec, desk[s].by, Proposal(desk[s].patch)))
      BY <2>5 DEF InsertEdit
    <3> QED
      BY <2>2, <2>3, <3>2, <3>3 DEF Entities
  <2>6. ASSUME NEW s \in Desks, DecideCorrection(s) \/ DecideEdit(s), items' # items
        PROVE  ErasedIsUnlinked'
    <3>1. AtDesk(s, "decide") /\ items' = ItemsAfter(s)
      BY <2>6 DEF DecideCorrection, DecideEdit
    <3>2. DOMAIN items' = DOMAIN items /\ \A i \in DOMAIN items : items'[i].by = items[i].by
      BY <3>1, <2>6, ItemDecided
    <3> QED
      BY <2>1, <3>2 DEF ErasedIsUnlinked
  <2> QED
    BY <1>2, <2>3, <2>4, <2>5, <2>6, ItemWriters
<1> QED
  BY <1>1, <1>2

\* After an erasure no request and no record names the account, not even what requests that
\* were admitted before it write after it.
THEOREM ErasureUnlinks == DeskSpec => []ErasedIsUnlinked
<1>1. DeskInit => ErasedIsUnlinked
  BY DEF DeskInit, ErasedIsUnlinked
<1> QED
  BY <1>1, UnlinkedNext, DeskStarts, DeskKeeps, PTL DEF DeskSpec
=============================================================================
