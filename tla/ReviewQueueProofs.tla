-------------------------- MODULE ReviewQueueProofs --------------------------
(***************************************************************************)
(* Proofs about ReviewQueue, for any records, reviewers, roles and requests *)
(* in flight, and with calls that fail.                                     *)
(***************************************************************************)
EXTENDS ReviewQueue, SequenceTheorems, TLAPS

-----------------------------------------------------------------------------
(* Facts about the operators of the model.                                 *)

\* getCameraTransition always changes the status, to one of four, and leads out of
\* neither a takedown nor a rejection.
LEMMA OutcomeType ==
    ASSUME NEW from \in Statuses, NEW action, NEW to \in Outcome(from, action)
    PROVE  /\ to \in {"active", "needs_review", "removed", "rejected"}
           /\ to \in Statuses /\ to # from
           /\ from \notin {"removed", "rejected"}
           /\ action \in CameraActions
BY DEF Outcome, HideTarget, CameraActions, Statuses

LEMMA IdleType == Idle \in Request /\ Idle.pc = "idle"
<1>1. (CHOOSE rec \in Records : TRUE) \in Records
  BY InitialAssumption
<1> QED
  BY <1>1 DEF Idle, Request, PCs, CameraActions, Statuses

\* Setting the state of a row keeps the queue a queue of as many rows.
LEMMA QueueAfterType ==
    ASSUME queue \in Seq(QueueRow), NEW q \in DOMAIN queue, NEW state \in QueueStates
    PROVE  /\ QueueAfter(q, state) \in Seq(QueueRow)
           /\ DOMAIN QueueAfter(q, state) = DOMAIN queue
           /\ \A p \in DOMAIN queue :
                /\ QueueAfter(q, state)[p].rec = queue[p].rec
                /\ QueueAfter(q, state)[p].state =
                     IF p = q /\ queue[q].state # "closed" THEN state ELSE queue[p].state
<1> DEFINE after == [queue EXCEPT ![q].state = state]
<1>1. queue[q] \in QueueRow
  BY ElementOfSeq, DOMAIN queue = 1..Len(queue)
<1>2. [queue[q] EXCEPT !.state = state] \in QueueRow
  BY <1>1 DEF QueueRow
<1>3. after \in Seq(QueueRow) /\ DOMAIN after = DOMAIN queue
  BY <1>2, ExceptSeq
<1>4. \A p \in DOMAIN queue : queue[p] \in QueueRow
  BY ElementOfSeq, DOMAIN queue = 1..Len(queue)
<1> QED
  BY <1>3, <1>4 DEF QueueAfter, QueueRow

\* One more row, or event, leaves the earlier ones where they were.
LEMMA AppendKeeps ==
    ASSUME NEW S, NEW list \in Seq(S), NEW e \in S
    PROVE  /\ Append(list, e) \in Seq(S)
           /\ DOMAIN Append(list, e) = DOMAIN list \cup {Len(list) + 1}
           /\ Len(list) + 1 \notin DOMAIN list
           /\ \A i \in DOMAIN list : Append(list, e)[i] = list[i] /\ i < Len(list) + 1
           /\ Append(list, e)[Len(list) + 1] = e
BY AppendProperties, DOMAIN list = 1..Len(list)

LEMMA EventOfType ==
    ASSUME TypeOK, NEW s \in Requests, NEW to \in Statuses, NEW recused \in BOOLEAN
    PROVE  EventOf(s, to, recused) \in Event
BY DEF TypeOK, EventOf, Event, Request, EventActions
-----------------------------------------------------------------------------
(* Type correctness.                                                       *)

\* What a request needs besides its record type.
RequestOK(r, rows) ==
    /\ r \in Request
    /\ r.pc # "idle" => r.who \in Reviewers
    /\ r.pc \notin {"idle", "find", "open"} => r.q \in rows

LEMMA TypeByRequest ==
    TypeOK <=> /\ status \in [Records -> Statuses]
               /\ queue \in Seq(QueueRow)
               /\ events \in Seq(Event)
               /\ req \in [Requests -> Request]
               /\ \A s \in Requests : RequestOK(req[s], DOMAIN queue)
               /\ started \in Nat
BY DEF TypeOK, RequestOK

LEMMA FinishType ==
    ASSUME TypeOK, NEW s \in Requests, Finish(s),
           queue' \in Seq(QueueRow), DOMAIN queue \subseteq DOMAIN queue'
    PROVE  /\ req' \in [Requests -> Request]
           /\ \A t \in Requests : RequestOK(req'[t], DOMAIN queue')
BY IdleType DEF Finish, TypeOK, RequestOK

\* Whatever the checks after the queue row decide, the request keeps its locals.
LEMMA NextPCType ==
    ASSUME NEW s, NEW row
    PROVE  NextPC(s, row) \in {"idle", "recuse", "escalate", "intent", "lookup", "decide"}
BY DEF NextPC

LEMMA ProceedType ==
    ASSUME TypeOK, NEW s \in Requests, NEW q, NEW row \in QueueRow, Proceed(s, q, row),
           ~At(s, "idle"), q \in DOMAIN queue', q \in Nat,
           queue' \in Seq(QueueRow), DOMAIN queue \subseteq DOMAIN queue'
    PROVE  /\ req' \in [Requests -> Request]
           /\ \A t \in Requests : RequestOK(req'[t], DOMAIN queue')
<1>1. CASE NextPC(s, row) = "idle"
  BY <1>1, FinishType DEF Proceed
<1>2. CASE NextPC(s, row) # "idle"
  <2> DEFINE r == [req[s] EXCEPT !.pc = NextPC(s, row), !.q = q, !.two = row.two]
  <2>1. req' = [req EXCEPT ![s] = r]
    BY <1>2 DEF Proceed, TypeOK, Request
  <2>2. row.two \in BOOLEAN
    BY DEF QueueRow
  <2>3. NextPC(s, row) \in PCs
    BY NextPCType DEF PCs
  <2>4. req[s] \in Request /\ req[s].who \in Reviewers
    BY DEF TypeOK, At
  <2>5. r \in Request /\ r.who \in Reviewers /\ r.q = q
    BY <2>2, <2>3, <2>4 DEF Request
  <2>6. RequestOK(r, DOMAIN queue')
    BY <2>5 DEF RequestOK
  <2> QED
    BY <2>1, <2>5, <2>6 DEF TypeOK, RequestOK
<1> QED
  BY <1>1, <1>2

LEMMA TypeInit == Init => TypeOK
BY IdleType, InitialAssumption DEF Init, TypeOK

LEMMA TypeNext == TypeOK /\ [Next]_vars => TypeOK'
<1> SUFFICES ASSUME TypeOK, [Next]_vars
             PROVE  /\ status' \in [Records -> Statuses]
                    /\ queue' \in Seq(QueueRow)
                    /\ events' \in Seq(Event)
                    /\ req' \in [Requests -> Request]
                    /\ \A t \in Requests : RequestOK(req'[t], DOMAIN queue')
                    /\ started' \in Nat
  BY DEF TypeOK, RequestOK
<1>1. CASE UNCHANGED vars
  BY <1>1 DEF vars, TypeOK, RequestOK
<1>2. ASSUME NEW s \in Requests, NEW w \in Reviewers, NEW rec \in Records,
             NEW action \in Offered, NEW recused \in BOOLEAN, NEW asked \in BOOLEAN,
             Begin(s, w, rec, action, recused, asked)
      PROVE  TypeOK'
  <2> DEFINE r == [Idle EXCEPT !.pc = "find", !.who = w, !.rec = rec, !.action = action,
                               !.recused = recused, !.asked = asked, !.from = status[rec]]
  <2>1. status[rec] \in Statuses /\ action \in CameraActions
    BY BoundsAssumption DEF TypeOK
  <2>2. r \in Request /\ r.pc = "find" /\ r.who \in Reviewers
    BY <2>1, IdleType DEF Request, PCs
  <2>3. req' = [req EXCEPT ![s] = r]
    BY <1>2 DEF Begin
  <2> QED
    BY <1>2, <2>2, <2>3 DEF Begin, TypeOK
<1>3. ASSUME NEW s \in Requests, FindQueueItem(s)
      PROVE  TypeOK'
  <2>1. CASE \E q \in OpenRows(req[s].rec) : Proceed(s, q, queue[q])
    <3>1. PICK q \in OpenRows(req[s].rec) : Proceed(s, q, queue[q])
      BY <2>1
    <3>2. q \in DOMAIN queue /\ q \in Nat /\ queue[q] \in QueueRow
      BY <3>1, ElementOfSeq, DOMAIN queue = 1..Len(queue) DEF OpenRows, TypeOK
    <3>3. req' \in [Requests -> Request] /\ \A t \in Requests : RequestOK(req'[t], DOMAIN queue')
      BY <1>3, <3>1, <3>2, ProceedType DEF FindQueueItem, TypeOK, At
    <3> QED
      BY <1>3, <3>3 DEF FindQueueItem, TypeOK, RequestOK
  <2>2. CASE req' = [req EXCEPT ![s].pc = "open"]
    <3>1. [req[s] EXCEPT !.pc = "open"] \in Request
      BY DEF TypeOK, Request, PCs
    <3> QED
      BY <1>3, <2>2, <3>1 DEF FindQueueItem, TypeOK, At
  <2> QED
    BY <1>3, <2>1, <2>2 DEF FindQueueItem
<1>4. ASSUME NEW s \in Requests, OpenQueueItem(s)
      PROVE  TypeOK'
  <2> DEFINE row == NewRow(req[s].rec, req[s].asked)
  <2>1. row \in QueueRow
    BY DEF NewRow, QueueRow, QueueStates, TypeOK, Request
  <2>2. CASE RowAdmitted(req[s].rec)
    <3>1. queue' = Append(queue, row) /\ Proceed(s, Len(queue) + 1, row)
      BY <1>4, <2>2 DEF OpenQueueItem
    <3>2. /\ queue' \in Seq(QueueRow)
          /\ DOMAIN queue' = DOMAIN queue \cup {Len(queue) + 1}
      BY <2>1, <3>1, AppendKeeps DEF TypeOK
    <3>3. Len(queue) + 1 \in Nat
      BY LenProperties DEF TypeOK
    <3>4. req' \in [Requests -> Request] /\ \A t \in Requests : RequestOK(req'[t], DOMAIN queue')
      BY <1>4, <2>1, <3>1, <3>2, <3>3, ProceedType DEF OpenQueueItem, At
    <3> QED
      BY <1>4, <3>2, <3>4 DEF OpenQueueItem, TypeOK, RequestOK
  <2>3. CASE ~RowAdmitted(req[s].rec)
    <3>1. Finish(s) /\ queue' = queue
      BY <1>4, <2>3 DEF OpenQueueItem
    <3>2. req' \in [Requests -> Request] /\ \A t \in Requests : RequestOK(req'[t], DOMAIN queue')
      BY <3>1, FinishType DEF TypeOK
    <3> QED
      BY <1>4, <3>1, <3>2 DEF OpenQueueItem, TypeOK, RequestOK
  <2> QED
    BY <2>2, <2>3
<1>5. ASSUME NEW s \in Requests, Recuse(s)
      PROVE  TypeOK'
  <2>1. EventOf(s, req[s].from, TRUE) \in Event
    BY EventOfType DEF TypeOK, Request
  <2>2. events' \in Seq(Event)
    BY <1>5, <2>1, AppendKeeps DEF Recuse, TypeOK
  <2>3. req' \in [Requests -> Request] /\ \A t \in Requests : RequestOK(req'[t], DOMAIN queue')
    BY <1>5, FinishType DEF Recuse, TypeOK
  <2> QED
    BY <1>5, <2>2, <2>3 DEF Recuse, TypeOK, RequestOK
<1>6. ASSUME NEW s \in Requests, Escalate(s) \/ RecordIntent(s)
      PROVE  TypeOK'
  <2>1. EventOf(s, req[s].from, FALSE) \in Event
    BY EventOfType DEF TypeOK, Request
  <2>2. events' \in Seq(Event)
    <3>1. events' = Append(events, EventOf(s, req[s].from, FALSE))
      BY <1>6 DEF Escalate, RecordIntent
    <3> QED
      BY <2>1, <3>1, AppendKeeps DEF TypeOK
  <2>3. req[s].q \in DOMAIN queue
    BY <1>6 DEF Escalate, RecordIntent, At, TypeOK
  <2>4. queue' \in Seq(QueueRow) /\ DOMAIN queue' = DOMAIN queue
    <3>1. PICK state \in QueueStates : queue' = QueueAfter(req[s].q, state)
      BY <1>6 DEF Escalate, RecordIntent, QueueStates
    <3> QED
      BY <2>3, <3>1, QueueAfterType DEF TypeOK
  <2>5. req' \in [Requests -> Request] /\ \A t \in Requests : RequestOK(req'[t], DOMAIN queue')
    BY <1>6, <2>4, FinishType DEF Escalate, RecordIntent
  <2> QED
    BY <1>6, <2>2, <2>4, <2>5 DEF Escalate, RecordIntent, TypeOK, RequestOK
<1>7. ASSUME NEW s \in Requests, LookUpFirstReviewer(s)
      PROVE  TypeOK'
  <2>1. CASE Finish(s)
    <3>1. req' \in [Requests -> Request] /\ \A t \in Requests : RequestOK(req'[t], DOMAIN queue')
      BY <1>7, <2>1, FinishType DEF LookUpFirstReviewer, TypeOK
    <3> QED
      BY <1>7, <3>1 DEF LookUpFirstReviewer, TypeOK, RequestOK
  <2>2. CASE req' = [req EXCEPT ![s].pc = "decide"]
    <3>1. [req[s] EXCEPT !.pc = "decide"] \in Request
      BY DEF TypeOK, Request, PCs
    <3> QED
      BY <1>7, <2>2, <3>1 DEF LookUpFirstReviewer, TypeOK, At, Request
  <2> QED
    BY <1>7, <2>1, <2>2 DEF LookUpFirstReviewer
<1>8. ASSUME NEW s \in Requests, Decide(s)
      PROVE  TypeOK'
  <2>1. PICK to \in Outcome(req[s].from, req[s].action) :
          /\ status' = IF StatusAsRead(s) THEN [status EXCEPT ![req[s].rec] = to] ELSE status
          /\ events' = IF EventLands(s, to) THEN Append(events, EventOf(s, to, FALSE)) ELSE events
    BY <1>8 DEF Decide
  <2>2. to \in Statuses
    BY OutcomeType DEF TypeOK, Request
  <2>3. status' \in [Records -> Statuses]
    BY <2>1, <2>2 DEF TypeOK
  <2>4. EventOf(s, to, FALSE) \in Event
    BY <2>2, EventOfType
  <2>5. events' \in Seq(Event)
    BY <2>1, <2>4, AppendKeeps DEF TypeOK
  <2>6. req[s].q \in DOMAIN queue
    BY <1>8 DEF Decide, At, TypeOK
  <2>7. queue' \in Seq(QueueRow) /\ DOMAIN queue' = DOMAIN queue
    BY <1>8, <2>6, QueueAfterType DEF Decide, QueueStates, TypeOK
  <2>8. req' \in [Requests -> Request] /\ \A t \in Requests : RequestOK(req'[t], DOMAIN queue')
    BY <1>8, <2>7, FinishType DEF Decide
  <2> QED
    BY <1>8, <2>3, <2>5, <2>7, <2>8 DEF Decide, TypeOK, RequestOK
<1>9. ASSUME NEW s \in Requests, FailRequest(s)
      PROVE  TypeOK'
  <2>1. req' \in [Requests -> Request] /\ \A t \in Requests : RequestOK(req'[t], DOMAIN queue')
    BY <1>9, FinishType DEF FailRequest, TypeOK
  <2> QED
    BY <1>9, <2>1 DEF FailRequest, TypeOK, RequestOK
<1> QED
  BY <1>1, <1>2, <1>3, <1>4, <1>5, <1>6, <1>7, <1>8, <1>9 DEF Next, Step, TypeOK, RequestOK

\* Every reachable state of the review queue is well typed; in particular a request
\* that works on a queue row works on one that exists.
THEOREM ReviewTypeCorrect == Spec => []TypeOK
<1> QED
  BY TypeInit, TypeNext, PTL DEF Spec
-----------------------------------------------------------------------------
(* A takedown or a rejection is final for moderators.                      *)

LEMMA TakedownStep ==
    ASSUME TypeOK, [Next]_vars, NEW rec \in Records, status[rec] \in {"removed", "rejected"}
    PROVE  status'[rec] = status[rec]
<1>1. CASE status' = status
  BY <1>1
<1>2. ASSUME NEW s \in Requests, Decide(s)
      PROVE  status'[rec] = status[rec]
  <2>1. PICK to \in Outcome(req[s].from, req[s].action) :
          status' = IF StatusAsRead(s) THEN [status EXCEPT ![req[s].rec] = to] ELSE status
    BY <1>2 DEF Decide
  <2>2. req[s].from \notin {"removed", "rejected"}
    BY OutcomeType DEF TypeOK, Request
  <2> QED
    BY <2>1, <2>2 DEF StatusAsRead, TypeOK
<1> QED
  BY <1>1, <1>2 DEF Next, Step, Begin, FindQueueItem, OpenQueueItem, Recuse, Escalate,
                    RecordIntent, LookUpFirstReviewer, FailRequest, vars

\* A decision computed from an older status never brings back a record that was taken
\* down or rejected meanwhile.
THEOREM TakedownFinal == Spec => TakedownStands
<1>1. TypeOK /\ [Next]_vars
        => [\A rec \in Records : status[rec] \in {"removed", "rejected"}
              => status'[rec] \in {status[rec], "removed", "pending"}]_vars
  BY TakedownStep
<1> QED
  BY <1>1, ReviewTypeCorrect, PTL DEF Spec, TakedownStands
-----------------------------------------------------------------------------
(* One open queue row per record.                                          *)

LEMMA RowUniqueNext == TypeOK /\ OneOpenRow /\ [Next]_vars => OneOpenRow'
<1> SUFFICES ASSUME TypeOK, OneOpenRow, [Next]_vars
             PROVE  OneOpenRow'
  OBVIOUS
<1>1. CASE queue' = queue
  BY <1>1 DEF OneOpenRow
<1>2. ASSUME NEW s \in Requests, OpenQueueItem(s), RowAdmitted(req[s].rec)
      PROVE  OneOpenRow'
  <2> DEFINE row == NewRow(req[s].rec, req[s].asked)
  <2>1. queue' = Append(queue, row)
    BY <1>2 DEF OpenQueueItem
  <2>2. row \in QueueRow /\ row.rec = req[s].rec
    BY DEF NewRow, QueueRow, QueueStates, TypeOK, Request
  <2>3. /\ DOMAIN queue' = DOMAIN queue \cup {Len(queue) + 1}
        /\ \A i \in DOMAIN queue : queue'[i] = queue[i]
        /\ queue'[Len(queue) + 1] = row
    BY <2>1, <2>2, AppendKeeps DEF TypeOK
  <2>4. \A p \in DOMAIN queue : queue[p].rec = row.rec => queue[p].state = "closed"
    BY <1>2, <2>2 DEF RowAdmitted, OpenRows
  <2> QED
    BY <2>3, <2>4 DEF OneOpenRow
<1>3. ASSUME NEW s \in Requests, Escalate(s) \/ RecordIntent(s) \/ Decide(s)
      PROVE  OneOpenRow'
  <2>1. PICK state \in QueueStates : queue' = QueueAfter(req[s].q, state)
    BY <1>3 DEF Escalate, RecordIntent, Decide, QueueStates
  <2>2. req[s].q \in DOMAIN queue
    BY <1>3 DEF Escalate, RecordIntent, Decide, At, TypeOK
  <2>3. /\ DOMAIN queue' = DOMAIN queue
        /\ \A p \in DOMAIN queue : /\ queue'[p].rec = queue[p].rec
                                   /\ queue'[p].state # "closed" => queue[p].state # "closed"
    BY <2>1, <2>2, QueueAfterType DEF TypeOK
  <2> QED
    BY <2>3 DEF OneOpenRow
<1> QED
  BY <1>1, <1>2, <1>3 DEF Next, Step, Begin, FindQueueItem, OpenQueueItem, Recuse,
                          LookUpFirstReviewer, FailRequest, vars

\* However requests race, a record never has two open queue rows.
THEOREM RowUnique == Spec => []OneOpenRow
<1>1. Init => OneOpenRow
  BY DEF Init, OneOpenRow
<1> QED
  BY <1>1, RowUniqueNext, ReviewTypeCorrect, PTL DEF Spec
-----------------------------------------------------------------------------
(* The audit trail names the status of the record.                         *)

\* An event that says what became of its record.
ClaimsChange(e) ==
    \/ e.action = "appeal-uphold"
    \/ e.action \in CameraActions \cup OutcomeActions /\ e.from # e.to

LEMMA ClaimsByEvent ==
    ASSUME NEW rec
    PROVE  Claims(rec) = {i \in DOMAIN events : events[i].rec = rec /\ ClaimsChange(events[i])}
BY DEF Claims, ClaimsChange

\* The two ways an event is appended: it says nothing and the status stays, or it
\* names the status its record has from then on.
LEMMA TrailGrows ==
    ASSUME events \in Seq(Event), StatusIsLastClaim,
           NEW e \in Event, events' = Append(events, e),
           \A rec \in Records : rec # e.rec => status'[rec] = status[rec],
           IF ClaimsChange(e) THEN status'[e.rec] = e.to ELSE status'[e.rec] = status[e.rec]
    PROVE  StatusIsLastClaim'
<1> DEFINE new == Len(events) + 1
<1>1. /\ DOMAIN events' = DOMAIN events \cup {new}
      /\ new \notin DOMAIN events
      /\ \A i \in DOMAIN events : events'[i] = events[i] /\ i < new
      /\ events'[new] = e
  BY AppendKeeps
<1>2. \A i \in DOMAIN events : i \in Nat
  BY DOMAIN events = 1..Len(events)
<1>3. new \in Nat
  BY LenProperties
<1> HIDE DEF new
<1> SUFFICES ASSUME NEW rec \in Records
             PROVE  /\ Claims(rec)' = {} => status'[rec] = InitialStatus[rec]
                    /\ \A i \in Claims(rec)' :
                         (\A j \in Claims(rec)' : j <= i) => status'[rec] = events'[i].to
  BY DEF StatusIsLastClaim
<1>4. Claims(rec)' = {i \in DOMAIN events' : events'[i].rec = rec /\ ClaimsChange(events'[i])}
  BY DEF Claims, ClaimsChange
<1>5. CASE e.rec = rec /\ ClaimsChange(e)
  <2>1. new \in Claims(rec)'
    BY <1>1, <1>4, <1>5
  <2>2. \A i \in Claims(rec)' : i # new => i < new
    BY <1>1, <1>4
  <2>3. \A i \in Claims(rec)' : (\A j \in Claims(rec)' : j <= i) => i = new
    BY <1>2, <1>3, <2>1, <2>2, <1>1, <1>4
  <2>4. status'[rec] = events'[new].to
    BY <1>1, <1>5
  <2> QED
    BY <2>1, <2>3, <2>4
<1>6. CASE ~(e.rec = rec /\ ClaimsChange(e))
  <2>1. Claims(rec)' = Claims(rec)
    BY <1>1, <1>4, <1>6, ClaimsByEvent
  <2>2. status'[rec] = status[rec]
    BY <1>6
  <2>3. \A i \in Claims(rec) : events'[i] = events[i]
    BY <1>1 DEF Claims
  <2> QED
    BY <2>1, <2>2, <2>3 DEF StatusIsLastClaim
<1> QED
  BY <1>5, <1>6

LEMMA TrailNext == TypeOK /\ StatusIsLastClaim /\ [Next]_vars => StatusIsLastClaim'
<1> SUFFICES ASSUME TypeOK, StatusIsLastClaim, [Next]_vars
             PROVE  StatusIsLastClaim'
  OBVIOUS
<1>1. CASE status' = status /\ events' = events
  BY <1>1 DEF StatusIsLastClaim, Claims
<1>2. ASSUME NEW s \in Requests, Recuse(s) \/ Escalate(s) \/ RecordIntent(s)
      PROVE  StatusIsLastClaim'
  <2>1. PICK recused \in BOOLEAN : events' = Append(events, EventOf(s, req[s].from, recused))
    BY <1>2 DEF Recuse, Escalate, RecordIntent
  <2>2. status' = status
    BY <1>2 DEF Recuse, Escalate, RecordIntent
  <2> DEFINE e == EventOf(s, req[s].from, recused)
  <2>3. e \in Event
    BY EventOfType DEF TypeOK, Request
  <2>4. ~ClaimsChange(e)
    BY DEF ClaimsChange, EventOf, TypeOK, Request, CameraActions
  <2> QED
    BY <2>1, <2>2, <2>3, <2>4, TrailGrows DEF TypeOK
<1>3. ASSUME NEW s \in Requests, Decide(s)
      PROVE  StatusIsLastClaim'
  <2>1. PICK to \in Outcome(req[s].from, req[s].action) :
          /\ status' = IF StatusAsRead(s) THEN [status EXCEPT ![req[s].rec] = to] ELSE status
          /\ events' = IF EventLands(s, to) THEN Append(events, EventOf(s, to, FALSE)) ELSE events
    BY <1>3 DEF Decide
  <2> DEFINE e == EventOf(s, to, FALSE)
  <2>2. req[s].rec \in Records
    BY DEF TypeOK, Request
  <2>3. to \in Statuses /\ to # req[s].from /\ req[s].action \in CameraActions
    BY OutcomeType DEF TypeOK, Request
  <2>4. e \in Event /\ e.rec = req[s].rec /\ e.to = to /\ ClaimsChange(e)
    BY <2>3, EventOfType DEF EventOf, ClaimsChange
  <2>5. CASE EventLands(s, to)
    <3>1. events' = Append(events, e) /\ status'[e.rec] = e.to
      BY <2>1, <2>4, <2>5 DEF EventLands
    <3>2. \A rec \in Records : rec # e.rec => status'[rec] = status[rec]
      BY <2>1, <2>4 DEF TypeOK
    <3> QED
      BY <2>4, <3>1, <3>2, TrailGrows DEF TypeOK
  <2>6. CASE ~EventLands(s, to)
    <3>1. ~StatusAsRead(s)
      BY <2>1, <2>2, <2>6 DEF EventLands, TypeOK
    <3> QED
      BY <1>1, <2>1, <2>6, <3>1
  <2> QED
    BY <2>5, <2>6
<1> QED
  BY <1>1, <1>2, <1>3 DEF Next, Step, Begin, FindQueueItem, OpenQueueItem,
                          LookUpFirstReviewer, FailRequest, vars

\* Whatever decisions raced, and whichever of them lost its UPDATE, the last event that
\* says what became of a record names the status the record has.
THEOREM TrailNamesStatus == Spec => []StatusIsLastClaim
<1>1. Init => StatusIsLastClaim
  BY DEF Init, StatusIsLastClaim, Claims
<1> QED
  BY <1>1, TrailNext, ReviewTypeCorrect, PTL DEF Spec
-----------------------------------------------------------------------------
(* Nobody completes a two-person review before an intent is on file.       *)

\* The inductive invariant: a row under second review has an intent on file, and so
\* has what every request past its checks has read of such a row.
RowsHaveIntent == \A q \in DOMAIN queue :
    queue[q].state = "second_review" => IntentsOn(queue[q].rec) # {}
RequestsKeepRow == \A s \in Requests :
    /\ req[s].pc \notin {"idle", "find", "open"} => queue[req[s].q].rec = req[s].rec
    /\ At(s, "intent") => req[s].action \in SecondReviewActions
IntentInv == RowsHaveIntent /\ RequestsKeepRow /\ NoHastyDecision

\* Intents stay on file: events are only ever appended.
LEMMA EventsAppended ==
    ASSUME TypeOK, [Next]_vars
    PROVE  \/ events' = events
           \/ \E e \in Event : events' = Append(events, e)
<1>1. CASE events' = events
  BY <1>1
<1>2. ASSUME NEW s \in Requests, Recuse(s) \/ Escalate(s) \/ RecordIntent(s)
      PROVE  \E e \in Event : events' = Append(events, e)
  <2>1. PICK recused \in BOOLEAN : events' = Append(events, EventOf(s, req[s].from, recused))
    BY <1>2 DEF Recuse, Escalate, RecordIntent
  <2>2. EventOf(s, req[s].from, recused) \in Event
    BY EventOfType DEF TypeOK, Request
  <2> QED
    BY <2>1, <2>2
<1>3. ASSUME NEW s \in Requests, Decide(s)
      PROVE  events' = events \/ \E e \in Event : events' = Append(events, e)
  <2>1. PICK to \in Outcome(req[s].from, req[s].action) :
          events' = IF EventLands(s, to) THEN Append(events, EventOf(s, to, FALSE)) ELSE events
    BY <1>3 DEF Decide
  <2>2. to \in Statuses
    BY OutcomeType DEF TypeOK, Request
  <2>3. EventOf(s, to, FALSE) \in Event
    BY <2>2, EventOfType
  <2> QED
    BY <2>1, <2>3
<1> QED
  BY <1>1, <1>2, <1>3 DEF Next, Step, Begin, FindQueueItem, OpenQueueItem,
                          LookUpFirstReviewer, FailRequest, vars

LEMMA IntentsGrow ==
    ASSUME TypeOK, [Next]_vars, NEW rec
    PROVE  IntentsOn(rec) \subseteq IntentsOn(rec)'
<1>1. CASE events' = events
  BY <1>1 DEF IntentsOn
<1>2. CASE \E e \in Event : events' = Append(events, e)
  <2>1. PICK e \in Event : events' = Append(events, e)
    BY <1>2
  <2>2. /\ DOMAIN events \subseteq DOMAIN events'
        /\ \A i \in DOMAIN events : events'[i] = events[i]
    BY <2>1, AppendKeeps DEF TypeOK
  <2> QED
    BY <2>2 DEF IntentsOn
<1> QED
  BY <1>1, <1>2, EventsAppended

\* Requests whose locals a step leaves alone, or ends, keep what the invariant says.
LEMMA FinishKeeps ==
    ASSUME TypeOK, IntentInv, [Next]_vars, NEW s \in Requests, Finish(s),
           \A q \in DOMAIN queue : queue'[q].rec = queue[q].rec
    PROVE  RequestsKeepRow' /\ NoHastyDecision'
<1>1. req'[s].pc = "idle" /\ \A t \in Requests : t # s => req'[t] = req[t]
  BY IdleType DEF Finish, TypeOK
<1>2. RequestsKeepRow'
  BY <1>1 DEF IntentInv, RequestsKeepRow, At, TypeOK
<1>3. NoHastyDecision'
  BY <1>1, IntentsGrow DEF IntentInv, NoHastyDecision, At
<1> QED
  BY <1>2, <1>3

\* What a request knows once the checks after its queue row have let it pass.
LEMMA ProceedKnows ==
    ASSUME TypeOK, NEW s \in Requests, NEW q, NEW row, Proceed(s, q, row),
           ~Finish(s)
    PROVE  /\ \A t \in Requests : t # s => req'[t] = req[t]
           /\ req'[s].q = q /\ req'[s].two = row.two
           /\ req'[s].rec = req[s].rec /\ req'[s].action = req[s].action
           /\ req'[s].pc \in {"recuse", "escalate", "intent", "lookup", "decide"}
           /\ req'[s].pc = "intent" => req[s].action \in SecondReviewActions
           /\ req'[s].pc = "lookup" => row.state = "second_review"
           /\ req'[s].pc = "decide" => ~NeedsSecondReview(req[s].action, row.two)
<1> DEFINE r == [req[s] EXCEPT !.pc = NextPC(s, row), !.q = q, !.two = row.two]
<1>1. req' = [req EXCEPT ![s] = r] /\ NextPC(s, row) # "idle"
  BY DEF Proceed, TypeOK, Request
<1>2. /\ r.q = q /\ r.two = row.two /\ r.pc = NextPC(s, row)
      /\ r.rec = req[s].rec /\ r.action = req[s].action
  BY DEF TypeOK, Request
<1>3. req'[s] = r /\ \A t \in Requests : t # s => req'[t] = req[t]
  BY <1>1 DEF TypeOK
<1>4. /\ NextPC(s, row) = "intent" => req[s].action \in SecondReviewActions
      /\ NextPC(s, row) = "lookup" => row.state = "second_review"
      /\ NextPC(s, row) = "decide" => ~NeedsSecondReview(req[s].action, row.two)
  BY DEF NextPC, NeedsSecondReview, IntentRecorded
<1> HIDE DEF r
<1> QED
  BY <1>1, <1>2, <1>3, <1>4, NextPCType

LEMMA ProceedKeeps ==
    ASSUME TypeOK, IntentInv, [Next]_vars, NEW s \in Requests, NEW q, NEW row,
           Proceed(s, q, row),
           \A p \in DOMAIN queue : queue'[p].rec = queue[p].rec,
           queue'[q].rec = req[s].rec,
           row.state = "second_review" => IntentsOn(req[s].rec) # {}
    PROVE  RequestsKeepRow' /\ NoHastyDecision'
<1>1. CASE Finish(s)
  BY <1>1, FinishKeeps
<1>2. CASE ~Finish(s)
  <2>1. RequestsKeepRow'
    BY <1>2, ProceedKnows DEF IntentInv, RequestsKeepRow, At, TypeOK
  <2>2. NoHastyDecision'
    BY <1>2, ProceedKnows, IntentsGrow DEF IntentInv, NoHastyDecision, At
  <2> QED
    BY <2>1, <2>2
<1> QED
  BY <1>1, <1>2

LEMMA IntentNext == TypeOK /\ IntentInv /\ [Next]_vars => IntentInv'
<1> SUFFICES ASSUME TypeOK, IntentInv, [Next]_vars
             PROVE  IntentInv'
  OBVIOUS
<1>1. CASE UNCHANGED vars
  BY <1>1 DEF vars, IntentInv, RowsHaveIntent, RequestsKeepRow, NoHastyDecision, IntentsOn, At
<1>3. ASSUME NEW s \in Requests, NEW w \in Reviewers, NEW rec \in Records,
             NEW action \in Offered, NEW recused \in BOOLEAN, NEW asked \in BOOLEAN,
             Begin(s, w, rec, action, recused, asked)
      PROVE  IntentInv'
  <2>1. req'[s].pc = "find" /\ \A t \in Requests : t # s => req'[t] = req[t]
    BY <1>3, IdleType DEF Begin, TypeOK, Request
  <2>2. queue' = queue /\ RowsHaveIntent'
    BY <1>3, IntentsGrow DEF Begin, IntentInv, RowsHaveIntent
  <2>3. RequestsKeepRow' /\ NoHastyDecision'
    BY <2>1, <2>2, IntentsGrow DEF IntentInv, RequestsKeepRow, NoHastyDecision, At
  <2> QED
    BY <2>2, <2>3 DEF IntentInv
<1>4. ASSUME NEW s \in Requests, FindQueueItem(s)
      PROVE  IntentInv'
  <2>1. queue' = queue /\ RowsHaveIntent'
    BY <1>4, IntentsGrow DEF FindQueueItem, IntentInv, RowsHaveIntent
  <2>2. CASE \E q \in OpenRows(req[s].rec) : Proceed(s, q, queue[q])
    <3>1. PICK q \in OpenRows(req[s].rec) : Proceed(s, q, queue[q])
      BY <2>2
    <3>2. queue[q].rec = req[s].rec
      BY <3>1 DEF OpenRows
    <3>3. queue[q].state = "second_review" => IntentsOn(req[s].rec) # {}
      BY <3>1, <3>2 DEF OpenRows, IntentInv, RowsHaveIntent
    <3> QED
      BY <2>1, <3>1, <3>2, <3>3, ProceedKeeps DEF IntentInv
  <2>3. CASE req' = [req EXCEPT ![s].pc = "open"]
    <3>1. req'[s].pc = "open" /\ \A t \in Requests : t # s => req'[t] = req[t]
      BY <2>3 DEF TypeOK, Request
    <3>2. RequestsKeepRow' /\ NoHastyDecision'
      BY <2>1, <3>1, IntentsGrow DEF IntentInv, RequestsKeepRow, NoHastyDecision, At
    <3> QED
      BY <2>1, <3>2 DEF IntentInv
  <2> QED
    BY <1>4, <2>2, <2>3 DEF FindQueueItem
<1>5. ASSUME NEW s \in Requests, OpenQueueItem(s)
      PROVE  IntentInv'
  <2> DEFINE row == NewRow(req[s].rec, req[s].asked)
  <2>1. CASE RowAdmitted(req[s].rec)
    <3>1. queue' = Append(queue, row) /\ Proceed(s, Len(queue) + 1, row)
      BY <1>5, <2>1 DEF OpenQueueItem
    <3>2. row \in QueueRow /\ row.rec = req[s].rec /\ row.state = "queued"
      BY DEF NewRow, QueueRow, QueueStates, TypeOK, Request
    <3>3. /\ DOMAIN queue' = DOMAIN queue \cup {Len(queue) + 1}
          /\ \A i \in DOMAIN queue : queue'[i] = queue[i]
          /\ queue'[Len(queue) + 1] = row
      BY <3>1, <3>2, AppendKeeps DEF TypeOK
    <3>4. RowsHaveIntent'
      BY <3>2, <3>3, IntentsGrow DEF IntentInv, RowsHaveIntent
    <3>5. RequestsKeepRow' /\ NoHastyDecision'
      <4> HIDE DEF row
      <4> QED
        BY <3>1, <3>2, <3>3, ProceedKeeps
    <3> QED
      BY <3>4, <3>5 DEF IntentInv
  <2>2. CASE ~RowAdmitted(req[s].rec)
    <3>1. Finish(s) /\ queue' = queue
      BY <1>5, <2>2 DEF OpenQueueItem
    <3>2. RowsHaveIntent'
      BY <3>1, IntentsGrow DEF IntentInv, RowsHaveIntent
    <3> QED
      BY <3>1, <3>2, FinishKeeps DEF IntentInv
  <2> QED
    BY <2>1, <2>2
<1>6. ASSUME NEW s \in Requests, Recuse(s) \/ FailRequest(s)
      PROVE  IntentInv'
  <2>1. Finish(s) /\ queue' = queue
    BY <1>6 DEF Recuse, FailRequest
  <2>2. RowsHaveIntent'
    BY <2>1, IntentsGrow DEF IntentInv, RowsHaveIntent
  <2> QED
    BY <2>1, <2>2, FinishKeeps DEF IntentInv
<1>7. ASSUME NEW s \in Requests, Escalate(s) \/ Decide(s)
      PROVE  IntentInv'
  <2>1. PICK state \in {"escalated", "closed"} : queue' = QueueAfter(req[s].q, state)
    BY <1>7 DEF Escalate, Decide
  <2>2. req[s].q \in DOMAIN queue /\ Finish(s)
    BY <1>7 DEF Escalate, Decide, At, TypeOK
  <2>3. /\ DOMAIN queue' = DOMAIN queue
        /\ \A p \in DOMAIN queue :
             /\ queue'[p].rec = queue[p].rec
             /\ queue'[p].state = "second_review" => queue[p].state = "second_review"
    <3>1. state \in QueueStates /\ state # "second_review"
      BY DEF QueueStates
    <3> QED
      BY <2>1, <2>2, <3>1, QueueAfterType DEF TypeOK
  <2>4. RowsHaveIntent'
    BY <2>3, IntentsGrow DEF IntentInv, RowsHaveIntent
  <2> QED
    BY <2>2, <2>3, <2>4, FinishKeeps DEF IntentInv
<1>8. ASSUME NEW s \in Requests, RecordIntent(s)
      PROVE  IntentInv'
  <2> DEFINE e == EventOf(s, req[s].from, FALSE)
             q == req[s].q
  <2>1. q \in DOMAIN queue /\ Finish(s) /\ queue[q].rec = req[s].rec
    BY <1>8 DEF RecordIntent, At, TypeOK, IntentInv, RequestsKeepRow
  <2>2. queue' = QueueAfter(q, "second_review") /\ events' = Append(events, e)
    BY <1>8 DEF RecordIntent
  <2>3. /\ DOMAIN queue' = DOMAIN queue
        /\ \A p \in DOMAIN queue :
             /\ queue'[p].rec = queue[p].rec
             /\ p # q => queue'[p].state = queue[p].state
    BY <2>1, <2>2, QueueAfterType DEF TypeOK, QueueStates
  <2>4. e \in Event /\ e.rec = req[s].rec /\ e.from = e.to /\ ~e.recused
        /\ e.action \in SecondReviewActions
    <3>1. e \in Event
      BY EventOfType DEF TypeOK, Request
    <3>2. req[s].action \in SecondReviewActions
      BY <1>8 DEF RecordIntent, IntentInv, RequestsKeepRow
    <3> QED
      BY <3>1, <3>2 DEF EventOf
  <2> HIDE DEF e
  <2>5. PICK rec \in Records : rec = req[s].rec
    BY DEF TypeOK, Request
  <2>6. IntentsOn(rec)' # {}
    <3>1. /\ Len(events) + 1 \in DOMAIN events'
          /\ events'[Len(events) + 1] = e
      BY <2>2, <2>4, AppendKeeps DEF TypeOK
    <3> QED
      BY <2>4, <2>5, <3>1 DEF IntentsOn
  <2>7. RowsHaveIntent'
    <3>1. queue'[q].rec = rec
      BY <2>1, <2>3, <2>5
    <3>2. \A p \in DOMAIN queue : p # q /\ queue[p].state = "second_review"
                                    => IntentsOn(queue[p].rec) # {}
      BY DEF IntentInv, RowsHaveIntent
    <3> SUFFICES ASSUME NEW p \in DOMAIN queue', queue'[p].state = "second_review",
                        NEW at, at = queue'[p].rec
                 PROVE  IntentsOn(at)' # {}
      BY DEF RowsHaveIntent, IntentsOn
    <3>3. CASE p = q
      BY <2>6, <3>1, <3>3
    <3>4. CASE p # q
      BY <2>3, <3>2, <3>4, IntentsGrow
    <3> QED
      BY <3>3, <3>4
  <2> QED
    BY <2>1, <2>3, <2>7, FinishKeeps DEF IntentInv
<1>9. ASSUME NEW s \in Requests, LookUpFirstReviewer(s)
      PROVE  IntentInv'
  <2>1. queue' = queue /\ RowsHaveIntent'
    BY <1>9, IntentsGrow DEF LookUpFirstReviewer, IntentInv, RowsHaveIntent
  <2>2. CASE Finish(s)
    BY <2>1, <2>2, FinishKeeps DEF IntentInv
  <2>3. CASE req' = [req EXCEPT ![s].pc = "decide"]
    <3>1. /\ req'[s] = [req[s] EXCEPT !.pc = "decide"]
          /\ \A t \in Requests : t # s => req'[t] = req[t]
      BY <2>3 DEF TypeOK
    <3>2. /\ req'[s].pc = "decide" /\ req'[s].rec = req[s].rec /\ req'[s].q = req[s].q
          /\ req'[s].two = req[s].two /\ req'[s].action = req[s].action
      BY <3>1 DEF TypeOK, Request
    <3>3. RequestsKeepRow'
      <4>1. queue[req[s].q].rec = req[s].rec
        BY <1>9 DEF LookUpFirstReviewer, IntentInv, RequestsKeepRow, At
      <4> QED
        BY <2>1, <3>1, <3>2, <4>1 DEF IntentInv, RequestsKeepRow, At
    <3>4. ASSUME NEW t \in Requests, NEW rec, rec = req'[t].rec,
                 req'[t].pc \in {"lookup", "decide"},
                 NeedsSecondReview(req'[t].action, req'[t].two)
          PROVE  IntentsOn(rec)' # {}
      <4>1. CASE t = s
        <5>1. At(s, "lookup") /\ NeedsSecondReview(req[s].action, req[s].two)
          BY <1>9, <3>2, <3>4, <4>1 DEF LookUpFirstReviewer, At
        <5>2. IntentsOn(req[s].rec) # {}
          BY <5>1 DEF IntentInv, NoHastyDecision
        <5> QED
          BY <3>2, <3>4, <4>1, <5>2, IntentsGrow
      <4>2. CASE t # s
        <5>1. req'[t] = req[t]
          BY <3>1, <4>2
        <5>2. IntentsOn(req[t].rec) # {}
          BY <3>4, <5>1 DEF IntentInv, NoHastyDecision, At
        <5> QED
          BY <3>4, <5>1, <5>2, IntentsGrow
      <4> QED
        BY <4>1, <4>2
    <3> QED
      BY <2>1, <3>3, <3>4 DEF IntentInv, NoHastyDecision, At
  <2> QED
    BY <1>9, <2>2, <2>3 DEF LookUpFirstReviewer
<1> QED
  BY <1>1, <1>3, <1>4, <1>5, <1>6, <1>7, <1>8, <1>9 DEF Next, Step

\* On a row that needs two people, nobody gets to the deciding batch before an approval,
\* rejection or re-verification intent for the record is on file.
THEOREM HastyNever == Spec => []NoHastyDecision
<1>1. Init => IntentInv
  BY IdleType DEF Init, IntentInv, RowsHaveIntent, RequestsKeepRow, NoHastyDecision, At
<1>2. IntentInv => NoHastyDecision
  BY DEF IntentInv
<1> QED
  BY <1>1, <1>2, IntentNext, ReviewTypeCorrect, PTL DEF Spec
=============================================================================
