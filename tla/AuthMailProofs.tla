---------------------------- MODULE AuthMailProofs ----------------------------
(***************************************************************************)
(* Proofs about AuthMail, for any accounts, requests in flight, budget,      *)
(* window and lifetime.                                                    *)
(***************************************************************************)
EXTENDS AuthMail, FiniteSetTheorems, SequenceTheorems, TLAPS

-----------------------------------------------------------------------------
(* Type correctness.                                                       *)

\* The rows.
DataTyped ==
    /\ exists \subseteq People /\ verified \subseteq People
    /\ sendLog \subseteq Row
    /\ links \in Seq(Link)
    /\ mailed \subseteq [row : Row, link : Nat] /\ unsure \subseteq Nat /\ failed \subseteq Failure
    /\ ids \in Nat /\ clock \in Nat /\ calls \in Nat
\* The locals; a request in flight names an account.
CallTyped ==
    /\ call \in [Callers -> Call]
    /\ \A c \in Callers : call[c].pc # "idle" => call[c].p \in People
MailTyped == DataTyped /\ CallTyped

LEMMA IdleCallType == IdleCall \in Call /\ IdleCall.pc = "idle"
BY DEF IdleCall, Call, Purposes, PCs

\* A request that runs, and what its locals are.
LEMMA RunningCall ==
    ASSUME CallTyped, NEW c \in Callers, ~At(c, "idle")
    PROVE  call[c] \in Call /\ call[c].p \in People
BY DEF CallTyped, At

\* One slot moves on to well-typed locals.
LEMMA CallUpdated ==
    ASSUME CallTyped, NEW c \in Callers, NEW rec \in Call, rec.pc # "idle" => rec.p \in People,
           call' = [call EXCEPT ![c] = rec]
    PROVE  CallTyped'
BY DEF CallTyped

\* What a request learns is well typed.
LEMMA CallLearns ==
    ASSUME NEW old \in Call, NEW pc \in PCs, NEW n \in Nat
    PROVE  /\ [old EXCEPT !.pc = pc, !.row = n] \in Call
           /\ [old EXCEPT !.pc = pc, !.row = n].p = old.p
           /\ [old EXCEPT !.pc = pc, !.link = n] \in Call
           /\ [old EXCEPT !.pc = pc, !.link = n].p = old.p
BY DEF Call

LEMMA ReturnType ==
    ASSUME CallTyped, NEW c \in Callers, Return(c)
    PROVE  CallTyped'
BY IdleCallType, CallUpdated DEF Return

LEMMA GotoType ==
    ASSUME CallTyped, NEW c \in Callers, ~At(c, "idle"), NEW pc \in PCs, Goto(c, pc)
    PROVE  CallTyped'
<1> DEFINE rec == [call[c] EXCEPT !.pc = pc]
<1>1. rec \in Call /\ rec.p \in People
  BY RunningCall DEF Call
<1>2. call' = [call EXCEPT ![c] = rec]
  BY DEF Goto
<1> QED
  BY <1>1, <1>2, CallUpdated

LEMMA SettledType ==
    ASSUME CallTyped, NEW c \in Callers, ~At(c, "idle"), Settled(c)
    PROVE  CallTyped'
<1> DEFINE rec == [call[c] EXCEPT !.pc = "session", !.row = Forgotten(c)]
<1>1. CASE Registers(c)
  <2>1. rec \in Call /\ rec.p \in People
    BY RunningCall DEF Call, PCs, Forgotten
  <2>2. call' = [call EXCEPT ![c] = rec]
    BY <1>1 DEF Settled
  <2> QED
    BY <2>1, <2>2, CallUpdated
<1>2. CASE ~Registers(c)
  BY <1>2, ReturnType DEF Settled
<1> QED
  BY <1>1, <1>2

\* An exception moves the request on, and what it leaves behind is noted.
LEMMA ThrownType ==
    ASSUME CallTyped, NEW c \in Callers, ~At(c, "idle"), Thrown(c)
    PROVE  CallTyped'
BY ReturnType, GotoType DEF Thrown, PCs

LEMMA FailsType ==
    ASSUME DataTyped, CallTyped, NEW c \in Callers, ~At(c, "idle"),
           NEW step \in {"look-up", "release"}, Fails(c, step)
    PROVE  failed' \subseteq Failure
<1>1. call[c].row \in Nat
  BY RunningCall DEF Call
<1>2. [row |-> call[c].row, of |-> step] \in Failure
  BY <1>1 DEF Failure
<1> QED
  BY <1>2 DEF Fails, DataTyped

\* Links change their state in place, or one is added.
LEMMA LinkElement ==
    ASSUME links \in Seq(Link), NEW i \in DOMAIN links
    PROVE  /\ links[i] \in Link
           /\ \A state \in {"live", "spent", "revoked", "gone"} :
                [links[i] EXCEPT !.state = state] \in Link
<1>1. i \in 1..Len(links)
  OBVIOUS
<1>2. links[i] \in Link
  BY <1>1, ElementOfSeq
<1> QED
  BY <1>2 DEF Link

LEMMA LinkStateType ==
    ASSUME links \in Seq(Link), NEW i \in DOMAIN links,
           NEW state \in {"live", "spent", "revoked", "gone"}
    PROVE  [links EXCEPT ![i].state = state] \in Seq(Link)
<1> DEFINE moved == [links[i] EXCEPT !.state = state]
<1>1. moved \in Link
  BY LinkElement
<1>2. i \in 1..Len(links)
  OBVIOUS
<1>3. [links EXCEPT ![i] = moved] \in Seq(Link)
  BY <1>1, <1>2, ExceptSeq
<1> QED
  BY <1>3

LEMMA LinksMapped ==
    ASSUME links \in Seq(Link), NEW f, f = [i \in DOMAIN links |-> f[i]],
           \A i \in DOMAIN links : f[i] \in Link
    PROVE  f \in Seq(Link)
<1>1. DOMAIN links = 1..Len(links) /\ Len(links) \in Nat
  BY LenProperties
<1> QED
  BY <1>1, IsASeq

LEMMA MailTypeInit == Init => MailTyped
BY IdleCallType, EmptySeq DEF Init, MailTyped, DataTyped, CallTyped, People

LEMMA MailTypeNext == MailTyped /\ [Next]_mvars => MailTyped'
<1> SUFFICES ASSUME DataTyped, CallTyped, [Next]_mvars PROVE DataTyped' /\ CallTyped'
  BY DEF MailTyped
<1>1. CASE UNCHANGED mvars
  BY <1>1 DEF mvars, DataTyped, CallTyped
<1>2. ASSUME NEW c \in Callers, NEW p \in People, NEW kind \in Purposes, BeginSend(c, p, kind)
      PROVE  DataTyped' /\ CallTyped'
  <2> DEFINE rec == [IdleCall EXCEPT !.pc = "reserve", !.p = p, !.kind = kind, !.now = clock]
  <2>1. rec \in Call /\ rec.p \in People
    BY IdleCallType DEF Call, PCs, DataTyped
  <2>2. CallTyped'
    BY <1>2, <2>1, CallUpdated DEF BeginSend
  <2> QED
    BY <1>2, <2>2 DEF BeginSend, DataTyped
<1>3. ASSUME NEW c \in Callers, BeginRegistration(c) PROVE DataTyped' /\ CallTyped'
  <2>1. PICK p \in Newcomers \ exists :
          /\ exists' = exists \cup {p}
          /\ call' = [call EXCEPT ![c] = [IdleCall EXCEPT !.pc = "reserve", !.p = p, !.now = clock,
                                                          !.route = "register"]]
    BY <1>3 DEF BeginRegistration
  <2> DEFINE rec == [IdleCall EXCEPT !.pc = "reserve", !.p = p, !.now = clock, !.route = "register"]
  <2>2. p \in People
    BY DEF People
  <2>3. rec \in Call /\ rec.p \in People
    BY <2>2, IdleCallType DEF Call, PCs, DataTyped
  <2>4. CallTyped'
    BY <2>1, <2>3, CallUpdated
  <2> QED
    BY <1>3, <2>1, <2>2, <2>4 DEF BeginRegistration, DataTyped
<1>4. ASSUME NEW c \in Callers, OpenSession(c) PROVE DataTyped' /\ CallTyped'
  <2>1. ~At(c, "idle") /\ "give back" \in PCs
    BY <1>4 DEF OpenSession, At, PCs
  <2>2. CallTyped'
    BY <1>4, <2>1, ReturnType, GotoType DEF OpenSession
  <2> QED
    BY <1>4, <2>2 DEF OpenSession, DataTyped
<1>5. ASSUME NEW c \in Callers, Reserve(c) PROVE DataTyped' /\ CallTyped'
  <2> DEFINE row == [id |-> ids + 1, of |-> call[c].p, kind |-> call[c].kind, at |-> call[c].now]
             rec == [call[c] EXCEPT !.pc = "mint", !.row = ids + 1]
  <2>1. ~At(c, "idle")
    BY <1>5 DEF Reserve, At
  <2>2. call[c] \in Call /\ call[c].p \in People
    BY <2>1, RunningCall
  <2>3. CASE /\ sendLog' = sendLog \cup {row} /\ ids' = ids + 1
             /\ call' = [call EXCEPT ![c] = rec]
    <3>1. row \in Row
      BY <2>2 DEF Row, Call, DataTyped
    <3>2. "mint" \in PCs /\ ids + 1 \in Nat
      BY DEF PCs, DataTyped
    <3>4. rec \in Call /\ rec.p \in People
      BY <2>2, <3>2, CallLearns
    <3>3. CallTyped'
      BY <2>3, <3>4, CallUpdated
    <3> QED
      BY <1>5, <2>3, <3>1, <3>3 DEF Reserve, DataTyped
  <2>4. CASE (Settled(c) \/ Return(c)) /\ UNCHANGED <<sendLog, ids>>
    <3>1. CallTyped'
      BY <2>1, <2>4, SettledType, ReturnType
    <3> QED
      BY <1>5, <2>4, <3>1 DEF Reserve, DataTyped
  <2> QED
    BY <1>5, <2>3, <2>4 DEF Reserve
<1>6. ASSUME NEW c \in Callers, Mint(c) PROVE DataTyped' /\ CallTyped'
  <2> DEFINE new == [of |-> call[c].p, kind |-> call[c].kind, state |-> "live"]
             rec == [call[c] EXCEPT !.pc = "find", !.link = Len(links) + 1]
  <2>1. ~At(c, "idle") /\ "give back" \in PCs
    BY <1>6 DEF Mint, At, PCs
  <2>2. call[c] \in Call /\ call[c].p \in People /\ links \in Seq(Link)
    BY <2>1, RunningCall DEF DataTyped
  <2>3. CASE /\ links' = Append(Revoked(call[c].p, call[c].kind), new)
             /\ call' = [call EXCEPT ![c] = rec]
    <3>1. new \in Link
      BY <2>2 DEF Link, Call
    <3>2. Revoked(call[c].p, call[c].kind) \in Seq(Link)
      BY <2>2, LinkElement, LinksMapped DEF Revoked
    <3>3. links' \in Seq(Link)
      BY <2>3, <3>1, <3>2, AppendProperties
    <3>4. "find" \in PCs /\ Len(links) + 1 \in Nat
      BY <2>2, LenProperties DEF PCs
    <3>5. rec \in Call /\ rec.p \in People
      BY <2>2, <3>4, CallLearns
    <3>6. CallTyped'
      BY <2>3, <3>5, CallUpdated
    <3> QED
      BY <1>6, <3>3, <3>6 DEF Mint, DataTyped
  <2>4. CASE Goto(c, "give back") /\ UNCHANGED links
    <3>1. CallTyped'
      BY <2>1, <2>4, GotoType
    <3> QED
      BY <1>6, <2>4, <3>1 DEF Mint, DataTyped
  <2> QED
    BY <1>6, <2>3, <2>4 DEF Mint
<1>7. ASSUME NEW c \in Callers, GiveBack(c) PROVE DataTyped' /\ CallTyped'
  <2>1. CallTyped' /\ ~At(c, "idle")
    BY <1>7, ReturnType DEF GiveBack, At
  <2>2. failed' \subseteq Failure
    BY <1>7, <2>1, FailsType DEF GiveBack, DataTyped
  <2> QED
    BY <1>7, <2>1, <2>2 DEF GiveBack, Given, DataTyped
<1>8. ASSUME NEW c \in Callers, FindReservation(c) PROVE DataTyped' /\ CallTyped'
  <2>1. ~At(c, "idle") /\ "send" \in PCs
    BY <1>8 DEF FindReservation, At, PCs
  <2>2. CallTyped'
    BY <1>8, <2>1, SettledType, GotoType, ThrownType DEF FindReservation
  <2>3. failed' \subseteq Failure
    BY <1>8, <2>1, FailsType DEF FindReservation, DataTyped
  <2> QED
    BY <1>8, <2>2, <2>3 DEF FindReservation, DataTyped
<1>9. ASSUME NEW c \in Callers, SendMail(c) PROVE DataTyped' /\ CallTyped'
  <2> DEFINE mail == [row |-> [id |-> call[c].row, of |-> call[c].p, kind |-> call[c].kind,
                               at |-> call[c].now],
                      link |-> call[c].link]
  <2>1. ~At(c, "idle") /\ "release" \in PCs /\ "rethrow" \in PCs
    BY <1>9 DEF SendMail, At, PCs
  <2>2. CallTyped'
    BY <1>9, <2>1, SettledType, GotoType DEF SendMail
  <2>3. call[c] \in Call /\ call[c].p \in People
    BY <2>1, RunningCall
  <2>4. mail \in [row : Row, link : Nat] /\ call[c].row \in Nat
    BY <2>3 DEF Call, Row
  <2>5. mailed' \subseteq mailed \cup {mail} /\ unsure' \subseteq unsure \cup {call[c].row}
    BY <1>9 DEF SendMail
  <2> QED
    BY <1>9, <2>2, <2>4, <2>5 DEF SendMail, DataTyped
<1>10. ASSUME NEW c \in Callers, Release(c) PROVE DataTyped' /\ CallTyped'
  <2>1. ~At(c, "idle") /\ "rethrow" \in PCs
    BY <1>10 DEF Release, At, PCs
  <2>2. CallTyped'
    BY <1>10, <2>1, SettledType, GotoType, ThrownType DEF Release
  <2>3. failed' \subseteq Failure
    BY <1>10, <2>1, FailsType DEF Release, DataTyped
  <2> QED
    BY <1>10, <2>2, <2>3 DEF Release, Given, DataTyped
<1>11. ASSUME NEW c \in Callers, Rethrow(c) PROVE DataTyped' /\ CallTyped'
  <2>1. ~At(c, "idle")
    BY <1>11 DEF Rethrow, At
  <2>2. CallTyped'
    BY <1>11, <2>1, ThrownType DEF Rethrow
  <2>3. failed' \subseteq Failure
    BY <1>11, <2>1, FailsType DEF Rethrow, DataTyped
  <2> QED
    BY <1>11, <2>2, <2>3 DEF Rethrow, Given, DataTyped
<1>12. ASSUME NEW c \in Callers, Die(c) PROVE DataTyped' /\ CallTyped'
  <2>1. call[c].row \in Nat
    BY <1>12, RunningCall DEF Die, Call
  <2>2. CallTyped'
    BY <1>12, ReturnType DEF Die
  <2> QED
    BY <1>12, <2>1, <2>2 DEF Die, DataTyped
<1>13. ASSUME NEW i \in DOMAIN links, UseLink(i) PROVE DataTyped' /\ CallTyped'
  <2>1. links \in Seq(Link) /\ "spent" \in {"live", "spent", "revoked", "gone"}
    BY DEF DataTyped
  <2>2. links[i].of \in People
    BY <2>1, LinkElement DEF Link
  <2>3. links' \in Seq(Link)
    BY <1>13, <2>1, LinkStateType DEF UseLink
  <2> QED
    BY <1>13, <2>2, <2>3 DEF UseLink, DataTyped, CallTyped
<1>14. ASSUME NEW p \in People, Erase(p) PROVE DataTyped' /\ CallTyped'
  <2>1. links \in Seq(Link)
    BY DEF DataTyped
  <2>2. links' \in Seq(Link)
    BY <1>14, <2>1, LinkElement, LinksMapped DEF Erase
  <2> QED
    BY <1>14, <2>2 DEF Erase, DataTyped, CallTyped
<1>15. ASSUME SweepLog PROVE DataTyped' /\ CallTyped'
  BY <1>15 DEF SweepLog, DataTyped, CallTyped
<1>16. ASSUME Tick PROVE DataTyped' /\ CallTyped'
  BY <1>16 DEF Tick, DataTyped, CallTyped
<1> QED
  BY <1>1, <1>2, <1>3, <1>4, <1>5, <1>6, <1>7, <1>8, <1>9, <1>10, <1>11, <1>12, <1>13, <1>14, <1>15,
     <1>16 DEF Next, CallStep

\* MailTypeOK holds in every reachable state.
THEOREM MailTypeCorrect == Spec => []MailTypeOK
<1>1. MailTyped => MailTypeOK
  BY DEF MailTyped, DataTyped, CallTyped, MailTypeOK
<1> QED
  BY <1>1, MailTypeInit, MailTypeNext, PTL DEF Spec
-----------------------------------------------------------------------------
(* The budget.  A row is dated with the time its request read at the start, *)
(* so rows may land out of order; the admission counts every row of the     *)
(* window before that time and every later one, hence no stretch of the     *)
(* length of a window can overflow, whichever row was inserted last.        *)

\* The rows of an account in the window that begins at t.
Stretch(log, p, t) == {r \in log : r.of = p /\ t <= r.at /\ r.at <= t + Window}

BudgetInv ==
    /\ IsFiniteSet(sendLog)
    /\ \A p \in People, t \in Nat : Cardinality(Stretch(sendLog, p, t)) <= Limit

LEMMA FewerRows ==
    ASSUME BudgetInv, sendLog' \subseteq sendLog
    PROVE  BudgetInv'
<1>1. IsFiniteSet(sendLog') /\ IsFiniteSet(sendLog)
  BY FS_Subset DEF BudgetInv
<1>2. ASSUME NEW p \in People, NEW t \in Nat
      PROVE  Cardinality(Stretch(sendLog', p, t)) <= Limit
  <2>1. Stretch(sendLog, p, t) \subseteq sendLog /\ Stretch(sendLog', p, t) \subseteq Stretch(sendLog, p, t)
    BY DEF Stretch
  <2>2. IsFiniteSet(Stretch(sendLog, p, t))
    BY <1>1, <2>1, FS_Subset
  <2>3. /\ Cardinality(Stretch(sendLog', p, t)) <= Cardinality(Stretch(sendLog, p, t))
        /\ Cardinality(Stretch(sendLog', p, t)) \in Nat /\ Cardinality(Stretch(sendLog, p, t)) \in Nat
    BY <2>1, <2>2, FS_Subset, FS_CardinalityType
  <2>4. Cardinality(Stretch(sendLog, p, t)) <= Limit
    BY DEF BudgetInv
  <2> QED
    BY <2>3, <2>4, AuthMailAssumption
<1> QED
  BY <1>1, <1>2 DEF BudgetInv

\* The admitted row fits every stretch that contains it.
LEMMA AdmittedRowFits ==
    ASSUME MailTyped, BudgetInv, NEW row \in Row, row.of \in People,
           Cardinality(Recent(row.of, row.at)) < Limit, sendLog' = sendLog \cup {row}
    PROVE  BudgetInv'
<1>1. IsFiniteSet(sendLog) /\ IsFiniteSet(sendLog') /\ row.at \in Nat /\ Limit \in Nat /\ Window \in Nat
  BY FS_AddElement, AuthMailAssumption DEF BudgetInv, Row
<1>2. ASSUME NEW p \in People, NEW t \in Nat
      PROVE  Cardinality(Stretch(sendLog', p, t)) <= Limit
  <2> DEFINE old == Stretch(sendLog, p, t)
  <2>1. IsFiniteSet(old) /\ Cardinality(old) \in Nat
    <3>1. old \subseteq sendLog
      BY DEF Stretch
    <3> QED
      BY <1>1, <3>1, FS_Subset, FS_CardinalityType
  <2>2. Cardinality(old) <= Limit
    BY DEF BudgetInv
  <2>3. CASE row \in Stretch(sendLog', p, t)
    <3>1. row.of = p /\ t <= row.at /\ row.at <= t + Window
      BY <2>3 DEF Stretch
    <3>2. ASSUME NEW r \in old PROVE r \in Recent(p, row.at)
      <4>1. r \in sendLog /\ r.of = p /\ t <= r.at /\ r.at \in Nat
        BY DEF Stretch, MailTyped, DataTyped, Row
      <4>2. r.at + Window >= row.at
        BY <1>1, <3>1, <4>1
      <4> QED
        BY <4>1, <4>2 DEF Recent
    <3>3. Recent(p, row.at) \subseteq sendLog
      BY DEF Recent
    <3>4. IsFiniteSet(Recent(p, row.at)) /\ Cardinality(Recent(p, row.at)) \in Nat
      BY <1>1, <3>3, FS_Subset, FS_CardinalityType
    <3>5. Cardinality(old) <= Cardinality(Recent(p, row.at))
      <4>1. old \subseteq Recent(p, row.at)
        BY <3>2
      <4> HIDE DEF old
      <4> QED
        BY <3>4, <4>1, FS_Subset
    <3>6. Cardinality(old) < Limit
      BY <1>1, <2>1, <3>1, <3>4, <3>5
    <3>7. Stretch(sendLog', p, t) = old \cup {row}
      BY <2>3 DEF Stretch
    <3>8. Cardinality(old \cup {row}) <= Cardinality(old) + 1
      <4> HIDE DEF old
      <4> QED
        BY <2>1, FS_AddElement
    <3>9. Cardinality(old \cup {row}) \in Nat
      <4> HIDE DEF old
      <4> QED
        BY <2>1, FS_AddElement, FS_CardinalityType
    <3>10. Cardinality(old \cup {row}) <= Limit
      BY <1>1, <2>1, <3>6, <3>8, <3>9
    <3> QED
      BY <3>7, <3>10
  <2>4. CASE row \notin Stretch(sendLog', p, t)
    <3>1. Stretch(sendLog', p, t) = old
      BY <2>4 DEF Stretch
    <3> QED
      BY <2>2, <3>1
  <2> QED
    BY <2>3, <2>4
<1> QED
  BY <1>1, <1>2 DEF BudgetInv

LEMMA BudgetNext == MailTyped /\ BudgetInv /\ [Next]_mvars => BudgetInv'
<1> SUFFICES ASSUME MailTyped, BudgetInv, [Next]_mvars PROVE BudgetInv'
  OBVIOUS
<1>1. CASE UNCHANGED mvars
  BY <1>1, FewerRows DEF mvars
<1>2. ASSUME NEW c \in Callers, Reserve(c) PROVE BudgetInv'
  <2> DEFINE row == [id |-> ids + 1, of |-> call[c].p, kind |-> call[c].kind, at |-> call[c].now]
  <2>1. call[c] \in Call /\ call[c].p \in People /\ ids \in Nat
    BY <1>2, RunningCall DEF Reserve, At, MailTyped, DataTyped
  <2>2. CASE Admitted(call[c].p, call[c].kind, call[c].now) /\ sendLog' = sendLog \cup {row}
    <3>1. row \in Row /\ row.of = call[c].p /\ row.at = call[c].now
      BY <2>1 DEF Row, Call
    <3> HIDE DEF row
    <3>2. Cardinality(Recent(row.of, row.at)) < Limit /\ row.of \in People
      BY <2>1, <2>2, <3>1 DEF Admitted
    <3> QED
      BY <2>2, <3>1, <3>2, AdmittedRowFits
  <2>3. CASE UNCHANGED sendLog
    BY <2>3, FewerRows
  <2> QED
    BY <1>2, <2>2, <2>3 DEF Reserve
<1>3. ASSUME NEW c \in Callers, GiveBack(c) \/ Release(c) \/ Rethrow(c) PROVE BudgetInv'
  BY <1>3, FewerRows DEF GiveBack, Release, Rethrow, Given
<1>4. ASSUME NEW p \in People, Erase(p) PROVE BudgetInv'
  BY <1>4, FewerRows DEF Erase
<1>5. CASE SweepLog
  BY <1>5, FewerRows DEF SweepLog
<1>6. ASSUME NEW c \in Callers, CallStep(c), ~Reserve(c), ~GiveBack(c), ~Release(c), ~Rethrow(c)
      PROVE  BudgetInv'
  <2>1. UNCHANGED sendLog
    BY <1>6 DEF CallStep, BeginSend, BeginRegistration, OpenSession, Mint, FindReservation, SendMail, Die
  <2> QED
    BY <2>1, FewerRows
<1>7. ASSUME UNCHANGED sendLog PROVE BudgetInv'
  BY <1>7, FewerRows
<1>8. ASSUME NEW i \in DOMAIN links, UseLink(i) PROVE BudgetInv'
  BY <1>7, <1>8 DEF UseLink
<1>9. CASE Tick
  BY <1>7, <1>9 DEF Tick
<1> QED
  BY <1>1, <1>2, <1>3, <1>4, <1>5, <1>6, <1>8, <1>9 DEF Next

LEMMA BudgetInit == Init => BudgetInv
<1> SUFFICES ASSUME Init PROVE BudgetInv
  OBVIOUS
<1>1. \A p \in People, t \in Nat : Stretch(sendLog, p, t) = {}
  BY DEF Init, Stretch
<1>2. IsFiniteSet(sendLog) /\ Cardinality({}) = 0
  BY FS_EmptySet DEF Init
<1> QED
  BY <1>1, <1>2, AuthMailAssumption DEF BudgetInv

\* LogWithinBudget, for every budget, window and number of requests.
THEOREM BudgetHolds == Spec => []LogWithinBudget
<1>1. MailTyped /\ BudgetInv => LogWithinBudget
  <2> SUFFICES ASSUME MailTyped, BudgetInv, NEW p \in People, NEW t \in 0..clock
               PROVE  Cardinality({r \in sendLog : r.of = p /\ t <= r.at /\ r.at <= t + Window}) <= Limit
    BY DEF LogWithinBudget
  <2>1. t \in Nat
    BY DEF MailTyped, DataTyped
  <2> QED
    BY <2>1 DEF BudgetInv, Stretch
<1> QED
  BY <1>1, BudgetInit, MailTypeInit, MailTypeNext, BudgetNext, PTL DEF Spec
-----------------------------------------------------------------------------
(* The settlement.  A row belongs to the one request that holds it until its *)
(* mail is out, its fate is unknown or it is given back; an account that is  *)
(* gone does not come back, so a row that went with it is not missed.        *)

RowOf(rec) == [id |-> rec.row, of |-> rec.p, kind |-> rec.kind, at |-> rec.now]
\* The row is in the log, for as long as it counts.
Stands(row) == row.of \in exists /\ row.at + Window >= clock => row \in sendLog

\* Ids are given once.
IdsGiven ==
    /\ \A r \in sendLog : r.id \in 1..ids
    /\ \A m \in mailed : m.row.id \in 1..ids
\* Nobody is mailed under an address that is still free.
AddressesTaken ==
    /\ \A c \in Callers : call[c].p \in Newcomers => call[c].p \in exists
    /\ \A m \in mailed : m.row.of \in Newcomers => m.row.of \in exists
\* What a request holds: nothing before the admission and after the settlement, a row of
\* its own in between, which no mail has used, and which is there until the mail goes out.
Holding(rec) ==
    /\ rec.row \in 0..ids
    /\ rec.pc \in {"idle", "reserve", "session"} => rec.row = 0
    /\ rec.pc \in {"mint", "find", "send", "release", "rethrow"} => rec.row # 0
    /\ rec.row # 0 => \A r \in sendLog : r.id = rec.row => r = RowOf(rec)
    /\ rec.row # 0 => \A m \in mailed : m.row.id # rec.row
    /\ rec.pc \in {"mint", "find", "send"} => Stands(RowOf(rec))
HeldOnce ==
    /\ \A c \in Callers : Holding(call[c])
    /\ \A c, d \in Callers : c # d /\ call[c].row = call[d].row => call[c].row = 0
RowsInv == IdsGiven /\ AddressesTaken /\ HeldOnce /\ RowsStandForMail

LEMMA RowsInit == Init => RowsInv
<1> SUFFICES ASSUME Init PROVE RowsInv
  OBVIOUS
<1>1. \A c \in Callers : /\ call[c].pc = "idle" /\ call[c].row = 0 /\ call[c].p = NoAccount
  BY DEF Init, IdleCall
<1>2. sendLog = {} /\ mailed = {} /\ ids = 0
  BY DEF Init
<1>3. NoAccount \notin Newcomers
  BY AuthMailAssumption DEF People
<1> QED
  BY <1>1, <1>2, <1>3 DEF RowsInv, IdsGiven, AddressesTaken, HeldOnce, Holding, RowsStandForMail

\* How a request that holds a row moves on: it keeps the row or lets go of it, takes
\* nothing else out of the log, and a mail it sends is the one of its row.
Lets(c, rec) ==
    /\ call' = [call EXCEPT ![c] = rec]
    /\ rec.row = 0 \/ (rec.row = call[c].row /\ RowOf(rec) = RowOf(call[c]))
    /\ rec.pc \in {"idle", "reserve", "session"} => rec.row = 0
    /\ rec.pc \in {"mint", "find", "send", "release", "rethrow"} => rec.row # 0
    /\ rec.pc \in {"mint", "find", "send"} => sendLog' = sendLog /\ Stands(RowOf(rec))
    /\ rec.p \in Newcomers => rec.p \in exists'
    /\ exists \subseteq exists' /\ exists' \ exists \subseteq Newcomers
    /\ UNCHANGED <<ids, clock>>
    /\ sendLog' \subseteq sendLog /\ \A r \in sendLog \ sendLog' : r.id = call[c].row
    /\ mailed \subseteq mailed' /\ unsure \subseteq unsure' /\ failed \subseteq failed'
    /\ \A m \in mailed' \ mailed : /\ call[c].pc = "send" /\ m.row = RowOf(call[c])
                                  /\ rec.row = 0 /\ sendLog' = sendLog
    /\ call[c].row # 0 /\ rec.row = 0 =>
         \/ call[c].row \in unsure'
         \/ \E m \in mailed' : m.row.id = call[c].row
         \/ Abandoned(failed', call[c].row)
         \/ \A r \in sendLog' : r.id # call[c].row

LEMMA LetsGo ==
    ASSUME MailTyped, RowsInv, NEW c \in Callers, NEW rec, Lets(c, rec)
    PROVE  RowsInv'
<1>0. call'[c] = rec /\ \A d \in Callers \ {c} : call'[d] = call[d]
  BY DEF Lets, MailTyped, CallTyped
<1>1. PICK old : old = call[c]
  OBVIOUS
<1>2. Holding(old) /\ old \in Call /\ old.row \in Nat /\ ids \in Nat
  BY <1>1 DEF RowsInv, HeldOnce, MailTyped, CallTyped, DataTyped, Call
<1>3. \A m \in mailed' \ mailed : old.pc = "send" /\ m.row = RowOf(old) /\ m.row.id = old.row /\ old.row # 0
                                   /\ rec.row = 0 /\ Stands(RowOf(old))
  BY <1>1, <1>2 DEF Lets, RowOf, Holding
<1>4. IdsGiven'
  <2>1. ids' = ids /\ sendLog' \subseteq sendLog
    BY DEF Lets
  <2>2. \A m \in mailed' : m.row.id \in 1..ids
    BY <1>2, <1>3 DEF RowsInv, IdsGiven, Holding
  <2> QED
    BY <2>1, <2>2 DEF RowsInv, IdsGiven
<1>5. AddressesTaken'
  <2>1. exists \subseteq exists'
    BY DEF Lets
  <2>2. \A d \in Callers : call'[d].p \in Newcomers => call'[d].p \in exists'
    BY <1>0, <2>1 DEF Lets, RowsInv, AddressesTaken
  <2>3. \A m \in mailed' : m.row.of \in Newcomers => m.row.of \in exists'
    BY <1>1, <1>3, <2>1 DEF RowsInv, AddressesTaken, RowOf
  <2> QED
    BY <2>2, <2>3 DEF AddressesTaken
<1>6. ASSUME NEW row, Stands(row), row.of \in Newcomers => row.of \in exists, row.id # old.row
      PROVE  Stands(row)'
  BY <1>1, <1>6 DEF Stands, Lets
<1>7. Holding(rec)'
  <2>1. rec.row \in 0..ids
    BY <1>1, <1>2 DEF Lets, Holding
  <2>2. ASSUME rec.row # 0
        PROVE  /\ \A r \in sendLog' : r.id = rec.row => r = RowOf(rec)
               /\ \A m \in mailed' : m.row.id # rec.row
    BY <1>1, <1>2, <1>3, <2>2 DEF Lets, Holding
  <2>3. ASSUME rec.pc \in {"mint", "find", "send"} PROVE Stands(RowOf(rec))'
    <3>1. rec.row # 0 /\ sendLog' = sendLog /\ clock' = clock /\ Stands(RowOf(rec)) /\ RowOf(rec) = RowOf(old)
          /\ exists' \ exists \subseteq Newcomers
      BY <1>1, <2>3 DEF Lets
    <3>2. PICK row : row = RowOf(rec)
      OBVIOUS
    <3>3. row.of = old.p
      BY <3>1, <3>2 DEF RowOf
    <3>4. row.of \in exists' => row.of \in exists
      BY <1>1, <3>1, <3>3 DEF RowsInv, AddressesTaken
    <3>5. Stands(row)'
      BY <3>1, <3>2, <3>4 DEF Stands
    <3> QED
      BY <3>2, <3>5 DEF Stands, RowOf
  <2> QED
    BY <2>1, <2>2, <2>3 DEF Lets, Holding, Stands, RowOf
<1>8. ASSUME NEW d \in Callers \ {c} PROVE Holding(call[d])'
  <2>1. PICK other : other = call[d]
    OBVIOUS
  <2>2. other.row = old.row => old.row = 0
    BY <1>1, <2>1 DEF RowsInv, HeldOnce
  <2>3. Holding(other)
    BY <2>1 DEF RowsInv, HeldOnce
  <2>4. ids' = ids /\ sendLog' \subseteq sendLog
    BY DEF Lets
  <2>5. \A m \in mailed' : other.row # 0 => m.row.id # other.row
    BY <1>3, <2>2, <2>3 DEF Holding
  <2>6. ASSUME other.pc \in {"mint", "find", "send"} PROVE Stands(RowOf(other))'
    <3>1. other.row # 0 /\ Stands(RowOf(other))
      BY <2>3, <2>6 DEF Holding
    <3>2. PICK row : row = RowOf(other)
      OBVIOUS
    <3>3. row.id = other.row /\ row.of = other.p
      BY <3>2 DEF RowOf
    <3>4. other.p \in Newcomers => other.p \in exists
      BY <2>1 DEF RowsInv, AddressesTaken
    <3>5. Stands(row)'
      BY <1>6, <2>2, <2>3, <3>1, <3>2, <3>3, <3>4
    <3> QED
      BY <3>2, <3>5 DEF Stands, RowOf
  <2>7. Holding(other)'
    BY <2>3, <2>4, <2>5, <2>6 DEF Holding, RowOf
  <2>8. call'[d] = other
    BY <1>0, <2>1
  <2> QED
    BY <2>7, <2>8 DEF Holding, RowOf, Stands
<1>9. \A d, e \in Callers : d # e /\ call'[d].row = call'[e].row => call'[d].row = 0
  BY <1>0, <1>1 DEF Lets, RowsInv, HeldOnce
<1>10. HeldOnce'
  <2>1. \A d \in Callers : Holding(call[d])'
    <3>1. Holding(call[c])'
      BY <1>0, <1>7 DEF Holding, RowOf, Stands
    <3> QED
      BY <1>8, <3>1
  <2> QED
    BY <1>9, <2>1 DEF HeldOnce
<1>11. RowsStandForMail'
  <2>1. ASSUME NEW r \in sendLog'
        PROVE  \/ \E d \in Callers : call'[d].row = r.id
               \/ \E m \in mailed' : m.row.id = r.id
               \/ r.id \in unsure'
               \/ Abandoned(failed', r.id)
    <3>1. r \in sendLog
      BY <2>1 DEF Lets
    <3>2. CASE \E m \in mailed : m.row.id = r.id
      BY <3>2 DEF Lets
    <3>3. CASE r.id \in unsure \/ Abandoned(failed, r.id)
      BY <3>3 DEF Lets, Abandoned
    <3>4. ASSUME NEW d \in Callers, call[d].row = r.id
          PROVE  \/ \E e \in Callers : call'[e].row = r.id
                 \/ \E m \in mailed' : m.row.id = r.id
                 \/ r.id \in unsure'
                 \/ Abandoned(failed', r.id)
      <4>1. r.id # 0
        BY <3>1, <1>2 DEF RowsInv, IdsGiven
      <4>2. CASE d # c
        BY <1>0, <3>4, <4>2
      <4>3. CASE d = c
        BY <1>0, <1>1, <2>1, <3>4, <4>1, <4>3 DEF Lets
      <4> QED
        BY <4>2, <4>3
    <3> QED
      BY <3>1, <3>2, <3>3, <3>4 DEF RowsInv, RowsStandForMail
  <2>2. ASSUME NEW m \in mailed' PROVE Stands(m.row)'
    <3>1. CASE m \in mailed
      <4>1. Stands(m.row)
        BY <3>1 DEF RowsInv, RowsStandForMail, Stands
      <4>2. m.row.id # old.row
        BY <1>2, <3>1 DEF Holding, RowsInv, IdsGiven
      <4>3. m.row.of \in Newcomers => m.row.of \in exists
        BY <3>1 DEF RowsInv, AddressesTaken
      <4>4. PICK row : row = m.row
        OBVIOUS
      <4>5. Stands(row)'
        BY <1>6, <4>1, <4>2, <4>3, <4>4
      <4> QED
        BY <4>4, <4>5 DEF Stands
    <3>2. CASE m \notin mailed
      <4>1. old.pc = "send" /\ m.row = RowOf(old) /\ old.row # 0 /\ rec.row = 0 /\ Stands(RowOf(old))
        BY <1>3, <2>2, <3>2
      <4>2. sendLog' = sendLog
        BY <2>2, <3>2 DEF Lets
      <4>3. m.row.of = old.p /\ (old.p \in Newcomers => old.p \in exists)
        BY <1>1, <4>1 DEF RowOf, RowsInv, AddressesTaken
      <4> QED
        BY <4>1, <4>2, <4>3 DEF Stands, Lets
    <3> QED
      BY <3>1, <3>2
  <2> QED
    BY <2>1, <2>2 DEF RowsStandForMail, Stands
<1> QED
  BY <1>4, <1>5, <1>10, <1>11 DEF RowsInv

\* A request that ends, or whose mail is settled, holds no row.
LEMMA SlotEnds ==
    ASSUME CallTyped, NEW c \in Callers, Settled(c) \/ Return(c)
    PROVE  \E rec : /\ call' = [call EXCEPT ![c] = rec] /\ rec.row = 0 /\ rec.pc \in {"idle", "session"}
                    /\ rec.p \in Newcomers => rec.p = call[c].p
<1>1. IdleCall.row = 0 /\ IdleCall.pc = "idle" /\ IdleCall.p \notin Newcomers
  BY AuthMailAssumption DEF IdleCall, People
<1>2. CASE Return(c)
  BY <1>1, <1>2 DEF Return
<1>3. CASE call' = [call EXCEPT ![c] = [@ EXCEPT !.pc = "session", !.row = Forgotten(c)]]
  <2>1. PICK rec : rec = [call[c] EXCEPT !.pc = "session", !.row = Forgotten(c)]
    OBVIOUS
  <2>2. call' = [call EXCEPT ![c] = rec]
    BY <1>3, <2>1
  <2>3. rec.row = 0 /\ rec.pc = "session" /\ rec.p = call[c].p
    BY <2>1 DEF CallTyped, Call, Forgotten
  <2> QED
    BY <2>2, <2>3
<1> QED
  BY <1>2, <1>3 DEF Settled

\* A request that goes on keeps what it has.
LEMMA SlotGoes ==
    ASSUME CallTyped, NEW c \in Callers, NEW pc, Goto(c, pc)
    PROVE  \E rec : /\ call' = [call EXCEPT ![c] = rec] /\ rec.pc = pc
                    /\ rec.row = call[c].row /\ rec.p = call[c].p /\ RowOf(rec) = RowOf(call[c])
<1>1. PICK rec : rec = [call[c] EXCEPT !.pc = pc]
  OBVIOUS
<1>2. call' = [call EXCEPT ![c] = rec]
  BY <1>1 DEF Goto
<1>3. rec.pc = pc /\ rec.row = call[c].row /\ rec.p = call[c].p /\ RowOf(rec) = RowOf(call[c])
  BY <1>1 DEF CallTyped, Call, RowOf
<1> QED
  BY <1>2, <1>3

\* The admission gives a row that nobody has had.
LEMMA RowReserved ==
    ASSUME MailTyped, RowsInv, NEW c \in Callers, At(c, "reserve"), NEW rec, NEW row,
           rec = [call[c] EXCEPT !.pc = "mint", !.row = ids + 1],
           row = [id |-> ids + 1, of |-> call[c].p, kind |-> call[c].kind, at |-> call[c].now],
           call' = [call EXCEPT ![c] = rec], sendLog' = sendLog \cup {row}, ids' = ids + 1,
           UNCHANGED <<exists, mailed, unsure, failed, clock>>
    PROVE  RowsInv'
<1>0. call'[c] = rec /\ \A d \in Callers \ {c} : call'[d] = call[d]
  BY DEF MailTyped, CallTyped
<1>1. rec.pc = "mint" /\ rec.row = ids + 1 /\ rec.p = call[c].p /\ RowOf(rec) = row /\ row.id = ids + 1
  BY DEF MailTyped, CallTyped, Call, RowOf
<1>2. ids \in Nat /\ call[c].row = 0
  BY DEF MailTyped, DataTyped, RowsInv, HeldOnce, Holding, At
<1>3. IdsGiven'
  BY <1>1, <1>2 DEF RowsInv, IdsGiven
<1>4. AddressesTaken'
  BY <1>0, <1>1 DEF RowsInv, AddressesTaken
<1>5. Holding(rec)'
  <2>1. rec.row \in 0..ids' /\ rec.row # 0 /\ rec.pc = "mint"
    BY <1>1, <1>2
  <2>2. \A r \in sendLog' : r.id = rec.row => r = RowOf(rec)
    BY <1>1, <1>2 DEF RowsInv, IdsGiven
  <2>3. \A m \in mailed' : m.row.id # rec.row
    BY <1>1, <1>2 DEF RowsInv, IdsGiven
  <2>4. Stands(RowOf(rec))'
    <3>1. row \in sendLog'
      OBVIOUS
    <3> QED
      BY <1>1, <3>1 DEF Stands, RowOf
  <2> QED
    BY <2>1, <2>2, <2>3, <2>4 DEF Holding, RowOf
<1>6. ASSUME NEW d \in Callers \ {c} PROVE Holding(call[d])' /\ call'[d].row # ids + 1
  <2>1. PICK other : other = call[d] /\ other = call'[d]
    BY <1>0
  <2>2. Holding(other) /\ other.row \in 0..ids
    BY <2>1 DEF RowsInv, HeldOnce, Holding
  <2>3. other.row # ids + 1 /\ other.row \in 0..ids'
    BY <1>2, <2>2
  <2>4. other.row # 0 => \A r \in sendLog' : r.id = other.row => r = RowOf(other)
    BY <1>1, <2>2, <2>3 DEF Holding
  <2>5. Holding(other)'
    BY <2>2, <2>3, <2>4 DEF Holding, RowOf, Stands
  <2> QED
    BY <2>1, <2>3, <2>5 DEF Holding, RowOf, Stands
<1>7. HeldOnce'
  <2>1. \A d \in Callers : Holding(call[d])'
    <3>1. Holding(call[c])'
      BY <1>0, <1>5 DEF Holding, RowOf, Stands
    <3> QED
      BY <1>6, <3>1
  <2>2. ASSUME NEW d \in Callers, NEW e \in Callers, d # e, call'[d].row = call'[e].row
        PROVE  call'[d].row = 0
    <3>1. CASE d # c /\ e # c
      BY <1>0, <2>2, <3>1 DEF RowsInv, HeldOnce
    <3>2. CASE d = c \/ e = c
      BY <1>0, <1>1, <1>6, <2>2, <3>2
    <3> QED
      BY <3>1, <3>2
  <2> QED
    BY <2>1, <2>2 DEF HeldOnce
<1>8. RowsStandForMail'
  <2>1. ASSUME NEW r \in sendLog'
        PROVE  \/ \E d \in Callers : call'[d].row = r.id
               \/ \E m \in mailed' : m.row.id = r.id
               \/ r.id \in unsure'
               \/ Abandoned(failed', r.id)
    <3>1. CASE r = row
      BY <1>0, <1>1, <3>1
    <3>2. CASE r \in sendLog
      <4>1. r.id # 0
        BY <1>2, <3>2 DEF RowsInv, IdsGiven
      <4>2. ASSUME NEW d \in Callers, call[d].row = r.id PROVE call'[d].row = r.id
        BY <1>0, <1>2, <4>1, <4>2
      <4> QED
        BY <3>2, <4>2 DEF RowsInv, RowsStandForMail
    <3> QED
      BY <3>1, <3>2
  <2> QED
    BY <2>1 DEF RowsInv, RowsStandForMail
<1> QED
  BY <1>3, <1>4, <1>7, <1>8 DEF RowsInv

\* Rows go with their account or because they are old, and time passes.
LEMMA RowsAge ==
    ASSUME MailTyped, RowsInv, UNCHANGED <<mailed, unsure, failed, ids, call>>,
           exists' \subseteq exists, \A p \in Newcomers : p \in exists => p \in exists',
           clock' \in Nat, clock <= clock', sendLog' \subseteq sendLog,
           \A r \in sendLog \ sendLog' : r.of \notin exists' \/ r.at + Window < clock'
    PROVE  RowsInv'
<1>1. ASSUME NEW row \in Row, Stands(row) PROVE Stands(row)'
  <2>1. row.at \in Nat /\ Window \in Nat /\ clock \in Nat
    BY AuthMailAssumption DEF MailTyped, DataTyped, Row
  <2>2. row.at + Window >= clock' => row.at + Window >= clock
    BY <2>1
  <2>3. ~(row.at + Window < clock' /\ row.at + Window >= clock')
    BY <2>1
  <2> QED
    BY <1>1, <2>2, <2>3 DEF Stands
<1>2. IdsGiven' /\ AddressesTaken'
  BY DEF RowsInv, IdsGiven, AddressesTaken
<1>3. ASSUME NEW c \in Callers PROVE Holding(call[c])'
  <2>1. PICK rec : rec = call[c] /\ rec = call'[c]
    OBVIOUS
  <2>2. Holding(rec) /\ rec \in Call
    BY <2>1 DEF RowsInv, HeldOnce, MailTyped, CallTyped
  <2>3. ASSUME rec.pc \in {"mint", "find", "send"} PROVE Stands(RowOf(rec))'
    <3>1. rec.p \in People
      BY <2>1, <2>3 DEF MailTyped, CallTyped
    <3>2. PICK row : row = RowOf(rec)
      OBVIOUS
    <3>3. row \in Row
      BY <2>2, <3>1, <3>2 DEF RowOf, Row, Call
    <3>4. Stands(row)
      BY <2>2, <2>3, <3>2 DEF Holding
    <3>5. Stands(row)'
      BY <1>1, <3>3, <3>4
    <3> QED
      BY <3>2, <3>5 DEF Stands, RowOf
  <2>4. Holding(rec)'
    BY <2>2, <2>3 DEF Holding, RowOf
  <2> QED
    BY <2>1, <2>4 DEF Holding, RowOf, Stands
<1>4. HeldOnce'
  BY <1>3 DEF RowsInv, HeldOnce
<1>5. RowsStandForMail'
  <2>1. ASSUME NEW m \in mailed' PROVE Stands(m.row)'
    <3>1. PICK row \in Row : row = m.row
      BY DEF MailTyped, DataTyped
    <3>2. Stands(row)
      BY <3>1 DEF RowsInv, RowsStandForMail, Stands
    <3>3. Stands(row)'
      BY <1>1, <3>2
    <3> QED
      BY <3>1, <3>3 DEF Stands
  <2> QED
    BY <2>1 DEF RowsInv, RowsStandForMail, Stands
<1> QED
  BY <1>2, <1>4, <1>5 DEF RowsInv

LEMMA RowsNext ==
    ASSUME MailTyped, RowsInv, [Next]_mvars
    PROVE  RowsInv'
<1>0. CallTyped /\ Window \in Nat /\ SweepAge \in Nat /\ SweepAge >= Window /\ clock \in Nat
  BY AuthMailAssumption DEF MailTyped, DataTyped
<1>1. ASSUME NEW c \in Callers, \E rec : Lets(c, rec) PROVE RowsInv'
  BY <1>1, LetsGo
<1>2. \A c \in Callers : /\ call[c].pc \in {"idle", "reserve", "session"} => call[c].row = 0
                         /\ call[c].pc \in {"mint", "find", "send", "release", "rethrow"} => call[c].row # 0
                         /\ call[c].p \in Newcomers => call[c].p \in exists
  BY DEF RowsInv, HeldOnce, Holding, AddressesTaken
<1>3. ASSUME NEW c \in Callers, NEW p \in People, NEW kind \in Purposes, BeginSend(c, p, kind) PROVE RowsInv'
  <2>1. PICK rec : rec = [IdleCall EXCEPT !.pc = "reserve", !.p = p, !.kind = kind, !.now = clock]
    OBVIOUS
  <2>2. rec.pc = "reserve" /\ rec.row = 0 /\ rec.p = p
    BY <2>1 DEF IdleCall
  <2>3. Lets(c, rec)
    BY <1>2, <1>3, <2>1, <2>2 DEF BeginSend, At, Lets
  <2> QED
    BY <1>1, <2>3
<1>4. ASSUME NEW c \in Callers, BeginRegistration(c) PROVE RowsInv'
  <2>1. PICK p \in Newcomers \ exists :
          /\ exists' = exists \cup {p}
          /\ call' = [call EXCEPT ![c] = [IdleCall EXCEPT !.pc = "reserve", !.p = p, !.now = clock,
                                                          !.route = "register"]]
    BY <1>4 DEF BeginRegistration
  <2>2. PICK rec : rec = [IdleCall EXCEPT !.pc = "reserve", !.p = p, !.now = clock, !.route = "register"]
    OBVIOUS
  <2>3. rec.pc = "reserve" /\ rec.row = 0 /\ rec.p = p
    BY <2>2 DEF IdleCall
  <2>4. Lets(c, rec)
    BY <1>2, <1>4, <2>1, <2>2, <2>3 DEF BeginRegistration, At, Lets
  <2> QED
    BY <1>1, <2>4
\* Ways to end without a row to settle, or with one that is settled in the same step.
<1>5. ASSUME NEW c \in Callers, Settled(c) \/ Return(c), UNCHANGED <<exists, ids, clock>>,
             sendLog' \subseteq sendLog, \A r \in sendLog \ sendLog' : r.id = call[c].row,
             mailed \subseteq mailed', unsure \subseteq unsure', failed \subseteq failed',
             \A m \in mailed' \ mailed : /\ call[c].pc = "send" /\ m.row = RowOf(call[c])
                                         /\ sendLog' = sendLog,
             call[c].row # 0 =>
               \/ call[c].row \in unsure'
               \/ \E m \in mailed' : m.row.id = call[c].row
               \/ Abandoned(failed', call[c].row)
               \/ \A r \in sendLog' : r.id # call[c].row
      PROVE  RowsInv'
  <2>1. PICK rec : /\ call' = [call EXCEPT ![c] = rec] /\ rec.row = 0 /\ rec.pc \in {"idle", "session"}
                   /\ rec.p \in Newcomers => rec.p = call[c].p
    BY <1>0, <1>5, SlotEnds
  <2>2. Lets(c, rec)
    BY <1>2, <1>5, <2>1 DEF Lets
  <2> QED
    BY <1>1, <2>2
\* Ways to go on with the row that is held, or was.
<1>6. ASSUME NEW c \in Callers, NEW pc \in {"give back", "send", "release", "rethrow"}, Goto(c, pc),
             UNCHANGED <<exists, ids, clock, mailed>>, unsure \subseteq unsure', failed \subseteq failed',
             sendLog' \subseteq sendLog, \A r \in sendLog \ sendLog' : r.id = call[c].row,
             pc = "send" => UNCHANGED sendLog,
             pc \in {"release", "rethrow"} => call[c].row # 0,
             pc = "send" => call[c].row # 0 /\ RowOf(call[c]) \in sendLog
      PROVE  RowsInv'
  <2>1. PICK rec : /\ call' = [call EXCEPT ![c] = rec] /\ rec.pc = pc
                   /\ rec.row = call[c].row /\ rec.p = call[c].p /\ RowOf(rec) = RowOf(call[c])
    BY <1>0, <1>6, SlotGoes
  <2>2. rec.pc \in {"mint", "find", "send"} => Stands(RowOf(rec))
    BY <1>6, <2>1 DEF Stands
  <2>3. Lets(c, rec)
    BY <1>2, <1>6, <2>1, <2>2 DEF Lets
  <2> QED
    BY <1>1, <2>3
<1>7. ASSUME NEW c \in Callers, OpenSession(c) PROVE RowsInv'
  <2>1. call[c].row = 0 /\ UNCHANGED <<exists, ids, clock, sendLog, mailed, unsure, failed>>
    BY <1>2, <1>7 DEF OpenSession, At
  <2> QED
    BY <1>5, <1>6, <1>7, <2>1 DEF OpenSession
<1>8. ASSUME NEW c \in Callers, Reserve(c) PROVE RowsInv'
  <2>1. PICK rec : rec = [call[c] EXCEPT !.pc = "mint", !.row = ids + 1]
    OBVIOUS
  <2>2. PICK row : row = [id |-> ids + 1, of |-> call[c].p, kind |-> call[c].kind, at |-> call[c].now]
    OBVIOUS
  <2>3. At(c, "reserve") /\ call[c].row = 0 /\ UNCHANGED <<exists, mailed, unsure, failed, clock>>
    BY <1>2, <1>8 DEF Reserve, At
  <2>4. CASE /\ sendLog' = sendLog \cup {row} /\ ids' = ids + 1
             /\ call' = [call EXCEPT ![c] = rec]
    BY <2>1, <2>2, <2>3, <2>4, RowReserved
  <2>5. CASE (Settled(c) \/ Return(c)) /\ UNCHANGED <<sendLog, ids>>
    BY <1>5, <2>3, <2>5
  <2> QED
    BY <1>8, <2>1, <2>2, <2>4, <2>5 DEF Reserve
<1>9. ASSUME NEW c \in Callers, Mint(c) PROVE RowsInv'
  <2>1. call[c].row # 0 /\ UNCHANGED <<exists, ids, clock, sendLog, mailed, unsure, failed>>
    BY <1>2, <1>9 DEF Mint, At
  <2>2. CASE Goto(c, "give back")
    BY <1>6, <2>1, <2>2
  <2>3. CASE call' = [call EXCEPT ![c] = [@ EXCEPT !.pc = "find", !.link = Len(links) + 1]]
    <3>1. PICK rec : rec = [call[c] EXCEPT !.pc = "find", !.link = Len(links) + 1]
      OBVIOUS
    <3>2. /\ rec.pc = "find" /\ rec.row = call[c].row /\ rec.p = call[c].p
          /\ RowOf(rec) = RowOf(call[c])
      BY <1>0, <3>1 DEF CallTyped, Call, RowOf
    <3>3. Stands(RowOf(rec))
      <4>1. Stands(RowOf(call[c]))
        BY <1>9 DEF Mint, At, RowsInv, HeldOnce, Holding
      <4> QED
        BY <3>2, <4>1
    <3>4. Lets(c, rec)
      BY <1>2, <2>1, <2>3, <3>1, <3>2, <3>3 DEF Lets
    <3> QED
      BY <1>1, <3>4
  <2> QED
    BY <1>9, <2>2, <2>3 DEF Mint
\* What a call that throws leaves behind.
<1>10. ASSUME NEW c \in Callers, NEW step \in {"look-up", "release"}, Fails(c, step)
       PROVE  /\ failed \subseteq failed'
              /\ Registers(c) \/ At(c, "give back") => Abandoned(failed', call[c].row)
  <2>1. PICK note : note = [row |-> call[c].row, of |-> step]
    OBVIOUS
  <2>2. note.row = call[c].row
    BY <2>1
  <2>3. failed' = IF Registers(c) \/ At(c, "give back") THEN failed \cup {note} ELSE failed
    BY <1>10, <2>1 DEF Fails
  <2>4. CASE Registers(c) \/ At(c, "give back")
    <3>1. failed' = failed \cup {note}
      BY <2>3, <2>4
    <3>2. Abandoned(failed', call[c].row)
      BY <2>2, <3>1 DEF Abandoned
    <3> QED
      BY <3>1, <3>2
  <2>5. CASE ~(Registers(c) \/ At(c, "give back"))
    BY <2>3, <2>5
  <2> QED
    BY <2>4, <2>5
<1>11. ASSUME NEW c \in Callers, Thrown(c), call[c].row # 0,
              \/ \A r \in sendLog' : r.id # call[c].row
              \/ Registers(c) => Abandoned(failed', call[c].row),
              failed \subseteq failed', UNCHANGED <<exists, ids, clock, mailed, unsure>>,
              sendLog' \subseteq sendLog, \A r \in sendLog \ sendLog' : r.id = call[c].row
       PROVE  RowsInv'
  <2>1. CASE Registers(c)
    <3>1. Return(c)
      BY <1>11, <2>1 DEF Thrown
    <3> QED
      BY <1>5, <1>11, <2>1, <3>1
  <2>2. CASE ~Registers(c)
    <3>1. Goto(c, "give back")
      BY <1>11, <2>2 DEF Thrown
    <3> QED
      BY <1>6, <1>11, <3>1
  <2> QED
    BY <2>1, <2>2
<1>12. ASSUME NEW c \in Callers, GiveBack(c) PROVE RowsInv'
  <2>1. UNCHANGED <<exists, ids, clock, mailed, unsure>> /\ Return(c)
    BY <1>12 DEF GiveBack
  <2>2. CASE sendLog' = Given(call[c].row) /\ UNCHANGED failed
    BY <1>5, <2>1, <2>2 DEF Given
  <2>3. CASE Fails(c, "release") /\ UNCHANGED sendLog
    <3>1. failed \subseteq failed' /\ Abandoned(failed', call[c].row)
      BY <1>12, <1>10, <2>3 DEF GiveBack
    <3> QED
      BY <1>5, <2>1, <2>3, <3>1
  <2> QED
    BY <1>12, <2>2, <2>3 DEF GiveBack
<1>13. ASSUME NEW c \in Callers, Release(c) PROVE RowsInv'
  <2>1. UNCHANGED <<exists, ids, clock, mailed, unsure>> /\ call[c].row # 0
    BY <1>2, <1>13 DEF Release, At
  <2>2. CASE sendLog' = Given(call[c].row) /\ Settled(c) /\ UNCHANGED failed
    BY <1>5, <2>1, <2>2 DEF Given
  <2>3. CASE Goto(c, "rethrow") /\ UNCHANGED <<sendLog, failed>>
    BY <1>6, <2>1, <2>3
  <2>4. CASE Thrown(c) /\ Fails(c, "release") /\ UNCHANGED sendLog
    <3>1. failed \subseteq failed' /\ (Registers(c) => Abandoned(failed', call[c].row))
      BY <1>10, <2>4
    <3> QED
      BY <1>11, <2>1, <2>4, <3>1
  <2> QED
    BY <1>13, <2>2, <2>3, <2>4 DEF Release
<1>14. ASSUME NEW c \in Callers, Rethrow(c) PROVE RowsInv'
  <2>1. UNCHANGED <<exists, ids, clock, mailed, unsure>> /\ call[c].row # 0 /\ Thrown(c)
    BY <1>2, <1>14 DEF Rethrow, At
  <2>2. CASE sendLog' = Given(call[c].row) /\ UNCHANGED failed
    BY <1>11, <2>1, <2>2 DEF Given
  <2>3. CASE Fails(c, "release") /\ UNCHANGED sendLog
    <3>1. failed \subseteq failed' /\ (Registers(c) => Abandoned(failed', call[c].row))
      BY <1>10, <2>3
    <3> QED
      BY <1>11, <2>1, <2>3, <3>1
  <2> QED
    BY <1>14, <2>2, <2>3 DEF Rethrow
<1>15. ASSUME NEW c \in Callers, FindReservation(c) PROVE RowsInv'
  <2>1. call[c].row # 0 /\ UNCHANGED <<exists, ids, clock, sendLog, mailed, unsure>>
    BY <1>2, <1>15 DEF FindReservation, At
  <2>2. \A r \in sendLog : r.id = call[c].row => r = RowOf(call[c])
    BY <2>1 DEF RowsInv, HeldOnce, Holding
  <2>3. CASE Held(c) # {} /\ Goto(c, "send") /\ UNCHANGED failed
    <3>1. RowOf(call[c]) \in sendLog
      BY <2>2, <2>3 DEF Held
    <3> QED
      BY <1>6, <2>1, <2>3, <3>1
  <2>4. CASE Held(c) = {} /\ Settled(c) /\ UNCHANGED failed
    <3>1. RowOf(call[c]) \notin sendLog
      BY <2>4 DEF Held, RowOf
    <3>2. \A r \in sendLog' : r.id # call[c].row
      BY <2>1, <2>2, <3>1
    <3> QED
      BY <1>5, <2>1, <2>4, <3>2
  <2>5. CASE Thrown(c) /\ Fails(c, "look-up")
    <3>1. failed \subseteq failed' /\ (Registers(c) => Abandoned(failed', call[c].row))
      BY <1>10, <2>5
    <3> QED
      BY <1>11, <2>1, <2>5, <3>1
  <2> QED
    BY <1>15, <2>3, <2>4, <2>5 DEF FindReservation
<1>16. ASSUME NEW c \in Callers, SendMail(c) PROVE RowsInv'
  <2>1. PICK mail : mail = [row |-> RowOf(call[c]), link |-> call[c].link]
    OBVIOUS
  <2>2. call[c].pc = "send" /\ call[c].row # 0 /\ UNCHANGED <<exists, ids, clock, sendLog, failed>>
    BY <1>2, <1>16 DEF SendMail, At
  <2>3. CASE Goto(c, "rethrow") /\ UNCHANGED <<mailed, unsure>>
    BY <1>6, <2>2, <2>3
  <2>4. ASSUME NEW answer \in {"accepted", "refused", "unsure"},
               \/ answer # "refused" /\ mailed' = mailed \cup {mail}
               \/ answer # "accepted" /\ UNCHANGED mailed,
               unsure' = IF answer = "unsure" THEN unsure \cup {call[c].row} ELSE unsure,
               IF Releasing(answer) THEN Goto(c, "release") ELSE Settled(c)
        PROVE  RowsInv'
    <3>1. mail.row = RowOf(call[c]) /\ mail.row.id = call[c].row
      BY <2>1 DEF RowOf
    <3>2. CASE answer = "refused"
      BY <1>6, <2>2, <2>4, <3>2 DEF Releasing
    <3>3. CASE answer # "refused"
      <4>1. Settled(c) /\ mailed \subseteq mailed' /\ unsure \subseteq unsure'
        BY <2>4, <3>3 DEF Releasing
      <4>2. \A m \in mailed' \ mailed : m.row = RowOf(call[c])
        BY <2>4, <3>1
      <4>3. call[c].row \in unsure' \/ \E m \in mailed' : m.row.id = call[c].row
        BY <2>4, <3>1, <3>3
      <4> QED
        BY <1>5, <2>2, <4>1, <4>2, <4>3
    <3> QED
      BY <3>2, <3>3
  <2> QED
    BY <1>16, <2>1, <2>3, <2>4 DEF SendMail, RowOf
<1>17. ASSUME NEW c \in Callers, Die(c) PROVE RowsInv'
  <2>1. Return(c) /\ UNCHANGED <<exists, ids, clock, sendLog, mailed, failed>> /\ unsure \subseteq unsure'
        /\ (call[c].row # 0 => call[c].row \in unsure')
    BY <1>17 DEF Die
  <2> QED
    BY <1>5, <2>1
<1>18. ASSUME NEW i \in DOMAIN links, UseLink(i) PROVE RowsInv'
  BY <1>0, <1>18, RowsAge DEF UseLink
<1>19. ASSUME NEW p \in People, Erase(p) PROVE RowsInv'
  <2>1. p \notin Newcomers
    BY <1>19, AuthMailAssumption DEF Erase
  <2> QED
    BY <1>0, <1>19, <2>1, RowsAge DEF Erase
<1>20. CASE SweepLog
  <2>1. \A r \in sendLog \ sendLog' : r.at + Window < clock
    <3>1. \A r \in sendLog : r.at \in Nat
      BY DEF MailTyped, DataTyped, Row
    <3> QED
      BY <1>0, <1>20, <3>1 DEF SweepLog
  <2> QED
    BY <1>0, <1>20, <2>1, RowsAge DEF SweepLog
<1>21. CASE Tick
  BY <1>0, <1>21, RowsAge DEF Tick
<1>22. CASE UNCHANGED mvars
  BY <1>0, <1>22, RowsAge DEF mvars
<1> QED
  BY <1>3, <1>4, <1>7, <1>8, <1>9, <1>12, <1>13, <1>14, <1>15, <1>16, <1>17, <1>18,
     <1>19, <1>20, <1>21, <1>22 DEF Next, CallStep

\* A row stands for a mail that is out, may be out or is on its way, or it is one that the
\* last call to give it back failed on, and a mail that is out keeps its row for as long as
\* it counts, whichever call of a request throws or dies.
THEOREM RowsSettled == Spec => []RowsStandForMail
<1>1. RowsInv => RowsStandForMail
  BY DEF RowsInv
<1> QED
  BY <1>1, MailTypeInit, MailTypeNext, RowsInit, RowsNext, PTL DEF Spec
-----------------------------------------------------------------------------
(* The links.  A request mints only while its row counts, and a budget of    *)
(* one mail leaves no room for a second row that counts: no link that waits   *)
(* to be sent or is out within its window is in the way of a mint.           *)

LinkLives(l, p) == l \in DOMAIN links /\ links[l].of = p /\ links[l].state # "revoked"
\* A request in flight is young, and the link it is about to send lives.
LinkHeld(rec) ==
    /\ rec.pc # "idle" => rec.now <= clock /\ clock <= rec.now + Lifetime
    /\ rec.pc \in {"find", "send"} => LinkLives(rec.link, rec.p)
LinkOut(m) ==
    /\ m.link \in DOMAIN links /\ links[m.link].of = m.row.of /\ m.row.at <= clock
    /\ links[m.link].state = "revoked" => m.row.at + Window < clock
LinksInv ==
    /\ \A r \in sendLog : r.at <= clock
    /\ \A c \in Callers : LinkHeld(call[c])
    /\ \A m \in mailed : LinkOut(m)

\* Two rows of one account that count now are one.
LEMMA SoleRow ==
    ASSUME Limit = 1, MailTyped, BudgetInv, LinksInv, NEW r \in sendLog, NEW s \in sendLog,
           r.of = s.of, r.at + Window >= clock, s.at + Window >= clock
    PROVE  r = s
<1>1. r \in Row /\ s \in Row /\ clock \in Nat /\ Window \in Nat /\ r.at <= clock /\ s.at <= clock
  BY AuthMailAssumption DEF MailTyped, DataTyped, LinksInv
<1>2. r.at \in Nat /\ s.at \in Nat /\ r.of \in People
  BY <1>1 DEF Row
<1>3. PICK t \in Nat : t <= r.at /\ t <= s.at /\ (t = r.at \/ t = s.at)
  <2>1. CASE r.at <= s.at
    BY <1>2, <2>1
  <2>2. CASE s.at <= r.at
    BY <1>2, <2>2
  <2> QED
    BY <1>2, <2>1, <2>2
<1>4. r.at <= t + Window /\ s.at <= t + Window
  BY <1>1, <1>2, <1>3
<1>5. PICK both : both = Stretch(sendLog, r.of, t)
  OBVIOUS
<1>6. r \in both /\ s \in both
  BY <1>3, <1>4, <1>5 DEF Stretch
<1>7. IsFiniteSet(both) /\ Cardinality(both) <= 1
  <2>1. both \subseteq sendLog
    BY <1>5 DEF Stretch
  <2> QED
    BY <1>2, <1>5, <2>1, FS_Subset DEF BudgetInv
<1>8. Cardinality(both) \in Nat
  BY <1>7, FS_CardinalityType
<1>9. CASE Cardinality(both) = 0
  BY <1>6, <1>7, <1>9, FS_EmptySet
<1>10. CASE Cardinality(both) = 1
  BY <1>6, <1>7, <1>10, FS_Singleton
<1> QED
  BY <1>7, <1>8, <1>9, <1>10

\* The request in a slot goes on, the others keep their links.
LEMMA LinkStep ==
    ASSUME MailTyped, LinksInv, NEW c \in Callers, NEW rec,
           call' = [call EXCEPT ![c] = rec], clock' = clock,
           \/ rec.pc = "idle" \/ rec.now = clock
           \/ call[c].pc # "idle" /\ rec.now = call[c].now,
           rec.pc \in {"find", "send"} => LinkLives(rec.link, rec.p)',
           \A r \in sendLog' \ sendLog : r.at <= clock,
           \A d \in Callers \ {c} : call[d].pc \in {"find", "send"} => LinkLives(call[d].link, call[d].p)',
           \A m \in mailed' : LinkOut(m)'
    PROVE  LinksInv'
<1>1. call'[c] = rec /\ \A d \in Callers \ {c} : call'[d] = call[d]
  BY DEF MailTyped, CallTyped
<1>2. clock \in Nat /\ Lifetime \in Nat /\ clock <= clock /\ clock <= clock + Lifetime
  BY AuthMailAssumption DEF MailTyped, DataTyped
<1>3. \A r \in sendLog' : r.at <= clock'
  BY DEF LinksInv
<1>4. rec.pc # "idle" => rec.now <= clock /\ clock <= rec.now + Lifetime
  BY <1>2 DEF LinksInv, LinkHeld
<1>5. LinkHeld(call[c])'
  BY <1>1, <1>4 DEF LinkHeld
<1>6. ASSUME NEW d \in Callers \ {c} PROVE LinkHeld(call[d])'
  <2>1. LinkHeld(call[d]) /\ call'[d] = call[d]
    BY <1>1 DEF LinksInv
  <2>2. (call[d].pc \in {"find", "send"} => LinkLives(call[d].link, call[d].p))'
    BY <2>1 DEF LinkLives
  <2> QED
    BY <2>1, <2>2 DEF LinkHeld
<1> QED
  BY <1>3, <1>5, <1>6 DEF LinksInv

\* No link is added and none is revoked.
Kept ==
    DOMAIN links' = DOMAIN links
    /\ \A i \in DOMAIN links : links'[i].of = links[i].of /\ (links'[i].state = "revoked" => links[i].state = "revoked")

\* A request goes on and leaves the links alone.
LEMMA LinkIdle ==
    ASSUME MailTyped, LinksInv, NEW c \in Callers, NEW rec,
           call' = [call EXCEPT ![c] = rec], UNCHANGED <<clock, links>>,
           \/ rec.pc = "idle" \/ rec.now = clock
           \/ call[c].pc # "idle" /\ rec.now = call[c].now,
           rec.pc \in {"find", "send"} =>
               call[c].pc \in {"find", "send"} /\ rec.link = call[c].link /\ rec.p = call[c].p,
           \A r \in sendLog' \ sendLog : r.at <= clock,
           \A m \in mailed' \ mailed : call[c].pc = "send" /\ m.row = RowOf(call[c]) /\ m.link = call[c].link
    PROVE  LinksInv'
<1>1. \A d \in Callers : call[d].pc \in {"find", "send"} => LinkLives(call[d].link, call[d].p)
  BY DEF LinksInv, LinkHeld
<1>2. rec.pc \in {"find", "send"} => LinkLives(rec.link, rec.p)'
  BY <1>1 DEF LinkLives
<1>3. \A d \in Callers \ {c} : call[d].pc \in {"find", "send"} => LinkLives(call[d].link, call[d].p)'
  <2>1. \A d \in Callers \ {c} : call'[d] = call[d]
    BY DEF MailTyped, CallTyped
  <2> QED
    BY <1>1, <2>1 DEF LinkLives
<1>4. ASSUME NEW m \in mailed' PROVE LinkOut(m)'
  <2>1. CASE m \in mailed
    BY <2>1 DEF LinksInv, LinkOut
  <2>2. CASE m \notin mailed
    <3>1. call[c].pc = "send" /\ m.row.of = call[c].p /\ m.row.at = call[c].now /\ m.link = call[c].link
      BY <2>2 DEF RowOf
    <3>2. call[c].now <= clock /\ LinkLives(call[c].link, call[c].p)
      BY <3>1 DEF LinksInv, LinkHeld
    <3> QED
      BY <3>1, <3>2 DEF LinkOut, LinkLives
  <2> QED
    BY <2>1, <2>2
<1> QED
  BY <1>2, <1>3, <1>4, LinkStep

\* The requests stay where they are.
LEMMA LinksAge ==
    ASSUME MailTyped, LinksInv, UNCHANGED <<call, mailed>>, Kept, sendLog' \subseteq sendLog,
           clock' \in Nat, clock <= clock',
           \A c \in Callers : call[c].pc # "idle" => clock' <= call[c].now + Lifetime
    PROVE  LinksInv'
<1>1. clock \in Nat /\ clock' \in Nat /\ Window \in Nat
  BY AuthMailAssumption DEF MailTyped, DataTyped
<1>2. ASSUME NEW r \in sendLog' PROVE r.at <= clock'
  <2>1. r.at \in Nat /\ r.at <= clock
    BY <1>2 DEF MailTyped, DataTyped, Row, LinksInv
  <2> QED
    BY <1>1, <2>1
<1>3. ASSUME NEW c \in Callers PROVE LinkHeld(call[c])'
  <2>1. PICK rec \in Call : rec = call[c] /\ rec = call'[c]
    BY DEF MailTyped, CallTyped
  <2>2. LinkHeld(rec) /\ rec.now \in Nat
    BY <2>1 DEF LinksInv, Call
  <2>3. rec.pc # "idle" => rec.now <= clock' /\ clock' <= rec.now + Lifetime
    BY <1>1, <2>1, <2>2 DEF LinkHeld
  <2>4. rec.pc \in {"find", "send"} => LinkLives(rec.link, rec.p)'
    BY <2>2 DEF LinkHeld, LinkLives, Kept
  <2>5. LinkHeld(rec)'
    BY <2>3, <2>4 DEF LinkHeld
  <2> QED
    BY <2>1, <2>5 DEF LinkHeld, LinkLives
<1>4. ASSUME NEW m \in mailed' PROVE LinkOut(m)'
  <2>1. LinkOut(m) /\ m.row.at \in Nat
    BY <1>4 DEF LinksInv, MailTyped, DataTyped, Row
  <2>2. m.row.at + Window < clock => m.row.at + Window < clock'
    BY <1>1, <2>1
  <2>3. m.row.at <= clock'
    BY <1>1, <2>1 DEF LinkOut
  <2> QED
    BY <2>1, <2>2, <2>3 DEF LinkOut, Kept
<1> QED
  BY <1>2, <1>3, <1>4 DEF LinksInv

\* A mint revokes no link that waits to be sent or counts.
LEMMA LinkMinted ==
    ASSUME Limit = 1, Lifetime <= Window, MailTyped, BudgetInv, RowsInv, LinksInv,
           NEW c \in Callers, Mint(c)
    PROVE  LinksInv'
<1> DEFINE p == call[c].p
<1>1. /\ call[c].pc = "mint" /\ call[c] \in Call /\ p \in People /\ call[c].row # 0
      /\ UNCHANGED <<sendLog, mailed, clock>> /\ links \in Seq(Link)
      /\ clock \in Nat /\ Window \in Nat /\ Lifetime \in Nat
  BY RunningCall, AuthMailAssumption DEF Mint, At, MailTyped, DataTyped, RowsInv, HeldOnce, Holding
<1>2. CASE Goto(c, "give back") /\ UNCHANGED links
  <2>1. PICK rec : rec = [call[c] EXCEPT !.pc = "give back"]
    OBVIOUS
  <2>2. call' = [call EXCEPT ![c] = rec] /\ rec.pc = "give back" /\ rec.now = call[c].now
    BY <1>1, <1>2, <2>1 DEF Goto, Call
  <2> QED
    BY <1>1, <1>2, <2>2, LinkIdle
<1>3. CASE /\ p \in exists
           /\ links' = Append(Revoked(p, call[c].kind), [of |-> p, kind |-> call[c].kind, state |-> "live"])
           /\ call' = [call EXCEPT ![c] = [@ EXCEPT !.pc = "find", !.link = Len(links) + 1]]
  <2>1. PICK rec : rec = [call[c] EXCEPT !.pc = "find", !.link = Len(links) + 1]
    OBVIOUS
  <2>2. /\ call' = [call EXCEPT ![c] = rec] /\ rec.pc = "find" /\ rec.now = call[c].now
        /\ rec.link = Len(links) + 1 /\ rec.p = p
    BY <1>1, <1>3, <2>1 DEF Call
  <2>3. PICK revoked : revoked = Revoked(p, call[c].kind)
    OBVIOUS
  <2>4. revoked \in Seq(Link) /\ DOMAIN revoked = DOMAIN links /\ Len(revoked) = Len(links)
    <3>1. revoked \in Seq(Link) /\ DOMAIN revoked = DOMAIN links
      BY <1>1, <2>3, LinkElement, LinksMapped DEF Revoked
    <3>2. DOMAIN links = 1..Len(links) /\ Len(links) \in Nat
      BY <1>1, LenProperties
    <3>3. Len(revoked) = Len(links)
      BY <3>1, <3>2, LenProperties
    <3> QED
      BY <3>1, <3>3
  <2>5. PICK new : new = [of |-> p, kind |-> call[c].kind, state |-> "live"]
    OBVIOUS
  <2>6. new \in Link /\ new.of = p /\ new.state # "revoked"
    BY <1>1, <2>5 DEF Link, Call
  <2>7. links' = Append(revoked, new)
    BY <1>3, <2>3, <2>5
  <2>8. DOMAIN links = 1..Len(links) /\ Len(links) \in Nat /\ DOMAIN links' = 1..Len(links) + 1
    BY <1>1, <2>4, <2>6, <2>7, LenProperties, AppendProperties
  <2>9. links'[Len(links) + 1] = new /\ \A i \in DOMAIN links : links'[i] = revoked[i]
    BY <2>4, <2>6, <2>7, <2>8, AppendProperties
  <2>10. ASSUME NEW i \in DOMAIN links
         PROVE  /\ i \in DOMAIN links' /\ links'[i].of = links[i].of
                /\ links'[i].state = "revoked" => links[i].state = "revoked" \/ links[i].of = p
    <3>1. links[i] \in Link
      BY <1>1, LinkElement
    <3>2. revoked[i] = IF links[i].of = p /\ links[i].kind = call[c].kind /\ links[i].state = "live"
                         THEN [links[i] EXCEPT !.state = "revoked"] ELSE links[i]
      BY <2>3 DEF Revoked
    <3>3. revoked[i].of = links[i].of /\ (revoked[i].state = "revoked" => links[i].state = "revoked" \/ links[i].of = p)
      BY <3>1, <3>2 DEF Link
    <3>4. i \in DOMAIN links'
      BY <2>8
    <3> QED
      BY <2>9, <3>3, <3>4
  \* The row of the request counts.
  <2>11. PICK own \in sendLog : own.id = call[c].row /\ own.of = p /\ own.at + Window >= clock
    <3>1. PICK own : own = RowOf(call[c])
      OBVIOUS
    <3>2. own.id = call[c].row /\ own.of = p /\ own.at = call[c].now /\ Stands(own)
      BY <1>1, <3>1 DEF RowOf, RowsInv, HeldOnce, Holding
    <3>3. clock <= call[c].now + Lifetime /\ call[c].now \in Nat
      BY <1>1 DEF LinksInv, LinkHeld, Call
    <3>4. own.at + Window >= clock
      BY <1>1, <3>2, <3>3
    <3> QED
      BY <1>3, <3>2, <3>4 DEF Stands
  <2>12. ASSUME NEW r \in sendLog, r.of = p, r.at + Window >= clock PROVE r.id = call[c].row
    BY <2>11, <2>12, SoleRow
  <2>13. ASSUME NEW d \in Callers \ {c}, call[d].pc \in {"find", "send"}
         PROVE  LinkLives(call[d].link, call[d].p)'
    <3>1. PICK other \in Call : other = call[d] /\ other = call'[d]
      BY <2>2 DEF MailTyped, CallTyped
    <3>2. LinkLives(other.link, other.p) /\ clock <= other.now + Lifetime /\ other.now \in Nat
      BY <2>13, <3>1 DEF LinksInv, LinkHeld, Call
    <3>3. CASE other.p # p
      BY <2>10, <3>1, <3>2, <3>3 DEF LinkLives
    <3>4. CASE other.p = p
      <4>1. PICK row : row = RowOf(other)
        OBVIOUS
      <4>2. row.id = other.row /\ row.of = p /\ row.at = other.now /\ Stands(row)
        BY <2>13, <3>1, <3>4, <4>1 DEF RowOf, RowsInv, HeldOnce, Holding
      <4>3. row.at + Window >= clock
        BY <1>1, <3>2, <4>2
      <4>4. row \in sendLog
        BY <1>3, <4>2, <4>3 DEF Stands
      <4>5. other.row = call[c].row
        BY <2>12, <4>2, <4>3, <4>4
      <4> QED
        BY <1>1, <3>1, <4>5 DEF RowsInv, HeldOnce
    <3> QED
      BY <3>3, <3>4
  <2>14. ASSUME NEW m \in mailed' PROVE LinkOut(m)'
    <3>1. m \in mailed /\ LinkOut(m) /\ m.row \in Row
      BY <1>1, <2>14 DEF LinksInv, MailTyped, DataTyped
    <3>2. CASE m.row.of # p \/ m.row.at + Window < clock
      BY <1>1, <2>10, <3>1, <3>2 DEF LinkOut
    <3>3. CASE m.row.of = p /\ ~(m.row.at + Window < clock)
      <4>1. m.row.at + Window >= clock
        BY <1>1, <3>1, <3>3 DEF Row
      <4>2. m.row \in sendLog
        BY <1>3, <3>1, <3>3, <4>1 DEF RowsInv, RowsStandForMail
      <4>3. m.row.id = call[c].row
        BY <2>12, <3>3, <4>1, <4>2
      <4> QED
        BY <1>1, <3>1, <4>3 DEF RowsInv, HeldOnce, Holding
    <3> QED
      BY <3>2, <3>3
  <2>15. LinkLives(rec.link, rec.p)'
    BY <2>2, <2>6, <2>8, <2>9 DEF LinkLives
  <2> QED
    BY <1>1, <2>2, <2>13, <2>14, <2>15, LinkStep
<1> QED
  BY <1>2, <1>3 DEF Mint

\* A request that ends or settles its mail, and one that goes on: the links stay.
LEMMA LinkEnds ==
    ASSUME MailTyped, LinksInv, NEW c \in Callers, ~At(c, "idle"), UNCHANGED <<clock, links>>,
           \/ Settled(c) \/ Return(c)
           \/ \E pc \in {"give back", "release", "rethrow"} : Goto(c, pc)
           \/ At(c, "find") /\ Goto(c, "send"),
           sendLog' \subseteq sendLog,
           \A m \in mailed' \ mailed : call[c].pc = "send" /\ m.row = RowOf(call[c]) /\ m.link = call[c].link
    PROVE  LinksInv'
<1>1. call[c] \in Call /\ call[c].pc # "idle"
  BY RunningCall DEF MailTyped, At
<1>2. ASSUME Return(c) PROVE LinksInv'
  <2>1. call' = [call EXCEPT ![c] = IdleCall] /\ IdleCall.pc = "idle"
    BY <1>2, IdleCallType DEF Return
  <2> QED
    BY <2>1, LinkIdle
<1>3. ASSUME NEW pc \in PCs, NEW n \in Nat, NEW rec, rec = [call[c] EXCEPT !.pc = pc, !.row = n],
             call' = [call EXCEPT ![c] = rec], pc \in {"find", "send"} => At(c, "find")
      PROVE  LinksInv'
  <2>1. rec.pc = pc /\ rec.now = call[c].now /\ rec.link = call[c].link /\ rec.p = call[c].p
    BY <1>1, <1>3 DEF Call
  <2> QED
    BY <1>1, <1>3, <2>1, LinkIdle DEF At
<1>4. ASSUME NEW pc \in PCs, Goto(c, pc), pc \in {"find", "send"} => At(c, "find") PROVE LinksInv'
  <2>1. PICK rec : rec = [call[c] EXCEPT !.pc = pc]
    OBVIOUS
  <2>2. call' = [call EXCEPT ![c] = rec]
    BY <1>4, <2>1 DEF Goto
  <2>3. rec.pc = pc /\ rec.now = call[c].now /\ rec.link = call[c].link /\ rec.p = call[c].p
    BY <1>1, <2>1 DEF Call
  <2> QED
    BY <1>1, <1>4, <2>2, <2>3, LinkIdle DEF At
<1>5. CASE Settled(c) /\ ~Return(c)
  <2>1. PICK rec : rec = [call[c] EXCEPT !.pc = "session", !.row = 0]
    OBVIOUS
  <2>2. call' = [call EXCEPT ![c] = rec]
    BY <1>5, <2>1 DEF Settled, Forgotten
  <2> QED
    BY <1>3, <2>1, <2>2 DEF PCs
<1> QED
  BY <1>2, <1>4, <1>5 DEF PCs

LEMMA LinksNext ==
    ASSUME Limit = 1, Lifetime <= Window, MailTyped, BudgetInv, RowsInv, LinksInv, [Next]_mvars
    PROVE  LinksInv'
<1>0. clock \in Nat /\ links \in Seq(Link) /\ clock <= clock /\ Lifetime \in Nat
  BY AuthMailAssumption DEF MailTyped, DataTyped
<1>1. ASSUME NEW c \in Callers, NEW p \in People, NEW kind \in Purposes, BeginSend(c, p, kind) PROVE LinksInv'
  <2>1. PICK rec : rec = [IdleCall EXCEPT !.pc = "reserve", !.p = p, !.kind = kind, !.now = clock]
    OBVIOUS
  <2>2. rec.pc = "reserve" /\ rec.now = clock
    BY <2>1 DEF IdleCall
  <2>3. call' = [call EXCEPT ![c] = rec] /\ UNCHANGED <<clock, links, sendLog, mailed>>
    BY <1>1, <2>1 DEF BeginSend
  <2> QED
    BY <2>2, <2>3, LinkIdle
<1>2. ASSUME NEW c \in Callers, BeginRegistration(c) PROVE LinksInv'
  <2>1. PICK p : call' = [call EXCEPT ![c] = [IdleCall EXCEPT !.pc = "reserve", !.p = p, !.now = clock,
                                                              !.route = "register"]]
    BY <1>2 DEF BeginRegistration
  <2>2. PICK rec : rec = [IdleCall EXCEPT !.pc = "reserve", !.p = p, !.now = clock, !.route = "register"]
    OBVIOUS
  <2>3. rec.pc = "reserve" /\ rec.now = clock
    BY <2>2 DEF IdleCall
  <2>4. call' = [call EXCEPT ![c] = rec] /\ UNCHANGED <<clock, links, sendLog, mailed>>
    BY <1>2, <2>1, <2>2 DEF BeginRegistration
  <2> QED
    BY <2>3, <2>4, LinkIdle
<1>3. ASSUME NEW c \in Callers, OpenSession(c) PROVE LinksInv'
  BY <1>3, LinkEnds DEF OpenSession, At
<1>4. ASSUME NEW c \in Callers, Reserve(c) PROVE LinksInv'
  <2>1. ~At(c, "idle") /\ UNCHANGED <<clock, links, mailed>>
    BY <1>4 DEF Reserve, At
  <2>2. CASE (Settled(c) \/ Return(c)) /\ UNCHANGED sendLog
    BY <2>1, <2>2, LinkEnds
  <2>3. ASSUME NEW row, row = [id |-> ids + 1, of |-> call[c].p, kind |-> call[c].kind, at |-> call[c].now],
               sendLog' = sendLog \cup {row},
               call' = [call EXCEPT ![c] = [@ EXCEPT !.pc = "mint", !.row = ids + 1]]
        PROVE  LinksInv'
    <3>1. PICK rec : rec = [call[c] EXCEPT !.pc = "mint", !.row = ids + 1]
      OBVIOUS
    <3>2. call[c] \in Call /\ call[c].now <= clock
      BY <2>1, RunningCall DEF MailTyped, LinksInv, LinkHeld, At
    <3>3. rec.pc = "mint" /\ rec.now = call[c].now /\ call[c].pc # "idle"
      BY <2>1, <3>1, <3>2 DEF Call, At
    <3>4. call' = [call EXCEPT ![c] = rec] /\ \A r \in sendLog' \ sendLog : r.at <= clock
      BY <2>3, <3>1, <3>2
    <3> QED
      BY <2>1, <3>3, <3>4, LinkIdle
  <2> QED
    BY <1>4, <2>2, <2>3 DEF Reserve
<1>5. ASSUME NEW c \in Callers, Mint(c) PROVE LinksInv'
  BY <1>5, LinkMinted
<1>6. ASSUME NEW c \in Callers, GiveBack(c) \/ Release(c) \/ Rethrow(c) \/ Die(c) PROVE LinksInv'
  <2>1. /\ ~At(c, "idle") /\ UNCHANGED <<clock, links, mailed>> /\ sendLog' \subseteq sendLog
        /\ Settled(c) \/ Return(c) \/ Goto(c, "rethrow") \/ Goto(c, "give back")
    BY <1>6 DEF GiveBack, Release, Rethrow, Thrown, Die, At, Given
  <2> QED
    BY <2>1, LinkEnds
<1>7. ASSUME NEW c \in Callers, FindReservation(c) PROVE LinksInv'
  <2>1. /\ ~At(c, "idle") /\ At(c, "find") /\ UNCHANGED <<clock, links, mailed, sendLog>>
        /\ Settled(c) \/ Goto(c, "send") \/ Return(c) \/ Goto(c, "give back")
    BY <1>7 DEF FindReservation, Thrown, At
  <2> QED
    BY <2>1, LinkEnds
<1>8. ASSUME NEW c \in Callers, SendMail(c) PROVE LinksInv'
  <2>1. /\ ~At(c, "idle") /\ call[c].pc = "send" /\ UNCHANGED <<clock, links, sendLog>>
        /\ Settled(c) \/ Goto(c, "release") \/ Goto(c, "rethrow")
    BY <1>8 DEF SendMail, At
  <2>2. \A m \in mailed' \ mailed : m.row = RowOf(call[c]) /\ m.link = call[c].link
    BY <1>8 DEF SendMail, RowOf
  <2> QED
    BY <2>1, <2>2, LinkEnds
\* Around the requests.
<1>9. ASSUME UNCHANGED <<call, mailed, clock>>, Kept, sendLog' \subseteq sendLog PROVE LinksInv'
  <2>1. \A c \in Callers : call[c].pc # "idle" => clock <= call[c].now + Lifetime
    BY DEF LinksInv, LinkHeld
  <2> QED
    BY <1>0, <1>9, <2>1, LinksAge
<1>10. ASSUME NEW i \in DOMAIN links, UseLink(i) PROVE LinksInv'
  <2>1. links[i] \in Link /\ links' = [links EXCEPT ![i] = [@ EXCEPT !.state = "spent"]]
    BY <1>0, <1>10, LinkElement DEF UseLink
  <2>2. PICK new : new = [links[i] EXCEPT !.state = "spent"]
    OBVIOUS
  <2>3. new.of = links[i].of /\ new.state = "spent"
    BY <2>1, <2>2 DEF Link
  <2>4. DOMAIN links' = DOMAIN links /\ \A j \in DOMAIN links : links'[j] = IF j = i THEN new ELSE links[j]
    BY <2>1, <2>2
  <2>5. Kept
    BY <2>3, <2>4 DEF Kept
  <2> QED
    BY <1>9, <1>10, <2>5 DEF UseLink
<1>11. ASSUME NEW p \in People, Erase(p) PROVE LinksInv'
  <2>1. ASSUME NEW i \in DOMAIN links
        PROVE  links'[i].of = links[i].of /\ (links'[i].state = "revoked" => links[i].state = "revoked")
    <3>1. links[i] \in Link
      BY <1>0, LinkElement
    <3>2. links'[i] = IF links[i].of = p THEN [links[i] EXCEPT !.state = "gone"] ELSE links[i]
      BY <1>11 DEF Erase
    <3> QED
      BY <3>1, <3>2 DEF Link
  <2>2. DOMAIN links' = DOMAIN links
    BY <1>11 DEF Erase
  <2>3. Kept
    BY <2>1, <2>2 DEF Kept
  <2> QED
    BY <1>9, <1>11, <2>3 DEF Erase
<1>12. CASE SweepLog
  BY <1>9, <1>12 DEF SweepLog, Kept
<1>13. CASE Tick
  <2>1. \A c \in Callers : call[c].pc # "idle" => clock' <= call[c].now + Lifetime
    <3>1. ASSUME NEW c \in Callers, call[c].pc # "idle" PROVE clock' <= call[c].now + Lifetime
      <4>1. call[c].now \in Nat
        BY DEF MailTyped, CallTyped, Call
      <4>2. clock < call[c].now + Lifetime /\ clock' = clock + 1
        BY <1>13, <3>1 DEF Tick, At
      <4> QED
        BY <1>0, <4>1, <4>2
    <3> QED
      BY <3>1
  <2>2. clock' \in Nat /\ clock <= clock'
    BY <1>0, <1>13 DEF Tick
  <2>3. UNCHANGED <<call, mailed, sendLog>> /\ Kept
    BY <1>13 DEF Tick, Kept
  <2> QED
    BY <2>1, <2>2, <2>3, LinksAge
<1>14. CASE UNCHANGED mvars
  BY <1>9, <1>14 DEF mvars, Kept
<1> QED
  BY <1>1, <1>2, <1>3, <1>4, <1>5, <1>6, <1>7, <1>8, <1>10, <1>11, <1>12, <1>13, <1>14 DEF Next, CallStep

\* DeliveredLinkLives, for the budget of the code's default (one mail per window) and
\* requests that are cut off within the window: however many requests of an account race,
\* fail or die, none revokes a link that is on its way or out and counts.
THEOREM LinksOutlive ==
    ASSUME Limit = 1, Lifetime <= Window
    PROVE  Spec => []DeliveredLinkLives
<1>1. Init => BudgetInv /\ LinksInv
  <2> SUFFICES ASSUME Init PROVE BudgetInv /\ LinksInv
    OBVIOUS
  <2>1. BudgetInv
    BY BudgetInit
  <2>2. \A c \in Callers : LinkHeld(call[c])
    BY IdleCallType DEF Init, LinkHeld
  <2>3. LinksInv
    BY <2>2 DEF Init, LinksInv
  <2> QED
    BY <2>1, <2>3
<1>2. MailTyped /\ BudgetInv /\ RowsInv /\ LinksInv /\ [Next]_mvars => LinksInv'
  BY LinksNext
<1>3. LinksInv => DeliveredLinkLives
  BY DEF LinksInv, LinkOut, DeliveredLinkLives
<1> QED
  BY <1>1, <1>2, <1>3, MailTypeInit, MailTypeNext, BudgetNext, RowsInit, RowsNext, PTL DEF Spec
=============================================================================
