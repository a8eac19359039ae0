---------------------------- MODULE AccountsProofs ----------------------------
(***************************************************************************)
(* Proofs about Passkeys and the Accounts it extends, for any accounts,       *)
(* identities, requests in flight and limits; and about ApiKeys: what holds    *)
(* of the accounts still does next to keys and contributions, and what the    *)
(* write gate promises.                                                      *)
(***************************************************************************)
EXTENDS ApiKeys, FiniteSetTheorems, SequenceTheorems, TLAPS

-----------------------------------------------------------------------------
(* Sequences of rows.                                                      *)

LEMMA RowType ==
    ASSUME NEW S, NEW s \in Seq(S), NEW i \in DOMAIN s
    PROVE  s[i] \in S
<1>1. i \in 1..Len(s)
  OBVIOUS
<1> QED
  BY <1>1, ElementOfSeq

LEMMA MappedRows ==
    ASSUME NEW S, NEW s \in Seq(S), NEW f, f = [i \in DOMAIN s |-> f[i]],
           \A i \in DOMAIN s : f[i] \in S
    PROVE  f \in Seq(S)
<1>1. DOMAIN s = 1..Len(s) /\ Len(s) \in Nat
  BY LenProperties
<1> QED
  BY <1>1, IsASeq

LEMMA ChangedRow ==
    ASSUME NEW S, NEW s \in Seq(S), NEW i \in DOMAIN s, NEW e \in S
    PROVE  [s EXCEPT ![i] = e] \in Seq(S)
<1>1. i \in 1..Len(s)
  OBVIOUS
<1> QED
  BY <1>1, ExceptSeq

LEMMA AddedRow ==
    ASSUME NEW S, NEW s \in Seq(S), NEW e \in S
    PROVE  /\ Append(s, e) \in Seq(S)
           /\ Len(s) + 1 \notin DOMAIN s
           /\ DOMAIN Append(s, e) = DOMAIN s \cup {Len(s) + 1}
           /\ \A i \in DOMAIN s : Append(s, e)[i] = s[i]
           /\ Append(s, e)[Len(s) + 1] = e
<1>1. Append(s, e) \in Seq(S) /\ Len(Append(s, e)) = Len(s) + 1 /\ Len(s) \in Nat
  BY AppendProperties, LenProperties
<1>2. DOMAIN s = 1..Len(s) /\ DOMAIN Append(s, e) = 1..(Len(s) + 1)
  BY <1>1, LenProperties
<1> QED
  BY <1>1, <1>2, AppendProperties
-----------------------------------------------------------------------------
(* Type correctness.  A request in flight knows some of what it read before: *)
(* the rows it names are there, and what it found verified, spent or         *)
(* answered still is, because nothing in this code takes those back.        *)

AccountRows ==
    /\ exists \subseteq People /\ verified \subseteq People
    /\ secret \in [People -> Nat]
    /\ identity \in [People -> Identities \cup {NoIdentity}]
    /\ sessions \in Seq(Session) /\ links \in Seq(Link) /\ merges \in Seq(Merge)
    /\ attempts \in [Registered -> Attempts] /\ misses \in [Registered -> Nat]
    /\ calls \in Nat
KeyRows ==
    /\ enrolled \subseteq People
    /\ counter \in [People -> Nat] /\ accepted \in [People -> Nat]
    /\ answered \subseteq People \X Nat
    /\ codes \in Seq(Code)
RowsTyped == AccountRows /\ KeyRows

CredentialMeans == {"merge", "passkey", "recovery"}
\* The credential is used up.
Taken(via, p, n) ==
    /\ via = "merge" => n \in DOMAIN merges /\ ~merges[n].live
    /\ via = "passkey" => <<p, n>> \in answered
    /\ via = "recovery" => n \in DOMAIN codes /\ codes[n].state = "spent"

\* What a request knows from where it is alone...
Named(rec) ==
    /\ rec.pc \notin {"idle", "resolve", "create"} => rec.p \in People
    /\ rec.pc \in {"gate", "authenticate", "clear", "miss", "count", "link", "ask"} => rec.p \in Registered
    /\ rec.pc = "resolve" => rec.p \in Registered \cup {NoPerson}
    /\ rec.pc \in {"resolve", "ask", "create"} => rec.id \in Identities
    /\ rec.pc = "resolve" \/ rec.pc = "create" => rec.via = "oidc"
    /\ rec.pc \in {"gate", "authenticate", "clear"} => rec.via \in {"password", "merge"}
    /\ rec.pc = "link" => rec.via = "merge"
    /\ rec.pc \in {"assert", "advance"} => rec.via = "passkey"
    /\ rec.pc = "redeem" => rec.via = "recovery"
    /\ rec.pc = "profile" => rec.via \in {"passkey", "recovery"}
    /\ rec.pc \in {"mint", "consume", "apply"} => rec.purpose \in Purposes
\* ... and about the rows.
Knows(rec) ==
    /\ rec.pc \in {"gate", "authenticate", "clear", "link"} /\ rec.via = "merge" => rec.n \in DOMAIN merges
    /\ rec.pc \in {"clear", "link"} /\ rec.via = "merge" => merges[rec.n].of = rec.p
    /\ rec.pc = "clear" /\ rec.via # "merge" => rec.p \in verified
    /\ rec.pc = "open" /\ rec.via \notin {"register", "oidc"} => rec.p \in verified
    /\ rec.pc \in {"consume", "apply"} =>
         rec.n \in DOMAIN links /\ links[rec.n].of = rec.p /\ links[rec.n].purpose = rec.purpose
    /\ rec.pc = "apply" => links[rec.n].state = "spent"
    /\ rec.pc = "redeem" => rec.n \in DOMAIN codes
    /\ rec.pc \in {"assert", "advance", "profile", "open"} => Taken(rec.via, rec.p, rec.n)

CallsTyped ==
    /\ call \in [Callers -> Call]
    /\ \A c \in Callers : Named(call[c]) /\ Knows(call[c])

Typed == RowsTyped /\ CallsTyped

\* What no step takes back.
AccountsGrow ==
    /\ verified \subseteq verified'
    /\ DOMAIN links \subseteq DOMAIN links' /\ DOMAIN merges \subseteq DOMAIN merges'
    /\ \A i \in DOMAIN links : /\ links'[i].of = links[i].of /\ links'[i].purpose = links[i].purpose
                               /\ links[i].state = "spent" => links'[i].state = "spent"
    /\ \A m \in DOMAIN merges : /\ merges'[m].of = merges[m].of
                                /\ ~merges[m].live => ~merges'[m].live
KeysGrow ==
    /\ answered \subseteq answered'
    /\ DOMAIN codes \subseteq DOMAIN codes'
    /\ \A k \in DOMAIN codes : codes[k].state = "spent" => codes'[k].state = "spent"
Grows == AccountsGrow /\ KeysGrow

LEMMA StillKnows ==
    ASSUME Grows, NEW rec, Knows(rec)
    PROVE  Knows(rec)'
BY DEF Grows, AccountsGrow, KeysGrow, Knows, Taken

LEMMA StillTaken ==
    ASSUME Grows, NEW via, NEW p, NEW n, Taken(via, p, n)
    PROVE  Taken(via, p, n)'
BY DEF Grows, AccountsGrow, KeysGrow, Taken

LEMMA RequestMoves ==
    ASSUME CallsTyped, Grows, NEW c \in Callers, NEW rec \in Call, Named(rec), Knows(rec)',
           call' = [call EXCEPT ![c] = rec]
    PROVE  CallsTyped'
<1>1. call' \in [Callers -> Call] /\ call'[c] = rec
  BY DEF CallsTyped
<1>2. ASSUME NEW d \in Callers PROVE Named(call[d])' /\ Knows(call[d])'
  <2>1. PICK new : new = call'[d]
    OBVIOUS
  <2>2. Named(new) /\ Knows(new)'
    <3>1. CASE d = c
      BY <1>1, <2>1, <3>1
    <3>2. CASE d # c
      <4>1. new = call[d]
        BY <2>1, <3>2 DEF CallsTyped
      <4>2. Named(new) /\ Knows(new)
        BY <4>1 DEF CallsTyped
      <4> QED
        BY <4>2, StillKnows
    <3> QED
      BY <3>1, <3>2
  <2> QED
    BY <2>1, <2>2 DEF Named, Knows, Taken
<1> QED
  BY <1>1, <1>2 DEF CallsTyped

LEMMA RequestsRest ==
    ASSUME CallsTyped, Grows, UNCHANGED call
    PROVE  CallsTyped'
BY DEF CallsTyped, Grows, AccountsGrow, KeysGrow, Named, Knows, Taken

LEMMA IdleType == IdleCall \in Call /\ Named(IdleCall) /\ Knows(IdleCall) /\ Knows(IdleCall)'
BY DEF IdleCall, Call, PCs, Means, Purposes, NoAttempts, Attempts, Named, Knows

LEMMA RequestReturns ==
    ASSUME CallsTyped, Grows, NEW c \in Callers, Return(c)
    PROVE  CallsTyped'
BY IdleType, RequestMoves DEF Return

LEMMA RequestBegins ==
    ASSUME CallsTyped, Grows, NEW c \in Callers, NEW kind, NEW rec \in Call, Named(rec), Knows(rec)',
           Begin(c, kind, rec)
    PROVE  CallsTyped'
BY RequestMoves DEF Begin

LEMMA RequestCounts ==
    ASSUME AccountRows, NEW c, NEW kind, NEW rec, Begin(c, kind, rec)
    PROVE  calls' \in Nat
BY DEF AccountRows, Begin

LEMMA RequestGoes ==
    ASSUME CallsTyped, Grows, NEW c \in Callers, NEW pc \in PCs, NEW rec,
           rec = [call[c] EXCEPT !.pc = pc], Named(rec), Knows(rec)', Goto(c, pc)
    PROVE  CallsTyped'
<1>1. rec \in Call
  BY DEF CallsTyped, Call
<1>2. call' = [call EXCEPT ![c] = rec]
  BY DEF Goto
<1> QED
  BY <1>1, <1>2, RequestMoves

\* A request that counts or adds is well typed.
LEMMA CallTypes ==
    ASSUME NEW old \in Call, NEW pc \in PCs
    PROVE  /\ \A q \in People : [old EXCEPT !.pc = pc, !.p = q] \in Call
           /\ \A n \in Nat : [old EXCEPT !.pc = pc, !.n = n] \in Call
           /\ \A n \in Nat : [old EXCEPT !.n = n] \in Call
           /\ \A seen \in Attempts : [old EXCEPT !.pc = pc, !.seen = seen] \in Call
BY DEF Call

\* What a request knew it still knows, wherever it goes.
LEMMA OldRequest ==
    ASSUME CallsTyped, Grows, NEW c \in Callers, NEW old, old = call[c]
    PROVE  old \in Call /\ Named(old) /\ Knows(old) /\ Knows(old)'
BY StillKnows DEF CallsTyped

\* A step that leaves the links, the merges and the verified addresses alone.
LEMMA AccountsStay ==
    ASSUME UNCHANGED <<verified, links, merges>>
    PROVE  AccountsGrow
BY DEF AccountsGrow

LEMMA KeysStay ==
    ASSUME UNCHANGED <<answered, codes>>
    PROVE  KeysGrow
BY DEF KeysGrow

\* The initial sessions.
LEMMA EnumeratedAccounts ==
    \A i \in 1..Cardinality(Registered) : SetToSeq(Registered)[i] \in Registered
<1> DEFINE n == Cardinality(Registered)
           Enumerates(f) == f \in [1..n -> Registered] /\ IsInjective(f)
<1>1. PICK k \in Nat : ExistsBijection(1..k, Registered)
  BY AccountsAssumption, FS_NatBijection
<1>2. k = n
  BY <1>1, FS_CountingElements
<1>3. \E f \in [1..n -> Registered] : IsInjective(f)
  BY <1>1, <1>2 DEF ExistsBijection, Bijection, Injection, IsInjective
<1>4. SetToSeq(Registered) \in [1..n -> Registered]
  BY <1>3 DEF SetToSeq
<1> QED
  BY <1>4

LEMMA TypedInit == PasskeysInit => Typed
<1> SUFFICES ASSUME PasskeysInit PROVE Typed
  OBVIOUS
<1>1. CallsTyped
  BY IdleType DEF PasskeysInit, Init, CallsTyped
<1>2. Cardinality(Registered) \in Nat
  BY AccountsAssumption, FS_CardinalityType
<1> DEFINE first == [i \in 1..Cardinality(Registered) |->
                       [of |-> SetToSeq(Registered)[i], via |-> "register", secret |-> 0,
                        cred |-> 0, live |-> TRUE]]
<1>3. \A i \in 1..Cardinality(Registered) : first[i] \in Session
  BY EnumeratedAccounts DEF Session, Means, People
<1>4. first \in Seq(Session)
  <2> HIDE DEF first
  <2>1. first = [i \in 1..Cardinality(Registered) |-> first[i]]
    BY DEF first
  <2> QED
    BY <1>2, <1>3, <2>1, IsASeq
<1>5. sessions \in Seq(Session)
  BY <1>4 DEF PasskeysInit, Init
<1>6. NoAttempts \in Attempts
  BY DEF NoAttempts, Attempts
<1> QED
  BY <1>1, <1>5, <1>6, AccountsAssumption, PasskeysAssumption
  DEF PasskeysInit, Init, Typed, RowsTyped, AccountRows, KeyRows, People
-----------------------------------------------------------------------------
(* One lemma per group of steps: types, knowledge, and nothing taken back.   *)

LEMMA SessionSteps ==
    ASSUME AccountRows, CallsTyped, KeysGrow, NEW c \in Callers,
           OpenSession(c) \/ \E i \in DOMAIN sessions : Logout(c, i)
    PROVE  AccountRows' /\ CallsTyped' /\ AccountsGrow
<1>1. CASE OpenSession(c)
  <2>1. AccountsGrow
    BY <1>1, AccountsStay DEF OpenSession, accountRow
  <2>2. CallsTyped'
    BY <1>1, <2>1, RequestReturns DEF OpenSession, Grows
  <2> DEFINE new == [of |-> call[c].p, via |-> call[c].via, secret |-> call[c].guess,
                     cred |-> call[c].n, live |-> TRUE]
  <2>3. new \in Session
    BY <1>1 DEF OpenSession, At, CallsTyped, Named, Call, Session
  <2>4. sessions' \in Seq(Session)
    <3>1. sessions' = Append(sessions, new) \/ sessions' = sessions
      BY <1>1 DEF OpenSession
    <3>2. sessions \in Seq(Session)
      BY DEF AccountRows
    <3>3. Append(sessions, new) \in Seq(Session)
      <4> HIDE DEF new
      <4> QED
        BY <2>3, <3>2, AddedRow
    <3> QED
      BY <3>1, <3>2, <3>3
  <2> QED
    BY <1>1, <2>1, <2>2, <2>4 DEF OpenSession, accountRow, AccountRows
<1>2. ASSUME NEW i \in DOMAIN sessions, Logout(c, i) PROVE AccountRows' /\ CallsTyped' /\ AccountsGrow
  <2>1. AccountsGrow
    BY <1>2, AccountsStay DEF Logout, accountRow
  <2>2. CallsTyped'
    BY <1>2, <2>1, IdleType, RequestBegins DEF Logout, Grows
  <2> DEFINE ended == [sessions[i] EXCEPT !.live = FALSE]
  <2>3. sessions \in Seq(Session)
    BY DEF AccountRows
  <2>4. sessions[i] \in Session
    BY <2>3, RowType
  <2>5. ended \in Session
    BY <2>4 DEF Session
  <2>6. [sessions EXCEPT ![i] = ended] \in Seq(Session)
    BY <2>3, <2>5, ChangedRow
  <2>7. sessions' \in Seq(Session)
    BY <1>2, <2>6 DEF Logout
  <2>8. calls' \in Nat
    BY <1>2, RequestCounts DEF Logout
  <2> QED
    BY <1>2, <2>1, <2>2, <2>7, <2>8 DEF Logout, accountRow, AccountRows
<1> QED
  BY <1>1, <1>2

LEMMA CountedType ==
    ASSUME NEW seen \in Attempts, NEW row \in Attempts
    PROVE  Counted(seen, row) \in Attempts
<1> DEFINE n == seen.count + 1
<1>1. n \in Nat
  BY DEF Attempts
<1>2. ASSUME NEW k \in Nat
      PROVE  /\ [row EXCEPT !.count = k] \in Attempts
             /\ [row EXCEPT !.count = k, !.fresh = TRUE, !.locked = TRUE] \in Attempts
  BY DEF Attempts
<1>3. [NoAttempts EXCEPT !.there = TRUE, !.count = 1, !.fresh = TRUE] \in Attempts
  BY DEF Attempts, NoAttempts
<1>4. [row EXCEPT !.count = n] \in Attempts /\ [row EXCEPT !.count = n, !.fresh = TRUE, !.locked = TRUE] \in Attempts
  <2> HIDE DEF n
  <2> QED
    BY <1>1, <1>2
<1> QED
  BY <1>3, <1>4 DEF Counted

LEMMA LoginSteps ==
    ASSUME AccountRows, CallsTyped, KeysGrow, NEW c \in Callers,
           \/ PassLockout(c) \/ Authenticate(c) \/ ClearAttempts(c) \/ ReadAttempts(c) \/ CountMiss(c)
           \/ \E p \in Registered : \E guess \in Guesses(p) : BeginLogin(c, p, guess)
    PROVE  AccountRows' /\ CallsTyped' /\ AccountsGrow
<1>1. AccountsGrow
  BY AccountsStay DEF PassLockout, Authenticate, ClearAttempts, ReadAttempts, CountMiss, BeginLogin,
                      accountRow
<1>2. Grows
  BY <1>1 DEF Grows
<1>3. PICK old : old = call[c]
  OBVIOUS
<1>4. old \in Call /\ Named(old) /\ Knows(old) /\ Knows(old)'
  BY <1>2, <1>3, OldRequest
<1>5. CASE PassLockout(c)
  <2> DEFINE rec == [old EXCEPT !.pc = "authenticate"]
  <2>1. Named(rec) /\ Knows(rec)' /\ "authenticate" \in PCs
    BY <1>3, <1>4, <1>5 DEF PassLockout, At, Call, PCs, Named, Knows, Taken
  <2>2. CallsTyped'
    BY <1>2, <1>3, <1>5, <2>1, RequestGoes, RequestReturns DEF PassLockout
  <2> QED
    BY <1>1, <1>5, <2>2 DEF PassLockout, accountRow, AccountRows
<1>6. CASE Authenticate(c)
  <2> DEFINE rec(pc) == [old EXCEPT !.pc = pc]
  <2>1. "clear" \in PCs /\ "miss" \in PCs
    BY DEF PCs
  <2>2. ASSUME Entitled(c), call[c].via = "merge" \/ SessionGate(call[c].p)
        PROVE  Named(rec("clear")) /\ Knows(rec("clear"))'
    BY <1>1, <1>3, <1>4, <1>6, <2>2
    DEF Authenticate, Entitled, SessionGate, At, Call, Named, Knows, Taken, AccountsGrow
  <2>3. Named(rec("miss")) /\ Knows(rec("miss"))'
    BY <1>3, <1>4, <1>6 DEF Authenticate, At, Call, Named, Knows, Taken
  <2>4. ASSUME Entitled(c), call[c].via = "merge" \/ SessionGate(call[c].p), Goto(c, "clear")
        PROVE  CallsTyped'
    BY <1>2, <1>3, <2>1, <2>2, <2>4, RequestGoes
  <2>5. ASSUME Goto(c, "miss") PROVE CallsTyped'
    BY <1>2, <1>3, <2>1, <2>3, <2>5, RequestGoes
  <2>6. ASSUME Return(c) PROVE CallsTyped'
    BY <1>2, <2>6, RequestReturns
  <2>7. CallsTyped'
    BY <1>6, <2>4, <2>5, <2>6 DEF Authenticate
  <2> QED
    BY <1>1, <1>6, <2>7 DEF Authenticate, accountRow, AccountRows
<1>7. CASE ClearAttempts(c)
  <2> DEFINE rec(pc) == [old EXCEPT !.pc = pc]
  <2>1. "link" \in PCs /\ "open" \in PCs
    BY DEF PCs
  <2>2. ASSUME call[c].via = "merge" PROVE Named(rec("link")) /\ Knows(rec("link"))'
    BY <1>3, <1>4, <1>7, <2>2 DEF ClearAttempts, At, Call, Named, Knows, Taken
  <2>3. ASSUME call[c].via # "merge" PROVE Named(rec("open")) /\ Knows(rec("open"))'
    BY <1>3, <1>4, <1>7, <2>3 DEF ClearAttempts, At, Call, People, Named, Knows, Taken
  <2>4. CallsTyped'
    BY <1>2, <1>3, <1>7, <2>1, <2>2, <2>3, RequestGoes DEF ClearAttempts
  <2>5. NoAttempts \in Attempts
    BY DEF NoAttempts, Attempts
  <2> QED
    BY <1>1, <1>7, <2>4, <2>5 DEF ClearAttempts, accountRow, AccountRows
<1>8. CASE ReadAttempts(c)
  <2> DEFINE rec == [old EXCEPT !.pc = "count", !.seen = attempts[old.p]]
  <2>1. attempts[old.p] \in Attempts /\ "count" \in PCs
    BY <1>3, <1>4, <1>8 DEF ReadAttempts, At, Named, AccountRows, PCs
  <2>2. rec \in Call
    BY <1>4, <2>1, CallTypes
  <2>3. Named(rec) /\ Knows(rec)'
    BY <1>3, <1>4, <1>8, <2>1 DEF ReadAttempts, At, Call, Named, Knows, Taken
  <2>4. CallsTyped'
    BY <1>2, <1>3, <1>8, <2>2, <2>3, RequestMoves DEF ReadAttempts
  <2> QED
    BY <1>1, <1>8, <2>4 DEF ReadAttempts, accountRow, AccountRows
<1>9. CASE CountMiss(c)
  <2> DEFINE row == Counted(old.seen, attempts[old.p])
  <2>1. old.p \in Registered /\ attempts[old.p] \in Attempts /\ old.seen \in Attempts
    BY <1>3, <1>4, <1>9 DEF CountMiss, At, Named, Call, AccountRows
  <2>2. row \in Attempts
    BY <2>1, CountedType
  <2>3. CallsTyped'
    BY <1>2, <1>9, RequestReturns DEF CountMiss
  <2>4. attempts' = [attempts EXCEPT ![old.p] = row]
    BY <1>3, <1>9 DEF CountMiss
  <2>5. misses' \in [Registered -> Nat]
    BY <1>3, <1>9, <2>1 DEF CountMiss, AccountRows
  <2> HIDE DEF row
  <2> QED
    BY <1>1, <1>9, <2>2, <2>3, <2>4, <2>5 DEF CountMiss, accountRow, AccountRows
<1>10. ASSUME NEW p \in Registered, NEW guess \in Guesses(p), BeginLogin(c, p, guess)
       PROVE  AccountRows' /\ CallsTyped' /\ AccountsGrow
  <2> DEFINE rec == [IdleCall EXCEPT !.pc = "gate", !.p = p, !.guess = guess]
  <2>1. guess \in Nat
    BY AccountsAssumption DEF Guesses, Wrong, AccountRows, People
  <2>2. rec \in Call /\ Named(rec) /\ Knows(rec)'
    BY <2>1, IdleType DEF IdleCall, Call, PCs, People, Named, Knows
  <2>3. CallsTyped'
    BY <1>2, <1>10, <2>2, RequestBegins DEF BeginLogin
  <2>4. calls' \in Nat
    BY <1>10, RequestCounts DEF BeginLogin
  <2> QED
    BY <1>1, <1>10, <2>3, <2>4 DEF BeginLogin, accountRow, AccountRows
<1> QED
  BY <1>5, <1>6, <1>7, <1>8, <1>9, <1>10

LEMMA LockSteps ==
    ASSUME AccountRows, CallsTyped, KeysGrow, NEW p \in Registered, LockRunsOut(p) \/ WindowRollsOver(p)
    PROVE  AccountRows' /\ CallsTyped' /\ AccountsGrow
<1>1. AccountsGrow
  BY AccountsStay DEF LockRunsOut, WindowRollsOver, accountRow
<1>2. CallsTyped'
  BY <1>1, RequestsRest DEF LockRunsOut, WindowRollsOver, Grows
<1>3. attempts[p] \in Attempts
  BY DEF AccountRows
<1>4. [attempts[p] EXCEPT !.locked = FALSE] \in Attempts /\ [attempts[p] EXCEPT !.fresh = FALSE] \in Attempts
  BY <1>3 DEF Attempts
<1>5. \A row \in Attempts : [attempts EXCEPT ![p] = row] \in [Registered -> Attempts]
  BY DEF AccountRows
<1>6. attempts' \in [Registered -> Attempts]
  BY <1>4, <1>5 DEF LockRunsOut, WindowRollsOver
<1>7. misses' \in [Registered -> Nat]
  <2>1. misses' = misses \/ misses' = [misses EXCEPT ![p] = 0]
    BY DEF LockRunsOut, WindowRollsOver
  <2>2. misses \in [Registered -> Nat]
    BY DEF AccountRows
  <2>3. [misses EXCEPT ![p] = 0] \in [Registered -> Nat]
    BY <2>2
  <2> QED
    BY <2>1, <2>2, <2>3
<1> QED
  BY <1>1, <1>2, <1>6, <1>7 DEF LockRunsOut, WindowRollsOver, accountRow, AccountRows

\* A state a link can come to.
LEMMA LinkRow ==
    ASSUME AccountRows, NEW i \in DOMAIN links
    PROVE  /\ links \in Seq(Link) /\ links[i] \in Link
           /\ \A state \in LinkStates : [links[i] EXCEPT !.state = state] \in Link
<1>1. links \in Seq(Link)
  BY DEF AccountRows
<1>2. links[i] \in Link
  BY <1>1, RowType
<1> QED
  BY <1>1, <1>2 DEF Link

\* Links that work are revoked, one may be added: nothing that was spent comes back.
LEMMA LinksRevoked ==
    ASSUME AccountRows, NEW f, f = [i \in DOMAIN links |-> f[i]],
           \A i \in DOMAIN links :
             \/ f[i] = links[i]
             \/ links[i].state = "live" /\ f[i] = [links[i] EXCEPT !.state = "revoked"]
    PROVE  /\ f \in Seq(Link) /\ DOMAIN f = DOMAIN links
           /\ \A i \in DOMAIN links : /\ f[i].of = links[i].of /\ f[i].purpose = links[i].purpose
                                      /\ links[i].state = "spent" => f[i].state = "spent"
<1>1. links \in Seq(Link) /\ "revoked" \in LinkStates
  BY DEF AccountRows, LinkStates
<1>2. \A i \in DOMAIN links : f[i] \in Link
  BY <1>1, LinkRow
<1>4. f \in Seq(Link)
  BY <1>1, <1>2, MappedRows
<1>5. \A i \in DOMAIN links : links[i] \in Link
  BY LinkRow
<1> QED
  BY <1>4, <1>5 DEF Link

LEMMA LinkSteps ==
    ASSUME AccountRows, CallsTyped, KeysGrow, NEW c \in Callers,
           \/ \E p \in People, purpose \in Purposes : BeginRequest(c, p, purpose)
           \/ MintLink(c)
           \/ \E i \in DOMAIN links : PresentLink(c, i)
           \/ ConsumeLink(c)
    PROVE  AccountRows' /\ CallsTyped' /\ AccountsGrow
<1>1. ASSUME NEW p \in People, NEW purpose \in Purposes, BeginRequest(c, p, purpose)
      PROVE  AccountRows' /\ CallsTyped' /\ AccountsGrow
  <2> DEFINE rec == [IdleCall EXCEPT !.pc = "mint", !.p = p, !.purpose = purpose]
  <2>1. rec \in Call /\ Named(rec) /\ Knows(rec)'
    BY IdleType DEF IdleCall, Call, PCs, Named, Knows
  <2>2. AccountsGrow
    BY <1>1, AccountsStay DEF BeginRequest, accountRow
  <2>3. CallsTyped' /\ calls' \in Nat
    BY <1>1, <2>1, <2>2, RequestBegins, RequestCounts DEF BeginRequest, Grows
  <2> QED
    BY <1>1, <2>2, <2>3 DEF BeginRequest, accountRow, AccountRows
<1>2. CASE MintLink(c)
  <2> DEFINE p == call[c].p
             purpose == call[c].purpose
             new == [of |-> p, purpose |-> purpose, state |-> "live"]
             old == Revoked(p, purpose)
  <2>1. new \in Link
    BY <1>2 DEF MintLink, At, CallsTyped, Named, Link, LinkStates
  <2>2. /\ old \in Seq(Link) /\ DOMAIN old = DOMAIN links
        /\ \A i \in DOMAIN links : /\ old[i].of = links[i].of /\ old[i].purpose = links[i].purpose
                                   /\ links[i].state = "spent" => old[i].state = "spent"
    <3>1. \A i \in DOMAIN links :
             \/ old[i] = links[i]
             \/ links[i].state = "live" /\ old[i] = [links[i] EXCEPT !.state = "revoked"]
      BY DEF Revoked, LiveLinks
    <3>2. old = [i \in DOMAIN links |-> old[i]]
      BY DEF Revoked
    <3> HIDE DEF old
    <3> QED
      BY <3>1, <3>2, LinksRevoked
  <2>3. links' = Append(old, new) \/ links' = links
    BY <1>2 DEF MintLink
  <2>4. /\ Append(old, new) \in Seq(Link) /\ DOMAIN old \subseteq DOMAIN Append(old, new)
        /\ \A i \in DOMAIN old : Append(old, new)[i] = old[i]
    <3> HIDE DEF new, old
    <3> QED
      BY <2>1, <2>2, AddedRow
  <2>5. AccountsGrow
    <3> HIDE DEF new, old
    <3> QED
      BY <1>2, <2>2, <2>3, <2>4 DEF MintLink, accountRow, AccountsGrow
  <2>6. CallsTyped'
    BY <1>2, <2>5, RequestReturns DEF MintLink, Grows
  <2>7. links' \in Seq(Link)
    BY <2>3, <2>4 DEF AccountRows
  <2> QED
    BY <1>2, <2>5, <2>6, <2>7 DEF MintLink, accountRow, AccountRows
<1>3. ASSUME NEW i \in DOMAIN links, PresentLink(c, i) PROVE AccountRows' /\ CallsTyped' /\ AccountsGrow
  <2>1. AccountsGrow
    BY <1>3, AccountsStay DEF PresentLink, accountRow
  <2>2. PICK link : link = links[i]
    OBVIOUS
  <2> DEFINE rec == [IdleCall EXCEPT !.pc = "consume", !.n = i, !.p = link.of, !.purpose = link.purpose]
             first == IF link.state = "live" THEN rec ELSE IdleCall
  <2>3. link \in Link /\ i \in Nat
    <3>1. DOMAIN links = 1..Len(links) /\ Len(links) \in Nat
      BY LenProperties DEF AccountRows
    <3> QED
      BY <2>2, <3>1, LinkRow
  <2>4. link.of \in Registered
    BY <1>3, <2>2 DEF PresentLink
  <2>5. rec \in Call /\ Named(rec)
    BY <2>3, <2>4, IdleType DEF IdleCall, Call, PCs, Link, People, Named
  <2>6. Knows(rec)'
    BY <1>3, <2>2, <2>3, IdleType DEF PresentLink, Call, IdleCall, Knows
  <2>7. first \in Call /\ Named(first) /\ Knows(first)'
    BY <2>5, <2>6, IdleType
  <2>8. PICK kind : kind = link.purpose
    OBVIOUS
  <2>9. Begin(c, kind, first)
    BY <1>3, <2>2, <2>8 DEF PresentLink
  <2>10. CallsTyped' /\ calls' \in Nat
    <3> HIDE DEF first
    <3>1. Grows
      BY <2>1 DEF Grows
    <3>2. CallsTyped'
      BY <2>7, <2>9, <3>1, RequestBegins
    <3>3. calls' \in Nat
      BY <2>9, RequestCounts
    <3> QED
      BY <3>2, <3>3
  <2> QED
    BY <1>3, <2>1, <2>10 DEF PresentLink, accountRow, AccountRows
<1>4. CASE ConsumeLink(c)
  <2>1. PICK old : old = call[c]
    OBVIOUS
  <2>2. old \in Call /\ Named(old) /\ Knows(old) /\ old.pc = "consume"
    BY <1>4, <2>1 DEF CallsTyped, ConsumeLink, At
  <2>3. PICK i : i = old.n
    OBVIOUS
  <2>4. i \in DOMAIN links
    BY <2>2, <2>3 DEF Knows
  <2>5. CASE Consumable(i) /\ links' = [links EXCEPT ![i].state = "spent"] /\ Goto(c, "apply")
    <3> DEFINE spent == [links[i] EXCEPT !.state = "spent"]
               rec == [old EXCEPT !.pc = "apply"]
    <3>1. spent \in Link /\ links \in Seq(Link) /\ links[i] \in Link
      BY <2>4, LinkRow DEF LinkStates
    <3>2. links' = [links EXCEPT ![i] = spent]
      BY <2>5
    <3>3. links' \in Seq(Link)
      <4> HIDE DEF spent
      <4> QED
        BY <2>4, <3>1, <3>2, ChangedRow
    <3>4. /\ DOMAIN links' = DOMAIN links
          /\ links'[i] = spent /\ \A j \in DOMAIN links : j # i => links'[j] = links[j]
      BY <2>4, <3>1, <3>2
    <3>5. spent.of = links[i].of /\ spent.purpose = links[i].purpose /\ spent.state = "spent"
      BY <3>1 DEF Link
    <3>6. AccountsGrow
      <4> HIDE DEF spent
      <4> QED
        BY <1>4, <3>4, <3>5 DEF ConsumeLink, accountRow, AccountsGrow
    <3>7. Named(rec)
      BY <2>2 DEF Call, Named
    <3>8. Knows(rec)'
      BY <2>2, <2>3, <2>4, <3>4, <3>5 DEF Call, Knows
    <3>9. CallsTyped'
      BY <2>1, <2>5, <3>6, <3>7, <3>8, RequestGoes, "apply" \in PCs DEF Grows, PCs
    <3> QED
      BY <1>4, <3>3, <3>6, <3>9 DEF ConsumeLink, accountRow, AccountRows
  <2>6. CASE Return(c) /\ UNCHANGED links
    <3>1. AccountsGrow
      BY <1>4, <2>6, AccountsStay DEF ConsumeLink, accountRow
    <3>2. CallsTyped'
      BY <2>6, <3>1, RequestReturns DEF Grows
    <3> QED
      BY <1>4, <2>6, <3>1, <3>2 DEF ConsumeLink, accountRow, AccountRows
  <2> QED
    BY <1>4, <2>1, <2>3, <2>5, <2>6 DEF ConsumeLink
<1> QED
  BY <1>1, <1>2, <1>3, <1>4

LEMMA ExpiryStep ==
    ASSUME AccountRows, CallsTyped, KeysGrow, NEW i \in DOMAIN links, ExpireLink(i)
    PROVE  AccountRows' /\ CallsTyped' /\ AccountsGrow
<1> DEFINE expired == [links[i] EXCEPT !.state = "expired"]
<1>1. expired \in Link /\ links \in Seq(Link) /\ links[i] \in Link
  BY LinkRow DEF LinkStates
<1>2. links' = [links EXCEPT ![i] = expired] /\ links[i].state = "live"
  BY DEF ExpireLink
<1>3. links' \in Seq(Link)
  <2> HIDE DEF expired
  <2> QED
    BY <1>1, <1>2, ChangedRow
<1>4. expired.of = links[i].of /\ expired.purpose = links[i].purpose
  BY <1>1 DEF Link
<1>5. AccountsGrow
  <2>1. /\ DOMAIN links' = DOMAIN links
        /\ links'[i] = expired /\ \A j \in DOMAIN links : j # i => links'[j] = links[j]
    BY <1>1, <1>2
  <2> HIDE DEF expired
  <2> QED
    BY <1>2, <1>4, <2>1 DEF ExpireLink, accountRow, AccountsGrow
<1>6. CallsTyped'
  BY <1>5, RequestsRest DEF ExpireLink, Grows
<1> QED
  BY <1>3, <1>5, <1>6 DEF ExpireLink, accountRow, AccountRows

LEMMA EndedSessions ==
    ASSUME AccountRows, NEW p
    PROVE  EndSessions(p) \in Seq(Session)
<1>1. \A i \in DOMAIN sessions : sessions[i] \in Session
  BY RowType DEF AccountRows
<1>2. \A i \in DOMAIN sessions : EndSessions(p)[i] \in Session
  BY <1>1 DEF EndSessions, Session
<1>3. EndSessions(p) = [i \in DOMAIN sessions |-> EndSessions(p)[i]]
  BY DEF EndSessions
<1>4. sessions \in Seq(Session)
  BY DEF AccountRows
<1>5. PICK f : f = EndSessions(p)
  OBVIOUS
<1> QED
  BY <1>2, <1>3, <1>4, <1>5, MappedRows

LEMMA LinkEffects ==
    ASSUME AccountRows, CallsTyped, KeysGrow, NEW c \in Callers, ApplyReset(c) \/ ApplyVerification(c)
    PROVE  AccountRows' /\ CallsTyped' /\ AccountsGrow
<1>1. call[c].p \in People
  BY DEF ApplyReset, ApplyVerification, At, CallsTyped, Named
<1>2. AccountsGrow
  BY DEF ApplyReset, ApplyVerification, AccountsGrow
<1>3. CallsTyped'
  BY <1>2, RequestReturns DEF ApplyReset, ApplyVerification, Grows
<1>4. sessions' \in Seq(Session)
  BY EndedSessions DEF ApplyReset, ApplyVerification, AccountRows
<1>5. secret' \in [People -> Nat]
  <2>1. PICK p : p = call[c].p
    OBVIOUS
  <2>2. secret \in [People -> Nat]
    BY DEF AccountRows
  <2>3. [secret EXCEPT ![p] = @ + 1] \in [People -> Nat]
    BY <1>1, <2>1, <2>2
  <2>4. secret' = secret \/ secret' = [secret EXCEPT ![p] = @ + 1]
    BY <2>1 DEF ApplyReset, ApplyVerification
  <2> QED
    BY <2>2, <2>3, <2>4
<1>6. verified' \subseteq People
  BY <1>1 DEF ApplyReset, ApplyVerification, AccountRows
<1> QED
  BY <1>2, <1>3, <1>4, <1>5, <1>6 DEF ApplyReset, ApplyVerification, AccountRows

LEMMA FailStep ==
    ASSUME AccountRows, CallsTyped, KeysGrow, NEW c \in Callers, Fail(c)
    PROVE  AccountRows' /\ CallsTyped' /\ AccountsGrow
<1>1. AccountsGrow
  BY AccountsStay DEF Fail, accountRow
<1>2. CallsTyped'
  BY <1>1, RequestReturns DEF Fail, Grows
<1> QED
  BY <1>1, <1>2 DEF Fail, accountRow, AccountRows

LEMMA IdentitySteps ==
    ASSUME AccountRows, CallsTyped, KeysGrow, NEW c \in Callers,
           \/ \E id \in Identities, p \in Registered \cup {NoPerson} : BeginCallback(c, id, p)
           \/ ResolveIdentity(c) \/ CreateAccount(c)
    PROVE  AccountRows' /\ CallsTyped' /\ AccountsGrow
<1>1. PICK old : old = call[c]
  OBVIOUS
<1>2. AccountsGrow
  BY DEF BeginCallback, ResolveIdentity, CreateAccount, accountRow, AccountsGrow
<1>3. old \in Call /\ Named(old) /\ Knows(old) /\ Knows(old)' /\ Grows
  BY <1>1, <1>2, OldRequest DEF Grows
<1>4. ASSUME NEW id \in Identities, NEW p \in Registered \cup {NoPerson}, BeginCallback(c, id, p)
      PROVE  AccountRows' /\ CallsTyped' /\ AccountsGrow
  <2> DEFINE rec == [IdleCall EXCEPT !.pc = "resolve", !.id = id, !.p = p, !.via = "oidc"]
  <2>1. rec \in Call /\ Named(rec) /\ Knows(rec)'
    <3>1. /\ rec.pc = "resolve" /\ rec.id = id /\ rec.p = p /\ rec.via = "oidc"
          /\ p \in People \cup {NoPerson}
      BY DEF IdleCall, People
    <3>2. rec \in Call
      BY <3>1, IdleType DEF Call, PCs, Means
    <3> HIDE DEF rec
    <3> QED
      BY <3>1, <3>2 DEF Named, Knows
  <2>2. CallsTyped' /\ calls' \in Nat
    BY <1>3, <1>4, <2>1, RequestBegins, RequestCounts DEF BeginCallback
  <2> QED
    BY <1>2, <1>4, <2>2 DEF BeginCallback, accountRow, AccountRows
<1>5. CASE ResolveIdentity(c)
  <2>1. old.pc = "resolve"
    BY <1>1, <1>5 DEF ResolveIdentity, At
  <2>2. ASSUME NEW q \in LinkedTo(call[c].id), call' = [call EXCEPT ![c] = [@ EXCEPT !.pc = "open", !.p = q]]
        PROVE  CallsTyped'
    <3> DEFINE rec == [old EXCEPT !.pc = "open", !.p = q]
    <3>1. q \in People /\ "open" \in PCs
      BY DEF LinkedTo, AccountRows, PCs
    <3>2. rec \in Call
      BY <1>3, <3>1, CallTypes
    <3>3. Named(rec) /\ Knows(rec)'
      BY <1>3, <2>1, <3>1 DEF Call, Named, Knows, Taken
    <3> QED
      BY <1>1, <1>3, <2>2, <3>2, <3>3, RequestMoves
  <2>3. ASSUME call[c].p \in exists, Goto(c, "ask") PROVE CallsTyped'
    <3> DEFINE rec == [old EXCEPT !.pc = "ask"]
    <3>1. old.p \in Registered /\ "ask" \in PCs
      BY <1>1, <1>3, <2>1, <2>3, AccountsAssumption DEF Named, AccountRows, PCs, NoPerson
    <3>2. Named(rec) /\ Knows(rec)'
      BY <1>3, <2>1, <3>1 DEF Call, People, Named, Knows
    <3> QED
      BY <1>1, <1>3, <2>3, <3>1, <3>2, RequestGoes
  <2>4. ASSUME Goto(c, "create") PROVE CallsTyped'
    <3> DEFINE rec == [old EXCEPT !.pc = "create"]
    <3>1. Named(rec) /\ Knows(rec)' /\ "create" \in PCs
      BY <1>3, <2>1 DEF Call, PCs, Named, Knows
    <3> QED
      BY <1>1, <1>3, <2>4, <3>1, RequestGoes
  <2>5. CallsTyped'
    BY <1>5, <2>2, <2>3, <2>4 DEF ResolveIdentity
  <2> QED
    BY <1>2, <1>5, <2>5 DEF ResolveIdentity, accountRow, AccountRows
<1>6. CASE CreateAccount(c)
  <2>1. PICK id : id = old.id
    OBVIOUS
  <2>2. id \in Identities /\ id \in People /\ "open" \in PCs /\ old.pc = "create"
    BY <1>1, <1>3, <1>6, <2>1 DEF CreateAccount, At, Named, People, PCs
  <2> DEFINE rec == [old EXCEPT !.pc = "open", !.p = id]
  <2>3. rec \in Call /\ Named(rec) /\ Knows(rec)'
    <3>1. rec \in Call
      BY <1>3, <2>2, CallTypes
    <3> QED
      BY <1>3, <2>2, <3>1 DEF Call, Named, Knows, Taken
  <2>4. Return(c) \/ call' = [call EXCEPT ![c] = rec]
    BY <1>1, <1>6, <2>1 DEF CreateAccount
  <2>5. CallsTyped'
    BY <1>3, <2>3, <2>4, RequestReturns, RequestMoves
  <2>6. exists' \subseteq exists \cup {id} /\ verified' \subseteq verified \cup {id}
    BY <1>1, <1>6, <2>1 DEF CreateAccount
  <2>7. identity' \in [People -> Identities \cup {NoIdentity}]
    BY <1>1, <1>6, <2>1, <2>2 DEF CreateAccount, AccountRows
  <2> QED
    BY <1>2, <1>6, <2>2, <2>5, <2>6, <2>7 DEF CreateAccount, AccountRows
<1> QED
  BY <1>4, <1>5, <1>6

LEMMA MergeRow ==
    ASSUME AccountRows, NEW m \in DOMAIN merges
    PROVE  merges[m] \in Merge /\ merges[m].of \in People /\ m \in Nat
<1>1. merges \in Seq(Merge)
  BY DEF AccountRows
<1>2. merges[m] \in Merge
  BY <1>1, RowType
<1>3. DOMAIN merges = 1..Len(merges) /\ Len(merges) \in Nat
  BY <1>1, LenProperties
<1> QED
  BY <1>2, <1>3 DEF Merge, People

LEMMA MergeSteps ==
    ASSUME AccountRows, CallsTyped, KeysGrow, NEW c \in Callers,
           \/ AskForMerge(c) \/ LinkIdentity(c)
           \/ \E m \in DOMAIN merges, p \in Registered : \E guess \in Guesses(p) :
                BeginMerge(c, m, p, guess)
    PROVE  AccountRows' /\ CallsTyped' /\ AccountsGrow
<1>1. PICK old : old = call[c]
  OBVIOUS
<1>2. old \in Call /\ Named(old) /\ Knows(old) /\ merges \in Seq(Merge)
  BY <1>1 DEF CallsTyped, AccountRows
<1>3. CASE AskForMerge(c)
  <2> DEFINE new == [of |-> old.p, identity |-> old.id, live |-> TRUE, by |-> NoPerson]
  <2>1. new \in Merge
    BY <1>1, <1>2, <1>3 DEF AskForMerge, At, Named, Merge
  <2>2. merges' = Append(merges, new) \/ merges' = merges
    BY <1>1, <1>3 DEF AskForMerge
  <2>3. /\ Append(merges, new) \in Seq(Merge) /\ DOMAIN merges \subseteq DOMAIN Append(merges, new)
        /\ \A m \in DOMAIN merges : Append(merges, new)[m] = merges[m]
    <3> HIDE DEF new
    <3> QED
      BY <1>2, <2>1, AddedRow
  <2>4. AccountsGrow
    <3> HIDE DEF new
    <3> QED
      BY <1>3, <2>2, <2>3 DEF AskForMerge, accountRow, AccountsGrow
  <2>5. CallsTyped'
    BY <1>3, <2>4, RequestReturns DEF AskForMerge, Grows
  <2>6. merges' \in Seq(Merge)
    BY <1>2, <2>2, <2>3
  <2> QED
    BY <1>3, <2>4, <2>5, <2>6 DEF AskForMerge, accountRow, AccountRows
<1>4. CASE LinkIdentity(c)
  <2>1. PICK m : m = old.n
    OBVIOUS
  <2>2. PICK p : p = merges[m].of
    OBVIOUS
  <2>3. old.pc = "link" /\ old.via = "merge" /\ m \in DOMAIN merges /\ p = old.p /\ p \in Registered
    BY <1>1, <1>2, <1>4, <2>1, <2>2 DEF LinkIdentity, At, Named, Knows
  <2> DEFINE done == [merges[m] EXCEPT !.live = FALSE, !.by = p]
             rec == [old EXCEPT !.pc = "open", !.p = p]
  <2>4. CASE /\ identity' = [identity EXCEPT ![p] = merges[m].identity]
             /\ verified' = verified \cup {p}
             /\ merges' = [merges EXCEPT ![m].live = FALSE, ![m].by = p]
             /\ call' = [call EXCEPT ![c] = rec]
    <3>1. merges[m] \in Merge /\ p \in People
      BY <2>3, MergeRow DEF People
    <3>2. done \in Merge
      BY <3>1 DEF Merge
    <3>3. merges' = [merges EXCEPT ![m] = done]
      BY <1>2, <2>3, <2>4
    <3>4. merges' \in Seq(Merge)
      <4> HIDE DEF done
      <4> QED
        BY <1>2, <2>3, <3>2, <3>3, ChangedRow
    <3>5. /\ DOMAIN merges' = DOMAIN merges /\ merges'[m] = done
          /\ \A k \in DOMAIN merges : k # m => merges'[k] = merges[k]
      BY <1>2, <2>3, <3>3
    <3>6. done.of = merges[m].of /\ ~done.live
      BY <3>1 DEF Merge
    <3>7. AccountsGrow
      <4> HIDE DEF done
      <4> QED
        BY <1>4, <2>4, <3>5, <3>6 DEF LinkIdentity, AccountsGrow
    <3>8. rec \in Call
      BY <1>2, <3>1, CallTypes, "open" \in PCs DEF PCs
    <3>9. rec.pc = "open" /\ rec.p = p /\ rec.via = "merge" /\ rec.n = m
      BY <1>2, <2>1, <2>3 DEF Call
    <3>10. Named(rec) /\ Knows(rec)'
      <4> HIDE DEF rec, done
      <4> QED
        BY <2>3, <2>4, <3>1, <3>5, <3>6, <3>9 DEF Named, Knows, Taken
    <3>11. CallsTyped'
      BY <1>2, <2>4, <3>7, <3>8, <3>10, RequestMoves DEF Grows
    <3>12. identity' \in [People -> Identities \cup {NoIdentity}]
      BY <2>4, <3>1 DEF AccountRows, Merge
    <3> QED
      BY <1>4, <2>4, <3>1, <3>4, <3>7, <3>11, <3>12 DEF LinkIdentity, AccountRows
  <2>5. CASE Return(c) /\ UNCHANGED <<identity, verified, merges>>
    <3>1. AccountsGrow
      BY <1>4, <2>5, AccountsStay DEF LinkIdentity
    <3>2. CallsTyped'
      BY <2>5, <3>1, RequestReturns DEF Grows
    <3> QED
      BY <1>4, <2>5, <3>1, <3>2 DEF LinkIdentity, AccountRows
  <2>6. \/ /\ identity' = [identity EXCEPT ![p] = merges[m].identity]
           /\ verified' = verified \cup {p}
           /\ merges' = [merges EXCEPT ![m].live = FALSE, ![m].by = p]
           /\ call' = [call EXCEPT ![c] = rec]
        \/ Return(c) /\ UNCHANGED <<identity, verified, merges>>
    BY <1>1, <1>4, <2>1, <2>2, <2>3 DEF LinkIdentity
  <2> QED
    BY <2>4, <2>5, <2>6
<1>5. ASSUME NEW m \in DOMAIN merges, NEW p \in Registered, NEW guess \in Guesses(p),
             BeginMerge(c, m, p, guess)
      PROVE  AccountRows' /\ CallsTyped' /\ AccountsGrow
  <2> DEFINE rec == [IdleCall EXCEPT !.pc = "gate", !.p = p, !.guess = guess, !.n = m, !.via = "merge"]
  <2>1. guess \in Nat /\ m \in Nat
    BY MergeRow, AccountsAssumption DEF Guesses, Wrong, AccountRows, People
  <2>2. AccountsGrow
    BY <1>5, AccountsStay DEF BeginMerge, accountRow
  <2>3. rec \in Call
    BY <2>1, IdleType DEF Call, PCs, Means, People
  <2>4. Named(rec) /\ Knows(rec)'
    BY <1>5, IdleType DEF BeginMerge, IdleCall, People, Named, Knows
  <2>5. CallsTyped' /\ calls' \in Nat
    BY <1>5, <2>2, <2>3, <2>4, RequestBegins, RequestCounts DEF BeginMerge, Grows
  <2> QED
    BY <1>5, <2>2, <2>5 DEF BeginMerge, accountRow, AccountRows
<1> QED
  BY <1>3, <1>4, <1>5

LEMMA DroppedMerges ==
    ASSUME AccountRows, NEW p
    PROVE  /\ Dropped(p) \in Seq(Merge) /\ DOMAIN Dropped(p) = DOMAIN merges
           /\ \A m \in DOMAIN merges : /\ Dropped(p)[m].of = merges[m].of
                                       /\ ~merges[m].live => ~Dropped(p)[m].live
<1>1. \A m \in DOMAIN merges : merges[m] \in Merge
  BY MergeRow
<1>2. \A m \in DOMAIN merges : /\ Dropped(p)[m] \in Merge
                               /\ Dropped(p)[m].of = merges[m].of
                               /\ ~merges[m].live => ~Dropped(p)[m].live
  BY <1>1 DEF Dropped, Merge
<1>3. Dropped(p) = [m \in DOMAIN merges |-> Dropped(p)[m]]
  BY DEF Dropped
<1>4. merges \in Seq(Merge)
  BY DEF AccountRows
<1>5. PICK f : f = Dropped(p)
  OBVIOUS
<1>6. Dropped(p) \in Seq(Merge)
  BY <1>2, <1>3, <1>4, <1>5, MappedRows
<1> QED
  BY <1>2, <1>3, <1>6

LEMMA BurntLinks ==
    ASSUME AccountRows, NEW p
    PROVE  /\ Burnt(p) \in Seq(Link) /\ DOMAIN Burnt(p) = DOMAIN links
           /\ \A i \in DOMAIN links : /\ Burnt(p)[i].of = links[i].of
                                      /\ Burnt(p)[i].purpose = links[i].purpose
                                      /\ links[i].state = "spent" => Burnt(p)[i].state = "spent"
<1>1. PICK f : f = Burnt(p)
  OBVIOUS
<1>2. \A i \in DOMAIN links :
        \/ f[i] = links[i]
        \/ links[i].state = "live" /\ f[i] = [links[i] EXCEPT !.state = "revoked"]
  BY <1>1 DEF Burnt
<1>3. f = [i \in DOMAIN links |-> f[i]]
  BY <1>1 DEF Burnt
<1>4. /\ f \in Seq(Link) /\ DOMAIN f = DOMAIN links
      /\ \A i \in DOMAIN links : /\ f[i].of = links[i].of /\ f[i].purpose = links[i].purpose
                                 /\ links[i].state = "spent" => f[i].state = "spent"
  BY <1>2, <1>3, LinksRevoked
<1> QED
  BY <1>1, <1>4

LEMMA EraseSteps ==
    ASSUME AccountRows, CallsTyped, KeysGrow, NEW c \in Callers,
           Erase(c) \/ \E p \in People : BeginErase(c, p)
    PROVE  AccountRows' /\ CallsTyped' /\ AccountsGrow
<1>1. CASE Erase(c)
  <2>1. PICK p : p = call[c].p
    OBVIOUS
  <2>2. exists' = exists \ {p} /\ sessions' = EndSessions(p) /\ links' = Burnt(p) /\ merges' = Dropped(p)
    BY <1>1, <2>1 DEF Erase
  <2>3. AccountsGrow
    BY <1>1, <2>2, DroppedMerges, BurntLinks DEF Erase, AccountsGrow
  <2>4. CallsTyped'
    BY <1>1, <2>3, RequestReturns DEF Erase, Grows
  <2>5. sessions' \in Seq(Session) /\ links' \in Seq(Link) /\ merges' \in Seq(Merge)
    BY <2>2, EndedSessions, DroppedMerges, BurntLinks
  <2> QED
    BY <1>1, <2>2, <2>3, <2>4, <2>5 DEF Erase, AccountRows
<1>2. ASSUME NEW p \in People, BeginErase(c, p) PROVE AccountRows' /\ CallsTyped' /\ AccountsGrow
  <2> DEFINE rec == [IdleCall EXCEPT !.pc = "erase", !.p = p]
  <2>1. AccountsGrow
    BY <1>2, AccountsStay DEF BeginErase, accountRow
  <2>2. rec \in Call /\ Named(rec) /\ Knows(rec)'
    BY IdleType DEF IdleCall, Call, PCs, Named, Knows
  <2>3. CallsTyped' /\ calls' \in Nat
    BY <1>2, <2>1, <2>2, RequestBegins, RequestCounts DEF BeginErase, Grows
  <2> QED
    BY <1>2, <2>1, <2>3 DEF BeginErase, accountRow, AccountRows
<1> QED
  BY <1>1, <1>2

\* Codes change like links do: those that work are revoked.
LEMMA CodesRevoked ==
    ASSUME KeyRows, NEW f, f = [k \in DOMAIN codes |-> f[k]],
           \A k \in DOMAIN codes :
             \/ f[k] = codes[k]
             \/ codes[k].state = "live" /\ f[k] = [codes[k] EXCEPT !.state = "revoked"]
    PROVE  /\ f \in Seq(Code) /\ DOMAIN f = DOMAIN codes
           /\ \A k \in DOMAIN codes : codes[k].state = "spent" => f[k].state = "spent"
<1>1. codes \in Seq(Code)
  BY DEF KeyRows
<1>2. \A k \in DOMAIN codes : codes[k] \in Code
  BY <1>1, RowType
<1>3. \A k \in DOMAIN codes : f[k] \in Code
  BY <1>2 DEF Code
<1>4. f \in Seq(Code)
  BY <1>1, <1>3, MappedRows
<1> QED
  BY <1>2, <1>4 DEF Code

LEMMA KeysErased ==
    ASSUME KeyRows, ErasedKeys
    PROVE  KeyRows' /\ KeysGrow
<1>1. PICK gone : gone = exists \ exists'
  OBVIOUS
<1>2. PICK f : f = codes'
  OBVIOUS
<1>3. f = [k \in DOMAIN codes |-> IF codes[k].of \in gone /\ codes[k].state = "live"
                                    THEN [codes[k] EXCEPT !.state = "revoked"] ELSE codes[k]]
  BY <1>1, <1>2 DEF ErasedKeys
<1>4. /\ f \in Seq(Code) /\ DOMAIN f = DOMAIN codes
      /\ \A k \in DOMAIN codes : codes[k].state = "spent" => f[k].state = "spent"
  <2>1. f = [k \in DOMAIN codes |-> f[k]]
    BY <1>3
  <2>2. \A k \in DOMAIN codes :
          \/ f[k] = codes[k]
          \/ codes[k].state = "live" /\ f[k] = [codes[k] EXCEPT !.state = "revoked"]
    BY <1>3
  <2> QED
    BY <2>1, <2>2, CodesRevoked
<1>5. enrolled' \subseteq enrolled /\ UNCHANGED <<counter, answered, accepted>>
  BY DEF ErasedKeys
<1> QED
  BY <1>2, <1>4, <1>5 DEF KeyRows, KeysGrow

LEMMA CodeRow ==
    ASSUME KeyRows, NEW k \in DOMAIN codes
    PROVE  /\ codes \in Seq(Code) /\ codes[k] \in Code /\ codes[k].of \in People /\ k \in Nat
           /\ \A state \in {"live", "spent", "revoked"} : [codes[k] EXCEPT !.state = state] \in Code
<1>1. codes \in Seq(Code)
  BY DEF KeyRows
<1>2. codes[k] \in Code
  BY <1>1, RowType
<1>3. DOMAIN codes = 1..Len(codes) /\ Len(codes) \in Nat
  BY <1>1, LenProperties
<1> QED
  BY <1>1, <1>2, <1>3 DEF Code

LEMMA AssertionSteps ==
    ASSUME KeyRows, CallsTyped, AccountsGrow, NEW c \in Callers, UNCHANGED codes,
           \/ \E p \in Registered, n \in 1..MaxAssertions : PresentAssertion(c, p, n)
           \/ CheckAssertion(c) \/ AdvanceCounter(c) \/ ReadProfile(c)
    PROVE  KeyRows' /\ CallsTyped' /\ KeysGrow
<1>1. KeysGrow
  BY DEF PresentAssertion, CheckAssertion, AdvanceCounter, ReadProfile, keyRows, KeysGrow
<1>2. Grows
  BY <1>1 DEF Grows
<1>3. PICK old : old = call[c]
  OBVIOUS
<1>4. old \in Call /\ Named(old) /\ Knows(old) /\ Knows(old)'
  BY <1>2, <1>3, OldRequest
<1>5. ASSUME NEW p \in Registered, NEW n \in 1..MaxAssertions, PresentAssertion(c, p, n)
      PROVE  KeyRows' /\ CallsTyped' /\ KeysGrow
  <2>1. PICK unanswered : unanswered = Unanswered(p, n)
    OBVIOUS
  <2> DEFINE rec == [IdleCall EXCEPT !.pc = "assert", !.p = p, !.n = n, !.via = "passkey"]
             first == IF unanswered THEN rec ELSE IdleCall
  <2>2. n \in Nat /\ p \in People
    BY PasskeysAssumption DEF People
  <2>3. answered' = answered \cup {<<p, n>>}
    BY <1>5 DEF PresentAssertion
  <2>4. rec \in Call /\ Named(rec)
    BY <2>2, IdleType DEF IdleCall, Call, PCs, Means, Named
  <2>5. Knows(rec)'
    BY <2>2, <2>3, IdleType DEF Call, Knows, Taken
  <2>6. first \in Call /\ Named(first) /\ Knows(first)'
    <3> HIDE DEF rec
    <3> QED
      BY <2>4, <2>5, IdleType
  <2>7. PICK kind : kind = "passkey"
    OBVIOUS
  <2>8. Begin(c, kind, first)
    BY <1>5, <2>1, <2>7 DEF PresentAssertion
  <2>9. CallsTyped'
    <3> HIDE DEF first
    <3> QED
      BY <1>2, <2>6, <2>8, RequestBegins
  <2>10. UNCHANGED <<enrolled, counter, accepted>>
    BY <1>5, Zenon DEF PresentAssertion
  <2>11. KeyRows'
    BY <2>2, <2>3, <2>10 DEF KeyRows
  <2> QED
    BY <1>1, <2>9, <2>11
<1>6. CASE CheckAssertion(c)
  <2> DEFINE rec == [old EXCEPT !.pc = "advance"]
  <2>1. Named(rec) /\ Knows(rec)' /\ "advance" \in PCs
    BY <1>3, <1>4, <1>6 DEF CheckAssertion, At, Call, PCs, Named, Knows
  <2>2. CallsTyped'
    BY <1>2, <1>3, <1>6, <2>1, RequestGoes, RequestReturns DEF CheckAssertion
  <2> QED
    BY <1>1, <1>6, <2>2 DEF CheckAssertion, keyRows, KeyRows
<1>7. CASE AdvanceCounter(c)
  <2> DEFINE rec == [old EXCEPT !.pc = "profile"]
  <2>1. Named(rec) /\ Knows(rec)' /\ "profile" \in PCs
    BY <1>3, <1>4, <1>7 DEF AdvanceCounter, At, Call, PCs, Named, Knows
  <2>2. CallsTyped'
    BY <1>2, <1>3, <1>7, <2>1, RequestGoes DEF AdvanceCounter
  <2>3. old.p \in People /\ old.n \in Nat /\ counter \in [People -> Nat] /\ accepted \in [People -> Nat]
    BY <1>3, <1>4, <1>7 DEF AdvanceCounter, At, Call, Named, KeyRows
  <2>4. /\ [counter EXCEPT ![old.p] = old.n] \in [People -> Nat]
        /\ [accepted EXCEPT ![old.p] = IF old.n > @ THEN old.n ELSE @] \in [People -> Nat]
    BY <2>3
  <2>5. counter' \in [People -> Nat] /\ accepted' \in [People -> Nat]
    BY <1>3, <1>7, <2>3, <2>4 DEF AdvanceCounter
  <2> QED
    BY <1>1, <1>7, <2>2, <2>5 DEF AdvanceCounter, KeyRows
<1>8. CASE ReadProfile(c)
  <2> DEFINE rec == [old EXCEPT !.pc = "open"]
  <2>1. Named(rec) /\ "open" \in PCs
    BY <1>3, <1>4, <1>8 DEF ReadProfile, At, Call, PCs, Named
  <2>2. ASSUME SessionGate(call[c].p) PROVE Knows(rec)'
    BY <1>2, <1>3, <1>4, <1>8, <2>2
    DEF ReadProfile, At, SessionGate, Call, Knows, Taken, Grows, AccountsGrow
  <2>3. CallsTyped'
    BY <1>2, <1>3, <1>8, <2>1, <2>2, RequestGoes, RequestReturns DEF ReadProfile
  <2> QED
    BY <1>1, <1>8, <2>3 DEF ReadProfile, keyRows, KeyRows
<1> QED
  BY <1>5, <1>6, <1>7, <1>8

LEMMA RecoverySteps ==
    ASSUME KeyRows, CallsTyped, AccountsGrow, NEW c \in Callers,
           (\E k \in DOMAIN codes : BeginRecovery(c, k)) \/ RedeemCode(c)
    PROVE  KeyRows' /\ CallsTyped' /\ KeysGrow
<1>1. ASSUME NEW k \in DOMAIN codes, BeginRecovery(c, k) PROVE KeyRows' /\ CallsTyped' /\ KeysGrow
  <2>1. PICK p : p = codes[k].of
    OBVIOUS
  <2> DEFINE rec == [IdleCall EXCEPT !.pc = "redeem", !.n = k, !.p = p, !.via = "recovery"]
  <2>2. UNCHANGED keyRows
    BY <1>1, Zenon DEF BeginRecovery
  <2>3. Grows
    BY <2>2 DEF keyRows, KeysGrow, Grows
  <2>4. p \in People /\ k \in Nat
    BY <2>1, CodeRow
  <2>5. rec \in Call /\ Named(rec)
    BY <2>4, IdleType DEF IdleCall, Call, PCs, Means, Named
  <2>6. Knows(rec)'
    BY <2>2, IdleType DEF keyRows, Call, Knows
  <2>7. PICK kind : kind = "recovery"
    OBVIOUS
  <2>8. Begin(c, kind, rec)
    BY <1>1, <2>1, <2>7 DEF BeginRecovery
  <2>9. CallsTyped'
    <3> HIDE DEF rec
    <3> QED
      BY <2>3, <2>5, <2>6, <2>8, RequestBegins
  <2> QED
    BY <2>2, <2>3, <2>9 DEF keyRows, KeyRows, Grows
<1>2. CASE RedeemCode(c)
  <2>1. PICK old : old = call[c]
    OBVIOUS
  <2>2. PICK k : k = old.n
    OBVIOUS
  <2>3. old \in Call /\ Named(old) /\ Knows(old) /\ old.pc = "redeem" /\ k \in DOMAIN codes
    BY <1>2, <2>1, <2>2 DEF CallsTyped, RedeemCode, At, Knows
  <2> DEFINE spent == [codes[k] EXCEPT !.state = "spent"]
             rec == [old EXCEPT !.pc = "profile"]
  <2>4. CASE codes' = [codes EXCEPT ![k] = spent] /\ Goto(c, "profile")
    <3>1. spent \in Code /\ spent.state = "spent" /\ codes \in Seq(Code)
      BY <2>3, CodeRow DEF Code
    <3>2. codes' \in Seq(Code)
      <4> HIDE DEF spent
      <4> QED
        BY <2>3, <2>4, <3>1, ChangedRow
    <3>3. /\ DOMAIN codes' = DOMAIN codes /\ codes'[k] = spent
          /\ \A j \in DOMAIN codes : j # k => codes'[j] = codes[j]
      BY <2>3, <2>4, <3>1
    <3>4. KeysGrow
      <4> HIDE DEF spent
      <4> QED
        BY <1>2, <3>1, <3>3 DEF RedeemCode, KeysGrow
    <3>5. Named(rec) /\ "profile" \in PCs
      BY <2>3 DEF Call, Named, PCs
    <3>6. Knows(rec)'
      <4>1. rec.pc = "profile" /\ rec.via = "recovery" /\ rec.n = k /\ rec.p = old.p
        BY <2>2, <2>3 DEF Call, Named
      <4> HIDE DEF rec, spent
      <4> QED
        BY <2>3, <3>1, <3>3, <4>1 DEF Knows, Taken
    <3>7. CallsTyped'
      BY <2>1, <2>4, <3>4, <3>5, <3>6, RequestGoes DEF Grows
    <3> QED
      BY <1>2, <3>2, <3>4, <3>7 DEF RedeemCode, KeyRows
  <2>5. CASE Return(c) /\ UNCHANGED codes
    <3>1. KeysGrow
      BY <1>2, <2>5 DEF RedeemCode, KeysGrow
    <3>2. CallsTyped'
      BY <2>5, <3>1, RequestReturns DEF Grows
    <3> QED
      BY <1>2, <2>5, <3>1, <3>2 DEF RedeemCode, KeyRows
  <2>6. \/ codes' = [codes EXCEPT ![k] = spent] /\ Goto(c, "profile")
        \/ Return(c) /\ UNCHANGED codes
    BY <1>2, <2>1, <2>2 DEF RedeemCode
  <2> QED
    BY <2>4, <2>5, <2>6
<1> QED
  BY <1>1, <1>2

LEMMA EnrolSteps ==
    ASSUME KeyRows, CallsTyped, AccountsGrow, NEW c \in Callers,
           \/ \E p \in Registered : BeginEnroll(c, p) \/ DeletePasskey(c, p)
           \/ StorePasskey(c)
    PROVE  KeyRows' /\ CallsTyped' /\ KeysGrow
<1>1. UNCHANGED <<answered, codes>>
  BY Zenon DEF BeginEnroll, DeletePasskey, StorePasskey, keyRows
<1>2. Grows
  BY <1>1, KeysStay DEF Grows
<1>3. ASSUME NEW p \in Registered, BeginEnroll(c, p) PROVE KeyRows' /\ CallsTyped'
  <2> DEFINE rec == [IdleCall EXCEPT !.pc = "store", !.p = p]
  <2>1. rec \in Call /\ Named(rec) /\ Knows(rec)'
    BY IdleType DEF IdleCall, Call, PCs, People, Named, Knows
  <2>2. PICK kind : kind = "enroll"
    OBVIOUS
  <2>3. Begin(c, kind, rec) /\ UNCHANGED keyRows
    BY <1>3, <2>2 DEF BeginEnroll
  <2>4. CallsTyped'
    <3> HIDE DEF rec
    <3> QED
      BY <1>2, <2>1, <2>3, RequestBegins
  <2> QED
    BY <2>3, <2>4 DEF keyRows, KeyRows
<1>4. ASSUME NEW p \in Registered, DeletePasskey(c, p) PROVE KeyRows' /\ CallsTyped'
  <2>1. PICK kind : kind = "unenroll"
    OBVIOUS
  <2>2. Begin(c, kind, IdleCall) /\ enrolled' \subseteq enrolled /\ UNCHANGED <<counter, accepted>>
    BY <1>4, <2>1 DEF DeletePasskey
  <2>3. CallsTyped'
    BY <1>2, <2>2, IdleType, RequestBegins
  <2> QED
    BY <1>1, <2>2, <2>3 DEF KeyRows
<1>5. ASSUME StorePasskey(c) PROVE KeyRows' /\ CallsTyped'
  <2>1. PICK old : old = call[c]
    OBVIOUS
  <2>2. old \in Call /\ Named(old) /\ old.pc = "store" /\ old.p \in People
    BY <1>5, <2>1 DEF CallsTyped, StorePasskey, At, Named
  <2> DEFINE rec == [old EXCEPT !.pc = "drop"]
  <2>3. Named(rec) /\ Knows(rec)' /\ "drop" \in PCs
    BY <2>2 DEF Call, PCs, Named, Knows
  <2>4. CallsTyped'
    BY <1>2, <1>5, <2>1, <2>3, RequestGoes, RequestReturns DEF StorePasskey
  <2>5. /\ enrolled' \subseteq enrolled \cup {old.p}
        /\ counter' = counter \/ counter' = [counter EXCEPT ![old.p] = 0]
        /\ accepted' = accepted \/ accepted' = [accepted EXCEPT ![old.p] = 0]
    BY <1>5, <2>1 DEF StorePasskey
  <2>6. counter \in [People -> Nat] /\ accepted \in [People -> Nat]
    BY DEF KeyRows
  <2>7. counter' \in [People -> Nat] /\ accepted' \in [People -> Nat]
    BY <2>2, <2>5, <2>6
  <2> QED
    BY <1>1, <2>2, <2>4, <2>5, <2>7 DEF KeyRows
<1>6. KeyRows' /\ CallsTyped'
  BY <1>3, <1>4, <1>5
<1> QED
  BY <1>2, <1>6 DEF Grows

LEMMA CodeSteps ==
    ASSUME KeyRows, CallsTyped, AccountsGrow, NEW c \in Callers, DropCodes(c) \/ IssueCode(c)
    PROVE  KeyRows' /\ CallsTyped' /\ KeysGrow
<1>1. PICK old : old = call[c]
  OBVIOUS
<1>2. old \in Call /\ Named(old) /\ codes \in Seq(Code)
  BY <1>1 DEF CallsTyped, KeyRows
<1>3. CASE DropCodes(c)
  <2> DEFINE rec == [old EXCEPT !.pc = "issue", !.n = CodeCount]
  <2>1. PICK f : f = CodesDropped(old.p)
    OBVIOUS
  <2>2. /\ f = [k \in DOMAIN codes |-> f[k]]
        /\ \A k \in DOMAIN codes :
             \/ f[k] = codes[k]
             \/ codes[k].state = "live" /\ f[k] = [codes[k] EXCEPT !.state = "revoked"]
    BY <2>1 DEF CodesDropped, Unused
  <2>3. /\ f \in Seq(Code) /\ DOMAIN f = DOMAIN codes
        /\ \A k \in DOMAIN codes : codes[k].state = "spent" => f[k].state = "spent"
    BY <2>2, CodesRevoked
  <2>4. codes' = f /\ UNCHANGED <<enrolled, counter, answered, accepted>>
    BY <1>1, <1>3, <2>1 DEF DropCodes
  <2>5. KeysGrow
    BY <2>3, <2>4 DEF KeysGrow
  <2>6. CodeCount \in Nat /\ "issue" \in PCs /\ old.pc = "drop"
    BY <1>1, <1>3, PasskeysAssumption DEF DropCodes, At, PCs
  <2>7. rec \in Call
    BY <1>2, <2>6, CallTypes
  <2>8. Named(rec) /\ Knows(rec)'
    BY <1>2, <2>6 DEF Call, Named, Knows
  <2>9. call' = [call EXCEPT ![c] = rec]
    BY <1>1, <1>3 DEF DropCodes
  <2>10. CallsTyped'
    <3> HIDE DEF rec
    <3> QED
      BY <2>5, <2>7, <2>8, <2>9, RequestMoves DEF Grows
  <2> QED
    BY <2>3, <2>4, <2>5, <2>10 DEF KeyRows
<1>4. CASE IssueCode(c)
  <2> DEFINE new == [of |-> old.p, state |-> "live"]
  <2>1. new \in Code /\ old.pc = "issue" /\ old.n \in Nat
    BY <1>1, <1>2, <1>4 DEF IssueCode, At, Named, Call, Code
  <2>2. UNCHANGED <<enrolled, counter, answered, accepted>>
    BY <1>4 DEF IssueCode
  <2>3. CASE Return(c) /\ UNCHANGED codes
    <3>1. KeysGrow
      BY <2>2, <2>3 DEF KeysGrow
    <3>2. CallsTyped'
      BY <2>3, <3>1, RequestReturns DEF Grows
    <3> QED
      BY <2>2, <2>3, <3>1, <3>2 DEF KeyRows
  <2>4. CASE old.n # 0 /\ codes' = Append(codes, new) /\ call' = [call EXCEPT ![c] = [old EXCEPT !.n = old.n - 1]]
    <3>1. PICK left : left = old.n - 1
      OBVIOUS
    <3> DEFINE rec == [old EXCEPT !.n = left]
    <3>2. left \in Nat
      BY <2>1, <2>4, <3>1
    <3>3. rec \in Call
      BY <1>2, <3>2, CallTypes, old.pc \in PCs DEF Call
    <3>4. Named(rec) /\ Knows(rec)'
      BY <1>2, <2>1 DEF Call, Named, Knows
    <3>5. /\ codes' \in Seq(Code) /\ DOMAIN codes \subseteq DOMAIN codes'
          /\ \A k \in DOMAIN codes : codes'[k] = codes[k]
      <4> HIDE DEF new
      <4> QED
        BY <1>2, <2>1, <2>4, AddedRow
    <3>6. KeysGrow
      BY <2>2, <3>5 DEF KeysGrow
    <3>7. call' = [call EXCEPT ![c] = rec]
      BY <2>4, <3>1
    <3>8. CallsTyped'
      <4> HIDE DEF rec
      <4> QED
        BY <3>3, <3>4, <3>6, <3>7, RequestMoves DEF Grows
    <3> QED
      BY <2>2, <3>5, <3>6, <3>8 DEF KeyRows
  <2>5. \/ Return(c) /\ UNCHANGED codes
        \/ old.n # 0 /\ codes' = Append(codes, new) /\ call' = [call EXCEPT ![c] = [old EXCEPT !.n = old.n - 1]]
    BY <1>1, <1>4 DEF IssueCode
  <2> QED
    BY <2>3, <2>4, <2>5
<1> QED
  BY <1>3, <1>4

\* Every step keeps the types and takes nothing back.
LEMMA TypedNext == Typed /\ [PasskeysNext]_pvars => Typed' /\ Grows
<1> SUFFICES ASSUME AccountRows, KeyRows, CallsTyped, [PasskeysNext]_pvars
             PROVE  AccountRows' /\ KeyRows' /\ CallsTyped' /\ AccountsGrow /\ KeysGrow
  BY DEF Typed, RowsTyped, Grows
<1>1. CASE UNCHANGED pvars
  BY <1>1 DEF pvars, avars, accountRow, keyRows, AccountRows, KeyRows, CallsTyped, AccountsGrow, KeysGrow,
              Named, Knows, Taken
<1>2. CASE AccountStep /\ ErasedKeys
  <2>1. KeyRows' /\ KeysGrow
    BY <1>2, KeysErased
  <2>2. AccountRows' /\ CallsTyped' /\ AccountsGrow
    BY <1>2, <2>1, SessionSteps, LoginSteps, LockSteps, LinkSteps, ExpiryStep, LinkEffects, FailStep,
       IdentitySteps, MergeSteps, EraseSteps DEF AccountStep
  <2> QED
    BY <2>1, <2>2
<1>3. ASSUME NEW c \in Callers,
             \/ CheckAssertion(c) \/ AdvanceCounter(c) \/ ReadProfile(c) \/ RedeemCode(c)
             \/ StorePasskey(c) \/ DropCodes(c) \/ IssueCode(c)
             \/ \E p \in Registered, n \in 1..MaxAssertions : PresentAssertion(c, p, n)
             \/ \E k \in DOMAIN codes : BeginRecovery(c, k)
             \/ \E p \in Registered : BeginEnroll(c, p) \/ DeletePasskey(c, p)
      PROVE  AccountRows' /\ KeyRows' /\ CallsTyped' /\ AccountsGrow /\ KeysGrow
  <2>1. UNCHANGED accountRest /\ calls' \in Nat
    BY <1>3, RequestCounts
    DEF CheckAssertion, AdvanceCounter, ReadProfile, RedeemCode, StorePasskey, DropCodes, IssueCode,
        PresentAssertion, BeginRecovery, BeginEnroll, DeletePasskey, AccountRows
  <2>2. AccountRows' /\ AccountsGrow
    BY <2>1 DEF accountRest, accountRow, AccountRows, AccountsGrow
  <2>3. CheckAssertion(c) \/ AdvanceCounter(c) \/ ReadProfile(c)
        \/ (\E p \in Registered, n \in 1..MaxAssertions : PresentAssertion(c, p, n)) => UNCHANGED codes
    BY Zenon DEF CheckAssertion, AdvanceCounter, ReadProfile, PresentAssertion, keyRows
  <2> QED
    BY <1>3, <2>2, <2>3, AssertionSteps, RecoverySteps, EnrolSteps, CodeSteps
<1> QED
  BY <1>1, <1>2, <1>3 DEF PasskeysNext

\* PasskeysTypeOK holds in every reachable state.
THEOREM AccountsTypeCorrect == PasskeysSpec => []PasskeysTypeOK
<1>1. Typed => PasskeysTypeOK
  BY DEF Typed, RowsTyped, AccountRows, KeyRows, CallsTyped, PasskeysTypeOK, AccountsTypeOK
<1>2. Typed /\ [PasskeysNext]_pvars => Typed'
  BY TypedNext
<1> QED
  BY <1>1, <1>2, TypedInit, PTL DEF PasskeysSpec
-----------------------------------------------------------------------------
(* What a step can do to each table: most change none.                      *)

Quiet == UNCHANGED <<exists, secret, identity, sessions, links, merges, codes, enrolled, answered>>
AccountChange(c) ==
    \/ OpenSession(c) \/ \E i \in DOMAIN sessions : Logout(c, i)
    \/ ApplyReset(c) \/ Erase(c) \/ CreateAccount(c) \/ MintLink(c) \/ ConsumeLink(c)
    \/ AskForMerge(c) \/ LinkIdentity(c)
KeyChange(c) ==
    \/ RedeemCode(c) \/ DropCodes(c) \/ IssueCode(c) \/ StorePasskey(c)
    \/ \E p \in Registered : DeletePasskey(c, p)
    \/ \E p \in Registered, n \in 1..MaxAssertions : PresentAssertion(c, p, n)

LEMMA NothingErased ==
    ASSUME KeyRows, ErasedKeys, exists \subseteq exists'
    PROVE  UNCHANGED <<enrolled, codes, answered, counter, accepted>>
<1>1. PICK gone : gone = exists \ exists'
  OBVIOUS
<1>2. gone = {}
  BY <1>1
<1>3. codes' = [k \in DOMAIN codes |-> codes[k]]
  BY <1>1, <1>2 DEF ErasedKeys
<1>4. codes = [k \in DOMAIN codes |-> codes[k]]
  BY DEF KeyRows
<1> QED
  BY <1>1, <1>2, <1>3, <1>4 DEF ErasedKeys

LEMMA StepKinds ==
    ASSUME Typed, [PasskeysNext]_pvars
    PROVE  \/ Quiet
           \/ ErasedKeys /\ \E c \in Callers : AccountChange(c)
           \/ ErasedKeys /\ \E i \in DOMAIN links : ExpireLink(i)
           \/ UNCHANGED accountRest /\ \E c \in Callers : KeyChange(c)
<1>1. CASE UNCHANGED pvars
  BY <1>1 DEF pvars, avars, accountRow, keyRows, Quiet
<1>2. ASSUME ErasedKeys, UNCHANGED <<exists, secret, identity, sessions, links, merges>> PROVE Quiet
  BY <1>2, NothingErased DEF Quiet, Typed, RowsTyped
<1>3. ASSUME ErasedKeys, NEW c \in Callers,
             \/ PassLockout(c) \/ Authenticate(c) \/ ClearAttempts(c) \/ ReadAttempts(c) \/ CountMiss(c)
             \/ \E p \in Registered : \E guess \in Guesses(p) : BeginLogin(c, p, guess)
             \/ \E p \in People, purpose \in Purposes : BeginRequest(c, p, purpose)
             \/ \E i \in DOMAIN links : PresentLink(c, i)
             \/ ApplyVerification(c) \/ Fail(c) \/ ResolveIdentity(c)
             \/ \E id \in Identities, p \in Registered \cup {NoPerson} : BeginCallback(c, id, p)
             \/ \E m \in DOMAIN merges, p \in Registered : \E guess \in Guesses(p) : BeginMerge(c, m, p, guess)
             \/ \E p \in People : BeginErase(c, p)
      PROVE  Quiet
  <2>1. UNCHANGED <<exists, secret, identity, sessions, links, merges>>
    BY <1>3 DEF PassLockout, Authenticate, ClearAttempts, ReadAttempts, CountMiss, BeginLogin, BeginRequest,
       PresentLink, ApplyVerification, Fail, ResolveIdentity, BeginCallback, BeginMerge, BeginErase, accountRow
  <2> QED
    BY <1>2, <1>3, <2>1
<1>4. ASSUME ErasedKeys, NEW p \in Registered, LockRunsOut(p) \/ WindowRollsOver(p) PROVE Quiet
  BY <1>2, <1>4 DEF LockRunsOut, WindowRollsOver, accountRow
<1>5. ASSUME NEW c \in Callers,
             \/ CheckAssertion(c) \/ AdvanceCounter(c) \/ ReadProfile(c)
             \/ \E k \in DOMAIN codes : BeginRecovery(c, k)
             \/ \E p \in Registered : BeginEnroll(c, p)
      PROVE  Quiet
  BY <1>5 DEF CheckAssertion, AdvanceCounter, ReadProfile, BeginRecovery, BeginEnroll, keyRows, accountRest,
              accountRow, Quiet
<1>6. ASSUME NEW c \in Callers, KeyChange(c) PROVE UNCHANGED accountRest
  BY <1>6 DEF KeyChange, RedeemCode, DropCodes, IssueCode, StorePasskey, DeletePasskey, PresentAssertion
<1>7. CASE AccountStep /\ ErasedKeys
  BY <1>3, <1>4, <1>7 DEF AccountStep, AccountChange
<1>8. CASE PasskeysNext /\ ~(AccountStep /\ ErasedKeys)
  BY <1>5, <1>6, <1>8 DEF PasskeysNext, KeyChange
<1> QED
  BY <1>1, <1>7, <1>8

\* The rows that are there stay what they are; those of an account that goes stop working.
SessionsKept ==
    /\ DOMAIN sessions' = DOMAIN sessions
    /\ \A i \in DOMAIN sessions :
         /\ sessions'[i].of = sessions[i].of /\ sessions'[i].via = sessions[i].via
         /\ sessions'[i].cred = sessions[i].cred
         /\ sessions'[i].live =>
              sessions[i].live /\ (sessions[i].of \in exists => sessions[i].of \in exists')
LinkRowsKept ==
    /\ DOMAIN links' = DOMAIN links
    /\ \A i \in DOMAIN links :
         links'[i].state = "live" =>
           links[i].state = "live" /\ (links[i].of \in exists => links[i].of \in exists')
MergesKept ==
    /\ DOMAIN merges' = DOMAIN merges
    /\ \A m \in DOMAIN merges :
         /\ merges'[m].of = merges[m].of /\ merges'[m].identity = merges[m].identity
         /\ merges'[m].by = merges[m].by
         /\ merges'[m].live =>
              merges[m].live /\ (merges[m].of \in exists => merges[m].of \in exists')
CodesKept ==
    /\ DOMAIN codes' = DOMAIN codes
    /\ \A k \in DOMAIN codes :
         /\ codes'[k].of = codes[k].of
         /\ codes'[k].state = "live" =>
              codes[k].state = "live" /\ (codes[k].of \in exists => codes[k].of \in exists')

\* Only an erasure removes an account.
LEMMA ExistsGrows ==
    ASSUME Typed, [PasskeysNext]_pvars
    PROVE  exists \subseteq exists' \/ \E c \in Callers : Erase(c) /\ ErasedKeys
<1>1. ASSUME NEW c \in Callers, AccountChange(c) PROVE exists \subseteq exists' \/ Erase(c)
  BY <1>1 DEF AccountChange, OpenSession, Logout, ApplyReset, CreateAccount, MintLink, ConsumeLink, AskForMerge,
              LinkIdentity, accountRow
<1>2. ASSUME NEW i \in DOMAIN links, ExpireLink(i) PROVE exists \subseteq exists'
  BY <1>2 DEF ExpireLink, accountRow
<1> QED
  BY <1>1, <1>2, StepKinds DEF Quiet, accountRest, accountRow

LEMMA SessionsShape ==
    ASSUME Typed, [PasskeysNext]_pvars
    PROVE  SessionsKept \/ \E c \in Callers : OpenSession(c)
<1>1. sessions \in Seq(Session) /\ \A i \in DOMAIN sessions : sessions[i] \in Session
  BY RowType DEF Typed, RowsTyped, AccountRows
<1>2. ASSUME UNCHANGED sessions, exists \subseteq exists' PROVE SessionsKept
  BY <1>2 DEF SessionsKept
<1>3. ASSUME NEW p, sessions' = EndSessions(p), exists' = exists \/ exists' = exists \ {p} PROVE SessionsKept
  BY <1>1, <1>3 DEF EndSessions, SessionsKept, Session
<1>4. ASSUME NEW c \in Callers, NEW i \in DOMAIN sessions, Logout(c, i) PROVE SessionsKept
  <2> DEFINE ended == [sessions[i] EXCEPT !.live = FALSE]
  <2>1. sessions' = [sessions EXCEPT ![i] = ended] /\ exists' = exists
    BY <1>4 DEF Logout, accountRow
  <2>2. /\ ended.of = sessions[i].of /\ ended.via = sessions[i].via /\ ended.cred = sessions[i].cred
        /\ ~ended.live
    BY <1>1 DEF Session
  <2> HIDE DEF ended
  <2> QED
    BY <1>1, <2>1, <2>2 DEF SessionsKept
<1>5. ASSUME NEW c \in Callers, ApplyReset(c) PROVE SessionsKept
  BY <1>2, <1>3, <1>5 DEF ApplyReset
<1>6. ASSUME NEW c \in Callers, Erase(c) PROVE SessionsKept
  <2>1. PICK p : p = call[c].p
    OBVIOUS
  <2> QED
    BY <1>3, <1>6, <2>1 DEF Erase
<1>7. ASSUME NEW c \in Callers,
             CreateAccount(c) \/ MintLink(c) \/ ConsumeLink(c) \/ AskForMerge(c) \/ LinkIdentity(c)
      PROVE  SessionsKept
  BY <1>2, <1>7 DEF CreateAccount, MintLink, ConsumeLink, AskForMerge, LinkIdentity, accountRow
<1>8. ASSUME NEW i \in DOMAIN links, ExpireLink(i) PROVE SessionsKept
  BY <1>2, <1>8 DEF ExpireLink, accountRow
<1>9. ASSUME Quiet \/ UNCHANGED accountRest PROVE SessionsKept
  BY <1>2, <1>9 DEF Quiet, accountRest, accountRow
<1> QED
  BY <1>4, <1>5, <1>6, <1>7, <1>8, <1>9, StepKinds DEF AccountChange

LEMMA LinksShape ==
    ASSUME Typed, [PasskeysNext]_pvars
    PROVE  LinkRowsKept \/ \E c \in Callers : MintLink(c)
<1>1. links \in Seq(Link) /\ \A i \in DOMAIN links : links[i] \in Link
  BY RowType DEF Typed, RowsTyped, AccountRows
<1>2. ASSUME UNCHANGED links, exists \subseteq exists' PROVE LinkRowsKept
  BY <1>2 DEF LinkRowsKept
<1>3. ASSUME NEW i \in DOMAIN links, NEW state \in {"spent", "expired"},
             links' = [links EXCEPT ![i].state = state], exists' = exists
      PROVE  LinkRowsKept
  <2> DEFINE moved == [links[i] EXCEPT !.state = state]
  <2>1. links' = [links EXCEPT ![i] = moved]
    BY <1>3
  <2>2. moved.of = links[i].of /\ moved.state # "live"
    BY <1>1 DEF Link
  <2> HIDE DEF moved
  <2> QED
    BY <1>1, <1>3, <2>1, <2>2 DEF LinkRowsKept
<1>4. ASSUME NEW c \in Callers, Erase(c) PROVE LinkRowsKept
  <2>1. PICK p : p = call[c].p
    OBVIOUS
  <2>2. links' = Burnt(p) /\ exists' = exists \ {p}
    BY <1>4, <2>1 DEF Erase
  <2> QED
    BY <1>1, <2>2 DEF Burnt, LinkRowsKept, Link
<1>5. ASSUME NEW c \in Callers, ConsumeLink(c) PROVE LinkRowsKept
  <2>1. PICK i : i = call[c].n
    OBVIOUS
  <2>2. i \in DOMAIN links
    BY <1>5, <2>1 DEF ConsumeLink, At, Typed, CallsTyped, Knows
  <2>3. exists' = exists /\ (links' = links \/ links' = [links EXCEPT ![i].state = "spent"])
    BY <1>5, <2>1 DEF ConsumeLink, accountRow
  <2> QED
    BY <1>2, <1>3, <2>2, <2>3
<1>6. ASSUME NEW i \in DOMAIN links, ExpireLink(i) PROVE LinkRowsKept
  BY <1>3, <1>6 DEF ExpireLink, accountRow
<1>7. ASSUME NEW c \in Callers,
             \/ OpenSession(c) \/ \E i \in DOMAIN sessions : Logout(c, i)
             \/ ApplyReset(c) \/ CreateAccount(c) \/ AskForMerge(c) \/ LinkIdentity(c)
      PROVE  LinkRowsKept
  BY <1>2, <1>7 DEF OpenSession, Logout, ApplyReset, CreateAccount, AskForMerge, LinkIdentity, accountRow
<1>8. ASSUME Quiet \/ UNCHANGED accountRest PROVE LinkRowsKept
  BY <1>2, <1>8 DEF Quiet, accountRest, accountRow
<1> QED
  BY <1>4, <1>5, <1>6, <1>7, <1>8, StepKinds DEF AccountChange

LEMMA MergesShape ==
    ASSUME Typed, [PasskeysNext]_pvars
    PROVE  /\ MergesKept \/ \E c \in Callers : AskForMerge(c) \/ LinkIdentity(c)
           /\ identity' = identity \/ \E c \in Callers : CreateAccount(c) \/ LinkIdentity(c)
<1>1. merges \in Seq(Merge) /\ \A m \in DOMAIN merges : merges[m] \in Merge
  BY RowType DEF Typed, RowsTyped, AccountRows
<1>2. ASSUME UNCHANGED merges, exists \subseteq exists' PROVE MergesKept
  BY <1>2 DEF MergesKept
<1>3. ASSUME NEW c \in Callers, Erase(c) PROVE MergesKept /\ identity' = identity
  <2>1. PICK p : p = call[c].p
    OBVIOUS
  <2>2. merges' = Dropped(p) /\ exists' = exists \ {p} /\ identity' = identity
    BY <1>3, <2>1 DEF Erase
  <2> QED
    BY <1>1, <2>2 DEF Dropped, MergesKept, Merge
<1>4. ASSUME NEW c \in Callers,
             \/ OpenSession(c) \/ \E i \in DOMAIN sessions : Logout(c, i)
             \/ ApplyReset(c) \/ MintLink(c) \/ ConsumeLink(c)
      PROVE  MergesKept /\ identity' = identity
  BY <1>2, <1>4 DEF OpenSession, Logout, ApplyReset, MintLink, ConsumeLink, accountRow
<1>5. ASSUME NEW i \in DOMAIN links, ExpireLink(i) PROVE MergesKept /\ identity' = identity
  BY <1>2, <1>5 DEF ExpireLink, accountRow
<1>6. ASSUME Quiet \/ UNCHANGED accountRest PROVE MergesKept /\ identity' = identity
  BY <1>2, <1>6 DEF Quiet, accountRest, accountRow
<1>7. ASSUME NEW c \in Callers, CreateAccount(c) PROVE MergesKept
  BY <1>2, <1>7 DEF CreateAccount
<1>8. ASSUME NEW c \in Callers, AskForMerge(c) PROVE identity' = identity
  BY <1>8 DEF AskForMerge, accountRow
<1> QED
  BY <1>3, <1>4, <1>5, <1>6, <1>7, <1>8, StepKinds DEF AccountChange

LEMMA CodesShape ==
    ASSUME Typed, [PasskeysNext]_pvars
    PROVE  /\ CodesKept \/ \E c \in Callers : IssueCode(c)
           /\ enrolled \subseteq exists => enrolled' \subseteq exists'
<1>1. codes \in Seq(Code) /\ \A k \in DOMAIN codes : codes[k] \in Code
  BY RowType DEF Typed, RowsTyped, KeyRows
<1>2. ASSUME UNCHANGED codes, exists \subseteq exists' PROVE CodesKept
  BY <1>2 DEF CodesKept
<1>3. ASSUME ErasedKeys PROVE CodesKept /\ (enrolled \subseteq exists => enrolled' \subseteq exists')
  <2>1. PICK gone : gone = exists \ exists'
    OBVIOUS
  <2>2. codes' = [k \in DOMAIN codes |-> IF codes[k].of \in gone /\ codes[k].state = "live"
                                           THEN [codes[k] EXCEPT !.state = "revoked"] ELSE codes[k]]
        /\ enrolled' = enrolled \ gone
    BY <1>3, <2>1 DEF ErasedKeys
  <2> QED
    BY <1>1, <2>1, <2>2 DEF CodesKept, Code
<1>4. ASSUME NEW c \in Callers, KeyChange(c), UNCHANGED accountRest
      PROVE  /\ CodesKept \/ IssueCode(c)
             /\ enrolled \subseteq exists => enrolled' \subseteq exists'
  <2>1. exists' = exists
    BY <1>4 DEF accountRest, accountRow
  <2>2. ASSUME RedeemCode(c) PROVE CodesKept /\ enrolled' = enrolled
    <3>1. PICK k : k = call[c].n
      OBVIOUS
    <3>2. k \in DOMAIN codes
      BY <2>2, <3>1 DEF RedeemCode, At, Typed, CallsTyped, Knows
    <3> DEFINE spent == [codes[k] EXCEPT !.state = "spent"]
    <3>3. codes' = codes \/ codes' = [codes EXCEPT ![k] = spent]
      BY <2>2, <3>1 DEF RedeemCode
    <3>4. spent.of = codes[k].of /\ spent.state = "spent"
      BY <1>1, <3>2 DEF Code
    <3>5. CodesKept
      <4> HIDE DEF spent
      <4> QED
        BY <1>1, <2>1, <3>2, <3>3, <3>4 DEF CodesKept
    <3> QED
      BY <2>2, <3>5 DEF RedeemCode
  <2>3. ASSUME DropCodes(c) PROVE CodesKept /\ enrolled' = enrolled
    <3>1. PICK p : p = call[c].p
      OBVIOUS
    <3>2. codes' = CodesDropped(p)
      BY <2>3, <3>1 DEF DropCodes
    <3>3. enrolled' = enrolled
      BY <2>3 DEF DropCodes
    <3> QED
      BY <1>1, <2>1, <3>2, <3>3 DEF CodesDropped, Unused, CodesKept, Code
  <2>4. ASSUME StorePasskey(c) PROVE CodesKept /\ (enrolled \subseteq exists => enrolled' \subseteq exists)
    <3>1. /\ UNCHANGED codes
          /\ \/ enrolled' = enrolled
             \/ KeyHeld(call[c].p) /\ enrolled' = enrolled \cup {call[c].p}
      BY <2>4 DEF StorePasskey
    <3> QED
      BY <1>2, <2>1, <3>1 DEF KeyHeld
  <2>5. ASSUME NEW p \in Registered, DeletePasskey(c, p) PROVE CodesKept /\ enrolled' \subseteq enrolled
    BY <1>2, <2>1, <2>5 DEF DeletePasskey
  <2>6. ASSUME NEW p \in Registered, NEW n \in 1..MaxAssertions, PresentAssertion(c, p, n)
        PROVE  CodesKept /\ enrolled' = enrolled
    <3>1. UNCHANGED <<codes, enrolled>>
      BY <2>6, Zenon DEF PresentAssertion
    <3> QED
      BY <1>2, <2>1, <3>1
  <2>7. ASSUME IssueCode(c) PROVE enrolled' = enrolled
    BY <2>7 DEF IssueCode
  <2> QED
    BY <1>4, <2>1, <2>2, <2>3, <2>4, <2>5, <2>6, <2>7 DEF KeyChange
<1>5. ASSUME Quiet PROVE CodesKept /\ enrolled' = enrolled /\ exists' = exists
  BY <1>2, <1>5 DEF Quiet
<1> QED
  BY <1>3, <1>4, <1>5, StepKinds
-----------------------------------------------------------------------------
(* What the steps that add a row add.                                       *)

LEMMA SessionAdded ==
    ASSUME Typed, NEW c \in Callers, OpenSession(c)
    PROVE  /\ UNCHANGED <<exists, links, merges, identity, verified>>
           /\ \/ sessions' = sessions
              \/ \E n : /\ n \notin DOMAIN sessions /\ DOMAIN sessions' = DOMAIN sessions \cup {n}
                        /\ \A i \in DOMAIN sessions : sessions'[i] = sessions[i]
                        /\ sessions'[n].of = call[c].p /\ sessions'[n].via = call[c].via
                        /\ sessions'[n].cred = call[c].n /\ call[c].p \in exists
<1>1. UNCHANGED <<exists, links, merges, identity, verified>>
  BY DEF OpenSession, accountRow
<1> DEFINE row == [of |-> call[c].p, via |-> call[c].via, secret |-> call[c].guess,
                   cred |-> call[c].n, live |-> TRUE]
<1>2. sessions' = sessions \/ (sessions' = Append(sessions, row) /\ call[c].p \in exists)
  BY DEF OpenSession, KeyHeld
<1>3. row \in Session
  BY DEF OpenSession, At, Typed, CallsTyped, Named, Call, Session
<1>4. row.of = call[c].p /\ row.via = call[c].via /\ row.cred = call[c].n
  OBVIOUS
<1>5. sessions \in Seq(Session)
  BY DEF Typed, RowsTyped, AccountRows
<1> HIDE DEF row
<1>6. PICK n : n = Len(sessions) + 1
  OBVIOUS
<1>7. ASSUME sessions' = Append(sessions, row)
      PROVE  /\ n \notin DOMAIN sessions /\ DOMAIN sessions' = DOMAIN sessions \cup {n}
             /\ \A i \in DOMAIN sessions : sessions'[i] = sessions[i]
             /\ sessions'[n] = row
  BY <1>3, <1>5, <1>6, <1>7, AddedRow
<1> QED
  BY <1>1, <1>2, <1>3, <1>4, <1>7

\* A new link of an account that is there, which revokes those of its kind.
LinkStored(p, purpose) ==
    \E n : /\ n \notin DOMAIN links /\ DOMAIN links' = DOMAIN links \cup {n}
           /\ \A i \in DOMAIN links :
                /\ links'[i].of = links[i].of /\ links'[i].purpose = links[i].purpose
                /\ links'[i].state = "live" =>
                     links[i].state = "live" /\ ~(links[i].of = p /\ links[i].purpose = purpose)
           /\ links'[n].of = p /\ links'[n].purpose = purpose /\ p \in exists

LEMMA LinkAdded ==
    ASSUME Typed, NEW c \in Callers, MintLink(c), NEW p, NEW purpose,
           p = call[c].p, purpose = call[c].purpose
    PROVE  UNCHANGED exists /\ (UNCHANGED links \/ LinkStored(p, purpose))
<1> DEFINE row == [of |-> p, purpose |-> purpose, state |-> "live"]
<1> DEFINE old == Revoked(p, purpose)
<1>1. links' = links \/ (links' = Append(old, row) /\ p \in exists)
  BY DEF MintLink, KeyHeld
<1>2. row \in Link
  BY DEF MintLink, At, Typed, CallsTyped, Named, Link, LinkStates
<1>3. /\ old \in Seq(Link) /\ DOMAIN old = DOMAIN links
      /\ \A i \in DOMAIN links :
           /\ old[i].of = links[i].of /\ old[i].purpose = links[i].purpose
           /\ old[i].state = "live" =>
                links[i].state = "live" /\ ~(links[i].of = p /\ links[i].purpose = purpose)
  <2>1. \A i \in DOMAIN links :
           \/ old[i] = links[i]
           \/ links[i].state = "live" /\ old[i] = [links[i] EXCEPT !.state = "revoked"]
    BY DEF Revoked, LiveLinks
  <2>2. old = [i \in DOMAIN links |-> old[i]]
    BY DEF Revoked
  <2>3. \A i \in DOMAIN links : links[i] \in Link
    BY RowType DEF Typed, RowsTyped, AccountRows
  <2>4. \A i \in DOMAIN links : old[i].state = "live" =>
          links[i].state = "live" /\ ~(links[i].of = p /\ links[i].purpose = purpose)
    BY <2>3 DEF Revoked, LiveLinks, Link
  <2>5. AccountRows
    BY DEF Typed, RowsTyped
  <2> HIDE DEF old
  <2>6. /\ old \in Seq(Link) /\ DOMAIN old = DOMAIN links
        /\ \A i \in DOMAIN links : old[i].of = links[i].of /\ old[i].purpose = links[i].purpose
    BY <2>1, <2>2, <2>5, LinksRevoked
  <2> QED
    BY <2>4, <2>6
<1>4. row.of = p /\ row.purpose = purpose
  OBVIOUS
<1>5. exists' = exists
  BY DEF MintLink, accountRow
<1> HIDE DEF row
<1>6. CASE links' = links
  BY <1>5, <1>6
<1>7. CASE links' = Append(old, row) /\ p \in exists
  <2> HIDE DEF old
  <2>1. PICK f : f = old
    OBVIOUS
  <2>2. PICK n : n = Len(f) + 1
    OBVIOUS
  <2>3. /\ n \notin DOMAIN f /\ DOMAIN links' = DOMAIN f \cup {n}
        /\ \A i \in DOMAIN f : links'[i] = f[i]
        /\ links'[n] = row
    BY <1>2, <1>3, <1>7, <2>1, <2>2, AddedRow
  <2>4. /\ n \notin DOMAIN links /\ DOMAIN links' = DOMAIN links \cup {n}
        /\ links'[n].of = p /\ links'[n].purpose = purpose /\ p \in exists
    BY <1>3, <1>4, <1>7, <2>1, <2>3
  <2>5. \A i \in DOMAIN links :
                /\ links'[i].of = links[i].of /\ links'[i].purpose = links[i].purpose
                /\ links'[i].state = "live" =>
                     links[i].state = "live" /\ ~(links[i].of = p /\ links[i].purpose = purpose)
    BY <1>3, <2>1, <2>3
  <2>6. LinkStored(p, purpose)
    BY <2>4, <2>5 DEF LinkStored
  <2> QED
    BY <1>5, <2>6
<1> QED
  BY <1>1, <1>6, <1>7

LEMMA MergeAdded ==
    ASSUME Typed, NEW c \in Callers, AskForMerge(c)
    PROVE  /\ UNCHANGED <<exists, identity>>
           /\ \/ merges' = merges
              \/ \E n : /\ n \notin DOMAIN merges /\ DOMAIN merges' = DOMAIN merges \cup {n}
                        /\ \A m \in DOMAIN merges : merges'[m] = merges[m]
                        /\ merges'[n].of \in exists /\ merges'[n].by = NoPerson
<1> DEFINE row == [of |-> call[c].p, identity |-> call[c].id, live |-> TRUE, by |-> NoPerson]
<1>1. merges' = merges \/ (merges' = Append(merges, row) /\ call[c].p \in exists)
  BY DEF AskForMerge, KeyHeld
<1>2. row \in Merge
  BY DEF AskForMerge, At, Typed, CallsTyped, Named, Merge, NoPerson
<1>3. row.of = call[c].p /\ row.by = NoPerson
  OBVIOUS
<1>4. UNCHANGED <<exists, identity>>
  BY DEF AskForMerge, accountRow
<1>5. merges \in Seq(Merge)
  BY DEF Typed, RowsTyped, AccountRows
<1> HIDE DEF row
<1>6. PICK n : n = Len(merges) + 1
  OBVIOUS
<1>7. ASSUME merges' = Append(merges, row)
      PROVE  /\ n \notin DOMAIN merges /\ DOMAIN merges' = DOMAIN merges \cup {n}
             /\ \A i \in DOMAIN merges : merges'[i] = merges[i]
             /\ merges'[n] = row
  BY <1>2, <1>5, <1>6, <1>7, AddedRow
<1> QED
  BY <1>1, <1>2, <1>3, <1>4, <1>7

\* The merge that is completed is the caller's own.
LEMMA MergeCompleted ==
    ASSUME Typed, NEW c \in Callers, LinkIdentity(c), NEW m, NEW p, m = call[c].n, p = call[c].p
    PROVE  /\ UNCHANGED exists
           /\ \/ UNCHANGED <<merges, identity>>
              \/ /\ m \in DOMAIN merges /\ merges[m].of = p /\ p \in Registered
                 /\ identity' = [identity EXCEPT ![p] = merges[m].identity]
                 /\ DOMAIN merges' = DOMAIN merges
                 /\ \A k \in DOMAIN merges : k # m => merges'[k] = merges[k]
                 /\ merges'[m].of = p /\ merges'[m].identity = merges[m].identity
                 /\ ~merges'[m].live /\ merges'[m].by = p
<1>1. m \in DOMAIN merges /\ merges[m].of = p /\ p \in Registered
  BY DEF LinkIdentity, At, Typed, CallsTyped, Named, Knows
<1>2. merges \in Seq(Merge) /\ merges[m] \in Merge
  BY <1>1, RowType DEF Typed, RowsTyped, AccountRows
<1> DEFINE row == [merges[m] EXCEPT !.live = FALSE, !.by = p]
<1>3. row.of = merges[m].of /\ row.identity = merges[m].identity /\ ~row.live /\ row.by = p
  BY <1>2 DEF Merge
<1>4. CASE Linkable(call[c].n)
  <2>1. merges' = [merges EXCEPT ![m] = row] /\ identity' = [identity EXCEPT ![p] = merges[m].identity]
    BY <1>1, <1>4 DEF LinkIdentity
  <2> HIDE DEF row
  <2> QED
    BY <1>1, <1>2, <1>3, <2>1 DEF LinkIdentity
<1>5. CASE ~Linkable(call[c].n)
  BY <1>5 DEF LinkIdentity
<1> QED
  BY <1>4, <1>5

LEMMA CodeAdded ==
    ASSUME Typed, NEW c \in Callers, IssueCode(c)
    PROVE  /\ UNCHANGED exists
           /\ \/ codes' = codes
              \/ \E n : /\ n \notin DOMAIN codes /\ DOMAIN codes' = DOMAIN codes \cup {n}
                        /\ \A k \in DOMAIN codes : codes'[k] = codes[k]
                        /\ codes'[n].of \in exists
<1> DEFINE row == [of |-> call[c].p, state |-> "live"]
<1>1. codes' = codes \/ (codes' = Append(codes, row) /\ call[c].p \in exists)
  BY DEF IssueCode, KeyHeld
<1>2. row \in Code
  BY DEF IssueCode, At, Typed, CallsTyped, Named, Code
<1>3. row.of = call[c].p
  OBVIOUS
<1>4. exists' = exists
  BY DEF IssueCode, accountRest, accountRow
<1>5. codes \in Seq(Code)
  BY DEF Typed, RowsTyped, KeyRows
<1> HIDE DEF row
<1>6. PICK n : n = Len(codes) + 1
  OBVIOUS
<1>7. ASSUME codes' = Append(codes, row)
      PROVE  /\ n \notin DOMAIN codes /\ DOMAIN codes' = DOMAIN codes \cup {n}
             /\ \A i \in DOMAIN codes : codes'[i] = codes[i]
             /\ codes'[n] = row
  BY <1>2, <1>5, <1>6, <1>7, AddedRow
<1> QED
  BY <1>1, <1>2, <1>3, <1>4, <1>7
-----------------------------------------------------------------------------
(* Erasure: a row that works belongs to an account that is there.            *)

LEMMA ErasedInit == PasskeysInit => ErasedHoldsNoKey
<1> SUFFICES ASSUME PasskeysInit PROVE ErasedHoldsNoKey
  OBVIOUS
<1>1. \A i \in DOMAIN sessions : sessions[i].of \in exists
  BY EnumeratedAccounts DEF PasskeysInit, Init
<1>2. \A m \in DOMAIN InitialMerges : InitialMerges[m] \in Merge
  BY AccountsAssumption, RowType
<1>3. \A m \in DOMAIN merges : merges[m].of \in exists
  BY <1>2 DEF PasskeysInit, Init, Merge
<1> QED
  BY <1>1, <1>3, AccountsAssumption, PasskeysAssumption
  DEF PasskeysInit, Init, ErasedHoldsNoKey, ErasedHoldsNothing

LEMMA ErasedNext ==
    ASSUME Typed, [PasskeysNext]_pvars, ErasedHoldsNoKey
    PROVE  ErasedHoldsNoKey'
<1>1. \A i \in DOMAIN sessions' : sessions'[i].live => sessions'[i].of \in exists'
  BY SessionsShape, SessionAdded DEF SessionsKept, ErasedHoldsNoKey, ErasedHoldsNothing
<1>2. \A i \in DOMAIN links' : links'[i].state = "live" => links'[i].of \in exists'
  <2>1. CASE LinkRowsKept
    BY <2>1, TypedNext DEF LinkRowsKept, Grows, AccountsGrow, ErasedHoldsNoKey, ErasedHoldsNothing
  <2>2. ASSUME NEW c \in Callers, MintLink(c)
        PROVE  \A i \in DOMAIN links' : links'[i].state = "live" => links'[i].of \in exists'
    <3>1. PICK p : p = call[c].p
      OBVIOUS
    <3>2. PICK purpose : purpose = call[c].purpose
      OBVIOUS
    <3>3. UNCHANGED exists /\ (UNCHANGED links \/ LinkStored(p, purpose))
      BY <2>2, <3>1, <3>2, LinkAdded
    <3> QED
      BY <3>3 DEF LinkStored, ErasedHoldsNoKey, ErasedHoldsNothing
  <2> QED
    BY <2>1, <2>2, LinksShape
<1>3. \A m \in DOMAIN merges' : merges'[m].live => merges'[m].of \in exists'
  <2>1. CASE MergesKept
    BY <2>1 DEF MergesKept, ErasedHoldsNoKey, ErasedHoldsNothing
  <2>2. ASSUME NEW c \in Callers, AskForMerge(c)
        PROVE  \A m \in DOMAIN merges' : merges'[m].live => merges'[m].of \in exists'
    BY <2>2, MergeAdded DEF ErasedHoldsNoKey, ErasedHoldsNothing
  <2>3. ASSUME NEW c \in Callers, LinkIdentity(c)
        PROVE  \A m \in DOMAIN merges' : merges'[m].live => merges'[m].of \in exists'
    <3>1. PICK n : n = call[c].n
      OBVIOUS
    <3>2. PICK p : p = call[c].p
      OBVIOUS
    <3> QED
      BY <2>3, <3>1, <3>2, MergeCompleted DEF ErasedHoldsNoKey, ErasedHoldsNothing
  <2> QED
    BY <2>1, <2>2, <2>3, MergesShape
<1>4. \A k \in DOMAIN codes' : codes'[k].state = "live" => codes'[k].of \in exists'
  BY CodesShape, CodeAdded DEF CodesKept, ErasedHoldsNoKey
<1>5. enrolled' \subseteq exists'
  BY CodesShape DEF ErasedHoldsNoKey
<1> QED
  BY <1>1, <1>2, <1>3, <1>4, <1>5 DEF ErasedHoldsNoKey, ErasedHoldsNothing

\* Whichever request was under way when an account was erased, no session, link,
\* merge request, passkey or recovery code of it works afterwards.
THEOREM ErasureLeavesNothing == PasskeysSpec => []ErasedHoldsNoKey
<1>1. Typed /\ ErasedHoldsNoKey /\ [PasskeysNext]_pvars => (Typed /\ ErasedHoldsNoKey)'
  BY TypedNext, ErasedNext
<1> QED
  BY <1>1, TypedInit, ErasedInit, PTL DEF PasskeysSpec
-----------------------------------------------------------------------------
(* The gate: what let a request through still holds when its session opens.  *)

\* A session on an account without a verified address was opened by registration
\* or by an external provider, whatever happens between the gate and createSession.
THEOREM GateHolds == PasskeysSpec => []GatedSessions
<1>1. PasskeysInit => GatedSessions
  BY DEF PasskeysInit, Init, GatedSessions
<1>2. ASSUME Typed, [PasskeysNext]_pvars, GatedSessions PROVE GatedSessions'
  <2>1. CASE SessionsKept
    BY <1>2, <2>1, TypedNext DEF SessionsKept, Grows, AccountsGrow, GatedSessions
  <2>2. ASSUME NEW c \in Callers, OpenSession(c) PROVE GatedSessions'
    <3>1. call[c].via \notin {"register", "oidc"} => call[c].p \in verified
      BY <1>2, <2>2 DEF OpenSession, At, Typed, CallsTyped, Knows
    <3>2. CASE sessions' = sessions
      BY <1>2, <2>2, <3>2, SessionAdded DEF GatedSessions
    <3>3. CASE sessions' # sessions
      <4>1. PICK n : /\ DOMAIN sessions' = DOMAIN sessions \cup {n}
                     /\ \A i \in DOMAIN sessions : sessions'[i] = sessions[i]
                     /\ sessions'[n].of = call[c].p /\ sessions'[n].via = call[c].via
        BY <1>2, <2>2, <3>3, SessionAdded
      <4>2. verified' = verified
        BY <1>2, <2>2, SessionAdded
      <4> QED
        BY <1>2, <3>1, <4>1, <4>2 DEF GatedSessions
    <3> QED
      BY <3>2, <3>3
  <2> QED
    BY <1>2, <2>1, <2>2, SessionsShape
<1>3. Typed /\ GatedSessions /\ [PasskeysNext]_pvars => (Typed /\ GatedSessions)'
  BY <1>2, TypedNext
<1> QED
  BY <1>1, <1>3, TypedInit, PTL DEF PasskeysSpec
-----------------------------------------------------------------------------
(* One link at a time.                                                      *)

LoneLinks ==
    \A i, j \in DOMAIN links :
      /\ links[i].state = "live" /\ links[j].state = "live"
      /\ links[i].of = links[j].of /\ links[i].purpose = links[j].purpose
      => i = j

LEMMA LoneNext ==
    ASSUME Typed, [PasskeysNext]_pvars, LoneLinks
    PROVE  LoneLinks'
<1>1. CASE LinkRowsKept
  BY <1>1, TypedNext DEF LinkRowsKept, Grows, AccountsGrow, LoneLinks
<1>2. ASSUME NEW c \in Callers, MintLink(c) PROVE LoneLinks'
  <2>1. PICK p : p = call[c].p
    OBVIOUS
  <2>2. PICK purpose : purpose = call[c].purpose
    OBVIOUS
  <2>3. UNCHANGED links \/ LinkStored(p, purpose)
    BY <1>2, <2>1, <2>2, LinkAdded
  <2>4. CASE UNCHANGED links
    BY <2>4 DEF LoneLinks
  <2>5. CASE LinkStored(p, purpose)
    <3>1. PICK n : /\ n \notin DOMAIN links /\ DOMAIN links' = DOMAIN links \cup {n}
                   /\ \A i \in DOMAIN links :
                        /\ links'[i].of = links[i].of /\ links'[i].purpose = links[i].purpose
                        /\ links'[i].state = "live" =>
                             links[i].state = "live" /\ ~(links[i].of = p /\ links[i].purpose = purpose)
                   /\ links'[n].of = p /\ links'[n].purpose = purpose
      BY <2>5 DEF LinkStored
    <3>2. ASSUME NEW i \in DOMAIN links', NEW j \in DOMAIN links',
                 links'[i].state = "live", links'[j].state = "live",
                 links'[i].of = links'[j].of, links'[i].purpose = links'[j].purpose
          PROVE  i = j
      <4>1. CASE i \in DOMAIN links /\ j \in DOMAIN links
        BY <3>1, <3>2, <4>1 DEF LoneLinks
      <4>2. CASE i = n \/ j = n
        BY <3>1, <3>2, <4>2
      <4> QED
        BY <3>1, <4>1, <4>2
    <3> QED
      BY <3>2 DEF LoneLinks
  <2> QED
    BY <2>3, <2>4, <2>5
<1> QED
  BY <1>1, <1>2, LinksShape

\* However many requests for a link run at once, at most one link of a purpose
\* works per account.
THEOREM NewestLinkOnly == PasskeysSpec => []OneLiveLink
<1>1. PasskeysInit => LoneLinks
  BY AccountsAssumption DEF PasskeysInit, Init, LoneLinks
<1>2. Typed /\ LoneLinks /\ [PasskeysNext]_pvars => (Typed /\ LoneLinks)'
  BY TypedNext, LoneNext
<1>3. ASSUME LoneLinks PROVE OneLiveLink
  <2>1. SUFFICES ASSUME NEW p \in People, NEW purpose \in Purposes
                 PROVE  Cardinality(LiveLinks(p, purpose)) <= 1
    BY DEF OneLiveLink
  <2>2. CASE LiveLinks(p, purpose) = {}
    BY <2>2, FS_EmptySet
  <2>3. CASE LiveLinks(p, purpose) # {}
    <3>1. PICK i : LiveLinks(p, purpose) = {i}
      BY <1>3, <2>3 DEF LoneLinks, LiveLinks
    <3>2. Cardinality({i}) = 1
      BY FS_Singleton
    <3> QED
      BY <3>1, <3>2
  <2> QED
    BY <2>2, <2>3
<1> QED
  BY <1>1, <1>2, <1>3, TypedInit, PTL DEF PasskeysSpec
-----------------------------------------------------------------------------
(* External identities.                                                    *)

LEMMA IdentityCreated ==
    ASSUME Typed, NEW c \in Callers, CreateAccount(c)
    PROVE  UNCHANGED merges /\ \A p \in Registered : identity'[p] = identity[p]
<1>1. PICK id : id = call[c].id
  OBVIOUS
<1>2. id \in Identities
  BY <1>1 DEF CreateAccount, At, Typed, CallsTyped, Named
<1>3. UNCHANGED merges /\ (identity' = identity \/ identity' = [identity EXCEPT ![id] = id])
  BY <1>1 DEF CreateAccount
<1>4. identity \in [People -> Identities \cup {NoIdentity}]
  BY DEF Typed, RowsTyped, AccountRows
<1> QED
  BY <1>2, <1>3, <1>4, AccountsAssumption DEF People

LEMMA LinkedNext ==
    ASSUME Typed, [PasskeysNext]_pvars, LinkedByOwner
    PROVE  LinkedByOwner'
<1>1. identity \in [People -> Identities \cup {NoIdentity}]
  BY DEF Typed, RowsTyped, AccountRows
<1>2. ASSUME MergesKept, \A p \in Registered : identity'[p] = identity[p] PROVE LinkedByOwner'
  BY <1>2 DEF MergesKept, LinkedByOwner
<1>3. ASSUME NEW c \in Callers, AskForMerge(c) PROVE LinkedByOwner'
  <2>1. UNCHANGED identity
    BY <1>3, MergeAdded
  <2>2. CASE merges' = merges
    BY <2>1, <2>2 DEF LinkedByOwner
  <2>3. CASE merges' # merges
    <3>1. PICK n : /\ n \notin DOMAIN merges /\ DOMAIN merges' = DOMAIN merges \cup {n}
                   /\ \A m \in DOMAIN merges : merges'[m] = merges[m]
                   /\ merges'[n].by = NoPerson
      BY <1>3, <2>3, MergeAdded
    <3> QED
      BY <2>1, <3>1 DEF LinkedByOwner
  <2> QED
    BY <2>2, <2>3
<1>4. ASSUME NEW c \in Callers, LinkIdentity(c) PROVE LinkedByOwner'
  <2>1. PICK m : m = call[c].n
    OBVIOUS
  <2>2. PICK p : p = call[c].p
    OBVIOUS
  <2>3. CASE UNCHANGED <<merges, identity>>
    BY <2>3 DEF LinkedByOwner
  <2>4. CASE ~UNCHANGED <<merges, identity>>
    <3>1. /\ m \in DOMAIN merges /\ merges[m].of = p /\ p \in Registered
          /\ identity' = [identity EXCEPT ![p] = merges[m].identity]
          /\ DOMAIN merges' = DOMAIN merges
          /\ \A k \in DOMAIN merges : k # m => merges'[k] = merges[k]
          /\ merges'[m].of = p /\ merges'[m].identity = merges[m].identity
          /\ merges'[m].by = p
      BY <1>4, <2>1, <2>2, <2>4, MergeCompleted
    <3>2. identity'[p] = merges[m].identity /\ \A q \in Registered \ {p} : identity'[q] = identity[q]
      BY <1>1, <3>1 DEF People
    <3> QED
      BY <3>1, <3>2 DEF LinkedByOwner
  <2> QED
    BY <2>3, <2>4
<1>5. ASSUME NEW c \in Callers, CreateAccount(c) PROVE LinkedByOwner'
  BY <1>5, IdentityCreated DEF LinkedByOwner
<1> QED
  BY <1>2, <1>3, <1>4, <1>5, MergesShape

\* An account with a password of its own is linked to an external identity only by
\* a merge that was completed with that password.
THEOREM OwnersLink == PasskeysSpec => []LinkedByOwner
<1>1. PasskeysInit => LinkedByOwner
  BY AccountsAssumption DEF PasskeysInit, Init, LinkedByOwner, People
<1>2. Typed /\ LinkedByOwner /\ [PasskeysNext]_pvars => (Typed /\ LinkedByOwner)'
  BY TypedNext, LinkedNext
<1> QED
  BY <1>1, <1>2, TypedInit, PTL DEF PasskeysSpec
-----------------------------------------------------------------------------
(* A credential opens one session.  A request that presents one holds it      *)
(* from the statement that used it up until its session is stored: two        *)
(* requests, two sessions, or a request and a session never share one.        *)

Presenting == {"assert", "advance", "profile", "open"}
Presents(rec) == rec.pc \in Presenting /\ rec.via \in CredentialMeans
Alike(rec, old) == rec.via = old.via /\ rec.p = old.p /\ rec.n = old.n
\* Whoever presents a credential after a step did so before, or has just used it up.
Follows ==
    \E c \in Callers :
      /\ \A d \in Callers \ {c} : call'[d] = call[d]
      /\ Presents(call'[c]) =>
           \/ Presents(call[c]) /\ Alike(call'[c], call[c])
           \/ ~Taken(call'[c].via, call'[c].p, call'[c].n)

LEMMA RequestFollows ==
    ASSUME CallsTyped, NEW c \in Callers, NEW rec, call' = [call EXCEPT ![c] = rec],
           \/ ~Presents(rec)
           \/ Presents(call[c]) /\ Alike(rec, call[c])
           \/ ~Taken(rec.via, rec.p, rec.n)
    PROVE  Follows
<1>1. call'[c] = rec /\ \A d \in Callers \ {c} : call'[d] = call[d]
  BY DEF CallsTyped
<1>2. Presents(call'[c]) => \/ Presents(call[c]) /\ Alike(call'[c], call[c])
                           \/ ~Taken(call'[c].via, call'[c].p, call'[c].n)
  <2>1. PICK new : new = call'[c]
    OBVIOUS
  <2>2. PICK old : old = call[c]
    OBVIOUS
  <2>3. Presents(new) => (Presents(old) /\ Alike(new, old)) \/ ~Taken(new.via, new.p, new.n)
    BY <1>1, <2>1, <2>2
  <2> QED
    BY <2>1, <2>2, <2>3 DEF Presents, Alike, Taken
<1> QED
  BY <1>1, <1>2 DEF Follows

LEMMA ReturnFollows ==
    ASSUME CallsTyped, NEW c \in Callers, Return(c)
    PROVE  Follows
BY RequestFollows DEF Return, IdleCall, Presents, Presenting

LEMMA GotoFollows ==
    ASSUME CallsTyped, NEW c \in Callers, NEW pc, Goto(c, pc),
           pc \notin Presenting \/ call[c].via \notin CredentialMeans \/ call[c].pc \in Presenting
    PROVE  Follows
<1>1. PICK rec : rec = [call[c] EXCEPT !.pc = pc]
  OBVIOUS
<1>2. call' = [call EXCEPT ![c] = rec]
  BY <1>1 DEF Goto
<1>3. call[c] \in Call
  BY DEF CallsTyped
<1>4. Alike(rec, call[c]) /\ rec.pc = pc
  BY <1>1, <1>3 DEF Alike, Call
<1>5. ~Presents(rec) \/ (Presents(call[c]) /\ Alike(rec, call[c]))
  BY <1>4 DEF Presents, Alike
<1> QED
  BY <1>2, <1>5, RequestFollows

LEMMA BeginFollows ==
    ASSUME CallsTyped, NEW c \in Callers, NEW kind, NEW rec, Begin(c, kind, rec),
           rec.pc \notin Presenting \/ ~Taken(rec.via, rec.p, rec.n)
    PROVE  Follows
BY RequestFollows DEF Begin, Presents

LEMMA StepsFollow ==
    ASSUME Typed, [PasskeysNext]_pvars
    PROVE  UNCHANGED call \/ Follows
<1>1. CallsTyped
  BY DEF Typed
<1>2. ASSUME NEW c \in Callers, Return(c) PROVE Follows
  BY <1>1, <1>2, ReturnFollows
<1>3. ASSUME NEW c \in Callers, NEW pc \in PCs \ Presenting, Goto(c, pc) PROVE Follows
  BY <1>1, <1>3, GotoFollows
<1>4. ASSUME NEW c \in Callers,
             OpenSession(c) \/ CountMiss(c) \/ MintLink(c) \/ ApplyReset(c) \/ ApplyVerification(c)
             \/ AskForMerge(c) \/ Erase(c) \/ Fail(c)
      PROVE  Follows
  <2>1. Return(c)
    BY <1>4 DEF OpenSession, CountMiss, MintLink, ApplyReset, ApplyVerification, AskForMerge, Erase, Fail
  <2> QED
    BY <1>2, <2>1
<1>5. ASSUME NEW c \in Callers, PassLockout(c) \/ Authenticate(c) \/ ConsumeLink(c) PROVE Follows
  <2>1. Return(c) \/ \E pc \in {"authenticate", "clear", "miss", "apply"} : Goto(c, pc)
    BY <1>5 DEF PassLockout, Authenticate, ConsumeLink
  <2> QED
    BY <1>2, <1>3, <2>1 DEF PCs, Presenting
<1>6. ASSUME NEW c \in Callers, ClearAttempts(c) PROVE Follows
  <2>1. call[c].via \in {"password", "merge"}
    BY <1>1, <1>6 DEF ClearAttempts, At, CallsTyped, Named
  <2>2. Goto(c, "link") \/ (Goto(c, "open") /\ call[c].via = "password")
    BY <1>6, <2>1 DEF ClearAttempts
  <2> QED
    BY <1>1, <2>2, GotoFollows DEF Presenting, CredentialMeans
<1>7. ASSUME NEW c \in Callers, ReadAttempts(c) PROVE Follows
  <2>1. PICK rec : rec = [call[c] EXCEPT !.pc = "count", !.seen = attempts[call[c].p]]
    OBVIOUS
  <2>2. call' = [call EXCEPT ![c] = rec]
    BY <1>7, <2>1 DEF ReadAttempts
  <2>3. rec.pc = "count"
    BY <1>1, <2>1 DEF CallsTyped, Call
  <2> QED
    BY <1>1, <2>2, <2>3, RequestFollows DEF Presents, Presenting
<1>8. ASSUME NEW c \in Callers, ResolveIdentity(c) \/ CreateAccount(c) PROVE Follows
  <2>1. call[c] \in Call /\ call[c].via = "oidc"
    BY <1>1, <1>8 DEF ResolveIdentity, CreateAccount, At, CallsTyped, Named
  <2>2. CASE Return(c) \/ Goto(c, "ask") \/ Goto(c, "create")
    BY <1>2, <1>3, <2>2 DEF PCs, Presenting
  <2>3. ASSUME NEW q, call' = [call EXCEPT ![c] = [@ EXCEPT !.pc = "open", !.p = q]] PROVE Follows
    <3>1. PICK rec : rec = [call[c] EXCEPT !.pc = "open", !.p = q]
      OBVIOUS
    <3>2. call' = [call EXCEPT ![c] = rec] /\ rec.via = "oidc"
      BY <2>1, <2>3, <3>1 DEF Call
    <3> QED
      BY <1>1, <3>2, RequestFollows DEF Presents, CredentialMeans
  <2> QED
    BY <1>8, <2>2, <2>3 DEF ResolveIdentity, CreateAccount
<1>9. ASSUME NEW c \in Callers, LinkIdentity(c) PROVE Follows
  <2>1. CASE ~Linkable(call[c].n)
    BY <1>2, <1>9, <2>1 DEF LinkIdentity
  <2>2. CASE Linkable(call[c].n)
    <3>1. PICK rec : rec = [call[c] EXCEPT !.pc = "open", !.p = merges[call[c].n].of]
      OBVIOUS
    <3>2. call' = [call EXCEPT ![c] = rec]
      BY <1>9, <2>2, <3>1 DEF LinkIdentity
    <3>3. rec.via = "merge" /\ rec.n = call[c].n
      BY <1>1, <1>9, <3>1 DEF LinkIdentity, At, CallsTyped, Named, Call
    <3> QED
      BY <1>1, <2>2, <3>2, <3>3, RequestFollows DEF Linkable, Taken
  <2> QED
    BY <2>1, <2>2
<1>10. ASSUME NEW c \in Callers,
              \/ \E i \in DOMAIN sessions : Logout(c, i)
              \/ \E p \in Registered : \E guess \in Guesses(p) : BeginLogin(c, p, guess)
              \/ \E p \in People, purpose \in Purposes : BeginRequest(c, p, purpose)
              \/ \E i \in DOMAIN links : PresentLink(c, i)
              \/ \E id \in Identities, p \in Registered \cup {NoPerson} : BeginCallback(c, id, p)
              \/ \E m \in DOMAIN merges, p \in Registered : \E guess \in Guesses(p) : BeginMerge(c, m, p, guess)
              \/ \E p \in People : BeginErase(c, p)
              \/ \E k \in DOMAIN codes : BeginRecovery(c, k)
              \/ \E p \in Registered : BeginEnroll(c, p) \/ DeletePasskey(c, p)
       PROVE  Follows
  <2>1. \E kind, rec : rec.pc \notin Presenting /\ Begin(c, kind, rec)
    BY <1>10 DEF Logout, BeginLogin, BeginRequest, PresentLink, BeginCallback, BeginMerge, BeginErase,
       BeginRecovery, BeginEnroll, DeletePasskey, IdleCall, Presenting
  <2> QED
    BY <1>1, <2>1, BeginFollows
<1>11. ASSUME NEW c \in Callers, NEW p \in Registered, NEW n \in 1..MaxAssertions, PresentAssertion(c, p, n)
       PROVE  Follows
  <2> DEFINE rec == [IdleCall EXCEPT !.pc = "assert", !.p = p, !.n = n, !.via = "passkey"]
  <2>1. rec.via = "passkey" /\ rec.p = p /\ rec.n = n
    BY DEF IdleCall
  <2>2. IdleCall.pc \notin Presenting
    BY DEF IdleCall, Presenting
  <2>3. \/ Begin(c, "passkey", rec) /\ <<p, n>> \notin answered
        \/ Begin(c, "passkey", IdleCall)
    BY <1>11 DEF PresentAssertion, Unanswered
  <2> HIDE DEF rec
  <2> QED
    BY <1>1, <2>1, <2>2, <2>3, BeginFollows DEF Taken
<1>12. ASSUME NEW c \in Callers, CheckAssertion(c) \/ AdvanceCounter(c) \/ ReadProfile(c) PROVE Follows
  <2>1. call[c].pc \in Presenting
    BY <1>12 DEF CheckAssertion, AdvanceCounter, ReadProfile, At, Presenting
  <2>2. Return(c) \/ Goto(c, "advance") \/ Goto(c, "profile") \/ Goto(c, "open")
    BY <1>12 DEF CheckAssertion, AdvanceCounter, ReadProfile
  <2> QED
    BY <1>1, <1>2, <2>1, <2>2, GotoFollows
<1>13. ASSUME NEW c \in Callers, RedeemCode(c) PROVE Follows
  <2>1. CASE Return(c)
    BY <1>2, <2>1
  <2>2. CASE ~Return(c)
    <3>1. PICK rec : rec = [call[c] EXCEPT !.pc = "profile"]
      OBVIOUS
    <3>2. call' = [call EXCEPT ![c] = rec] /\ codes[call[c].n].state = "live"
      BY <1>13, <2>2, <3>1 DEF RedeemCode, Goto, Redeemable
    <3>3. rec.via = "recovery" /\ rec.n = call[c].n
      BY <1>1, <1>13, <3>1 DEF RedeemCode, At, CallsTyped, Named, Call
    <3> QED
      BY <1>1, <3>2, <3>3, RequestFollows DEF Taken
  <2> QED
    BY <2>1, <2>2
<1>14. ASSUME NEW c \in Callers, StorePasskey(c) \/ DropCodes(c) \/ IssueCode(c) PROVE Follows
  <2>1. CASE Return(c) \/ Goto(c, "drop")
    BY <1>2, <1>3, <2>1 DEF PCs, Presenting
  <2>2. ASSUME NEW n, call' = [call EXCEPT ![c] = [@ EXCEPT !.pc = "issue", !.n = n]] PROVE Follows
    <3>1. PICK rec : rec = [call[c] EXCEPT !.pc = "issue", !.n = n]
      OBVIOUS
    <3>2. call' = [call EXCEPT ![c] = rec] /\ rec.pc = "issue"
      BY <1>1, <2>2, <3>1 DEF CallsTyped, Call
    <3> QED
      BY <1>1, <3>2, RequestFollows DEF Presents, Presenting
  <2>3. ASSUME NEW n, call' = [call EXCEPT ![c] = [@ EXCEPT !.n = n]], call[c].pc = "issue" PROVE Follows
    <3>1. PICK rec : rec = [call[c] EXCEPT !.n = n]
      OBVIOUS
    <3>2. call' = [call EXCEPT ![c] = rec] /\ rec.pc = "issue"
      BY <1>1, <2>3, <3>1 DEF CallsTyped, Call
    <3> QED
      BY <1>1, <3>2, RequestFollows DEF Presents, Presenting
  <2> QED
    BY <1>14, <2>1, <2>2, <2>3 DEF StorePasskey, DropCodes, IssueCode, At
<1>15. CASE \E p \in Registered : LockRunsOut(p) \/ WindowRollsOver(p)
  BY <1>15 DEF LockRunsOut, WindowRollsOver
<1>16. CASE \E i \in DOMAIN links : ExpireLink(i)
  BY <1>16 DEF ExpireLink
<1>17. CASE UNCHANGED pvars
  BY <1>17 DEF pvars, avars
<1>18. CASE AccountStep
  BY <1>4, <1>5, <1>6, <1>7, <1>8, <1>9, <1>10, <1>15, <1>16, <1>18 DEF AccountStep
<1>19. CASE PasskeysNext /\ ~AccountStep
  BY <1>10, <1>11, <1>12, <1>13, <1>14, <1>19 DEF PasskeysNext
<1> QED
  BY <1>17, <1>18, <1>19

OneHolder ==
    /\ CredentialOpensOnce
    /\ \A i \in DOMAIN sessions : sessions[i].via \in CredentialMeans =>
         /\ Taken(sessions[i].via, sessions[i].of, sessions[i].cred)
         /\ \A c \in Callers : Presents(call[c]) /\ call[c].via = sessions[i].via /\ call[c].p = sessions[i].of
                               => call[c].n # sessions[i].cred
    /\ \A c, d \in Callers : c # d /\ Presents(call[c]) /\ Presents(call[d]) => ~Alike(call[c], call[d])

\* The sessions only lose rows that work.
LEMMA HolderMoves ==
    ASSUME Typed, Grows, SessionsKept, UNCHANGED call \/ Follows, OneHolder
    PROVE  OneHolder'
<1>1. CredentialOpensOnce'
  BY DEF OneHolder, CredentialOpensOnce, SessionsKept
<1>2. \A c \in Callers : Presents(call[c]) => Taken(call[c].via, call[c].p, call[c].n)
  BY DEF Typed, CallsTyped, Knows, Presents, Presenting
<1>3. ASSUME NEW c \in Callers, Presents(call'[c])
      PROVE  \/ Presents(call[c]) /\ Alike(call'[c], call[c])
             \/ ~Taken(call'[c].via, call'[c].p, call'[c].n)
  BY <1>3 DEF Follows, Alike
<1>4. ASSUME NEW i \in DOMAIN sessions', sessions'[i].via \in CredentialMeans
      PROVE  /\ Taken(sessions[i].via, sessions[i].of, sessions[i].cred)'
             /\ \A c \in Callers : /\ Presents(call'[c])
                                   /\ call'[c].via = sessions'[i].via /\ call'[c].p = sessions'[i].of
                                   => call'[c].n # sessions'[i].cred
  <2>1. i \in DOMAIN sessions /\ sessions[i].via \in CredentialMeans
        /\ sessions'[i].via = sessions[i].via /\ sessions'[i].of = sessions[i].of
        /\ sessions'[i].cred = sessions[i].cred
    BY <1>4 DEF SessionsKept
  <2>2. PICK row : row = sessions[i]
    OBVIOUS
  <2>3. Taken(row.via, row.of, row.cred)
    BY <2>1, <2>2 DEF OneHolder
  <2>4. Taken(row.via, row.of, row.cred)'
    BY <2>3, StillTaken
  <2>5. Taken(sessions[i].via, sessions[i].of, sessions[i].cred)'
    BY <2>1, <2>2, <2>4 DEF Taken
  <2>6. ASSUME NEW c \in Callers, Presents(call'[c]), call'[c].via = row.via, call'[c].p = row.of
        PROVE  call'[c].n # row.cred
    BY <1>3, <2>1, <2>2, <2>3, <2>6 DEF OneHolder, Alike
  <2> QED
    BY <2>1, <2>2, <2>5, <2>6
<1>5. ASSUME NEW c \in Callers, NEW d \in Callers, c # d, Presents(call'[c]), Presents(call'[d])
      PROVE  ~Alike(call'[c], call'[d])
  <2>1. CASE UNCHANGED call
    BY <1>5, <2>1 DEF OneHolder
  <2>2. CASE Follows
    <3>1. PICK e \in Callers :
            /\ \A f \in Callers \ {e} : call'[f] = call[f]
            /\ Presents(call'[e]) =>
                 \/ Presents(call[e]) /\ Alike(call'[e], call[e])
                 \/ ~Taken(call'[e].via, call'[e].p, call'[e].n)
      BY <2>2 DEF Follows
    <3>2. ASSUME NEW f \in Callers \ {e}, Presents(call'[e]), Presents(call'[f])
          PROVE  ~Alike(call'[e], call'[f])
      <4>1. call'[f] = call[f] /\ Taken(call[f].via, call[f].p, call[f].n)
        BY <1>2, <3>1, <3>2
      <4> QED
        BY <3>1, <3>2, <4>1 DEF OneHolder, Alike
    <3> QED
      BY <1>5, <3>1, <3>2 DEF OneHolder, Alike
  <2> QED
    BY <2>1, <2>2
<1> QED
  BY <1>1, <1>4, <1>5 DEF OneHolder, Presents, Alike, Taken

\* A session is stored for the request that held the credential.
LEMMA HolderOpens ==
    ASSUME Typed, Grows, NEW c \in Callers, OpenSession(c), sessions' # sessions, OneHolder
    PROVE  OneHolder'
<1>1. PICK n : /\ n \notin DOMAIN sessions /\ DOMAIN sessions' = DOMAIN sessions \cup {n}
               /\ \A i \in DOMAIN sessions : sessions'[i] = sessions[i]
               /\ sessions'[n].of = call[c].p /\ sessions'[n].via = call[c].via
               /\ sessions'[n].cred = call[c].n
  BY SessionAdded
<1>2. \A d \in Callers \ {c} : call'[d] = call[d]
  BY DEF OpenSession, Return, Typed, CallsTyped
<1>3. ~Presents(call'[c])
  BY DEF OpenSession, Return, Typed, CallsTyped, Presents, Presenting, IdleCall
<1>4. sessions'[n].via \in CredentialMeans => Presents(call[c])
  BY <1>1 DEF OpenSession, At, Presents, Presenting
<1>5. \A i \in DOMAIN sessions : sessions'[n].via = sessions[i].via /\ sessions'[n].of = sessions[i].of
        /\ sessions'[n].via \in CredentialMeans => sessions'[n].cred # sessions[i].cred
  BY <1>1, <1>4 DEF OneHolder
<1>6. CredentialOpensOnce'
  <2>1. ASSUME NEW i \in DOMAIN sessions', NEW j \in DOMAIN sessions',
               i # j, sessions'[i].via = sessions'[j].via, sessions'[i].of = sessions'[j].of,
               sessions'[i].via \in CredentialMeans
        PROVE  sessions'[i].cred # sessions'[j].cred
    <3>1. CASE i # n /\ j # n
      BY <1>1, <2>1, <3>1 DEF OneHolder, CredentialOpensOnce, CredentialMeans
    <3>2. CASE i = n \/ j = n
      BY <1>1, <1>5, <2>1, <3>2
    <3> QED
      BY <3>1, <3>2
  <2> QED
    BY <2>1 DEF CredentialOpensOnce, CredentialMeans
<1>7. ASSUME NEW i \in DOMAIN sessions', sessions'[i].via \in CredentialMeans
      PROVE  /\ Taken(sessions[i].via, sessions[i].of, sessions[i].cred)'
             /\ \A d \in Callers : /\ Presents(call'[d])
                                   /\ call'[d].via = sessions'[i].via /\ call'[d].p = sessions'[i].of
                                   => call'[d].n # sessions'[i].cred
  <2>1. PICK row : row = sessions'[i]
    OBVIOUS
  <2>2. CASE i \in DOMAIN sessions
    <3>1. row = sessions[i]
      BY <1>1, <2>1, <2>2
    <3>2. Taken(row.via, row.of, row.cred)
      BY <1>7, <2>1, <2>2, <3>1 DEF OneHolder
    <3>3. Taken(row.via, row.of, row.cred)'
      BY <3>2, StillTaken
    <3> QED
      BY <1>2, <1>3, <1>7, <2>1, <2>2, <3>1, <3>3 DEF OneHolder, Taken
  <2>3. CASE i = n
    <3>1. Presents(call[c])
      BY <1>4, <1>7, <2>3
    <3>2. row.of = call[c].p /\ row.via = call[c].via /\ row.cred = call[c].n
      BY <1>1, <2>1, <2>3
    <3>3. Taken(row.via, row.of, row.cred)
      BY <3>1, <3>2 DEF OpenSession, At, Typed, CallsTyped, Knows
    <3>4. Taken(row.via, row.of, row.cred)'
      BY <3>3, StillTaken
    <3>5. ASSUME NEW d \in Callers, Presents(call'[d]), call'[d].via = row.via, call'[d].p = row.of
          PROVE  call'[d].n # row.cred
      BY <1>2, <1>3, <3>1, <3>2, <3>5 DEF OneHolder, Alike
    <3> QED
      BY <2>1, <3>4, <3>5 DEF Taken
  <2> QED
    BY <1>1, <2>2, <2>3
<1>8. ASSUME NEW d \in Callers, NEW e \in Callers, d # e, Presents(call'[d]), Presents(call'[e])
      PROVE  ~Alike(call'[d], call'[e])
  BY <1>2, <1>3, <1>8 DEF OneHolder
<1> QED
  BY <1>6, <1>7, <1>8 DEF OneHolder, Presents, Alike, Taken

LEMMA HolderInit == PasskeysInit => OneHolder
<1> SUFFICES ASSUME PasskeysInit PROVE OneHolder
  OBVIOUS
<1>1. \A i \in DOMAIN sessions : sessions[i].via = "register"
  BY DEF PasskeysInit, Init
<1>2. \A c \in Callers : ~Presents(call[c])
  BY DEF PasskeysInit, Init, IdleCall, Presents, Presenting
<1> QED
  BY <1>1, <1>2 DEF OneHolder, CredentialOpensOnce, CredentialMeans

\* A recovery code, an assertion or a merge request opens one session at most,
\* however many requests present it at the same time.
THEOREM CredentialsOpenOnce == PasskeysSpec => []CredentialOpensOnce
<1>1. OneHolder => CredentialOpensOnce
  BY DEF OneHolder
<1>2. ASSUME Typed, [PasskeysNext]_pvars, OneHolder PROVE OneHolder'
  <2>1. CASE SessionsKept
    BY <1>2, <2>1, TypedNext, StepsFollow, HolderMoves
  <2>2. ASSUME NEW c \in Callers, OpenSession(c), ~SessionsKept PROVE OneHolder'
    <3>1. sessions' # sessions
      BY <2>2, SessionAdded, <1>2 DEF SessionsKept
    <3> QED
      BY <1>2, <2>2, <3>1, TypedNext, HolderOpens
  <2> QED
    BY <1>2, <2>1, <2>2, SessionsShape
<1>3. Typed /\ OneHolder /\ [PasskeysNext]_pvars => (Typed /\ OneHolder)'
  BY <1>2, TypedNext
<1> QED
  BY <1>1, <1>3, TypedInit, HolderInit, PTL DEF PasskeysSpec
-----------------------------------------------------------------------------
(* A reset link changes the password once.  A request that has taken a link   *)
(* and not yet applied it is a change to come: the spent links pay for the    *)
(* changes made and for those to come together.                              *)

SpentResets(p) == {i \in DOMAIN links :
    links[i].of = p /\ links[i].purpose = "reset" /\ links[i].state = "spent"}
Applying(p) == {c \in Callers :
    call[c].pc = "apply" /\ call[c].purpose = "reset" /\ call[c].p = p}
\* There may be more requests than can be counted, so that any finite number of them is.
ResetsPaid == \A p \in People : \A S \in SUBSET Applying(p) :
    IsFiniteSet(S) => secret[p] + Cardinality(S) <= Cardinality(SpentResets(p))

\* No request comes to apply a link.
NoneTakesUp == \A c \in Callers : call'[c].pc = "apply" => call'[c] = call[c]

LEMMA RequestElsewhere ==
    ASSUME CallsTyped, NEW c \in Callers, NEW rec, rec.pc # "apply", call' = [call EXCEPT ![c] = rec]
    PROVE  NoneTakesUp
BY DEF CallsTyped, NoneTakesUp

LEMMA GoesElsewhere ==
    ASSUME CallsTyped, NEW c \in Callers, NEW pc, pc # "apply", Goto(c, pc)
    PROVE  NoneTakesUp
<1>1. PICK rec : rec = [call[c] EXCEPT !.pc = pc]
  OBVIOUS
<1>2. call[c] \in Call
  BY DEF CallsTyped
<1>3. rec.pc = pc /\ call' = [call EXCEPT ![c] = rec]
  BY <1>1, <1>2 DEF Goto, Call
<1> QED
  BY <1>3, RequestElsewhere

LEMMA ReturnsElsewhere ==
    ASSUME CallsTyped, NEW c \in Callers, Return(c)
    PROVE  NoneTakesUp
BY RequestElsewhere DEF Return, IdleCall

LEMMA OnlyConsumersApply ==
    ASSUME Typed, [PasskeysNext]_pvars
    PROVE  NoneTakesUp \/ \E c \in Callers : ConsumeLink(c) /\ Consumable(call[c].n)
<1>1. CallsTyped
  BY DEF Typed
<1>2. ASSUME NEW c \in Callers, Return(c) PROVE NoneTakesUp
  BY <1>1, <1>2, ReturnsElsewhere
<1>3. ASSUME NEW c \in Callers, NEW pc, pc # "apply", Goto(c, pc) PROVE NoneTakesUp
  BY <1>1, <1>3, GoesElsewhere
<1>4. ASSUME NEW c \in Callers,
             OpenSession(c) \/ CountMiss(c) \/ MintLink(c) \/ ApplyReset(c) \/ ApplyVerification(c)
             \/ AskForMerge(c) \/ Erase(c) \/ Fail(c)
      PROVE  NoneTakesUp
  <2>1. Return(c)
    BY <1>4 DEF OpenSession, CountMiss, MintLink, ApplyReset, ApplyVerification, AskForMerge, Erase, Fail
  <2> QED
    BY <1>2, <2>1
<1>5. ASSUME NEW c \in Callers, PassLockout(c) \/ Authenticate(c) \/ ClearAttempts(c) PROVE NoneTakesUp
  <2>1. Return(c) \/ \E pc \in {"authenticate", "clear", "miss", "link", "open"} : Goto(c, pc)
    BY <1>5 DEF PassLockout, Authenticate, ClearAttempts
  <2> QED
    BY <1>2, <1>3, <2>1
<1>6. ASSUME NEW c \in Callers, ConsumeLink(c), ~Consumable(call[c].n) PROVE NoneTakesUp
  BY <1>2, <1>6 DEF ConsumeLink
<1>7. ASSUME NEW c \in Callers, ReadAttempts(c) PROVE NoneTakesUp
  <2>1. PICK rec : rec = [call[c] EXCEPT !.pc = "count", !.seen = attempts[call[c].p]]
    OBVIOUS
  <2>2. call' = [call EXCEPT ![c] = rec]
    BY <1>7, <2>1 DEF ReadAttempts
  <2>3. rec.pc = "count"
    BY <1>1, <2>1 DEF CallsTyped, Call
  <2> QED
    BY <1>1, <2>2, <2>3, RequestElsewhere
<1>8. ASSUME NEW c \in Callers, ResolveIdentity(c) \/ CreateAccount(c) \/ LinkIdentity(c) PROVE NoneTakesUp
  <2>1. call[c] \in Call
    BY <1>1 DEF CallsTyped
  <2>2. CASE Return(c) \/ Goto(c, "ask") \/ Goto(c, "create")
    BY <1>2, <1>3, <2>2
  <2>3. ASSUME NEW q, call' = [call EXCEPT ![c] = [@ EXCEPT !.pc = "open", !.p = q]] PROVE NoneTakesUp
    <3>1. PICK rec : rec = [call[c] EXCEPT !.pc = "open", !.p = q]
      OBVIOUS
    <3>2. call' = [call EXCEPT ![c] = rec] /\ rec.pc = "open"
      BY <2>1, <2>3, <3>1 DEF Call
    <3> QED
      BY <1>1, <3>2, RequestElsewhere
  <2> QED
    BY <1>8, <2>2, <2>3 DEF ResolveIdentity, CreateAccount, LinkIdentity
<1>9. ASSUME NEW c \in Callers,
              \/ \E i \in DOMAIN sessions : Logout(c, i)
              \/ \E p \in Registered : \E guess \in Guesses(p) : BeginLogin(c, p, guess)
              \/ \E p \in People, purpose \in Purposes : BeginRequest(c, p, purpose)
              \/ \E i \in DOMAIN links : PresentLink(c, i)
              \/ \E id \in Identities, p \in Registered \cup {NoPerson} : BeginCallback(c, id, p)
              \/ \E m \in DOMAIN merges, p \in Registered : \E guess \in Guesses(p) : BeginMerge(c, m, p, guess)
              \/ \E p \in People : BeginErase(c, p)
              \/ \E k \in DOMAIN codes : BeginRecovery(c, k)
              \/ \E p \in Registered : BeginEnroll(c, p) \/ DeletePasskey(c, p)
              \/ \E p \in Registered, n \in 1..MaxAssertions : PresentAssertion(c, p, n)
       PROVE  NoneTakesUp
  <2>1. \E kind, rec : rec.pc # "apply" /\ Begin(c, kind, rec)
    BY <1>9 DEF Logout, BeginLogin, BeginRequest, PresentLink, BeginCallback, BeginMerge, BeginErase,
       BeginRecovery, BeginEnroll, DeletePasskey, PresentAssertion, IdleCall
  <2> QED
    BY <1>1, <2>1, RequestElsewhere DEF Begin
<1>10. ASSUME NEW c \in Callers, CheckAssertion(c) \/ AdvanceCounter(c) \/ ReadProfile(c) \/ RedeemCode(c)
       PROVE  NoneTakesUp
  <2>1. Return(c) \/ Goto(c, "advance") \/ Goto(c, "profile") \/ Goto(c, "open")
    BY <1>10 DEF CheckAssertion, AdvanceCounter, ReadProfile, RedeemCode
  <2> QED
    BY <1>2, <1>3, <2>1
<1>11. ASSUME NEW c \in Callers, StorePasskey(c) \/ DropCodes(c) \/ IssueCode(c) PROVE NoneTakesUp
  <2>1. CASE Return(c) \/ Goto(c, "drop")
    BY <1>2, <1>3, <2>1
  <2>2. ASSUME NEW n, call' = [call EXCEPT ![c] = [@ EXCEPT !.pc = "issue", !.n = n]] PROVE NoneTakesUp
    <3>1. PICK rec : rec = [call[c] EXCEPT !.pc = "issue", !.n = n]
      OBVIOUS
    <3>2. call' = [call EXCEPT ![c] = rec] /\ rec.pc = "issue"
      BY <1>1, <2>2, <3>1 DEF CallsTyped, Call
    <3> QED
      BY <1>1, <3>2, RequestElsewhere
  <2>3. ASSUME NEW n, call' = [call EXCEPT ![c] = [@ EXCEPT !.n = n]], call[c].pc = "issue" PROVE NoneTakesUp
    <3>1. PICK rec : rec = [call[c] EXCEPT !.n = n]
      OBVIOUS
    <3>2. call' = [call EXCEPT ![c] = rec] /\ rec.pc = "issue"
      BY <1>1, <2>3, <3>1 DEF CallsTyped, Call
    <3> QED
      BY <1>1, <3>2, RequestElsewhere
  <2> QED
    BY <1>11, <2>1, <2>2, <2>3 DEF StorePasskey, DropCodes, IssueCode, At
<1>12. ASSUME UNCHANGED call PROVE NoneTakesUp
  BY <1>12 DEF NoneTakesUp
<1>13. CASE \E p \in Registered : LockRunsOut(p) \/ WindowRollsOver(p)
  BY <1>12, <1>13 DEF LockRunsOut, WindowRollsOver
<1>14. CASE \E i \in DOMAIN links : ExpireLink(i)
  BY <1>12, <1>14 DEF ExpireLink
<1>15. CASE UNCHANGED pvars
  BY <1>12, <1>15 DEF pvars, avars
<1>16. CASE AccountStep
  BY <1>4, <1>5, <1>6, <1>7, <1>8, <1>9, <1>13, <1>14, <1>16 DEF AccountStep
<1>17. CASE PasskeysNext /\ ~AccountStep
  BY <1>9, <1>10, <1>11, <1>17 DEF PasskeysNext
<1> QED
  BY <1>15, <1>16, <1>17

\* Only applyPasswordReset changes a password.
LEMMA SecretShape ==
    ASSUME Typed, [PasskeysNext]_pvars
    PROVE  secret' = secret \/ \E c \in Callers : ApplyReset(c)
<1>1. ASSUME NEW c \in Callers, AccountChange(c) PROVE secret' = secret \/ ApplyReset(c)
  BY <1>1 DEF AccountChange, OpenSession, Logout, ApplyReset, Erase, CreateAccount, MintLink, ConsumeLink,
              AskForMerge, LinkIdentity, accountRow
<1>2. ASSUME NEW i \in DOMAIN links, ExpireLink(i) PROVE secret' = secret
  BY <1>2 DEF ExpireLink, accountRow
<1> QED
  BY <1>1, <1>2, StepKinds DEF Quiet, accountRest, accountRow

\* The links of an account are finitely many, and what was spent stays spent.
LEMMA SpentCount ==
    ASSUME Typed, NEW p \in People
    PROVE  IsFiniteSet(SpentResets(p)) /\ Cardinality(SpentResets(p)) \in Nat
<1>1. links \in Seq(Link)
  BY DEF Typed, RowsTyped, AccountRows
<1>2. DOMAIN links = 1..Len(links) /\ Len(links) \in Nat
  BY <1>1
<1>3. IsFiniteSet(1..Len(links))
  BY <1>2, FS_Interval
<1>4. SpentResets(p) \subseteq DOMAIN links
  BY DEF SpentResets
<1> QED
  BY <1>2, <1>3, <1>4, FS_Subset, FS_CardinalityType

LEMMA SpentStays ==
    ASSUME Typed, Typed', Grows, NEW p \in People
    PROVE  /\ SpentResets(p) \subseteq SpentResets(p)'
           /\ IsFiniteSet(SpentResets(p)') /\ Cardinality(SpentResets(p)') \in Nat
           /\ Cardinality(SpentResets(p)) <= Cardinality(SpentResets(p)')
<1>1. SpentResets(p) \subseteq SpentResets(p)'
  BY DEF Grows, AccountsGrow, SpentResets
<1>2. IsFiniteSet(SpentResets(p)') /\ Cardinality(SpentResets(p)') \in Nat
  <2>1. links' \in Seq(Link)
    BY DEF Typed, RowsTyped, AccountRows
  <2>2. DOMAIN links' = 1..Len(links') /\ Len(links') \in Nat
    BY <2>1
  <2>3. IsFiniteSet(1..Len(links'))
    BY <2>2, FS_Interval
  <2>4. SpentResets(p)' \subseteq DOMAIN links'
    BY DEF SpentResets
  <2> QED
    BY <2>2, <2>3, <2>4, FS_Subset, FS_CardinalityType
<1> QED
  BY <1>1, <1>2, FS_Subset

LEMMA PaidInit == PasskeysInit => ResetsPaid
<1> SUFFICES ASSUME PasskeysInit PROVE ResetsPaid
  OBVIOUS
<1> SUFFICES ASSUME NEW p \in People, NEW S \in SUBSET Applying(p)
             PROVE  secret[p] + Cardinality(S) <= Cardinality(SpentResets(p))
  BY DEF ResetsPaid
<1>1. S = {}
  BY DEF PasskeysInit, Init, IdleCall, Applying
<1>2. secret[p] = 0
  BY DEF PasskeysInit, Init
<1>3. Cardinality(S) = 0
  BY <1>1, FS_EmptySet
<1>4. Cardinality(SpentResets(p)) \in Nat
  BY TypedInit, SpentCount
<1> QED
  BY <1>2, <1>3, <1>4

LEMMA PaidNext ==
    ASSUME Typed, [PasskeysNext]_pvars, ResetsPaid
    PROVE  ResetsPaid'
<1>1. Typed' /\ Grows /\ CallsTyped
  BY TypedNext DEF Typed
<1>2. secret \in [People -> Nat]
  BY DEF Typed, RowsTyped, AccountRows
<1> SUFFICES ASSUME NEW p \in People, NEW S \in SUBSET (Applying(p)'), IsFiniteSet(S)
             PROVE  secret'[p] + Cardinality(S) <= Cardinality(SpentResets(p)')
  BY DEF ResetsPaid
<1>3. PICK old, new, k : /\ old = Cardinality(SpentResets(p)) /\ new = Cardinality(SpentResets(p)')
                         /\ k = Cardinality(S)
  OBVIOUS
<1>4. old \in Nat /\ new \in Nat /\ old <= new /\ k \in Nat /\ secret[p] \in Nat
  BY <1>1, <1>2, <1>3, SpentCount, SpentStays, FS_CardinalityType
<1>5. CASE NoneTakesUp
  <2>1. Applying(p)' \subseteq Applying(p)
    BY <1>5 DEF NoneTakesUp, Applying
  <2>2. CASE secret' = secret
    <3>1. secret[p] + k <= old
      BY <1>3, <2>1 DEF ResetsPaid
    <3> QED
      BY <1>3, <1>4, <2>2, <3>1
  <2>3. ASSUME NEW c \in Callers, ApplyReset(c), secret' # secret
        PROVE  secret'[p] + Cardinality(S) <= Cardinality(SpentResets(p)')
    <3>1. /\ call[c].pc = "apply" /\ call[c].purpose = "reset"
          /\ secret' = [secret EXCEPT ![call[c].p] = @ + 1]
          /\ call'[c] = IdleCall
      BY <1>1, <2>3 DEF ApplyReset, At, Return, CallsTyped
    <3>2. CASE p # call[c].p
      <4>1. secret'[p] = secret[p]
        BY <1>2, <3>1, <3>2
      <4>2. secret[p] + k <= old
        BY <1>3, <2>1 DEF ResetsPaid
      <4> QED
        BY <1>3, <1>4, <4>1, <4>2
    <3>3. CASE p = call[c].p
      <4>1. c \in Applying(p) /\ c \notin S
        BY <3>1, <3>3 DEF Applying, IdleCall
      <4>2. S \cup {c} \in SUBSET Applying(p)
        BY <2>1, <4>1
      <4>3. IsFiniteSet(S \cup {c}) /\ Cardinality(S \cup {c}) = k + 1
        BY <1>3, <4>1, FS_AddElement
      <4>4. secret[p] + Cardinality(S \cup {c}) <= old
        BY <1>3, <4>2, <4>3 DEF ResetsPaid
      <4>5. secret'[p] = secret[p] + 1
        BY <1>2, <3>1, <3>3
      <4> QED
        BY <1>3, <1>4, <4>3, <4>4, <4>5
    <3> QED
      BY <3>2, <3>3
  <2> QED
    BY <2>2, <2>3, SecretShape
<1>6. ASSUME NEW c \in Callers, ConsumeLink(c), Consumable(call[c].n)
      PROVE  secret'[p] + Cardinality(S) <= Cardinality(SpentResets(p)')
  <2>1. PICK i : i = call[c].n
    OBVIOUS
  <2>2. /\ i \in DOMAIN links /\ links[i].of = call[c].p /\ links[i].purpose = call[c].purpose
        /\ links[i].state = "live"
    BY <1>1, <1>6, <2>1 DEF ConsumeLink, At, CallsTyped, Knows, Consumable
  <2>3. links[i] \in Link
    BY <2>2, RowType DEF Typed, RowsTyped, AccountRows
  <2>4. secret' = secret /\ links' = [links EXCEPT ![i].state = "spent"] /\ Goto(c, "apply")
    BY <1>6, <2>1 DEF ConsumeLink, accountRow
  <2>5. \A d \in Callers : d # c => call'[d] = call[d]
    BY <1>1, <2>4 DEF Goto, CallsTyped
  <2>6. call'[c].p = call[c].p /\ call'[c].purpose = call[c].purpose
    BY <1>1, <2>4 DEF Goto, CallsTyped, Call
  <2>7. S \ {c} \in SUBSET Applying(p)
    BY <2>5 DEF Applying
  <2>8. CASE c \notin S
    <3>1. S \ {c} = S
      BY <2>8
    <3>2. secret[p] + k <= old
      BY <1>3, <2>7, <3>1 DEF ResetsPaid
    <3> QED
      BY <1>3, <1>4, <2>4, <3>2
  <2>9. CASE c \in S
    <3>1. IsFiniteSet(S \ {c}) /\ Cardinality(S \ {c}) = k - 1
      BY <1>3, <2>9, FS_RemoveElement
    <3>2. secret[p] + (k - 1) <= old
      BY <1>3, <2>7, <3>1 DEF ResetsPaid
    <3>3. call[c].p = p /\ call[c].purpose = "reset"
      BY <2>6, <2>9 DEF Applying
    <3>4. i \notin SpentResets(p)
      BY <2>2 DEF SpentResets
    <3>5. i \in SpentResets(p)'
      BY <2>2, <2>3, <2>4, <3>3 DEF SpentResets, Link
    <3>6. IsFiniteSet(SpentResets(p)) /\ Cardinality(SpentResets(p) \cup {i}) = old + 1
      BY <1>3, <3>4, SpentCount, FS_AddElement
    <3>7. SpentResets(p) \cup {i} \subseteq SpentResets(p)' /\ IsFiniteSet(SpentResets(p)')
      BY <1>1, <3>5, SpentStays
    <3>8. old + 1 <= new
      BY <1>3, <3>6, <3>7, FS_Subset
    <3> QED
      BY <1>3, <1>4, <2>4, <3>2, <3>8
  <2> QED
    BY <2>8, <2>9
<1> QED
  BY <1>5, <1>6, OnlyConsumersApply

\* A password is changed no more often than reset links were taken, although the link
\* is taken by one statement and the password changed by a later one.
THEOREM ResetsPayForChanges == PasskeysSpec => []ResetsMatchLinks
<1>1. ASSUME Typed, ResetsPaid PROVE ResetsMatchLinks
  <2> SUFFICES ASSUME NEW p \in People PROVE secret[p] <= Cardinality(SpentResets(p))
    BY DEF ResetsMatchLinks, SpentResets
  <2>1. secret[p] + Cardinality({}) <= Cardinality(SpentResets(p))
    BY <1>1, FS_EmptySet DEF ResetsPaid
  <2>2. secret[p] \in Nat
    BY <1>1 DEF Typed, RowsTyped, AccountRows
  <2> QED
    BY <2>1, <2>2, FS_EmptySet
<1>2. Typed /\ ResetsPaid /\ [PasskeysNext]_pvars => (Typed /\ ResetsPaid)'
  BY TypedNext, PaidNext
<1> QED
  BY <1>1, <1>2, TypedInit, PaidInit, PTL DEF PasskeysSpec
-----------------------------------------------------------------------------
(* The accounts do not notice.                                             *)

\* The requests of this module only read the accounts: with them, the accounts
\* behave as Passkeys says.
THEOREM AccountsUnderKeys == ApiKeysSpec => PasskeysSpec
<1>1. ApiKeysInit => PasskeysInit
  BY DEF ApiKeysInit
<1>2. [ApiKeysNext]_wvars => [PasskeysNext]_pvars
  BY DEF ApiKeysNext, AccountMoves, wvars
<1> QED
  BY <1>1, <1>2, PTL DEF ApiKeysSpec, PasskeysSpec

\* With keys too, a request that outlives an erasure leaves the account no way in.
THEOREM ErasureLeavesNoKey == ApiKeysSpec => []ErasedHoldsNoKey
BY AccountsUnderKeys, ErasureLeavesNothing
-----------------------------------------------------------------------------
(* Type correctness.                                                       *)

\* What a request knows: it found its account verified before it acts, and the key it
\* names is there. Neither is taken back.
TaskKnows(rec) ==
    /\ rec.pc # "idle" => rec.p \in People
    /\ rec.pc \in {"mint", "revoke", "post"} => rec.p \in verified
    /\ rec.pc \in {"mayRevoke", "revoke"} => rec.k \in DOMAIN apiKeys
    /\ rec.k # 0 => rec.k \in DOMAIN apiKeys
TasksTyped ==
    /\ task \in [Writers -> Task] /\ tasks \in Nat
    /\ \A w \in Writers : TaskKnows(task[w])
KeysTyped == apiKeys \in Seq(Key) /\ posts \subseteq Post
AllTyped == Typed /\ KeysTyped /\ TasksTyped

LEMMA IdleTaskType == IdleTask \in Task /\ TaskKnows(IdleTask) /\ TaskKnows(IdleTask)'
BY DEF IdleTask, Task, TaskPCs, TaskKnows

\* What a request knows lasts while accounts stay verified and rows stay.
LEMMA StillTaskKnows ==
    ASSUME verified \subseteq verified', DOMAIN apiKeys \subseteq DOMAIN apiKeys',
           NEW rec, TaskKnows(rec)
    PROVE  TaskKnows(rec)'
BY DEF TaskKnows

LEMMA TaskMoves ==
    ASSUME TasksTyped, verified \subseteq verified', DOMAIN apiKeys \subseteq DOMAIN apiKeys',
           NEW w \in Writers, NEW rec \in Task, TaskKnows(rec)',
           task' = [task EXCEPT ![w] = rec], tasks' \in Nat
    PROVE  TasksTyped'
<1>1. task' \in [Writers -> Task] /\ task'[w] = rec
  BY DEF TasksTyped
<1>2. ASSUME NEW v \in Writers PROVE TaskKnows(task[v])'
  <2>1. PICK new : new = task'[v]
    OBVIOUS
  <2>2. TaskKnows(new)'
    <3>1. CASE v = w
      BY <1>1, <2>1, <3>1
    <3>2. CASE v # w
      <4>1. new = task[v] /\ TaskKnows(new)
        BY <2>1, <3>2 DEF TasksTyped
      <4> QED
        BY <4>1, StillTaskKnows
    <3> QED
      BY <3>1, <3>2
  <2> QED
    BY <2>1, <2>2 DEF TaskKnows
<1> QED
  BY <1>1, <1>2 DEF TasksTyped

LEMMA TaskEnds ==
    ASSUME TasksTyped, verified \subseteq verified', DOMAIN apiKeys \subseteq DOMAIN apiKeys',
           NEW w \in Writers, EndTask(w), tasks' = tasks
    PROVE  TasksTyped'
BY IdleTaskType, TaskMoves DEF EndTask, TasksTyped

LEMMA TaskBegins ==
    ASSUME AllTyped, UNCHANGED pvars, NEW w \in Writers, NEW rec \in Task, TaskKnows(rec),
           BeginTask(w, rec)
    PROVE  TasksTyped' /\ KeysTyped'
<1>1. verified' = verified /\ apiKeys' = apiKeys /\ posts' = posts /\ tasks' \in Nat
  BY DEF BeginTask, pvars, avars, accountRow, AllTyped, TasksTyped
<1>2. TaskKnows(rec)'
  BY <1>1 DEF TaskKnows
<1> QED
  BY <1>1, <1>2, TaskMoves DEF BeginTask, AllTyped, KeysTyped

LEMMA KeyRow == KeysTyped => \A k \in DOMAIN apiKeys : apiKeys[k] \in Key
BY RowType DEF KeysTyped

\* A key that dies is a row of the same account.
LEMMA KeyDies ==
    ASSUME KeysTyped, NEW k \in DOMAIN apiKeys, apiKeys' = [apiKeys EXCEPT ![k].live = FALSE]
    PROVE  /\ apiKeys' \in Seq(Key) /\ DOMAIN apiKeys' = DOMAIN apiKeys
           /\ \A j \in DOMAIN apiKeys : /\ apiKeys'[j].of = apiKeys[j].of
                                        /\ apiKeys'[j].live => apiKeys[j].live
<1> DEFINE dead == [apiKeys[k] EXCEPT !.live = FALSE]
<1>1. dead \in Key /\ dead.of = apiKeys[k].of /\ dead.live = FALSE
  BY KeyRow DEF Key
<1>2. apiKeys' = [apiKeys EXCEPT ![k] = dead]
  OBVIOUS
<1> HIDE DEF dead
<1>3. apiKeys' \in Seq(Key)
  <2>1. PICK row : row = dead
    OBVIOUS
  <2>2. [apiKeys EXCEPT ![k] = row] \in Seq(Key)
    BY <1>1, <2>1, ChangedRow DEF KeysTyped
  <2> QED
    BY <1>2, <2>1, <2>2, Zenon
<1>4. /\ DOMAIN apiKeys' = DOMAIN apiKeys /\ apiKeys'[k] = dead
      /\ \A j \in DOMAIN apiKeys \ {k} : apiKeys'[j] = apiKeys[j]
  BY <1>2 DEF KeysTyped
<1>5. ASSUME NEW j \in DOMAIN apiKeys
      PROVE  apiKeys'[j].of = apiKeys[j].of /\ (apiKeys'[j].live => apiKeys[j].live)
  <2>1. CASE j = k
    BY <1>1, <1>4, <2>1, Zenon
  <2>2. CASE j # k
    BY <1>4, <2>2
  <2> QED
    BY <2>1, <2>2
<1> QED
  BY <1>3, <1>4, <1>5

\* The requests of the gate.
LEMMA GateSteps ==
    ASSUME AllTyped, UNCHANGED pvars, NEW w \in Writers,
           \/ CheckVerified(w) \/ FailTask(w)
           \/ \E p \in People : BeginMint(w, p) \/ BeginPost(w, p)
           \/ \E p \in People, k \in DOMAIN apiKeys : BeginRevoke(w, p, k)
           \/ \E k \in DOMAIN apiKeys : PresentKey(w, k)
    PROVE  TasksTyped' /\ KeysTyped' /\ apiKeys' = apiKeys /\ posts' = posts
<1>0. verified' = verified /\ exists' = exists
  BY DEF pvars, avars, accountRow
<1>1. CASE CheckVerified(w)
  <2>1. apiKeys' = apiKeys /\ posts' = posts /\ tasks' = tasks /\ KeysTyped'
    BY <1>1 DEF CheckVerified, AllTyped, KeysTyped
  <2>2. CASE MayWrite(task[w].p)
    <3>1. PICK pc : pc = Allowed[task[w].pc]
      OBVIOUS
    <3>2. pc \in {"mint", "revoke", "post"} /\ pc \in TaskPCs
      BY <1>1, <3>1 DEF CheckVerified, Allowed, TaskPCs
    <3>3. task' = [task EXCEPT ![w].pc = pc]
      BY <1>1, <2>2, <3>1 DEF CheckVerified, TaskGoto
    <3>4. PICK old : old = task[w]
      OBVIOUS
    <3>5. old \in Task /\ TaskKnows(old)
      BY <3>4 DEF AllTyped, TasksTyped
    <3>6. PICK new : new = [old EXCEPT !.pc = pc]
      OBVIOUS
    <3>7. new \in Task /\ new.pc = pc /\ new.p = old.p /\ new.k = old.k
      BY <3>2, <3>5, <3>6 DEF Task
    <3>8. task' = [task EXCEPT ![w] = new]
      BY <3>3, <3>4, <3>6
    <3>9. old.p \in verified /\ old.pc # "idle" /\ (pc = "revoke" => old.pc = "mayRevoke")
      BY <1>1, <2>2, <3>1, <3>4 DEF CheckVerified, MayWrite, Allowed
    <3>10. TaskKnows(new)
      BY <3>2, <3>5, <3>7, <3>9 DEF TaskKnows
    <3>11. TaskKnows(new)'
      BY <1>0, <2>1, <3>10 DEF TaskKnows
    <3> QED
      BY <1>0, <2>1, <3>7, <3>8, <3>11, TaskMoves DEF AllTyped, TasksTyped
  <2>3. CASE ~MayWrite(task[w].p)
    BY <1>0, <1>1, <2>1, <2>3, TaskEnds DEF CheckVerified, AllTyped
  <2> QED
    BY <2>1, <2>2, <2>3
<1>2. CASE FailTask(w)
  BY <1>0, <1>2, TaskEnds DEF FailTask, AllTyped, KeysTyped
<1>3. ASSUME NEW rec \in Task, TaskKnows(rec), BeginTask(w, rec)
      PROVE  TasksTyped' /\ KeysTyped' /\ apiKeys' = apiKeys /\ posts' = posts
  BY <1>3, TaskBegins DEF BeginTask
<1>4. ASSUME NEW p \in People, BeginMint(w, p) \/ BeginPost(w, p)
      PROVE  TasksTyped' /\ KeysTyped' /\ apiKeys' = apiKeys /\ posts' = posts
  <2>1. PICK pc \in {"mayMint", "mayPost"} : BeginTask(w, [pc |-> pc, p |-> p, k |-> 0])
    BY <1>4 DEF BeginMint, BeginPost
  <2>2. [pc |-> pc, p |-> p, k |-> 0] \in Task /\ TaskKnows([pc |-> pc, p |-> p, k |-> 0])
    BY DEF Task, TaskPCs, TaskKnows
  <2> QED
    BY <1>3, <2>1, <2>2
<1>5. ASSUME NEW p \in People, NEW k \in DOMAIN apiKeys, BeginRevoke(w, p, k)
      PROVE  TasksTyped' /\ KeysTyped' /\ apiKeys' = apiKeys /\ posts' = posts
  <2>1. k \in Nat
    BY LenProperties DEF AllTyped, KeysTyped
  <2>2. [pc |-> "mayRevoke", p |-> p, k |-> k] \in Task /\ TaskKnows([pc |-> "mayRevoke", p |-> p, k |-> k])
    BY <2>1 DEF Task, TaskPCs, TaskKnows
  <2> QED
    BY <1>3, <1>5, <2>2 DEF BeginRevoke
<1>6. ASSUME NEW k \in DOMAIN apiKeys, PresentKey(w, k)
      PROVE  TasksTyped' /\ KeysTyped' /\ apiKeys' = apiKeys /\ posts' = posts
  <2>1. PICK p : p = apiKeys[k].of
    OBVIOUS
  <2>2. k \in Nat /\ p \in People /\ p \in verified
    BY <1>6, <2>1, KeyRow, LenProperties DEF AllTyped, KeysTyped, Key, PresentKey, MayWrite
  <2>3. [pc |-> "post", p |-> p, k |-> k] \in Task /\ TaskKnows([pc |-> "post", p |-> p, k |-> k])
    BY <2>2 DEF Task, TaskPCs, TaskKnows
  <2> QED
    BY <1>3, <1>6, <2>1, <2>3 DEF PresentKey
<1> QED
  BY <1>1, <1>2, <1>4, <1>5, <1>6

\* What a step does to the keys: none comes back, and one is added only for an account
\* that is there, verified and below its cap.
KeysKept ==
    /\ DOMAIN apiKeys' = DOMAIN apiKeys
    /\ \A k \in DOMAIN apiKeys :
         /\ apiKeys'[k].of = apiKeys[k].of
         /\ apiKeys'[k].live => apiKeys[k].live /\ (apiKeys[k].of \in exists => apiKeys[k].of \in exists')
KeyMinted(p) ==
    /\ p \in exists \cap verified /\ Room(p)
    /\ apiKeys' = Append(apiKeys, [of |-> p, live |-> TRUE])
    /\ exists' = exists /\ verified' = verified

LEMMA MintStep ==
    ASSUME AllTyped, UNCHANGED pvars, NEW w \in Writers, MintKey(w)
    PROVE  /\ TasksTyped' /\ KeysTyped' /\ posts' = posts
           /\ KeysKept \/ \E p \in People : KeyMinted(p)
<1>1. verified' = verified /\ exists' = exists /\ posts' = posts
  BY DEF pvars, avars, accountRow, MintKey
<1>2. PICK p : p = task[w].p
  OBVIOUS
<1>3. p \in verified /\ p \in People
  BY <1>2 DEF AllTyped, TasksTyped, TaskKnows, MintKey, AtTask
<1>4. CASE Room(p) /\ KeyHeld(p)
  <2>1. PICK row : row = [of |-> p, live |-> TRUE]
    OBVIOUS
  <2>2. apiKeys' = Append(apiKeys, row)
    BY <1>2, <1>4, <2>1 DEF MintKey
  <2>3. row \in Key
    BY <1>3, <2>1 DEF Key
  <2>4. apiKeys' \in Seq(Key) /\ DOMAIN apiKeys \subseteq DOMAIN apiKeys'
    BY <2>2, <2>3, AddedRow DEF AllTyped, KeysTyped
  <2>5. TasksTyped'
    BY <1>1, <2>4, TaskEnds DEF MintKey, AllTyped
  <2> QED
    BY <1>1, <1>3, <1>4, <2>1, <2>2, <2>4, <2>5 DEF KeyMinted, KeyHeld, AllTyped, KeysTyped
<1>5. CASE ~(Room(p) /\ KeyHeld(p))
  <2>1. apiKeys' = apiKeys
    BY <1>2, <1>5 DEF MintKey
  <2>2. TasksTyped'
    BY <1>1, <2>1, TaskEnds DEF MintKey, AllTyped
  <2> QED
    BY <1>1, <2>1, <2>2 DEF AllTyped, KeysTyped, KeysKept
<1> QED
  BY <1>4, <1>5

LEMMA DeathSteps ==
    ASSUME AllTyped, UNCHANGED pvars,
           \/ \E w \in Writers : RevokeKey(w)
           \/ \E k \in DOMAIN apiKeys : KeyRunsOut(k)
    PROVE  TasksTyped' /\ KeysTyped' /\ posts' = posts /\ KeysKept
<1>1. verified' = verified /\ exists' = exists /\ posts' = posts
  BY DEF pvars, avars, accountRow, RevokeKey, KeyRunsOut
<1>2. ASSUME NEW k \in DOMAIN apiKeys, apiKeys' = [apiKeys EXCEPT ![k].live = FALSE]
      PROVE  KeysTyped' /\ KeysKept /\ DOMAIN apiKeys' = DOMAIN apiKeys
  BY <1>1, <1>2, KeyDies DEF AllTyped, KeysTyped, KeysKept
<1>3. ASSUME apiKeys' = apiKeys PROVE KeysTyped' /\ KeysKept /\ DOMAIN apiKeys' = DOMAIN apiKeys
  BY <1>1, <1>3 DEF AllTyped, KeysTyped, KeysKept
<1>4. ASSUME NEW w \in Writers, RevokeKey(w) PROVE TasksTyped' /\ KeysTyped' /\ KeysKept
  <2>1. PICK k : k = task[w].k
    OBVIOUS
  <2>2. k \in DOMAIN apiKeys
    BY <1>4, <2>1 DEF AllTyped, TasksTyped, TaskKnows, RevokeKey, AtTask
  <2>3. apiKeys' = apiKeys \/ apiKeys' = [apiKeys EXCEPT ![k].live = FALSE]
    BY <1>4, <2>1 DEF RevokeKey
  <2>4. KeysTyped' /\ KeysKept /\ DOMAIN apiKeys' = DOMAIN apiKeys
    BY <1>2, <1>3, <2>2, <2>3
  <2>5. TasksTyped'
    BY <1>1, <1>4, <2>4, TaskEnds DEF RevokeKey, AllTyped
  <2> QED
    BY <2>4, <2>5
<1>5. ASSUME NEW k \in DOMAIN apiKeys, KeyRunsOut(k) PROVE TasksTyped' /\ KeysTyped' /\ KeysKept
  <2>1. KeysTyped' /\ KeysKept /\ DOMAIN apiKeys' = DOMAIN apiKeys
    BY <1>2, <1>5 DEF KeyRunsOut
  <2>2. task' = task /\ tasks' = tasks
    BY <1>5 DEF KeyRunsOut
  <2>3. TasksTyped'
    BY <1>1, <2>1, <2>2 DEF AllTyped, TasksTyped, TaskKnows
  <2> QED
    BY <2>1, <2>3
<1> QED
  BY <1>1, <1>4, <1>5

LEMMA PostStep ==
    ASSUME AllTyped, UNCHANGED pvars, NEW w \in Writers, StorePost(w)
    PROVE  /\ TasksTyped' /\ KeysTyped' /\ apiKeys' = apiKeys
           /\ \A post \in posts' : post \in posts \/ post.by \in verified
<1>1. verified' = verified /\ apiKeys' = apiKeys
  BY DEF pvars, avars, accountRow, StorePost
<1>2. PICK p : p = task[w].p
  OBVIOUS
<1>3. PICK k : k = task[w].k
  OBVIOUS
<1>4. p \in verified /\ p \in People /\ (k # 0 => k \in DOMAIN apiKeys)
  BY <1>2, <1>3 DEF AllTyped, TasksTyped, TaskKnows, StorePost, AtTask
<1>5. PICK late : late = (k # 0 /\ ~apiKeys[k].live)
  OBVIOUS
<1>6. late \in BOOLEAN
  BY <1>5
<1>7. posts' = posts \/ posts' = posts \cup {[by |-> p, late |-> late]}
  BY <1>2, <1>3, <1>5 DEF StorePost
<1>8. [by |-> p, late |-> late] \in Post
  BY <1>4, <1>6 DEF Post
<1>9. KeysTyped'
  BY <1>1, <1>7, <1>8 DEF AllTyped, KeysTyped
<1>10. TasksTyped'
  BY <1>1, TaskEnds DEF StorePost, AllTyped
<1> QED
  BY <1>1, <1>4, <1>7, <1>9, <1>10

LEMMA AccountMovesKeys ==
    ASSUME AllTyped, Grows, AccountMoves
    PROVE  TasksTyped' /\ KeysTyped' /\ posts' = posts /\ KeysKept
<1>1. verified \subseteq verified' /\ posts' = posts /\ task' = task /\ tasks' = tasks
  BY DEF Grows, AccountsGrow, AccountMoves
<1>2. PICK gone : gone = exists \ exists'
  OBVIOUS
<1>3. apiKeys' = KeysSurvive(gone)
  BY <1>2 DEF AccountMoves
<1>4. \A k \in DOMAIN apiKeys : apiKeys[k] \in Key
  BY KeyRow DEF AllTyped
<1>5. /\ apiKeys' = [k \in DOMAIN apiKeys |-> apiKeys'[k]]
      /\ \A k \in DOMAIN apiKeys : /\ apiKeys'[k] \in Key /\ apiKeys'[k].of = apiKeys[k].of
                                   /\ apiKeys'[k].live => apiKeys[k].live /\ apiKeys[k].of \notin gone
  BY <1>3, <1>4 DEF KeysSurvive, Key
<1>6. apiKeys' \in Seq(Key)
  BY <1>5, MappedRows DEF AllTyped, KeysTyped
<1>7. KeysKept /\ DOMAIN apiKeys' = DOMAIN apiKeys
  BY <1>2, <1>5 DEF KeysKept
<1>8. ASSUME NEW w \in Writers PROVE TaskKnows(task[w])'
  <2>1. PICK rec : rec = task[w]
    OBVIOUS
  <2>2. TaskKnows(rec)
    BY <2>1 DEF AllTyped, TasksTyped
  <2>3. TaskKnows(rec)'
    BY <1>1, <1>7, <2>2, StillTaskKnows
  <2> QED
    BY <1>1, <2>1, <2>3 DEF TaskKnows
<1> QED
  BY <1>1, <1>6, <1>7, <1>8 DEF AllTyped, KeysTyped, TasksTyped

LEMMA AllTypedInit == ApiKeysInit => AllTyped
<1> SUFFICES ASSUME ApiKeysInit PROVE KeysTyped /\ TasksTyped
  BY TypedInit DEF ApiKeysInit, AllTyped
<1>1. KeysTyped
  BY ApiKeysAssumption DEF ApiKeysInit, KeysTyped
<1>2. TasksTyped
  BY IdleTaskType DEF ApiKeysInit, TasksTyped
<1> QED
  BY <1>1, <1>2

\* A step keeps the types; it moves keys and contributions only so far.
PostsKept == \A post \in posts' : post \in posts \/ post.by \in verified
LEMMA KeysNext ==
    ASSUME AllTyped, [ApiKeysNext]_wvars
    PROVE  /\ AllTyped' /\ verified \subseteq verified' /\ PostsKept
           /\ KeysKept \/ \E p \in People : KeyMinted(p)
<1>1. [PasskeysNext]_pvars
  BY DEF ApiKeysNext, AccountMoves, wvars
<1>2. Typed' /\ Grows /\ verified \subseteq verified'
  BY <1>1, TypedNext DEF AllTyped, Grows, AccountsGrow
<1>3. CASE UNCHANGED wvars
  <2>1. KeysTyped' /\ TasksTyped'
    BY <1>3 DEF wvars, kvars, pvars, avars, accountRow, AllTyped, KeysTyped, TasksTyped, TaskKnows
  <2>2. PostsKept /\ KeysKept
    BY <1>3 DEF wvars, kvars, pvars, avars, accountRow, PostsKept, KeysKept
  <2> QED
    BY <1>2, <2>1, <2>2 DEF AllTyped
<1>4. CASE AccountMoves
  BY <1>2, <1>4, AccountMovesKeys DEF AllTyped, PostsKept
<1>5. ASSUME KeyStep, UNCHANGED pvars
      PROVE  TasksTyped' /\ KeysTyped' /\ PostsKept /\ (KeysKept \/ \E p \in People : KeyMinted(p))
  <2>0. exists' = exists
    BY <1>5 DEF pvars, avars, accountRow
  <2>1. ASSUME apiKeys' = apiKeys PROVE KeysKept
    BY <2>0, <2>1 DEF KeysKept
  <2>2. ASSUME NEW w \in Writers, MintKey(w)
        PROVE  TasksTyped' /\ KeysTyped' /\ PostsKept /\ (KeysKept \/ \E p \in People : KeyMinted(p))
    BY <1>5, <2>2, MintStep DEF PostsKept
  <2>3. ASSUME NEW w \in Writers, StorePost(w) PROVE TasksTyped' /\ KeysTyped' /\ PostsKept /\ KeysKept
    BY <1>5, <2>1, <2>3, PostStep DEF PostsKept
  <2>4. ASSUME \/ \E w \in Writers : RevokeKey(w)
               \/ \E k \in DOMAIN apiKeys : KeyRunsOut(k)
        PROVE  TasksTyped' /\ KeysTyped' /\ PostsKept /\ KeysKept
    BY <1>5, <2>4, DeathSteps DEF PostsKept
  <2>5. ASSUME NEW w \in Writers,
               \/ CheckVerified(w) \/ FailTask(w)
               \/ \E p \in People : BeginMint(w, p) \/ BeginPost(w, p)
               \/ \E p \in People, k \in DOMAIN apiKeys : BeginRevoke(w, p, k)
               \/ \E k \in DOMAIN apiKeys : PresentKey(w, k)
        PROVE  TasksTyped' /\ KeysTyped' /\ PostsKept /\ KeysKept
    BY <1>5, <2>1, <2>5, GateSteps DEF PostsKept
  <2> QED
    BY <1>5, <2>2, <2>3, <2>4, <2>5 DEF KeyStep
<1> QED
  BY <1>2, <1>3, <1>4, <1>5 DEF ApiKeysNext, AllTyped

\* ApiKeysTypeOK holds in every reachable state: accounts, keys, contributions and every
\* request in flight.
THEOREM ApiKeysTypeCorrect == ApiKeysSpec => []ApiKeysTypeOK
<1>1. AllTyped => ApiKeysTypeOK
  BY DEF AllTyped, Typed, RowsTyped, AccountRows, KeyRows, CallsTyped, PasskeysTypeOK, AccountsTypeOK,
         KeysTyped, TasksTyped, ApiKeysTypeOK
<1>2. AllTyped /\ [ApiKeysNext]_wvars => AllTyped'
  BY KeysNext
<1> QED
  BY <1>1, <1>2, AllTypedInit, PTL DEF ApiKeysSpec
-----------------------------------------------------------------------------
(* What the gate promises.                                                 *)

LEMMA OnlyVerifiedInit == ApiKeysInit => OnlyVerifiedWrite
BY ApiKeysAssumption, AccountsAssumption DEF ApiKeysInit, PasskeysInit, Init, OnlyVerifiedWrite

\* A key that works belongs to an account that is there and verified, and nothing is
\* contributed in the name of one that is not, whatever happens between the gate and the
\* statement it lets through (requireWriteAuth, createApiKey).
THEOREM VerifiedWritersOnly == ApiKeysSpec => []OnlyVerifiedWrite
<1>1. ASSUME AllTyped, [ApiKeysNext]_wvars, OnlyVerifiedWrite PROVE OnlyVerifiedWrite'
  <2>1. verified \subseteq verified' /\ PostsKept /\ (KeysKept \/ \E p \in People : KeyMinted(p))
    BY <1>1, KeysNext
  <2>2. \A post \in posts' : post.by \in verified'
    BY <1>1, <2>1 DEF PostsKept, OnlyVerifiedWrite
  <2>3. CASE KeysKept
    BY <1>1, <2>1, <2>2, <2>3 DEF KeysKept, OnlyVerifiedWrite
  <2>4. ASSUME NEW p \in People, KeyMinted(p) PROVE OnlyVerifiedWrite'
    <3>1. PICK row : row = [of |-> p, live |-> TRUE]
      OBVIOUS
    <3>2. row \in Key /\ row.of = p
      BY <3>1 DEF Key
    <3>3. /\ DOMAIN apiKeys' = DOMAIN apiKeys \cup {Len(apiKeys) + 1}
          /\ \A k \in DOMAIN apiKeys : apiKeys'[k] = apiKeys[k]
          /\ apiKeys'[Len(apiKeys) + 1] = row
      BY <1>1, <2>4, <3>1, <3>2, AddedRow DEF KeyMinted, AllTyped, KeysTyped
    <3> QED
      BY <1>1, <2>2, <2>4, <3>2, <3>3 DEF KeyMinted, OnlyVerifiedWrite
  <2> QED
    BY <2>1, <2>3, <2>4
<1>2. AllTyped /\ OnlyVerifiedWrite /\ [ApiKeysNext]_wvars => (AllTyped /\ OnlyVerifiedWrite)'
  BY <1>1, KeysNext
<1> QED
  BY <1>2, AllTypedInit, OnlyVerifiedInit, PTL DEF ApiKeysSpec

LEMMA KeysFinite ==
    ASSUME KeysTyped, NEW p
    PROVE  IsFiniteSet(KeysOf(apiKeys, p)) /\ Cardinality(KeysOf(apiKeys, p)) \in Nat
<1>1. Len(apiKeys) \in Nat /\ DOMAIN apiKeys = 1..Len(apiKeys)
  BY LenProperties DEF KeysTyped
<1>2. IsFiniteSet(1..Len(apiKeys))
  BY <1>1, FS_Interval
<1>3. KeysOf(apiKeys, p) \subseteq 1..Len(apiKeys)
  BY <1>1 DEF KeysOf
<1> QED
  BY <1>2, <1>3, FS_Subset, FS_CardinalityType

\* No account has more keys that work than the cap: the count and the insert are one
\* statement, and nothing else revives a key (createApiKey).
THEOREM CapHolds == ApiKeysSpec => []KeysWithinCap
<1>1. ApiKeysInit => KeysWithinCap
  BY ApiKeysAssumption DEF ApiKeysInit, KeysWithinCap
<1>2. ASSUME AllTyped, [ApiKeysNext]_wvars, KeysWithinCap PROVE KeysWithinCap'
  <2>1. KeysTyped /\ KeysTyped' /\ (KeysKept \/ \E p \in People : KeyMinted(p))
    BY <1>2, KeysNext DEF AllTyped
  <2>2. MaxActive \in Nat
    BY ApiKeysAssumption
  <2>3. ASSUME KeysKept, NEW p \in People PROVE Cardinality(KeysOf(apiKeys', p)) <= MaxActive
    <3>1. KeysOf(apiKeys', p) \subseteq KeysOf(apiKeys, p)
      BY <2>3 DEF KeysKept, KeysOf
    <3>2. PICK old, new : old = KeysOf(apiKeys, p) /\ new = KeysOf(apiKeys', p)
      OBVIOUS
    <3>3. IsFiniteSet(old) /\ Cardinality(old) \in Nat
      BY <2>1, <3>2, KeysFinite
    <3>4. IsFiniteSet(new) /\ Cardinality(new) <= Cardinality(old) /\ Cardinality(new) \in Nat
      BY <3>1, <3>2, <3>3, FS_Subset, FS_CardinalityType
    <3> QED
      BY <1>2, <2>2, <3>2, <3>3, <3>4 DEF KeysWithinCap
  <2>4. ASSUME NEW q \in People, KeyMinted(q), NEW p \in People
        PROVE  Cardinality(KeysOf(apiKeys', p)) <= MaxActive
    <3>1. PICK row : row = [of |-> q, live |-> TRUE]
      OBVIOUS
    <3>2. row \in Key /\ row.of = q /\ row.live
      BY <3>1 DEF Key
    <3>3. PICK n : n = Len(apiKeys) + 1
      OBVIOUS
    <3>4. /\ n \notin DOMAIN apiKeys /\ DOMAIN apiKeys' = DOMAIN apiKeys \cup {n}
          /\ \A k \in DOMAIN apiKeys : apiKeys'[k] = apiKeys[k]
          /\ apiKeys'[n] = row
      BY <2>1, <2>4, <3>1, <3>2, <3>3, AddedRow DEF KeyMinted, KeysTyped
    <3>5. PICK old, new : old = KeysOf(apiKeys, p) /\ new = KeysOf(apiKeys', p)
      OBVIOUS
    <3>6. IsFiniteSet(old) /\ Cardinality(old) \in Nat /\ Cardinality(old) <= MaxActive
      BY <1>2, <2>1, <3>5, KeysFinite DEF KeysWithinCap
    <3>7. CASE p = q
      <4>1. new = old \cup {n} /\ n \notin old
        BY <3>2, <3>4, <3>5, <3>7 DEF KeysOf
      <4>2. Cardinality(new) = Cardinality(old) + 1
        BY <3>6, <4>1, FS_AddElement
      <4>3. Cardinality(old) < MaxActive
        BY <2>4, <3>5, <3>7 DEF KeyMinted, Room
      <4> QED
        BY <2>2, <3>5, <3>6, <4>2, <4>3
    <3>8. CASE p # q
      <4>1. new = old
        BY <3>2, <3>4, <3>5, <3>8 DEF KeysOf
      <4> QED
        BY <3>5, <3>6, <4>1
    <3> QED
      BY <3>7, <3>8
  <2> QED
    BY <2>1, <2>3, <2>4 DEF KeysWithinCap
<1>3. AllTyped /\ KeysWithinCap /\ [ApiKeysNext]_wvars => (AllTyped /\ KeysWithinCap)'
  BY <1>2, KeysNext
<1> QED
  BY <1>1, <1>3, AllTypedInit, PTL DEF ApiKeysSpec
=============================================================================
