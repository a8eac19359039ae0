------------------------------ MODULE AuthMail ------------------------------
(***************************************************************************)
(* Mail that carries a verification or reset link: admission by a row of     *)
(* the send log, the mint of the link, the provider's answer and the         *)
(* settlement of the row (db/mailer.ts, the register, resend and             *)
(* reset-request routes).  A request is a slot; each step is one call.       *)
(*                                                                         *)
(* Simplifications:                                                        *)
(*  - the cap on the registrations of one address is one statement and is   *)
(*    left out, and so is the erasure of an account that registers here;     *)
(*  - a configuration that is missing fails like a refusal of the provider; *)
(*  - a statement that throws has not landed, and why it throws is left open;*)
(*  - a request that dies leaves what it wrote and runs no handler.         *)
(***************************************************************************)
EXTENDS Naturals, Sequences, FiniteSets

CONSTANTS
    Members,          \* accounts there from the start
    Newcomers,        \* accounts that may register
    Callers,          \* slots for requests in flight together
    NoAccount,
    Limit, Window,    \* mails per account and the time they count for
    Lifetime,         \* time a request may be in flight at most
    SweepAge,         \* age at which retention deletes a row of the send log
    MaxClock, MaxCalls

People == Members \cup Newcomers
Purposes == {"verify", "reset"}

ASSUME AuthMailAssumption ==
    /\ Limit \in Nat \ {0} /\ Window \in Nat /\ SweepAge \in Nat /\ SweepAge >= Window
    /\ Lifetime \in Nat /\ MaxClock \in Nat /\ MaxCalls \in Nat
    /\ NoAccount \notin People /\ Members \cap Newcomers = {}

VARIABLES
    exists, verified,
    sendLog,          \* email_send_log
    links,            \* email_verification_tokens, oldest first
    mailed,           \* mails the provider delivered (history)
    unsure,           \* rows left by a crash or by an answer that says nothing (history)
    failed,           \* look-ups and releases that threw with no handler left (history)
    ids,              \* the last id given to a row
    call,             \* locals of the request in each slot
    clock, calls

mvars == <<exists, verified, sendLog, links, mailed, unsure, failed, ids, call, clock, calls>>

Row == [id : Nat, of : People, kind : Purposes, at : Nat]
Link == [of : People, kind : Purposes, state : {"live", "spent", "revoked", "gone"}]
PCs == {"idle", "session", "reserve", "mint", "give back", "find", "send", "release", "rethrow"}
Failure == [row : Nat, of : {"look-up", "release"}]
\* row is the reservation held, link the link minted.
Call == [pc : PCs, p : People \cup {NoAccount}, kind : Purposes, now : Nat,
         row : Nat, link : Nat, route : {"mail", "register"}]
IdleCall == [pc |-> "idle", p |-> NoAccount, kind |-> "verify", now |-> 0,
             row |-> 0, link |-> 0, route |-> "mail"]

MailTypeOK ==
    /\ exists \subseteq People /\ verified \subseteq People
    /\ sendLog \subseteq Row
    /\ links \in Seq(Link)
    /\ mailed \subseteq [row : Row, link : Nat] /\ unsure \subseteq Nat
    /\ failed \subseteq Failure
    /\ ids \in Nat /\ clock \in Nat /\ calls \in Nat
    /\ call \in [Callers -> Call]

Init ==
    /\ exists = Members /\ verified = {}
    /\ sendLog = {} /\ links = <<>> /\ mailed = {} /\ unsure = {} /\ failed = {}
    /\ ids = 0 /\ clock = 0 /\ calls = 0
    /\ call = [c \in Callers |-> IdleCall]

At(c, pc) == call[c].pc = pc
Goto(c, pc) == call' = [call EXCEPT ![c].pc = pc]
Return(c) == call' = [call EXCEPT ![c] = IdleCall]
Registers(c) == call[c].route = "register"
-----------------------------------------------------------------------------
(* The two ways in.                                                        *)

\* verify-email/resend of an account not verified yet, reset-password/request.
BeginSend(c, p, kind) ==
    /\ At(c, "idle") /\ calls < MaxCalls
    /\ p \in exists /\ (kind = "verify" => p \notin verified)
    /\ calls' = calls + 1
    /\ call' = [call EXCEPT ![c] = [IdleCall EXCEPT !.pc = "reserve", !.p = p,
                                                    !.kind = kind, !.now = clock]]
    /\ UNCHANGED <<exists, verified, sendLog, links, mailed, unsure, failed, ids, clock>>

\* createContributor, refused for an address that is taken.
BeginRegistration(c) ==
    /\ At(c, "idle") /\ calls < MaxCalls
    /\ calls' = calls + 1
    /\ \E p \in Newcomers \ exists :
         /\ exists' = exists \cup {p}
         /\ call' = [call EXCEPT ![c] = [IdleCall EXCEPT !.pc = "reserve", !.p = p, !.now = clock,
                                                         !.route = "register"]]
    /\ UNCHANGED <<verified, sendLog, links, mailed, unsure, failed, ids, clock>>
-----------------------------------------------------------------------------
(* One mail.                                                               *)

\* Mutant of Forgotten: the route still holds the reservation after the send.
Remembered(c) == call[c].row
\* The row a registration holds once its mail is settled: none.
Forgotten(c) == 0
\* Where a request goes on once its mail is settled.
Settled(c) ==
    IF Registers(c) THEN call' = [call EXCEPT ![c] = [@ EXCEPT !.pc = "session", !.row = Forgotten(c)]]
                    ELSE Return(c)
\* An exception leaves sendAuthEmail: the handler of the route gives the row back, but a
\* registration has forgotten it by then (its "finally") and ends.
Thrown(c) == IF Registers(c) THEN Return(c) ELSE Goto(c, "give back")
\* A call on the row of the request throws; noted if no handler is left that holds the row.
Fails(c, step) ==
    failed' = IF Registers(c) \/ At(c, "give back")
                THEN failed \cup {[row |-> call[c].row, of |-> step]} ELSE failed
\* createSession, the last call of a registration; the handler gives back what the
\* route still holds.
OpenSession(c) ==
    /\ At(c, "session")
    /\ (Return(c) \/ Goto(c, "give back"))
    /\ UNCHANGED <<exists, verified, sendLog, links, mailed, unsure, failed, ids, clock, calls>>

Recent(p, now) == {r \in sendLog : r.of = p /\ r.at + Window >= now}
\* Mutant of Admitted: the mails of the other purpose are not counted.
AdmittedByKind(p, kind, now) == Cardinality({r \in Recent(p, now) : r.kind = kind}) < Limit
Admitted(p, kind, now) == Cardinality(Recent(p, now)) < Limit
\* reserveAuthEmail: the count and the insert are one statement.  It throws for an account
\* that is gone, or for any other reason.
Reserve(c) ==
    LET p == call[c].p
        row == [id |-> ids + 1, of |-> p, kind |-> call[c].kind, at |-> call[c].now]
    IN  /\ At(c, "reserve")
        /\ \/ /\ p \in exists /\ Admitted(p, call[c].kind, call[c].now)
              /\ sendLog' = sendLog \cup {row} /\ ids' = ids + 1
              /\ call' = [call EXCEPT ![c] = [@ EXCEPT !.pc = "mint", !.row = ids + 1]]
           \/ /\ p \in exists /\ ~Admitted(p, call[c].kind, call[c].now)
              /\ Settled(c) /\ UNCHANGED <<sendLog, ids>>
           \/ Return(c) /\ UNCHANGED <<sendLog, ids>>
        /\ UNCHANGED <<exists, verified, links, mailed, unsure, failed, clock, calls>>

Revoked(p, kind) ==
    [i \in DOMAIN links |-> IF links[i].of = p /\ links[i].kind = kind /\ links[i].state = "live"
                              THEN [links[i] EXCEPT !.state = "revoked"] ELSE links[i]]
\* createVerificationToken; a mint that throws gives the reservation back.
Mint(c) ==
    LET p == call[c].p
        kind == call[c].kind
    IN  /\ At(c, "mint")
        /\ \/ /\ p \in exists
              /\ links' = Append(Revoked(p, kind), [of |-> p, kind |-> kind, state |-> "live"])
              /\ call' = [call EXCEPT ![c] = [@ EXCEPT !.pc = "find", !.link = Len(links) + 1]]
           \/ Goto(c, "give back") /\ UNCHANGED links
        /\ UNCHANGED <<exists, verified, sendLog, mailed, unsure, failed, ids, clock, calls>>

Given(row) == {r \in sendLog : r.id # row}
\* The handler of the route. A release that throws leaves the row.
GiveBack(c) ==
    /\ At(c, "give back")
    /\ \/ sendLog' = Given(call[c].row) /\ UNCHANGED failed
       \/ call[c].row # 0 /\ Fails(c, "release") /\ UNCHANGED sendLog
    /\ Return(c)
    /\ UNCHANGED <<exists, verified, links, mailed, unsure, ids, clock, calls>>

Held(c) == {r \in sendLog : r.id = call[c].row /\ r.of = call[c].p /\ r.kind = call[c].kind}
\* sendAuthEmail starts by looking its reservation up, before the "try" that gives it back.
FindReservation(c) ==
    /\ At(c, "find")
    /\ \/ Held(c) # {} /\ Goto(c, "send") /\ UNCHANGED failed
       \/ Held(c) = {} /\ Settled(c) /\ UNCHANGED failed
       \/ Thrown(c) /\ Fails(c, "look-up")
    /\ UNCHANGED <<exists, verified, sendLog, links, mailed, unsure, ids, clock, calls>>

\* Mutant of Releasing: an answer that says nothing gives the row back too.
AnyRefusal(answer) == answer \in {"refused", "unsure"}
\* Only an answer that rules the delivery out gives the row back.
Releasing(answer) == answer = "refused"
\* The mail is rendered, which may throw, and sent; it can be out although the answer was lost.
SendMail(c) ==
    LET mail == [row |-> [id |-> call[c].row, of |-> call[c].p, kind |-> call[c].kind,
                          at |-> call[c].now],
                 link |-> call[c].link]
    IN  /\ At(c, "send")
        /\ \/ Goto(c, "rethrow") /\ UNCHANGED <<mailed, unsure>>
           \/ \E answer \in {"accepted", "refused", "unsure"} :
                /\ \/ answer # "refused" /\ mailed' = mailed \cup {mail}
                   \/ answer # "accepted" /\ UNCHANGED mailed
                /\ unsure' = IF answer = "unsure" THEN unsure \cup {call[c].row} ELSE unsure
                /\ (IF Releasing(answer) THEN Goto(c, "release") ELSE Settled(c))
        /\ UNCHANGED <<exists, verified, sendLog, links, failed, ids, clock, calls>>

\* releaseEmailReservation inside sendAuthEmail: after a refusal the handler there follows a
\* release that throws, after a missing configuration none does.
Release(c) ==
    /\ At(c, "release")
    /\ \/ sendLog' = Given(call[c].row) /\ Settled(c) /\ UNCHANGED failed
       \/ Goto(c, "rethrow") /\ UNCHANGED <<sendLog, failed>>
       \/ Thrown(c) /\ Fails(c, "release") /\ UNCHANGED sendLog
    /\ UNCHANGED <<exists, verified, links, mailed, unsure, ids, clock, calls>>

\* The handler inside sendAuthEmail gives the row back and throws again.
Rethrow(c) ==
    /\ At(c, "rethrow")
    /\ \/ sendLog' = Given(call[c].row) /\ UNCHANGED failed
       \/ Fails(c, "release") /\ UNCHANGED sendLog
    /\ Thrown(c)
    /\ UNCHANGED <<exists, verified, links, mailed, unsure, ids, clock, calls>>

\* The worker dies: nothing after this point of the request happens.
Die(c) ==
    /\ ~At(c, "idle")
    /\ unsure' = IF call[c].row = 0 THEN unsure ELSE unsure \cup {call[c].row}
    /\ Return(c)
    /\ UNCHANGED <<exists, verified, sendLog, links, mailed, failed, ids, clock, calls>>
-----------------------------------------------------------------------------
(* Around the requests.                                                    *)

\* A link is used by its owner.
UseLink(i) ==
    /\ links[i].state = "live" /\ links[i].of \in exists
    /\ \E m \in mailed : m.link = i
    /\ links' = [links EXCEPT ![i].state = "spent"]
    /\ verified' = IF links[i].kind = "verify" THEN verified \cup {links[i].of} ELSE verified
    /\ UNCHANGED <<exists, sendLog, mailed, unsure, failed, ids, call, clock, calls>>

\* The account's rows go with it.
Erase(p) ==
    /\ p \in exists /\ p \in Members
    /\ exists' = exists \ {p}
    /\ sendLog' = {r \in sendLog : r.of # p}
    /\ links' = [i \in DOMAIN links |-> IF links[i].of = p THEN [links[i] EXCEPT !.state = "gone"]
                                                           ELSE links[i]]
    /\ UNCHANGED <<verified, mailed, unsure, failed, ids, call, clock, calls>>

\* R18 of the retention sweep.
SweepLog ==
    /\ \E r \in sendLog : r.at + SweepAge < clock
    /\ sendLog' = {r \in sendLog : r.at + SweepAge >= clock}
    /\ UNCHANGED <<exists, verified, links, mailed, unsure, failed, ids, call, clock, calls>>

\* A request in flight is cut off before it is older than Lifetime.
Tick ==
    /\ clock < MaxClock
    /\ \A c \in Callers : At(c, "idle") \/ clock < call[c].now + Lifetime
    /\ clock' = clock + 1
    /\ UNCHANGED <<exists, verified, sendLog, links, mailed, unsure, failed, ids, call, calls>>

CallStep(c) ==
    \/ \E p \in People, kind \in Purposes : BeginSend(c, p, kind)
    \/ BeginRegistration(c) \/ OpenSession(c)
    \/ Reserve(c) \/ Mint(c) \/ GiveBack(c) \/ FindReservation(c) \/ SendMail(c) \/ Release(c)
    \/ Rethrow(c) \/ Die(c)

Next ==
    \/ \E c \in Callers : CallStep(c)
    \/ \E i \in DOMAIN links : UseLink(i)
    \/ \E p \in People : Erase(p)
    \/ SweepLog \/ Tick

Spec == Init /\ [][Next]_mvars
-----------------------------------------------------------------------------
(* Properties.                                                             *)

\* Whatever requests race, no stretch of one window holds more rows of an account
\* than its budget, however late a row with an older time lands: the admission of
\* reserveAuthEmail.
LogWithinBudget ==
    \A p \in People, t \in 0..clock :
        Cardinality({r \in sendLog : r.of = p /\ t <= r.at /\ r.at <= t + Window}) <= Limit

\* The last call that could give a row back threw: the one in the handler of the route, or
\* one that left sendAuthEmail in a registration, whose handler has no row to give back.
Abandoned(failures, id) == \E f \in failures : f.row = id

\* A row stands for something: its request still runs, its mail is out, or nobody can
\* tell; else the last call that could have given it back threw. A mail that is out keeps its
\* row for as long as it counts (settlement of the reservation in sendAuthEmail and in the
\* handlers of the three routes).
RowsStandForMail ==
    /\ \A r \in sendLog :
        \/ \E c \in Callers : call[c].row = r.id
        \/ \E m \in mailed : m.row.id = r.id
        \/ r.id \in unsure
        \/ Abandoned(failed, r.id)
    /\ \A m \in mailed :
        (m.row.of \in exists /\ m.row.at + Window >= clock) => m.row \in sendLog

\* While the mail of a link counts against the budget, no other request of the account
\* revokes that link: a request that lost the admission mints nothing.
DeliveredLinkLives ==
    \A m \in mailed : links[m.link].state = "revoked" => m.row.at + Window < clock
-----------------------------------------------------------------------------
(* What the comments say and a failed look-up refutes.                      *)

\* "the catch below covers ONLY token-mint / pre-send exceptions" (register/route.ts): as
\* long as no release throws, whatever throws before the send gives the row back.
PreSendGivesBack ==
    \A r \in sendLog :
        \/ \E c \in Callers : call[c].row = r.id
        \/ \E m \in mailed : m.row.id = r.id
        \/ r.id \in unsure
        \/ [row |-> r.id, of |-> "release"] \in failed
=============================================================================
