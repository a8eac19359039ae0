------------------------------ MODULE Passkeys ------------------------------
(***************************************************************************)
(* Passkeys and recovery codes next to the other ways into an account:      *)
(* enrolment, sign-in with an assertion, redemption of a code               *)
(* (db/passkeys.ts, app/api/auth/passkey, app/api/auth/recovery).           *)
(*                                                                         *)
(* An account has at most one passkey here. Its authenticator counts the     *)
(* assertions it makes: assertion n carries the counter n and answers a       *)
(* challenge of its own. What the signature proves is taken for granted.     *)
(***************************************************************************)
EXTENDS Accounts

CONSTANTS
    InitialPasskeys,  \* accounts with a passkey at the start
    InitialCodes,     \* recovery codes at the start
    MaxAssertions,    \* made at most, by each authenticator
    CodeCount         \* RECOVERY_CODE_COUNT

Code == [of : People, state : {"live", "spent", "revoked"}]

ASSUME PasskeysAssumption ==
    /\ InitialPasskeys \subseteq Registered /\ InitialCodes \in Seq(Code)
    /\ \A k \in DOMAIN InitialCodes : InitialCodes[k].of \in Registered
    /\ MaxAssertions \in Nat /\ CodeCount \in Nat

VARIABLES
    enrolled,         \* accounts with a row in passkeys
    counter,          \* its signature counter
    answered,         \* challenges consumed: the assertions that answered them
    accepted,         \* highest counter ever accepted (history)
    codes             \* recovery_codes

keyRows == <<enrolled, counter, answered, accepted, codes>>
pvars == <<avars, keyRows>>

PasskeysTypeOK ==
    /\ AccountsTypeOK
    /\ enrolled \subseteq People
    /\ counter \in [People -> Nat] /\ accepted \in [People -> Nat]
    /\ answered \subseteq People \X Nat
    /\ codes \in Seq(Code)

PasskeysInit ==
    /\ Init
    /\ enrolled = InitialPasskeys
    /\ counter = [p \in People |-> 0] /\ accepted = [p \in People |-> 0]
    /\ answered = {}
    /\ codes = InitialCodes

\* What the steps below leave to the accounts alone.
accountRest == <<accountRow, sessions, links, merges, attempts, misses>>
-----------------------------------------------------------------------------
(* Sign-in with a passkey.                                                 *)

\* consumeWebAuthnChallenge: one conditional statement.
Unanswered(p, n) == <<p, n>> \notin answered
PresentAssertion(c, p, n) ==
    /\ p \in enrolled
    /\ Begin(c, "passkey",
             IF Unanswered(p, n) THEN [IdleCall EXCEPT !.pc = "assert", !.p = p, !.n = n,
                                                       !.via = "passkey"]
                                 ELSE IdleCall)
    /\ answered' = answered \cup {<<p, n>>}
    /\ UNCHANGED <<accountRest, enrolled, counter, accepted, codes>>

\* findPasskeyByCredentialId, then isCounterAdvancementOk on the counter it returned.
Advances(n, stored) == n > stored \/ (n = 0 /\ stored = 0)
CheckAssertion(c) ==
    LET p == call[c].p IN
    /\ At(c, "assert")
    /\ IF p \in enrolled /\ Advances(call[c].n, counter[p]) THEN Goto(c, "advance") ELSE Return(c)
    /\ UNCHANGED <<accountRest, calls, keyRows>>

\* updatePasskeyCounter writes the value whatever the row holds by now.
AdvanceCounter(c) ==
    LET p == call[c].p
        n == call[c].n
    IN  /\ At(c, "advance")
        /\ counter' = IF p \in enrolled THEN [counter EXCEPT ![p] = n] ELSE counter
        /\ accepted' = [accepted EXCEPT ![p] = IF n > @ THEN n ELSE @]
        /\ Goto(c, "profile")
        /\ UNCHANGED <<accountRest, calls, enrolled, answered, codes>>

\* getContributorById, then the gate.
ReadProfile(c) ==
    LET p == call[c].p IN
    /\ At(c, "profile")
    /\ IF p \in exists /\ SessionGate(p) THEN Goto(c, "open") ELSE Return(c)
    /\ UNCHANGED <<accountRest, calls, keyRows>>
-----------------------------------------------------------------------------
(* Recovery codes.                                                         *)

BeginRecovery(c, k) ==
    /\ codes[k].of \in exists
    /\ Begin(c, "recovery", [IdleCall EXCEPT !.pc = "redeem", !.n = k, !.p = codes[k].of,
                                             !.via = "recovery"])
    /\ UNCHANGED <<accountRest, keyRows>>

\* Mutant of Redeemable: the update is not conditional.
AnyCode(k) == TRUE
\* consumeRecoveryCode: one conditional statement.
Redeemable(k) == codes[k].state = "live"
RedeemCode(c) ==
    LET k == call[c].n IN
    /\ At(c, "redeem")
    /\ \/ /\ Redeemable(k)
          /\ codes' = [codes EXCEPT ![k].state = "spent"]
          /\ Goto(c, "profile")
       \/ ~Redeemable(k) /\ Return(c) /\ UNCHANGED codes
    /\ UNCHANGED <<accountRest, calls, enrolled, counter, answered, accepted>>

BeginEnroll(c, p) ==
    /\ Holds(p)
    /\ Begin(c, "enroll", [IdleCall EXCEPT !.pc = "store", !.p = p])
    /\ UNCHANGED <<accountRest, keyRows>>

\* createPasskey: credential_id is unique, a second enrolment of it is refused.
StorePasskey(c) ==
    LET p == call[c].p IN
    /\ At(c, "store")
    /\ IF p \in enrolled \/ ~KeyHeld(p)
         THEN Return(c) /\ UNCHANGED <<enrolled, counter, accepted>>
         ELSE /\ enrolled' = enrolled \cup {p}
              /\ counter' = [counter EXCEPT ![p] = 0]
              /\ accepted' = [accepted EXCEPT ![p] = 0]
              /\ Goto(c, "drop")
    /\ UNCHANGED <<accountRest, calls, answered, codes>>

\* issueRecoveryCodes: the unused codes go, then new ones are stored one by one.
Unused(p) == {k \in DOMAIN codes : codes[k].of = p /\ codes[k].state = "live"}
CodesDropped(p) == [k \in DOMAIN codes |-> IF k \in Unused(p)
                                            THEN [codes[k] EXCEPT !.state = "revoked"] ELSE codes[k]]
DropCodes(c) ==
    /\ At(c, "drop")
    /\ codes' = CodesDropped(call[c].p)
    /\ call' = [call EXCEPT ![c] = [@ EXCEPT !.pc = "issue", !.n = CodeCount]]
    /\ UNCHANGED <<accountRest, calls, enrolled, counter, answered, accepted>>
IssueCode(c) ==
    LET p == call[c].p IN
    /\ At(c, "issue")
    /\ IF call[c].n = 0 \/ ~KeyHeld(p)
         THEN Return(c) /\ UNCHANGED codes
         ELSE /\ codes' = Append(codes, [of |-> p, state |-> "live"])
              /\ call' = [call EXCEPT ![c] = [@ EXCEPT !.n = call[c].n - 1]]
    /\ UNCHANGED <<accountRest, calls, enrolled, counter, answered, accepted>>

\* deletePasskey, by a session of the account.
DeletePasskey(c, p) ==
    /\ Holds(p) /\ p \in enrolled
    /\ Begin(c, "unenroll", IdleCall)
    /\ enrolled' = enrolled \ {p}
    /\ UNCHANGED <<accountRest, counter, answered, accepted, codes>>
-----------------------------------------------------------------------------
\* Erasure takes the passkey and the codes with it, in its batch.
ErasedKeys ==
    LET gone == exists \ exists' IN
    /\ enrolled' = enrolled \ gone
    /\ codes' = [k \in DOMAIN codes |-> IF codes[k].of \in gone /\ codes[k].state = "live"
                                         THEN [codes[k] EXCEPT !.state = "revoked"] ELSE codes[k]]
    /\ UNCHANGED <<counter, answered, accepted>>

PasskeysNext ==
    \/ AccountStep /\ ErasedKeys
    \/ \E c \in Callers :
         \/ CheckAssertion(c) \/ AdvanceCounter(c) \/ ReadProfile(c) \/ RedeemCode(c)
         \/ StorePasskey(c) \/ DropCodes(c) \/ IssueCode(c)
         \/ \E p \in Registered, n \in 1..MaxAssertions : PresentAssertion(c, p, n)
         \/ \E k \in DOMAIN codes : BeginRecovery(c, k)
         \/ \E p \in Registered : BeginEnroll(c, p) \/ DeletePasskey(c, p)

PasskeysSpec == PasskeysInit /\ [][PasskeysNext]_pvars

\* Erasure leaves no passkey and no code that works either.
ErasedHoldsNoKey ==
    /\ ErasedHoldsNothing
    /\ enrolled \subseteq exists
    /\ \A k \in DOMAIN codes : codes[k].state = "live" => codes[k].of \in exists

(* Promised, and broken.                                                   *)

\* "The login route enforces a strict increase" (updatePasskeyCounter, db/passkeys.ts):
\* the stored counter is the highest one accepted, so an older assertion is refused.
CounterIsHighest == \A p \in enrolled : accepted[p] <= counter[p]

\* "Any previous UNUSED codes are revoked first" (issueRecoveryCodes): an account has
\* the codes of one batch at most.
OneBatchOfCodes == \A p \in People : Cardinality(Unused(p)) <= CodeCount
=============================================================================
