------------------------------ MODULE Accounts ------------------------------
(***************************************************************************)
(* How accounts are entered and left: login with its lockout, reset and     *)
(* verification links, sign-in with an external identity and its merge into *)
(* an existing account, logout and erasure (db/auth.ts, db/oidc.ts and the  *)
(* routes of app/api/auth).                                                *)
(*                                                                         *)
(* Every request is a slot that makes one database call a step.             *)
(*                                                                         *)
(* Simplifications:                                                        *)
(*  - a password is the number of resets before it: secret[p] is right, the  *)
(*    earlier ones and Wrong are not;                                       *)
(*  - time is what it does: a link expires, a lock runs out, a counting      *)
(*    window rolls over. How long a lock lasts is not modelled;              *)
(*  - rate limits per address, mail and CSRF tokens decide nothing here;     *)
(*  - an erased account does not register again.                            *)
(***************************************************************************)
EXTENDS Naturals, Sequences, FiniteSets, SequencesExt

CONSTANTS
    Registered,       \* accounts with an e-mail address and a password
    Identities,       \* subjects at the external providers
    NoIdentity,
    InitiallyVerified,
    InitialLinks,     \* links mailed when the model starts
    InitialMerges,    \* merge requests pending when the model starts
    Kinds,            \* requests offered
    Callers,          \* slots for requests in flight together
    MaxCalls,         \* requests begun at most, over a behaviour
    MaxAttempts       \* failed logins that lock an account

\* An identity that matches no account gets an account of its own, named after it.
People == Registered \cup Identities
NoPerson == NoIdentity
AllKinds == {"login", "request", "reset", "verify", "callback", "merge", "logout", "erase",
             "enroll", "unenroll", "passkey", "recovery"}
Purposes == {"verify", "reset"}
\* What became of a link: used_at is set by its use and by the mint of a newer one.
LinkStates == {"live", "spent", "revoked", "expired"}
Link == [of : People, purpose : Purposes, state : LinkStates]
\* by is the account whose password was shown when the merge was completed.
Merge == [of : Registered, identity : Identities, live : BOOLEAN, by : People \cup {NoPerson}]
Means == {"register", "password", "oidc", "merge", "passkey", "recovery"}
\* secret is the password that was shown, cred the code, assertion or merge request.
Session == [of : People, via : Means, secret : Nat, cred : Nat, live : BOOLEAN]
\* login_attempts: fresh while a failure still counts on top of the ones before.
Attempts == [there : BOOLEAN, count : Nat, fresh : BOOLEAN, locked : BOOLEAN]
NoAttempts == [there |-> FALSE, count |-> 0, fresh |-> FALSE, locked |-> FALSE]

ASSUME AccountsAssumption ==
    /\ Registered \cap Identities = {} /\ NoIdentity \notin People
    /\ InitiallyVerified \subseteq Registered
    /\ IsFiniteSet(Registered)
    /\ InitialLinks \in Seq(Link) /\ InitialMerges \in Seq(Merge)
    /\ \A i \in DOMAIN InitialLinks : InitialLinks[i].of \in Registered
    /\ \A i, j \in DOMAIN InitialLinks :
         InitialLinks[i].of = InitialLinks[j].of /\ InitialLinks[i].purpose = InitialLinks[j].purpose
         => i = j
    /\ \A m \in DOMAIN InitialMerges : InitialMerges[m].by = NoPerson
    /\ Kinds \subseteq AllKinds /\ MaxCalls \in Nat /\ MaxAttempts \in Nat \ {0}

VARIABLES
    exists,           \* accounts whose row is there
    secret,           \* the password of each account
    verified,         \* accounts with email_verified_at set
    identity,         \* auth_provider and external_sub
    sessions, links, merges, attempts,
    misses,           \* failed logins recorded since the last success, lock or
                      \* quiet window (history)
    call,             \* locals of the request in each slot
    calls             \* begun so far (bound)

accountRow == <<exists, secret, verified, identity>>
avars == <<accountRow, sessions, links, merges, attempts, misses, call, calls>>

PCs == {"idle", "gate", "authenticate", "clear", "miss", "count", "link", "mint", "consume", "apply",
        "resolve", "ask", "create", "open", "erase", "assert", "advance", "profile", "redeem",
        "store", "drop", "issue"}
\* p is the account the request names or has resolved, guess the password it sent,
\* n the link, merge or session it presents, seen the row of login_attempts read.
Call == [pc : PCs, p : People \cup {NoPerson}, guess : Nat, n : Nat, id : Identities \cup {NoIdentity},
         via : Means, purpose : Purposes, seen : Attempts]
IdleCall == [pc |-> "idle", p |-> NoPerson, guess |-> 0, n |-> 0, id |-> NoIdentity,
             via |-> "password", purpose |-> "reset", seen |-> NoAttempts]

AccountsTypeOK ==
    /\ exists \subseteq People /\ verified \subseteq People
    /\ secret \in [People -> Nat]
    /\ identity \in [People -> Identities \cup {NoIdentity}]
    /\ sessions \in Seq(Session) /\ links \in Seq(Link) /\ merges \in Seq(Merge)
    /\ attempts \in [Registered -> Attempts] /\ misses \in [Registered -> Nat]
    /\ call \in [Callers -> Call] /\ calls \in Nat

\* Every account still has the session that its registration opened.
Init ==
    /\ exists = Registered /\ verified = InitiallyVerified
    /\ secret = [p \in People |-> 0]
    /\ identity = [p \in People |-> NoIdentity]
    /\ sessions = [i \in 1..Cardinality(Registered) |->
                     [of |-> SetToSeq(Registered)[i], via |-> "register", secret |-> 0,
                      cred |-> 0, live |-> TRUE]]
    /\ links = InitialLinks /\ merges = InitialMerges
    /\ attempts = [p \in Registered |-> NoAttempts]
    /\ misses = [p \in Registered |-> 0]
    /\ call = [c \in Callers |-> IdleCall]
    /\ calls = 0

At(c, pc) == call[c].pc = pc
Goto(c, pc) == call' = [call EXCEPT ![c].pc = pc]
Return(c) == call' = [call EXCEPT ![c] = IdleCall]
Begin(c, kind, locals) ==
    /\ kind \in Kinds /\ At(c, "idle") /\ calls < MaxCalls
    /\ calls' = calls + 1
    /\ call' = [call EXCEPT ![c] = locals]

\* Mutant of KeyHeld: foreign keys are not enforced.
NoKey(p) == TRUE
\* A row that references an account can only be stored while the account is there.
KeyHeld(p) == p \in exists
-----------------------------------------------------------------------------
(* Sessions.                                                               *)

\* createSession, the last call of every way in.
OpenSession(c) ==
    /\ At(c, "open")
    /\ sessions' = IF KeyHeld(call[c].p)
                     THEN Append(sessions, [of |-> call[c].p, via |-> call[c].via,
                                            secret |-> call[c].guess,
                                            cred |-> call[c].n, live |-> TRUE])
                     ELSE sessions
    /\ Return(c)
    /\ UNCHANGED <<accountRow, links, merges, attempts, misses, calls>>

EndSessions(p) ==
    [i \in DOMAIN sessions |-> IF sessions[i].of = p THEN [sessions[i] EXCEPT !.live = FALSE]
                                                     ELSE sessions[i]]
Holds(p) == \E i \in DOMAIN sessions : sessions[i].of = p /\ sessions[i].live

\* revokeSession: one conditional statement.
Logout(c, i) ==
    /\ sessions[i].live
    /\ Begin(c, "logout", IdleCall)
    /\ sessions' = [sessions EXCEPT ![i].live = FALSE]
    /\ UNCHANGED <<accountRow, links, merges, attempts, misses>>

\* Mutant of SessionGate: the gate is left out.
OpenGate(p) == TRUE
\* The gate shared by password, passkey and recovery sign-in.
SessionGate(p) == p \in verified
-----------------------------------------------------------------------------
(* Login and its lockout.                                                  *)

Wrong == MaxCalls + 1
Guesses(p) == 0..secret[p] \cup {Wrong}
BeginLogin(c, p, guess) ==
    /\ Begin(c, "login", [IdleCall EXCEPT !.pc = "gate", !.p = p, !.guess = guess])
    /\ UNCHANGED <<accountRow, sessions, links, merges, attempts, misses>>

\* getLoginLockout.
PassLockout(c) ==
    /\ At(c, "gate")
    /\ IF attempts[call[c].p].locked THEN Return(c) ELSE Goto(c, "authenticate")
    /\ UNCHANGED <<accountRow, sessions, links, merges, attempts, misses, calls>>

Right(c) == call[c].p \in exists /\ call[c].guess = secret[call[c].p]
\* Mutant of Entitled: any account's password completes the merge.
AnyOwner(c) == TRUE
\* A merge must also name the account that its request is pinned to.
Entitled(c) == call[c].via = "merge" => merges[call[c].n].of = call[c].p

\* authenticateContributor, then the gate of the login route; the merge route has none.
Authenticate(c) ==
    /\ At(c, "authenticate")
    /\ \/ Right(c) /\ Entitled(c) /\ (call[c].via = "merge" \/ SessionGate(call[c].p)) /\ Goto(c, "clear")
       \/ Right(c) /\ call[c].via = "password" /\ ~SessionGate(call[c].p) /\ Return(c)
       \/ ~(Right(c) /\ Entitled(c)) /\ Goto(c, "miss")
    /\ UNCHANGED <<accountRow, sessions, links, merges, attempts, misses, calls>>

\* clearLoginAttempts.
ClearAttempts(c) ==
    /\ At(c, "clear")
    /\ attempts' = [attempts EXCEPT ![call[c].p] = NoAttempts]
    /\ misses' = [misses EXCEPT ![call[c].p] = 0]
    /\ Goto(c, IF call[c].via = "merge" THEN "link" ELSE "open")
    /\ UNCHANGED <<accountRow, sessions, links, merges, calls>>

\* recordFailedLogin reads the row...
ReadAttempts(c) ==
    /\ At(c, "miss")
    /\ call' = [call EXCEPT ![c] = [@ EXCEPT !.pc = "count", !.seen = attempts[call[c].p]]]
    /\ UNCHANGED <<accountRow, sessions, links, merges, attempts, misses, calls>>

\* ... and writes what follows from it: the update touches no row that is gone.
Counted(seen, row) ==
    IF ~seen.there \/ ~seen.fresh THEN [NoAttempts EXCEPT !.there = TRUE, !.count = 1, !.fresh = TRUE]
    ELSE IF ~row.there THEN row
    ELSE IF seen.count + 1 < MaxAttempts THEN [row EXCEPT !.count = seen.count + 1]
    ELSE [row EXCEPT !.count = seen.count + 1, !.fresh = TRUE, !.locked = TRUE]
CountMiss(c) ==
    LET p == call[c].p
        row == Counted(call[c].seen, attempts[p])
    IN  /\ At(c, "count")
        /\ attempts' = [attempts EXCEPT ![p] = row]
        /\ misses' = [misses EXCEPT ![p] = IF row.locked THEN 0 ELSE @ + 1]
        /\ Return(c)
        /\ UNCHANGED <<accountRow, sessions, links, merges, calls>>

\* The lock ends before the window in which the next failure locks again does.
LockRunsOut(p) ==
    /\ attempts[p].locked
    /\ attempts' = [attempts EXCEPT ![p].locked = FALSE]
    /\ UNCHANGED <<accountRow, sessions, links, merges, misses, call, calls>>
WindowRollsOver(p) ==
    /\ attempts[p].fresh /\ ~attempts[p].locked
    /\ attempts' = [attempts EXCEPT ![p].fresh = FALSE]
    /\ misses' = [misses EXCEPT ![p] = 0]
    /\ UNCHANGED <<accountRow, sessions, links, merges, call, calls>>
-----------------------------------------------------------------------------
(* Links: verification and password reset.                                 *)

LiveLinks(p, purpose) ==
    {i \in DOMAIN links : links[i].of = p /\ links[i].purpose = purpose /\ links[i].state = "live"}

\* reset-password/request takes the address of an account, verify-email/resend a
\* session of one that is not verified yet. The placeholder address of an account
\* born from an identity is nobody's: its links are never presented.
BeginRequest(c, p, purpose) ==
    /\ p \in exists
    /\ IF purpose = "verify" THEN Holds(p) /\ p \notin verified ELSE p \in Registered
    /\ Begin(c, "request", [IdleCall EXCEPT !.pc = "mint", !.p = p, !.purpose = purpose])
    /\ UNCHANGED <<accountRow, sessions, links, merges, attempts, misses>>

\* Mutant of Revoked: older links keep working.
LinksKept(p, purpose) == links
\* createVerificationToken: one batch revokes the older links and stores the new one.
Revoked(p, purpose) ==
    [i \in DOMAIN links |-> IF i \in LiveLinks(p, purpose) THEN [links[i] EXCEPT !.state = "revoked"]
                                                           ELSE links[i]]
MintLink(c) ==
    LET p == call[c].p
        purpose == call[c].purpose
    IN  /\ At(c, "mint")
        /\ links' = IF KeyHeld(p) THEN Append(Revoked(p, purpose),
                                              [of |-> p, purpose |-> purpose, state |-> "live"])
                                  ELSE links
        /\ Return(c)
        /\ UNCHANGED <<accountRow, sessions, merges, attempts, misses, calls>>

ExpireLink(i) ==
    /\ links[i].state = "live"
    /\ links' = [links EXCEPT ![i].state = "expired"]
    /\ UNCHANGED <<accountRow, sessions, merges, attempts, misses, call, calls>>

\* consumeVerificationToken reads the row first...
PresentLink(c, i) ==
    /\ links[i].of \in exists \cap Registered
    /\ Begin(c, links[i].purpose,
             IF links[i].state = "live"
               THEN [IdleCall EXCEPT !.pc = "consume", !.n = i, !.p = links[i].of,
                                     !.purpose = links[i].purpose]
               ELSE IdleCall)
    /\ UNCHANGED <<accountRow, sessions, links, merges, attempts, misses>>

\* Mutant of Consumable: the update is not conditional.
AnyLink(i) == TRUE
\* ... then takes it with a conditional update.
Consumable(i) == links[i].state = "live"
ConsumeLink(c) ==
    LET i == call[c].n IN
    /\ At(c, "consume")
    /\ \/ /\ Consumable(i)
          /\ links' = [links EXCEPT ![i].state = "spent"]
          /\ Goto(c, "apply")
       \/ /\ ~Consumable(i)
          /\ Return(c)
          /\ UNCHANGED links
    /\ UNCHANGED <<accountRow, sessions, merges, attempts, misses, calls>>

\* applyPasswordReset, one batch: password, sessions, verification.
ApplyReset(c) ==
    LET p == call[c].p IN
    /\ At(c, "apply") /\ call[c].purpose = "reset"
    /\ \/ /\ p \in exists
          /\ secret' = [secret EXCEPT ![p] = @ + 1]
          /\ verified' = verified \cup {p}
          /\ sessions' = EndSessions(p)
       \/ p \notin exists /\ UNCHANGED <<secret, verified, sessions>>
    /\ Return(c)
    /\ UNCHANGED <<exists, identity, links, merges, attempts, misses, calls>>

\* markContributorEmailVerified.
ApplyVerification(c) ==
    /\ At(c, "apply") /\ call[c].purpose = "verify"
    /\ verified' = verified \cup ({call[c].p} \cap exists)
    /\ Return(c)
    /\ UNCHANGED <<exists, secret, identity, sessions, links, merges, attempts, misses, calls>>
-----------------------------------------------------------------------------
(* External identities.                                                    *)

\* The callback comes back with an identity and, if the provider asserts one, a
\* verified e-mail address: that of the registered account p, or of nobody here.
BeginCallback(c, id, p) ==
    /\ Begin(c, "callback", [IdleCall EXCEPT !.pc = "resolve", !.id = id, !.p = p, !.via = "oidc"])
    /\ UNCHANGED <<accountRow, sessions, links, merges, attempts, misses>>

LinkedTo(id) == {p \in exists : identity[p] = id}

\* findContributorByExternalIdentity, then findContributorByEmail.
ResolveIdentity(c) ==
    LET id == call[c].id
        p == call[c].p
    IN  /\ At(c, "resolve")
        /\ \/ \E q \in LinkedTo(id) : call' = [call EXCEPT ![c] = [@ EXCEPT !.pc = "open", !.p = q]]
           \/ LinkedTo(id) = {} /\ p \in exists /\ Goto(c, "ask")
           \/ LinkedTo(id) = {} /\ p \notin exists /\ Goto(c, "create")
        /\ UNCHANGED <<accountRow, sessions, links, merges, attempts, misses, calls>>

\* createOidcMergeRequest: the address is taken, its owner has to show the password.
AskForMerge(c) ==
    LET p == call[c].p IN
    /\ At(c, "ask")
    /\ merges' = IF KeyHeld(p) THEN Append(merges, [of |-> p, identity |-> call[c].id,
                                                    live |-> TRUE, by |-> NoPerson])
                               ELSE merges
    /\ Return(c)
    /\ UNCHANGED <<accountRow, sessions, links, attempts, misses, calls>>

\* createOidcContributor: the placeholder address is unique, external_sub is not.
\* asserted is the provider's word on the address.
CreateAccount(c) ==
    LET id == call[c].id IN
    /\ At(c, "create")
    /\ \E asserted \in BOOLEAN :
         IF id \in exists THEN Return(c) /\ UNCHANGED <<exists, identity, verified>>
         ELSE /\ identity[id] = NoIdentity        \* never erased before
              /\ exists' = exists \cup {id}
              /\ identity' = [identity EXCEPT ![id] = id]
              /\ verified' = IF asserted THEN verified \cup {id} ELSE verified
              /\ call' = [call EXCEPT ![c] = [@ EXCEPT !.pc = "open", !.p = id]]
    /\ UNCHANGED <<secret, sessions, links, merges, attempts, misses, calls>>

\* The merge route: it reads the request, then proceeds as a login does.
BeginMerge(c, m, p, guess) ==
    /\ merges[m].live
    /\ Begin(c, "merge", [IdleCall EXCEPT !.pc = "gate", !.p = p, !.guess = guess,
                                          !.n = m, !.via = "merge"])
    /\ UNCHANGED <<accountRow, sessions, links, merges, attempts, misses>>

\* linkExternalIdentity, one batch: the account is linked and the request burnt.
Linkable(m) == merges[m].live /\ merges[m].of \in exists
LinkIdentity(c) ==
    LET m == call[c].n
        p == merges[m].of
    IN  /\ At(c, "link")
        /\ \/ /\ Linkable(m)
              /\ identity' = [identity EXCEPT ![p] = merges[m].identity]
              /\ verified' = verified \cup {p}
              /\ merges' = [merges EXCEPT ![m].live = FALSE, ![m].by = call[c].p]
              /\ call' = [call EXCEPT ![c] = [@ EXCEPT !.pc = "open", !.p = p]]
           \/ ~Linkable(m) /\ Return(c) /\ UNCHANGED <<identity, verified, merges>>
        /\ UNCHANGED <<exists, secret, sessions, links, attempts, misses, calls>>
-----------------------------------------------------------------------------
(* eraseContributor: one batch deletes the account and all that refers to it. *)

Burnt(p) == [i \in DOMAIN links |-> IF links[i].of = p /\ links[i].state = "live"
                                      THEN [links[i] EXCEPT !.state = "revoked"] ELSE links[i]]
Dropped(p) == [m \in DOMAIN merges |-> IF merges[m].of = p THEN [merges[m] EXCEPT !.live = FALSE]
                                                           ELSE merges[m]]
BeginErase(c, p) ==
    /\ Holds(p)
    /\ Begin(c, "erase", [IdleCall EXCEPT !.pc = "erase", !.p = p])
    /\ UNCHANGED <<accountRow, sessions, links, merges, attempts, misses>>
Erase(c) ==
    LET p == call[c].p IN
    /\ At(c, "erase")
    /\ exists' = exists \ {p}
    /\ sessions' = EndSessions(p) /\ links' = Burnt(p) /\ merges' = Dropped(p)
    /\ Return(c)
    /\ UNCHANGED <<secret, verified, identity, attempts, misses, calls>>

\* A call that throws, or a worker that is killed, ends the request where it is.
Fail(c) ==
    /\ ~At(c, "idle")
    /\ Return(c)
    /\ UNCHANGED <<accountRow, sessions, links, merges, attempts, misses, calls>>
-----------------------------------------------------------------------------
AccountStep ==
    \/ \E c \in Callers :
         \/ OpenSession(c) \/ PassLockout(c) \/ Authenticate(c) \/ ClearAttempts(c)
         \/ ReadAttempts(c) \/ CountMiss(c) \/ MintLink(c) \/ ConsumeLink(c)
         \/ ApplyReset(c) \/ ApplyVerification(c) \/ ResolveIdentity(c) \/ AskForMerge(c)
         \/ CreateAccount(c) \/ LinkIdentity(c) \/ Erase(c) \/ Fail(c)
         \/ \E i \in DOMAIN sessions : Logout(c, i)
         \/ \E p \in Registered : \E guess \in Guesses(p) : BeginLogin(c, p, guess)
         \/ \E p \in People, purpose \in Purposes : BeginRequest(c, p, purpose)
         \/ \E i \in DOMAIN links : PresentLink(c, i)
         \/ \E id \in Identities, p \in Registered \cup {NoPerson} : BeginCallback(c, id, p)
         \/ \E m \in DOMAIN merges, p \in Registered : \E guess \in Guesses(p) :
              BeginMerge(c, m, p, guess)
         \/ \E p \in People : BeginErase(c, p)
    \/ \E p \in Registered : LockRunsOut(p) \/ WindowRollsOver(p)
    \/ \E i \in DOMAIN links : ExpireLink(i)
-----------------------------------------------------------------------------
(* What is promised.                                                       *)

\* At most one link of a purpose works: a newer one revokes those before it
\* (createVerificationToken, db/auth.ts).
OneLiveLink == \A p \in People, purpose \in Purposes : Cardinality(LiveLinks(p, purpose)) <= 1

\* Every change of a password has a reset link of its own behind it, whatever is
\* presented twice at the same time (consumeVerificationToken).
ResetsMatchLinks == \A p \in People :
    secret[p] <= Cardinality({i \in DOMAIN links : links[i].of = p /\ links[i].purpose = "reset"
                                                   /\ links[i].state = "spent"})

\* An account that is gone has no session, no link and no merge request that works,
\* whichever request was under way when it was erased (eraseContributor).
ErasedHoldsNothing ==
    /\ \A i \in DOMAIN sessions : sessions[i].live => sessions[i].of \in exists
    /\ \A i \in DOMAIN links : links[i].state = "live" => links[i].of \in exists
    /\ \A m \in DOMAIN merges : merges[m].live => merges[m].of \in exists

\* No session is open on an account without a verified address, unless registration
\* or an external provider opened it: also not one opened by a merge, whose route
\* does not pass the gate (sessionGate, app/lib/auth-route-helpers.ts).
GatedSessions == \A i \in DOMAIN sessions :
    sessions[i].live /\ sessions[i].via \notin {"register", "oidc"} => sessions[i].of \in verified

\* A registered account is linked to an external identity only by a merge that showed
\* the password of that very account (POST /api/auth/oidc/merge).
LinkedByOwner ==
    /\ \A p \in Registered : identity[p] # NoIdentity =>
         \E m \in DOMAIN merges : merges[m].of = p /\ merges[m].identity = identity[p]
                                  /\ merges[m].by = p
    /\ \A m \in DOMAIN merges : merges[m].by \in {NoPerson, merges[m].of}

\* A recovery code, an assertion or a merge request opens one session at most.
CredentialOpensOnce == \A i, j \in DOMAIN sessions :
    /\ i # j /\ sessions[i].via = sessions[j].via /\ sessions[i].of = sessions[j].of
    /\ sessions[i].via \in {"merge", "passkey", "recovery"}
    => sessions[i].cred # sessions[j].cred

(* Promised, and broken.                                                   *)

\* "Any session opened with the old password must die" (revokeAllContributorSessions,
\* db/auth.ts): once a password was reset, no session opened with an earlier one is live.
OldPasswordIsOut == \A i \in DOMAIN sessions :
    sessions[i].live /\ sessions[i].via \in {"register", "password", "merge"}
    => sessions[i].secret = secret[sessions[i].of]

\* An external identity belongs to one account: "external_sub (unique per provider)"
\* (docs/decisions/0020-multi-method-authentication.md).
OneAccountPerIdentity == \A id \in Identities : Cardinality(LinkedTo(id)) <= 1

\* "The read-only session opened at register stays the only session an unverified
\* account can hold" (app/api/auth/login/route.ts).
UnverifiedOnlyRegisters == \A i \in DOMAIN sessions :
    sessions[i].live /\ sessions[i].via # "register" => sessions[i].of \in verified

\* "Every failed login counts against the same account" (db/auth.ts): MaxAttempts of
\* them within a window lock it.
FailuresLock == \A p \in Registered : misses[p] < MaxAttempts
=============================================================================
