------------------------------- MODULE ApiKeys -------------------------------
(***************************************************************************)
(* API keys and the write gate (db/api-keys.ts, app/lib/write-gate.ts,      *)
(* app/lib/api-key-auth.ts, app/api/auth/keys): a verified account mints and *)
(* revokes keys from a session, and contributes with a session or a key,     *)
(* next to everything that Accounts and Passkeys do.                        *)
(*                                                                         *)
(* Simplifications: a key has every scope; last_used_at, names and prefixes  *)
(* decide nothing. A row that expired, was revoked, purged or erased is dead *)
(* for every statement, and stays so.                                       *)
(***************************************************************************)
EXTENDS Passkeys

CONSTANTS
    InitialKeys,      \* keys at the start
    MaxActive,        \* API_KEYS_MAX_PER_CONTRIBUTOR
    Writers,          \* slots for these requests
    MaxTasks,         \* of them begun at most, over a behaviour
    MaxTogether       \* begun at most when both kinds of requests are

Key == [of : People, live : BOOLEAN]
KeysOf(rows, p) == {k \in DOMAIN rows : rows[k].of = p /\ rows[k].live}

ASSUME ApiKeysAssumption ==
    /\ InitialKeys \in Seq(Key)
    /\ \A k \in DOMAIN InitialKeys : InitialKeys[k].of \in InitiallyVerified
    /\ \A p \in People : Cardinality(KeysOf(InitialKeys, p)) <= MaxActive
    /\ MaxActive \in Nat /\ MaxTasks \in Nat /\ MaxTogether \in Nat

VARIABLES
    apiKeys,
    posts,            \* contributions stored, and whether their key was dead (history)
    task,             \* locals of the request in each slot
    tasks             \* begun so far (bound)

Post == [by : People, late : BOOLEAN]
TaskPCs == {"idle", "mayMint", "mayRevoke", "mayPost", "mint", "revoke", "post"}
\* k is the key named or presented, 0 is none.
Task == [pc : TaskPCs, p : People \cup {NoPerson}, k : Nat]
IdleTask == [pc |-> "idle", p |-> NoPerson, k |-> 0]

kvars == <<apiKeys, posts, task, tasks>>
wvars == <<pvars, kvars>>

ApiKeysTypeOK ==
    /\ PasskeysTypeOK
    /\ apiKeys \in Seq(Key) /\ posts \subseteq Post
    /\ task \in [Writers -> Task] /\ tasks \in Nat

ApiKeysInit ==
    /\ PasskeysInit
    /\ apiKeys = InitialKeys /\ posts = {}
    /\ task = [w \in Writers |-> IdleTask] /\ tasks = 0

AtTask(w, pc) == task[w].pc = pc
TaskGoto(w, pc) == task' = [task EXCEPT ![w].pc = pc]
EndTask(w) == task' = [task EXCEPT ![w] = IdleTask]
BeginTask(w, locals) ==
    /\ AtTask(w, "idle") /\ tasks < MaxTasks
    /\ calls > 0 => tasks + calls < MaxTogether
    /\ tasks' = tasks + 1
    /\ task' = [task EXCEPT ![w] = locals]
    /\ UNCHANGED <<apiKeys, posts>>
-----------------------------------------------------------------------------
(* The gate.                                                               *)

\* With a session: findSessionByToken here, the verification in a call of its own.
BeginMint(w, p) == Holds(p) /\ BeginTask(w, [pc |-> "mayMint", p |-> p, k |-> 0])
BeginRevoke(w, p, k) == Holds(p) /\ BeginTask(w, [pc |-> "mayRevoke", p |-> p, k |-> k])
BeginPost(w, p) == Holds(p) /\ BeginTask(w, [pc |-> "mayPost", p |-> p, k |-> 0])

\* Mutant of MayWrite: the account only has to be there.
MerelyExists(p) == p \in exists
\* What requireVerifiedContributor and requireWriteAuth ask of an account.
MayWrite(p) == p \in exists /\ p \in verified

\* requireVerifiedContributor.
Allowed == [mayMint |-> "mint", mayRevoke |-> "revoke", mayPost |-> "post"]
CheckVerified(w) ==
    /\ task[w].pc \in DOMAIN Allowed
    /\ IF MayWrite(task[w].p) THEN TaskGoto(w, Allowed[task[w].pc]) ELSE EndTask(w)
    /\ UNCHANGED <<apiKeys, posts, tasks>>

\* With a key: findApiKeyByHash joins the account, a dead key or account is a 401.
PresentKey(w, k) ==
    /\ apiKeys[k].live /\ MayWrite(apiKeys[k].of)
    /\ BeginTask(w, [pc |-> "post", p |-> apiKeys[k].of, k |-> k])
-----------------------------------------------------------------------------
(* What the gate lets through.                                             *)

\* Mutant of Room: the insert without maxActive.
Unlimited(p) == TRUE
\* The count of createApiKey, in the statement that inserts.
Room(p) == Cardinality(KeysOf(apiKeys, p)) < MaxActive
MintKey(w) ==
    LET p == task[w].p IN
    /\ AtTask(w, "mint")
    /\ apiKeys' = IF Room(p) /\ KeyHeld(p) THEN Append(apiKeys, [of |-> p, live |-> TRUE])
                                           ELSE apiKeys
    /\ EndTask(w)
    /\ UNCHANGED <<posts, tasks>>

\* revokeApiKey: one statement, for a key of the caller's own.
RevokeKey(w) ==
    LET k == task[w].k IN
    /\ AtTask(w, "revoke")
    /\ apiKeys' = IF apiKeys[k].of = task[w].p THEN [apiKeys EXCEPT ![k].live = FALSE] ELSE apiKeys
    /\ EndTask(w)
    /\ UNCHANGED <<posts, tasks>>

\* A record, a correction, a confirmation, an action or an edit refers to its author.
StorePost(w) ==
    LET p == task[w].p
        k == task[w].k
    IN  /\ AtTask(w, "post")
        /\ posts' = IF KeyHeld(p) THEN posts \cup {[by |-> p, late |-> k # 0 /\ ~apiKeys[k].live]}
                                  ELSE posts
        /\ EndTask(w)
        /\ UNCHANGED <<apiKeys, tasks>>

FailTask(w) == ~AtTask(w, "idle") /\ EndTask(w) /\ UNCHANGED <<apiKeys, posts, tasks>>

KeyRunsOut(k) ==
    /\ apiKeys[k].live
    /\ apiKeys' = [apiKeys EXCEPT ![k].live = FALSE]
    /\ UNCHANGED <<posts, task, tasks>>
-----------------------------------------------------------------------------
KeyStep ==
    \/ \E w \in Writers :
         \/ CheckVerified(w) \/ MintKey(w) \/ RevokeKey(w) \/ StorePost(w) \/ FailTask(w)
         \/ \E p \in People : BeginMint(w, p) \/ BeginPost(w, p)
         \/ \E p \in People, k \in DOMAIN apiKeys : BeginRevoke(w, p, k)
         \/ \E k \in DOMAIN apiKeys : PresentKey(w, k)
    \/ \E k \in DOMAIN apiKeys : KeyRunsOut(k)

\* eraseContributor deletes the keys in its batch.
KeysSurvive(gone) == [k \in DOMAIN apiKeys |-> IF apiKeys[k].of \in gone
                                                 THEN [apiKeys[k] EXCEPT !.live = FALSE]
                                                 ELSE apiKeys[k]]
AccountMoves ==
    /\ PasskeysNext
    /\ tasks > 0 /\ calls' > calls => tasks + calls < MaxTogether
    /\ apiKeys' = KeysSurvive(exists \ exists')
    /\ UNCHANGED <<posts, task, tasks>>

ApiKeysNext ==
    \/ AccountMoves
    \/ KeyStep /\ UNCHANGED pvars

ApiKeysSpec == ApiKeysInit /\ [][ApiKeysNext]_wvars

\* No account has more keys that work than the cap, however mints race with each other
\* and with revocations ("concurrent mints can never overshoot", createApiKey).
KeysWithinCap == \A p \in People : Cardinality(KeysOf(apiKeys, p)) <= MaxActive

\* A key that works belongs to an account that is there and verified, also one whose mint
\* was under way when the account was erased, and nothing is contributed in the name of an
\* account that is not verified ("a fail-closed invariant, not a reachable state",
\* app/lib/write-gate.ts).
OnlyVerifiedWrite ==
    /\ \A k \in DOMAIN apiKeys : apiKeys[k].live => apiKeys[k].of \in exists \cap verified
    /\ \A post \in posts : post.by \in verified

(* Promised, and broken.                                                   *)

\* "Revocation takes effect immediately" (docs/TERMS_OF_USE.md, 3.8): nothing is stored
\* with a key that is dead by then.
RevokedKeyIsOut == \A post \in posts : ~post.late
=============================================================================
