# Formal models of open-surveillance-db

This directory keeps TLA+ models, TLC configurations and TLAPS proofs for the parts of the
application in which several requests, a timer or a browser act on the same state. File and line
references below are to the repository (`src/` is its root).

- [What is here](#what-is-here) - [The system](#the-system) - [Models and code](#models-and-code) -
  [Runs and bounds](#runs-and-bounds) - [Proofs](#proofs) - [Findings](#findings) -
  [What is not modelled](#what-is-not-modelled) - [Plan](#plan)

Run a check with `tlc -config CommunityRaces.cfg MCCommunityActions.tla` and a proof with
`tlapm ReviewQueueProofs.tla`.

## What is here

| module | what it is |
|---|---|
| `CommunityActions` | `db/community-actions.ts`: votes on records and the status transitions they cause, one database call per action |
| `RecordConsensus` | the abstract record ADR 0021 promises: votes, thresholds, consumption, cooldown, in one indivisible step |
| `ConfirmationAlias` | `db/confirmations.ts`: the older verification toggle, composed with `CommunityActions` |
| `ReviewQueue` | `moderateCamera` of `db/moderation.ts`: reviewers, queue rows, two-person review, decision batch |
| `CameraLifecycle` | the voters and the reviewers at one status; extends `CommunityActions`, instantiates `ReviewQueue` on its records |
| `Appeals` | `db/appeals.ts` for cameras; extends `ReviewQueue` |
| `Retention` | the daily sweep of `db/retention.ts`, legal holds included; extends `Appeals` |
| `ContributorRequests` | correction reports, edits of records and their moderation, erasure of authors; extends `ReviewQueue` |
| `Accounts` | login and lockout, links by mail, external identities and merges, sessions, erasure |
| `Passkeys` | passkeys and recovery codes; extends `Accounts` |
| `ApiKeys` | API keys and the write gate: mint, revocation, writes with a session or a key; extends `Passkeys` |
| `AuthMail` | the mail budget, the mint of links and the settlement of a reservation |
| `EdgeCache` | one public list request behind the worker's cache, and the purge after a decision |
| `ViewportCameras` | the hook `useViewportCameras` of the map; extends `EdgeCache` |
| `MapLanding` | Leaflet, the debounced report and the landing of a search; extends `ViewportCameras` |
| `FilterUrl` | the hook `useCameraFilters`: address, mirror, search box, debounce |
| `DirectoryPage` | the directory and the page of a record, their data hooks and the list they share; extends `FilterUrl` |
| `CameraLifecycleProofs` (with `CommunityActions` and `ConfirmationAlias`), `ReviewQueueProofs`, `ContributorRequestsProofs`, `RetentionProofs` (with `Appeals`), `AccountsProofs` (with `Passkeys` and `ApiKeys`), `AuthMailProofs`, `ViewportProofs`, `DirectoryProofs` | theorems for all values of the constants |
| `MC...` | the instances TLC checks |

A definition whose comment begins with "Mutant" belongs to no model: it is a plausible bug of the
definition it names, and shows that the properties notice it.

## The system

The application is a Cloudflare worker (Next-style routes under `app/api`) over one D1
(SQLite) database. Every request runs in an isolate of its own; isolates share nothing but the
database and the edge cache, and the database executes one statement, or one `d1.batch`, at a time.
Between two awaited database calls of a request any other request may run, an isolate may be evicted,
and a call may throw. There are no locks: what keeps requests apart is conditional UPDATEs, counts
inside INSERT ... SELECT statements, (partial) unique indexes and foreign keys. That is the grain of
every model of the server here: **one action is one awaited call** with the synchronous code around it,
and a slot (`req[r]`, `desk[s]`, `call[c]`, ...) holds the locals of a request between two calls. In the
browser the grain is one callback: an effect, a timer, an answer, a report of the map.

### Components

**Community actions** (`db/community-actions.ts`). State: `cameras.status`,
`camera_community_actions` (one vote per account and record), `camera_lifecycle_events` and
`moderation_events`. Operations: set an action (insert, or switch the existing row),
withdraw it, and the evaluation that follows every accepted action: read the status, read the
weighted votes, read the cooldown, UPDATE the status if it is still the one read, then one
batch with the events and the deletion of the votes that triggered the transition. Hard:
two evaluators on one record; evaluation on votes that changed meanwhile; a failure between
UPDATE and batch (the error is swallowed, the vote stays). Correct when: no status without its
quorum of distinct accounts; each transition recorded once; quotas and the self-confirmation
ban hold however calls interleave; a privacy vote takes effect; erased accounts leave nothing.

**Confirmation alias** (`db/confirmations.ts`). The same table and an older set of quotas; it
evaluates nothing. Hard: two lanes share a per-record cap that each enforces in its own SQL.

**Moderation** (`db/moderation.ts`). State: `cameras.status`, `moderation_queue` (at most one
row that is not closed per entity), the append-only `moderation_events`. Operations: recuse,
escalate, record an intent, complete a second review, decide. Hard: the queue row, the status
and the first reviewer are read by separate calls before the deciding batch, whose statements
carry different guards. Correct when: the audit trail agrees with the record; a takedown
is not overturned by a decision based on an older status; two people stand behind a sensitive decision.

**Corrections** (`db/corrections.ts`, `moderateCorrection`) and **camera edits**
(`db/camera-edits.ts`, `moderateCameraEdit`). State: `correction_requests`, `camera_edit_requests`, the
editable columns of `cameras` and their `updated` stamp, queue rows and a private trail. Operations:
report, edit (at once for the author's own pending record, through the queue for a published one), decide,
associate, attach an outcome to the record, erase the author. Hard: the look-ups before an insert, the outcome of a
correction that touches the camera whether or not the correction is still open, an edit computed on
an older row. Correct when: a request is resolved once; an accepted edit is on the record; no decision
on a request resurrects a record; no dome has a bearing; erasing an account erases it.

**Appeals** (`db/appeals.ts`). State: `moderation_appeals`, and everything of moderation.
Operations: file, uphold (the record goes back to pending), dismiss, escalate. Hard: two deciders
of one appeal; two filings against one decision; which events can be appealed. Correct when:
one open appeal per decision, verdicts are final, an upheld appeal is really reviewed again
and nobody judges their own decision.

**Retention** (`db/retention.ts`, cron in `worker/index.ts`): deletes pending and rejected records
by age, archives old events, unless an appeal or a legal hold exempts them. Hard: the ids are selected
first and purged one by one, with no second look, while everybody else goes on. Correct when: nothing protected when it was
chosen, and still so, is deleted; what is left of log and records agrees; a contested decision stays on file.

**Accounts** (`db/auth.ts`, `db/oidc.ts`, `app/api/auth`). State: accounts with password, verification
and external identity; sessions; links by mail; merge requests; failed-login counters. Hard: every route reads, then
acts: a password is checked before a session is opened, a link is read before it is consumed, an identity is
looked up before an account is made. Correct when: a credential for one use works once; a link in force is the newest;
erasure leaves no way in; no session opens past the login gate.

**Passkeys and recovery codes** (`db/passkeys.ts`). State: passkeys with a counter, consumed challenges, codes.
Hard: the counter is checked against a row read earlier; a batch of codes is replaced one statement at a time.

**API keys and the write gate** (`db/api-keys.ts`, `app/lib/write-gate.ts`, `app/lib/api-key-auth.ts`, `app/api/auth/keys`). State: keys
with their account. Operations: mint and revoke from a verified session, write with a session or with a key. Hard: the session, the verification of the account and
the statement that writes are separate calls, between which the key may be revoked or run out and the account be erased. Correct when: no account
has more active keys than the cap; a key that works belongs to a verified account that is there; nothing is written for another.

**Mail budget** (`db/mailer.ts`, three routes). State: `email_send_log`, links. A row is reserved, a
link is minted, the provider is asked, and the row stays or is given back, by code in three different places that
may fail or die. Correct when: no window holds more mails than the budget; a row stands for a mail, a running
request or real doubt; a link that was delivered works.

**Public cache** (`app/lib/public-cache.ts`, `cache-purge.ts`) and **map client**
(`use-viewport-cameras.ts`, `MappaTool.tsx`, `SurveillanceMap.tsx`). State: the edge cache; in the browser two
caches, a store, the run in flight, a cooldown, a budget of retries, a settlement, an armed landing. Hard: callbacks of an older
viewport arrive after newer ones; a box is answered from a cached box. Correct when: what
is settled is what is shown and complete; an aborted run settles nothing; one automatic retry; every view
settles in the end and every landing fires or is cancelled.

**Directory client** (`use-camera-filters.ts`, `use-public-cameras.ts`, `use-public-cameras-page.ts`). State: the address, a mirror
of it, the text in the search box and its debounce, three refs; a list cached for both pages, a walk over the whole list, a walk over pages by
cursor. Hard: a click, a timer, a landing navigation and the effects of a render in any order; an answer that belongs to older filters; a cache that a
filtered walk must not seed; a reload that must drop it. Correct when: a directory that has settled shows its page of the catalog; a record the
server has is found whatever the cache says; the page settles once the user stops.

**Everything else**: search on the server, geocoding caches, import scripts, rate
limiting in memory, pages. See [What is not modelled](#what-is-not-modelled).

Interactions: all server components meet in the rows of `cameras`; moderation, appeals, requests and retention share
`moderation_queue` and `moderation_events`; the community lane and the alias share
`camera_community_actions`; erasure and retention delete rows the others have read; decisions purge the cache that the
map reads through. The compositions are by extension: a module that shares tables with another extends it, its `Next` has
the other's actions as disjuncts, and its runs check both. `CameraLifecycle` extends one module and instantiates another, because votes
and reviews share nothing but `cameras`.

`PROJECT.json` lists the components and, under `hazards`, what is hard to test, each at its line with the properties
that would catch it.

## Models and code

### CommunityActions and RecordConsensus

| TLA+ | code |
|---|---|
| `status`, `owner`, `lastVerified` | `cameras.status`, `.contributor_id`, `.last_verified_at` |
| `rows[cam][c]` | the row of `camera_community_actions` for the pair, `NoRow` if there is none |
| `timeline[cam]` | the transitions in `camera_lifecycle_events` and `moderation_events` (one batch writes all) |
| `req[r]` | the locals of `setCommunityAction` / `evaluateCommunityThresholds` between two awaits |
| `erased`, `clock`, `cast` | deleted accounts, the time, and a history variable of votes ever stored |

`Begin`, `CountContributions`, `InsertAction` / `FoundOtherAction` / `RefuseInsert`,
`SwitchAction` / `RefuseSwitch`, `RefreshVerified`, `ReadStatus`, `ReadStats`, `CheckCooldown`,
`CompareAndSwap` / `LoseSwap` and `RecordTransition` are the database calls of one request in
their order. `Withdraw` and `EraseContributor` are requests of one call. `FailRequest` ends a
request between two calls. Weights are counted in quarters, so a level-0 vote (0.25) is 1 and
thresholds are four times those of `db/community-settings.ts`.

`RecordConsensus` has no requests: a vote, a withdrawal, an erasure or a transition is one step.
`KeepsPromise` maps the handler to it. Between the UPDATE and its batch the mapping already
regards the triggering votes as consumed and the record as hidden since the request's time.

### ConfirmationAlias

`BeginToggle`, `CheckPublic`, `CheckLevel`, `ToggleOn` / `RefuseToggle` and `ToggleOff` are
`setConfirmation` and `removeConfirmation`. The module extends `CommunityActions`, whose actions it
interleaves with its own.

### ReviewQueue

| TLA+ | code |
|---|---|
| `queue[q]` | row `q` of `moderation_queue`; `two` is `requires_second_review = 1` or a sensitivity beyond standard |
| `events[i]` | row `i` of `moderation_events` |
| `req[s]` | locals of `moderateCamera` |

`Begin` is the role check and the read of the status, `FindQueueItem` and `OpenQueueItem` are
`getOrCreateQueueItem`, `NextPC` the synchronous checks after it (escalation lock, recusal,
transition matrix, second review). `Recuse`, `Escalate`, `RecordIntent`, `LookUpFirstReviewer`
and `Decide` are the database calls that may follow. A request that is refused after its queue row
was opened leaves the row behind, as in the code. In `Decide` each statement of the batch keeps its own guard.

### CameraLifecycle

`status` is the one variable both lanes write; `rows`, `req`, `timeline` belong to the voters and `queue`, `events`, `decision`
to the reviewers, whose `moderateCamera` is the instance `Review` of `ReviewQueue` on the same records. `Moderate` is any step of theirs
together with what the UPDATE writes beside the status: `approve` and `reverify` set `last_verified_at`, which the community lane dates by too. The lanes write
with the same kind of statement, `WHERE status = <status read>`, and neither reads the other's tables. The event the community appends to
`moderation_events` names no reviewer, so no request of a reviewer sees it; `timeline` stands for it.

### ContributorRequests

| TLA+ | code |
|---|---|
| `items[i]` | row `i` of `correction_requests` or `camera_edit_requests`, told apart by `entity` |
| `rows`, `trail` | the queue rows and the events of either entity |
| `content`, `stamp`, `owner` | editable columns (title, kind, bearing), `updated` as a count of writes, `contributor_id` |
| `desk[s]` | locals of a request: what a contributor sent and saw, or what a reviewer decided (`link` is the record the reviewer names, if any) |

Reports are `BeginReport`, `CheckPriorRemoval`, `InsertReport`; edits are `BeginEdit`, then `DirectUpdate` and
`LogDirectEdit` for a pending record or `InsertEdit` and `EnqueueEdit` for a published one. `InsertReport` and
`InsertEdit` carry the partial unique indexes as their guards. Decisions are `BeginReview`, `FindItemRow` / `OpenItemRow`, `Note`,
`LookUpFirst`, `ReadTarget`, and the batches `DecideCorrection` and `DecideEdit`, statement by statement. `Erase` is the part of
`eraseContributor` that concerns these tables, with the index that can make its batch throw. `Moderate` is a step of
`ReviewQueue`, which also writes `updated`.

### Appeals and Retention

`BeginFiling`, `CheckDuplicate`, `CheckLimit`, `File` are `fileAppeal`; `BeginVerdict`, `Uphold` and
`DismissOrEscalate` are `decideAppeal`. Only the UPDATE of the appeal depends on the appeal
still being open. The event ids of the code are positions in `events`.

`SelectPending`, `Purge` (one record), `SelectRejected`, `SelectEvents` and `Archive` are rules R1, R2 and R5 in the order of
`runRetentionSweep`; `sweep` holds its locals, and a failing purge is skipped as in the code while a failing archive batch
ends the sweep. `HoldEvent` is an operator raising or releasing a legal hold, `Tick` a retention
window. A deleted camera keeps the status `deleted`, an archived event a tombstone, so that ids stay positions.
`Serve` is any step of `Appeals`.

### Accounts and Passkeys

| TLA+ | code |
|---|---|
| `exists`, `secret`, `verified`, `identity` | rows of `contributors`: present, password (counted by resets), `email_verified_at`, provider and subject |
| `sessions`, `links`, `merges`, `attempts` | `sessions`, `email_verification_tokens`, `oidc_merge_requests`, `login_attempts` |
| `enrolled`, `counter`, `answered`, `codes` | `passkeys`, its counter, consumed challenges, `recovery_codes` |
| `call[c]` | locals of a route between two calls |

Login is `BeginLogin`, `PassLockout`, `Authenticate`, then `ClearAttempts` and `OpenSession`, or `ReadAttempts` and `CountMiss`. A link
goes through `BeginRequest`, `MintLink`, `PresentLink`, `ConsumeLink` and `ApplyReset` or `ApplyVerification`. An external identity
comes in through `BeginCallback`, `ResolveIdentity` and `CreateAccount` or `AskForMerge`, and is linked by `BeginMerge`, `LinkIdentity`.
`SessionGate` is the check of the address before a session of its kind. Passkeys: `PresentAssertion` (the challenge is
consumed in one statement), `CheckAssertion`, `AdvanceCounter`, `ReadProfile`; codes: `BeginRecovery`, `RedeemCode`; enrolment:
`BeginEnroll`, `StorePasskey`, `DropCodes`, `IssueCode`. `Erase` is the batch of `eraseContributor`. `misses` and `accepted` are history.

### ApiKeys

| TLA+ | code |
|---|---|
| `apiKeys[k]` | row `k` of `api_keys`; `live` is neither revoked, expired nor deleted |
| `posts` | contributions stored: their author, and whether the key they were sent with was dead by then (history) |
| `task[w]` | locals of a request behind the gate |

`BeginMint`, `BeginRevoke` and `BeginPost` find the session, `CheckVerified` is the second call of `requireVerifiedContributor`, `PresentKey` is
`findApiKeyByHash`, which reads key and account together. `MintKey` is the INSERT that counts the active keys itself, `RevokeKey` the UPDATE for a key of one's
own, `StorePost` a contribution that refers to its author by foreign key. `AccountMoves` is any step of `Passkeys`, where an erasure takes the keys along
in its batch. A password reset ends sessions and leaves keys alone, as in the code, and a mint that has passed the gate when the sessions end still mints.

### AuthMail

`BeginSend` / `BeginRegistration`, `Reserve` (one INSERT ... SELECT that counts), `Mint`, `FindReservation`, `SendMail` with the three
kinds of answer of the provider (delivered, refused, no telling), `Release`, `Rethrow`, `GiveBack` and `OpenSession` are the calls of the register, resend and
reset-request routes. Every statement may throw, and where an exception goes depends on where it is thrown. Out of the send or the release it reaches the handler inside `sendAuthEmail`
(`Rethrow`), which gives the row back and throws again. The look-up is outside that handler's `try` (`mailer.ts:399`), and so is a release after a missing
configuration; what leaves `sendAuthEmail` reaches the handler of the route (`Thrown`), which gives the row back, except in a registration, whose `finally` has cleared the row before (`Forgotten`). `Die` is an evicted isolate: nothing more of the request runs. `now` is the request's own clock, at most
`Lifetime` behind. `mailed`, `unsure` and `failed` are history; `failed` notes a look-up or a release that threw when no handler was left that holds the row (`Fails`).
Such a row stays in the log for no mail until its window is over. `RowsStandForMail` names that exception and admits no other; that the comments promise there is none is
`PreSendGivesBack`, under [Refuted statements](#refuted-statements-without-a-run).

### EdgeCache, ViewportCameras and MapLanding

`Ask`, `MatchEdge`, `Build`, `Put` are one list request through `withPublicCache`; `Decide` and `Purge` a moderation decision and its
purge, two steps; `Community` a change that purges nothing. `Effect` is the fetch effect of the hook with its
cleanup (`Stopped`), `TimerFires`, `Resolve`, `Arrive`, `Refused`, `Rejected`, `SettleOk` and `Fail` what happens in a run, box
by box and page by page; `cells`, `store`, `merged` are `bboxCache`, `storeRef` and `mergedKeysRef`. In `MapLanding` Leaflet moves at once
(`shown`) and reports later (`Report`), `SelectPlace` arms a landing, `ApplyFocus` frames the place, `Land` is the effect that
consumes the landing, `Reported` the cancellation. A box is a set of points, a payload the number of the change that wrote it.

### FilterUrl and DirectoryPage

| TLA+ | code |
|---|---|
| `address`, `router`, `going` | the address bar, what `useSearchParams` returns, the navigation under way (the last two external) |
| `committed`, `typed`, `timer` | the mirror of the filters, `qInput`, the debounce of the search box |
| `ref`, `seen`, `synced` | `filtersRef`, `routerVisibleSearchRef`, the text the box was last synchronised with |
| `flush` | effects of a render that have not run yet |
| `cache` | `cachedRecords` of the module |
| `legacy`, `walk` | `usePublicCameras` and its request; `cursor`, `reader` the same of `usePublicCamerasPage` |
| `record` | `usePublicCamera` |
| `initial` | the letter chosen in the A–Z index, kept in `DirectoryTool` itself |

`Type` is `setQ` with its three early exits, `Debounced` its timer, `Choose` the setters of the menus, `Reset`, `Follow` a link or the history,
`Navigated` the landing of a navigation; each is a render and, in `Rendered`, the effects of the render before it. After a click React runs the effects before the
next event (`flush = "now"`); after a timer or a navigation other events may come first. `Flush` runs the effects of the filters and those of both data hooks.
`WalkAnswered`, `WalkRefused`, `WalkFailed`, `ReaderAnswered`, `ReaderFailed`, `RecordAnswered` and `RecordFailed` are answers; `OpenRecord` and
`OpenDirectory` unmount one page and mount the other; `ReloadLegacy`, `ReloadCursor`, `ReloadRecord` are the buttons of the error messages.
`Seek` is a click on the A–Z index, which shows in catalog mode once the page is loaded: it sets the letter and the first page. The letter is a filter of the server (`Catalogued`) and one of the
dependencies of the cursor's effect (`CursorFilters`); it is not in the address, and no other action clears it, `Reset` included, so it ends with the page. `at` (the
number of changes before the request) and `of` (the filters of the walk answered last) are history.

## Runs and bounds

| run | states | question |
|---|---|---|
| `CommunityRaces` | 135 000 | two evaluators race on one record: quorum, transitions recorded once, and (fair) privacy votes take effect |
| `CommunitySerial` | 448 000 | do requests that do not overlap implement `RecordConsensus`? |
| `AliasRaces` | 626 000 | the toggle and the actions race for one table, with failing calls and erasures: the cap of a record |
| `LifecycleRaces` | 883 000 | moderation requests and the evaluator of votes race on one submitted record, with failing calls: no decision before an intent, a cause behind every status, no reversal without consensus |
| `RequestRaces` | 229 000 | reports, edits, their reviews, a moderation and an erasure race on two records |
| `RetentionRaces` | 1 550 000 | sweep, moderation, filings, verdicts and legal holds race on one record |
| `AccountRaces` | 470 000 | two requests at a time through every way into two accounts, and two at a time that mint, revoke and write with keys |
| `MailRaces` | 3 370 000 | requests for mail race, throw, are refused, die and time out under a budget of one |
| `MapRaces` | 2 070 000 | pans, filters, searches, fetches, aborts, refusals, caches and decisions interleave |
| `MapSettles` | 192 000 | does the viewport settle, does a landing resolve, once timers and answers are fair? |
| `DirectoryRaces` | 155 000 | clicks, typing, letters, navigations, answers, failures and reloads race on the directory; is it right when it settles, and does it? |
| `ErasureBlocked` | | the statement under [Findings](#findings); stops at its counterexample |

Counts are rounded, and after symmetry reduction where a run uses it: interchangeable slots in the safety runs, interchangeable
accounts in `CommunitySerial` and `LifecycleRaces`. The liveness runs use none.

**Why these bounds.** Every race of the server is between requests about one record, one account or one budget, because a request
holds no more than one of each, and a conditional statement has one winner whatever the number of losers. Two slots therefore
open every window; the number of requests begun is what it takes to set a window up and to have somebody left over who
read the old state.

- Community: `MaxRequests` 3 or 4 meets a threshold of two accounts and leaves one evaluator over. Thresholds are scaled to
  three accounts (by default a removal takes a weighted sum of 3 from three accounts); the theorem on the quorum holds for all thresholds. The
  toggle runs against quotas of one and two, so that a limit, and the second lane reaching it, occur.
- Moderation and votes: two accounts and a quorum of two, one vote lane that votes twice, two moderation requests in parallel. Two of the latter are an
  intent and a decision, or a takedown and a late decision on it; one beside a vote in flight is a takedown, or an approval, under a running evaluator.
  Two votes are one removal, or a confirm by each account; the theorems hold for any number. Marking stale, reverification and recusal occur in `RetentionRaces` and `RequestRaces` or here, wherever
  the status allows them.
- Sweep: one moderation, three appeal requests (a filing and two verdicts, or two filings), two holds, windows of one tick, a clock
  up to 2, chunks of two events, so that every rule fires and a record can be chosen, contested and purged in one behaviour.
- Requests: two desk requests next to one moderation; a report and an edit exist already, so that two requests can decide,
  erase or report against what is open. `ErasureBlocked` begins three.
- Accounts: three requests through two slots; one link of each purpose, one merge request, one passkey and one recovery code
  exist already. The lockout threshold is 2, so it is reached and cleared. Keys: a cap of one, three requests behind the gate (`MaxTasks`) when they are alone, two
  requests in all (`MaxTogether`) when both kinds occur, so that an erasure, a reset or a login meets a mint or a write. Checked once with `MaxTogether = 3` (677 000 states).
- Mail: a budget of one mail, a window of one tick, links that live one tick; three requests, so that a row is refused, released and
  reused.
- Map: three points, three boxes of which one covers the others, two cameras, pages of one record, one decision,
  one act of the user after the first view (`MapSettles`: one camera, two boxes, two acts and no decision). `MapSettles` was checked once with one act and one
  decision (141 000 states).
- Directory: two records, pages of one record, so that every walk has a second page; two texts, two types, two letters, one for each record, the order of the catalog, one the server knows and
  one it does not; two acts after the first view and one change of the server. The two invariants were checked once with three acts (1 660 000 states).

The bounds named in the modules (`MaxRequests`, `MaxDeskRequests`, `MaxAppealRequests`, `MaxHolds`, `MaxTime`, `MaxCalls`, `MaxAssertions`, `MaxTasks`, `MaxTogether`, `MaxClock`,
`MaxChanges`, `MaxActs`, `Retries`) are the only caps, each in the guard of the action it bounds. Deadlock is not an error in these runs because a behaviour
ends when the requests it may begin are used up; a request that could not go on would be seen by the liveness runs, and
in the server models `FailRequest` and its like are enabled wherever a call is.

Type invariants of the other compositions are not runs of their own: they are proved for all constants where a proof module
exists, and were checked once under the bounds above for `ConfirmationAlias` and `MapLanding`.

**Fairness.** `CommunityRaces` assumes weak fairness of each request's own next step (`FairSpec`): the runtime drives an
accepted request to its end. That calls do not fail is a further assumption of that run (`CallsCanFail = FALSE`), because the code
catches a failed evaluation and does not retry it. `MapSettles` assumes weak fairness of what the browser owes the page: armed timers fire
(debounce, cooldown, the report of Leaflet), a request that was sent is answered, effects run. `DirectoryRaces` assumes the same of
effects, of the debounce and navigations, and of answers (which may be failures). Nothing is assumed of users, moderators,
failures or requests being begun: after the last act of the user the viewport must settle, whatever a moderator has decided meanwhile.

## Proofs

Every theorem is about the module's own specification and all values of its constants that satisfy the named `ASSUME`s (finite sets of records,
numbers that are numbers, initial rows that refer to what exists); TLC evaluates the assumptions in the runs. Failures of calls are included.
Four theorems have hypotheses besides, and say so in their statements: `BooksBalance`, `SerialKeepsPromise`, `DomesBare` and `LinksOutlive`.

**CameraLifecycleProofs**, the community lane alone: `TypeCorrect`; `QuorumInductive` and `QuorumBehindStatus`. `StatusHasQuorum` is not inductive: a request between
its reads and its UPDATE may hold votes that were withdrawn or consumed. `QuorumInv` adds that every standing vote has been
cast and that whoever is past the threshold test has counted enough distinct accounts that had cast the
triggering vote. `cast` only grows, so no other step can spoil either.

The same module, both lanes: the instance `Review` and the instance `Facts` of `ReviewQueueProofs` are shown to speak of the same types and steps (`SameType`,
`SameNext`), so the theorems about reviewers are cited, not repeated: `LifecycleTypeCorrect`, `HastyNeverInLifecycle`. `LifecycleInv` takes
`VotesWereCast` and `CandidatesHaveQuorum` from above, which a decision cannot spoil (it writes neither votes nor requests of voters), and adds
that whoever is past the threshold test carries the status its rule starts from (`FromTheRule`). What a step can do to a status then is
a decision on an unpublished or active record, or a rule whose quorum stands (`RuleBehindChange`): `ReversalNeedsConsensus` and `CauseBehindStatus`.

`BooksBalance` is the community lane's account of itself: `AuditBalances` is inductive once `FromTheRule` says that a winner's UPDATE left the status its rule
starts from. Each step is one of three: nothing booked, one transition won (status and winners change together), or one winner's batch (timeline and winners change
together); `CountBy` moves the difference into the four cardinalities. Its hypothesis is `~CallsCanFail`, as in the run: a batch that fails is a
transition nobody records (see `TimelineExplainsStatus` below).

The toggle and the voters together (`AliasSpec`): `CapShared`. `AliasInv` adds to the cap that a request's idea of the time is not ahead of the clock
(`NowsPast`) and that a slot names a record and an account (`Addressed`). A statement that adds a vote counted fewer than the cap as of its own time; as of the
clock there are no more, since the window only moves on.

The refinement of `RecordConsensus`: `SerialKeepsPromise`, for one slot whose calls succeed (`Serial`), which is what `KeepsPromise` needs to be true
at all (with two evaluators or a failed batch it is not, see the findings below). `SerialInv` says what the one request under way may rely on: the status it read, a rule that is met by
the rows as they stand, a record that is not cooling down, and no transition on file that is younger than itself. `Mapping` then gives the refinement mapping in two forms,
outside a transition and inside one, where the abstract record is what the batch of the winner is going to leave. So the UPDATE is the abstract transition
(`SwapSettles`), the batch a stutter (`BatchMaps`), an insert or a switch a vote (`StoreVotes`), and every read a stutter (`LocalMaps`). That an event no older than the others
becomes the latest one (`AppendHidden`) is why the date of the batch may be the date of the request.

**ReviewQueueProofs.** `ReviewTypeCorrect`. `TrailNamesStatus`: inductive together with the types, because the guard of the decision event makes its claim
true at the moment it is appended, whether or not the UPDATE before it matched. `HastyNever`: from the stronger fact that a row in
`second_review`, and every request past its checks on such a row, has an intent on file (`IntentInv`). `TakedownFinal`: no action of the matrix
leads out of `removed` or `rejected`, and the UPDATE compares the status with the one the transition was computed from.
`RowUnique`: rows are opened under the unique index and never reopened.

**ContributorRequestsProofs.** `DeskInv` is the tables well typed (`Tables`) and, for every slot, what its locals say that later steps of others leave
true (`Knows`): a reviewer's slot names a request that exists, the record of an edit, a verdict that was seen and so stands (`Reviews`), a queue row
of that request, and a takedown that was seen and so stands (`Holds`). That others leave it true is `World`: requests and rows are never renumbered, closed requests keep
everything but their author, records taken down stay so. Once every action is shown to keep both (`DeskTypeCorrect`), the rest follows from what a step
does to the tables: `VerdictsFinal`, `DeskTakedownFinal`, `AcceptedIsApplied`, `DeskTrailNamesStatus` and `ErasureUnlinks` (the foreign keys refuse a row for an erased
account), `RequestUnique` (an index admits a new row, and a move of a report is admitted or fails whole), `ItemTrailNamesStatus` (an event lands with its verdict or not
at all). `TakedownStands` lets a rejected record become a removed one: the outcome `removed` of a report asks no status of its record, which the attempt to prove
the narrower statement showed and no run reaches. `RequestsNeverHasty` needs that a row in second review has an intent on file (`FiledInv`). `DomesBare` needs that a slot whose UPDATE is still due would leave no bearing on
a dome if the stamp is the one it read (`FreshEdits`). Its hypothesis is that all edits are guarded by their stamp: the field is optional in the route, the client of
the repository always sends it, and an unguarded write of old fields over a newer type is a dome with a bearing, so the statement is false without it.

**RetentionProofs**, the appeals alone. `AppealInv` adds the appeals and what a slot may know about them: an appeal names an event that
exists and a slot names an appeal that exists. Each step is then described by four facts: the log is unchanged or grows by one truthful event
(`LogStep`), appeals that are closed stay (`AppealsKept`), a new appeal is pending and unique (`AppealsOpened`), and an appeal
that becomes upheld has its record reopened in the same step (`Reviewed`). The theorems `OneOpenAppealEver`, `VerdictsFinal` and `UpheldReviewed` follow
from these without looking at the actions again.

The same module, with the sweep. Every step is one of four kinds, `Served` (any step of `Appeals`), `Swept` (a choice), `Archived` or a purge, and the
theorems are proved over the kinds. `SweepSpares` needs an invariant about what the sweep carries between its select and its deletes
(`ChosenUnprotected`): a chosen record that is under appeal or on hold now has come under it since. `ContestedKept` holds from both sides:
the archiving batch looks again, and a filing against an archived event finds none. `TrailOfTheRestEver` carries
`StatusIsLastClaim` through archiving and deletion; `PurgeFinal`, `PurgeCloses`, `VerdictsFinalInRetention`, `UpheldReviewedInRetention` complete it.

**AccountsProofs** (accounts and passkeys together, `PasskeysSpec`). `Typed` says what a request knows, by kind of request: that the link, code, merge or
account it read exists as a row. `Grows` says rows are never renumbered, accounts never come back and consumed credentials stay
consumed, so what a request knows survives other requests. The safety theorems use what a step can do to each table (`SessionsShape`,
`LinksShape`, `MergesShape`, `CodesShape`): `ErasureLeavesNothing`, `GateHolds`, `NewestLinkOnly`, `OwnersLink`, and `CredentialsOpenOnce`, whose invariant is
that at most one request or session has taken each credential for one use. `ResetsPayForChanges` counts the requests that
have spent a link and not yet changed the password on the side of the changes (`ResetsPaid`, stated for finite sets of them, since requests may be infinitely many).

The same module, with keys. `AccountsUnderKeys`: every step is a step of `PasskeysSpec` or leaves its variables alone, so what is proved about accounts holds here
as well (`ErasureLeavesNoKey` is one such theorem). `ApiKeysTypeCorrect`. `VerifiedWritersOnly` is not inductive: a request past the gate carries the
account to its statement. The invariant adds that whoever a slot past the gate works for was verified, that verification is never taken back, and that an
account that is gone has no live key; the foreign key does the rest. `CapHolds`: only a mint adds a live key, and its statement has counted them.

**AuthMailProofs.** `MailTypeCorrect`; `BudgetHolds`: rows that are given back only shrink a window, rows that are
added were counted by the statement that adds them, and the windows that contain the new row are all within what it counted.
`RowsSettled`: ids are given once (`IdsGiven`), nobody is mailed under an address that is still free (`AddressesTaken`) and a row is held by one request (`HeldOnce`), so the request that settles or releases
a row is the only one that could, and nobody else's mail depends on it. A request lets go of a row it has not given back only where its mail is out or in doubt, or where the call that throws
is noted in `failed`; where another handler is still to come, the request keeps the row on its way there.

`LinksOutlive`: a later request revokes the earlier links of its account, so the link of a mail lives on only because the budget admits nobody else meanwhile.
`LinksInv` therefore ties three things: a request past its admission still has its row in the log (`Holding`) and has been under way for no longer than a request may, the link it is about
to send is live, and the link of a mail that went out is revoked only after the window of its row. Two rows that count at the same moment are one (`SoleRow`), so whoever
mints next does it after that window. The hypotheses are `Limit = 1`, the default of `EMAIL_SEND_LIMIT_MAX` (`db/mailer.ts:80`), and `Lifetime <= Window`: in the model `Lifetime`
is how long a request runs at most, seconds against a window of five minutes.

**ViewportProofs.** `CurrentRunSettles` and `RetriesOnce`: a run that is not over and not aborted is the current one and belongs to the view and filter of the
moment (`RunsInv`); the automatic retry is spent by the refusal that uses it and only returned by the user (`Budget`).

`SettledShows`: pages in the edge cache, in a walk and in the page's own cells were answered by different states of the database, none of which is kept. The invariant
`ShowsInv` says that there is a history, one public set for every change so far, such that every page fits it: it holds the records of its date whose place lies
between its offset and its end. Each write extends the history by the new set and leaves what was said of the older pages alone. A walk whose pages have one date has got every record up
to its offset (`RunGood`, `WalkGood`); the next page begins where it stops, since a record's place among the rows (`Standing`, newest first, as `ORDER BY id DESC`
counts) does not depend on the page. A complete cell therefore holds every record that never changed, and so does the store once the cell is merged. The one induction, that
a set of numbers has a least one (`LeastNat`), goes through the well-founded order of the library.

**DirectoryProofs.** `PagesTyped`, then `PagesInductive`. What a settled page shows was put there by effects, answers and caches of different dates, so
`DirectoryInv` dates everything by the count of the server's changes: the hooks hold the dependencies of the committed filters and the letter unless an
effect is due (`InStep`); the cache holds what was listed when it was filled (`CacheOk`); a walk in progress has got the records up to its offset, or is
older than the last change (`WalkOk`); a list, a page and a record that are shown as current are what the server would answer now (`ListOk`, `PageOk`, `RecordOk`,
`ReaderOk` for the one on its way). A change of the server makes all of them older (`Outdated`), so only answers have to be looked at, and there the work is in pages: that
the next page after the `k` newest begins where they end (`NextPage`, `ReachedNext`) and that an empty page is the end (`LastPageEmpty`), by the count of records above one.
The list of records is finite and its ids are numbers (`DirectoryAssumption`). `DirectoryRight` and `RecordFound` follow.

**Only model-checked.** The liveness properties (`PrivacyTakesEffect`, `SettlesInTheEnd`, `LandingResolves`, `PageSettles`), which are out of the prover's reach. Every
safety property of a passing run is a theorem. The converse: `QuorumInv`, `OneOpenRow`, `PurgeClosesReviews`,
`ItemTrailAgrees`, `ErasedIsUnlinked`, `DirectoryInv` and the types of `ReviewQueue` are proved and no properties of a run; TLC checked each before it was proved.

## Findings

A run that TLC refutes, quoted against what the repository says.

- `ErasureBlocked`: erasure makes the account's reports anonymous (`db/auth.ts:1343`), but a partial unique index allows one open anonymous report per
  record (`drizzle/0024_correction_dedupe_indexes.sql`). When a second reporter of the same record erases the account, the batch throws and nothing
  is erased, although the comment at `auth.ts:1263` promises that the function severs, revokes and deletes.

### Refuted statements without a run

TLC refuted these as well while the models were written. The definitions that are still in the modules are named; put in place of the
properties of the run given, TLC shows the counterexample.

| definition (run) | statement and source |
|---|---|
| `CooldownRespected` (`CommunityRaces`) | "the cooldown delays restoration": it is read from an event inserted after the hiding UPDATE has committed, so a confirm evaluated in between restores at once (ADR 0021:92) |
| `TimelineExplainsStatus` (`CommunityRaces`, `CallsCanFail = TRUE`) | UPDATE and event batch are two calls; a failure between them leaves a status no event explains (`community-actions.ts:131`, ADR 0021:100) |
| `SecondReviewerDecides` (`RetentionRaces`, `MaxRequests = 2`) | one reviewer puts an intent on file and completes the two-person row alone with the opposite verdict (`moderation.ts:872`, ADR 0009:57) |
| `StandsUntilNewConsensus` (`LifecycleRaces`) | "stable until new consensus forms": the confirms cast before a removal, by the voters or by a reviewer, stay and restore the record with the next vote (`community-actions.ts:241`, ADR 0021:107) |
| `EventMeansChange` (`LifecycleRaces`) | "it only lands when the UPDATE above actually applied": the guard asks whether the record has the status, not who gave it, so a decision that lost to an equal one is logged as another change (`moderation.ts:709`, comments at `:691` and `:902`). The status it names is the record's, which `TrailNamesStatus` proves |
| `PublicHistoryExplains` (`LifecycleRaces`) | "every state transition writes a public `camera_lifecycle_events` row": the decisions of reviewers write none (`moderation.ts:926`, ADR 0021:209, `docs/MODERATION.md:41`, `docs/legal/MODERATION_SLA.md:36`) |
| `DismissalStands` (`RetentionRaces`) | the batch of an uphold that lost to a dismissal still sends the record back (`appeals.ts:357`, ADR 0014:93) |
| `IndependentDecider` (`RetentionRaces`) | events of an appeal can be appealed, and then the reviewer of the decision is not excluded (`appeals.ts:195`, ADR 0014:97) |
| `RejectedIsDiscarded` (`RequestRaces`) | the camera part of a correction batch has no guard on the correction: a decision that lost still acts on the record (`moderation.ts:1338`) |
| `ReopenedIsDecided` (`RetentionRaces`) | the age of a pending record counts from its creation and an upheld appeal protects it no longer (`retention.ts:349`, `:246`): the record an appeal sent back may be deleted before anybody "re-decides" (`appeals.ts:290`) |
| `HoldsOutlast` (`RetentionRaces`) | a hold raised between select and delete does not stop the delete (`retention.ts:305`) |
| `PublishedIsKept` (`RetentionRaces`) | a record approved between select and delete is deleted all the same |
| `ArchivalGoesOn` (`RetentionRaces`, `FairSweeps`, no symmetry) | an event that an appeal names by foreign key cannot be deleted, its chunk throws and is the first chunk of every later sweep (`retention.ts:84`, `drizzle/0010:36`) |
| `OldPasswordIsOut` (`AccountRaces`) | a login that checked the old password opens its session after the reset revoked them all |
| `OneAccountPerIdentity` (`AccountRaces`) | two first callbacks of one external identity make two accounts (ADR 0020) |
| `UnverifiedOnlyRegisters` (`AccountRaces`) | the gate is checked before the session is opened |
| `FailuresLock` (`AccountRaces`) | two failures that read one counter count as one (`auth.ts:571`) |
| `RevokedKeyIsOut` (`AccountRaces`) | "revocation takes effect immediately": a write that has resolved its key is stored after the revocation (`docs/TERMS_OF_USE.md:42`, `write-gate.ts:171`) |
| `CounterIsHighest` (`AccountRaces`, `MaxAssertions = 2`) | an older assertion can write its lower counter last (`passkeys.ts:256`) |
| `OneBatchOfCodes` (`AccountRaces`) | two enrolments that renew the codes leave a mixture of both batches (`passkeys.ts:288`) |
| `NewestPayloadWins` (`MapRaces`) | a cached page that is older than what the store shows replaces it (`use-viewport-cameras.ts:25`, `:234`) |
| `TakedownStopsServing` (`MapRaces`) | a list built before the decision is stored after the purge (`public-cache.ts:61`, `api/moderation/route.ts:466`) |
| `PreSendGivesBack` (`MailRaces`) | "the catch below covers ONLY token-mint / pre-send exceptions", which "must roll the exact mail reservation back" (`api/auth/register/route.ts:124`, `:227`): the look-up of the reservation throws inside `sendAuthEmail` before its `try` (`mailer.ts:399`), the `finally` clears the id (`route.ts:203`) and the catch has nothing to release (`:233`), so a registration without a mail uses up the budget |
| `WalkFollowsFilters` (`DirectoryRaces`, as all below: `MaxActs = 3`, `SPECIFICATION Safety`) | "each combo is its own query": the key of the effect leaves out text, state and origin, so the walk is not repeated for them (`use-public-cameras.ts:429`, `:432`); the page filters what it has |
| `AddressTellsCatalog` | "Deep links, shareable URLs and back/forward all re-derive the same" (`DirectoryTool.tsx:31`): the letter is kept outside the address and no setter clears it (`:67`, `:196`), so after a letter and a reset the page lists that letter only, under an address that asks for everything |
| `EmptyIsHonest` | "an honest 'no records'": the old list, or none, is shown as final while the next walk is under way, because only `reload` sets `loading` again (`use-public-cameras.ts`) |
| `BannerSurvives` | "the banner contract must survive a warm directory cache": the cache answers for a record withdrawn after it was filled (`use-public-cameras.ts:343`) |
| `AddressIsMirror` | "every EXTERNAL URL change re-derives the mirror": a debounce or a reset between the landing of a navigation and the effects of its render leaves address and mirror apart (`use-camera-filters.ts`) |
| `SearchBoxAgrees` | "keep the input in sync with the committed q": refuted the same way |

Without a definition in the modules:

- "stale actions cannot re-trigger" (ADR 0021, line 294): an evaluator holding consumed votes wins again
  after the record has returned to the status it read (`community-actions.ts:273`).
- consumption deletes votes of the triggering type cast after the count (`:316`).
- a switch keeps `created_at`, so changes of mind escape the per-record cap if it is read as a cap on changes (`:485`), and,
  through the toggle, the daily quota that both lanes are meant to share.
- a privacy vote on a record that is already hidden is not evaluated, and not re-evaluated after the restore (`:205`).
- "the FIRST one that holds is the truthful rejection reason" (`confirmations.ts:337`): who liked a record and then
  verifies it is told the quota is exhausted (`:352`).

`ReversedByConsensus` is about voters and reviewers. An upheld appeal sends a removed record back to pending and an approval then publishes it again, by
people in office (`Appeals`); "never an admin restore" (ADR 0021:213) is not true of that path.

What holds only under a hypothesis: `DeliveredLinkLives` needs a budget of one mail per window and requests shorter than the window, in its run as in `LinksOutlive`. With a
larger budget, or a request that stalls longer, a later request revokes the link of a mail that was delivered after it; a resend that is refused
in a later window revokes the earlier link, too. An offset walk over pages can skip a record when the set changes under it, a
withdrawn record stays in the client's store until the page is left, and a change of status by the community, the sweep or an appeal purges no
cache: `ShownIfSettled` is about what the answers contained.

## What is not modelled

- Search and export of records on the server, statistics, facets and totals of the directory, which letters its index highlights, the report wizard, pages, translations, legal texts: they read and render.
- In-memory rate limits (counters of one isolate, approximate by design), the CSRF and origin checks, freshness of records, geocoding and its caches,
  import scripts, routing in the edge worker: single statements, or I/O with external services.
- WebAuthn, OIDC and password cryptography: a check is a choice of its outcomes. Delivery of mail and the answers of providers are
  choices as well, marked external in `PROJECT.json`.
- In modelled files: the 60-second settings cache (settings are constants), deactivation and roles of reviewers while a request runs,
  duration and escalation of a lockout, the cap on registrations per address, appeals about corrections, evidence attached to
  requests, retention rules R4, R7, R12 and R15 to R17 (one DELETE by age each; R18 is in `AuthMail`, and what R21 deletes is dead in `ApiKeys` already), scopes of API keys, the wording of events, timestamps finer than a tick, and the
  legacy status `verified` (the outcome event of a correction writes it as the previous status).
- Two pairs of awaited calls are one step: the look-ups of an identity and of its address (`Accounts.ResolveIdentity`), and the fetch and the commit of one focused record
  (`ViewportCameras.Focus`). Creating the account and asking for the merge are steps of their own.
- A legal hold is released in the code by comparing creation times with `>=`; the model compares positions in the log.

## Plan

Done: the community lane and the alias, the review queue, both on one record, requests of contributors, appeals, the sweep, accounts, passkeys, API keys, mail, cache, map
and directory, with the proofs above. What is left, in order of importance:

1. Creation of records with its dedupe key; appeals, requests and the sweep next to the voters (`CameraLifecycle` composes reviewers and voters only).
2. Appeals about corrections, and requests next to the sweep.
3. The settings cache: thresholds that differ between two isolates for a minute.
