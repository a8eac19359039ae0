---------------------------- MODULE DirectoryPage ----------------------------
(***************************************************************************)
(* The directory and the page of one record around their data layer          *)
(* (DirectoryTool.tsx, use-public-cameras.ts, use-public-cameras-page.ts,     *)
(* RecordPageBody.tsx): the legacy walk over the whole list, the pages by     *)
(* cursor, and the list cached in the module that both pages read.            *)
(*                                                                         *)
(* Simplifications:                                                        *)
(*  - one page is mounted at a time and React runs the clean-ups of a commit    *)
(*    before its effects, so nobody joins a walk that is under way;             *)
(*  - an aborted request settles before the next event and nobody listens, so   *)
(*    it leaves the model at once;                                            *)
(*  - every order lists records by number, the walk from the highest; totals     *)
(*    and the wait after a refusal decide nothing;                             *)
(*  - the effects of a commit that the next one overtakes are left out here.     *)
(***************************************************************************)
EXTENDS FilterUrl, FiniteSetsExt

CONSTANTS
    Cameras, NoCamera, \* records are numbers
    TextOf, TypeOf,
    Letters, NoLetter, InitialOf, \* of the titles
    Position,         \* the one order the server does not know
    WalkLimit, PageLimit, \* records per page of a walk, and of the catalog
    Retries,          \* WALK_RATE_LIMIT_RETRIES
    MaxChanges        \* records withdrawn or deleted at most
ASSUME DirectoryAssumption ==
    /\ Cameras \subseteq Nat /\ IsFiniteSet(Cameras) /\ NoCamera \notin Cameras /\ Position \in Sorts
    /\ DOMAIN TextOf = Cameras /\ DOMAIN TypeOf = Cameras /\ DOMAIN InitialOf = Cameras
    /\ WalkLimit \in Nat \ {0} /\ PageLimit \in Nat \ {0} /\ Retries \in Nat /\ MaxChanges \in Nat

VARIABLES
    server,           \* "listed", reachable by its link only ("withdrawn"), or "gone"
    changes,          \* changes of the server so far, the date of an answer
    cache,            \* cachedRecords
    initial,          \* the letter chosen in the A-Z index; it is not in the address
    legacy, walk,     \* usePublicCameras and its request
    cursor, reader,   \* usePublicCamerasPage and its request
    record            \* usePublicCamera; its id is NoCamera on the directory

hooks == <<legacy, walk, cursor, reader>>
vars == <<fvars, initial, server, changes, cache, hooks, record>>

\* applyCameraFilters, and what the server selects for the same parameters.
Matching(set, f) ==
    {c \in set : f.q \in {NoText, TextOf[c]} /\ f.type \in {All, TypeOf[c]}}
Listed(f) == Matching({c \in Cameras : server[c] = "listed"}, f)
\* What the catalog is asked for: filters and a letter.
Queries == Filters \X (Letters \cup {NoLetter})
Catalogued(query) == {c \in Listed(query[1]) : query[2] \in {NoLetter, InitialOf[c]}}
\* The first n of a set, from the highest or the lowest number.
Highest(set, n) == {c \in set : Cardinality({d \in set : d > c}) < n}
Lowest(set, n) == {c \in set : Cardinality({d \in set : d < c}) < n}

\* at is the number of changes before the request for the records.
Cache == [known : BOOLEAN, records : SUBSET Cameras, at : Nat]
Cold == [known |-> FALSE, records |-> {}, at |-> 0]
\* deps are the dependencies the effect last ran for.
Deps == [key : Types, active : BOOLEAN, enabled : BOOLEAN, attempt : Nat]
\* of are the filters of the walk that was answered last.
Legacy == [loading : BOOLEAN, error : BOOLEAN, records : SUBSET Cameras, at : Nat, of : Filters,
           attempt : Nat, deps : Deps]
\* The filters of a shared walk are NoFilters.
Walk == [on : BOOLEAN, shared : BOOLEAN, filters : Filters, offset : Nat, tries : Nat,
         got : SUBSET Cameras, at : Nat]
NoWalk == [on |-> FALSE, shared |-> FALSE, filters |-> NoFilters, offset |-> 0, tries |-> 0,
           got |-> {}, at |-> 0]
Cursor == [loading : BOOLEAN, error : BOOLEAN, records : SUBSET Cameras, at : Nat,
           attempt : Nat, deps : Queries \X Int]
\* page is the one being read; after is the last record of the page before it.
Reader == [on : BOOLEAN, query : Queries, page : Nat, after : Int, at : Nat]
NoReader == [on |-> FALSE, query |-> <<NoFilters, NoLetter>>, page |-> 1, after |-> -1, at |-> 0]
Page == [id : Cameras \cup {NoCamera}, found : Cameras \cup {NoCamera}, loading : BOOLEAN,
         error : BOOLEAN, at : Nat]
NoRecord == [id |-> NoCamera, found |-> NoCamera, loading |-> FALSE, error |-> FALSE, at |-> 0]

DirectoryTypeOK ==
    /\ FilterTypeOK /\ initial \in Letters \cup {NoLetter}
    /\ server \in [Cameras -> {"listed", "withdrawn", "gone"}] /\ changes \in Nat
    /\ cache \in Cache /\ legacy \in Legacy /\ walk \in Walk
    /\ cursor \in Cursor /\ reader \in Reader /\ record \in Page
-----------------------------------------------------------------------------
(* The two data hooks of the directory.                                     *)

UsesCursor(f) == f.sort = Alphabetical

\* hasServerFilters: every order but position is a filter of its own.
Active(f) ==
    ~UsesCursor(f) /\ (f.sort # Position \/ [f EXCEPT !.page = 1, !.sort = Position]
                                              # [NoFilters EXCEPT !.sort = Position])
\* filterKey
Key(f) == IF Active(f) THEN f.type ELSE All
LegacyDeps(f, attempt) ==
    [key |-> Key(f), active |-> Active(f), enabled |-> ~UsesCursor(f), attempt |-> attempt]

\* What a hook shows before its first effect.
FreshLegacy(f) ==
    [loading |-> Active(f) \/ ~cache.known, error |-> FALSE, records |-> {}, at |-> changes,
     of |-> NoFilters, attempt |-> 0, deps |-> [LegacyDeps(f, 0) EXCEPT !.enabled = FALSE]]
FreshCursor(f) ==
    [loading |-> TRUE, error |-> FALSE, records |-> {}, at |-> changes, attempt |-> 0,
     deps |-> <<<<f, NoLetter>>, -1>>]

\* An answer that lists nothing leaves the records of the last one.
Shows(hook, records, f, at) ==
    LET answered == [hook EXCEPT !.loading = FALSE, !.error = FALSE]
    IN  [answered EXCEPT !.of = f,
           !.records = IF records = {} THEN @ ELSE records,
           !.at = IF records = {} /\ hook.records # {} THEN @ ELSE at]
Failed(hook) == [hook EXCEPT !.loading = FALSE, !.error = TRUE]

Walking(f) == [NoWalk EXCEPT !.on = TRUE, !.shared = ~Active(f), !.at = changes,
                             !.filters = IF Active(f) THEN f ELSE NoFilters]
\* The effect of usePublicCameras; a shared walk is answered by the cache.
LegacyEffect(f) ==
    LET deps == LegacyDeps(f, legacy.attempt)
        ran == [legacy EXCEPT !.deps = deps]
    IN  IF deps = legacy.deps THEN UNCHANGED <<legacy, walk>>
        ELSE IF ~deps.enabled THEN legacy' = ran /\ walk' = NoWalk
        ELSE IF ~deps.active /\ cache.known
          THEN legacy' = Shows(ran, cache.records, NoFilters, cache.at) /\ walk' = NoWalk
          ELSE legacy' = ran /\ walk' = Walking(f)

\* The effect of usePublicCamerasPage: in legacy mode it walks the unfiltered list.
CursorFilters(f, letter) ==
    IF UsesCursor(f) THEN <<f, letter>>
                     ELSE <<[NoFilters EXCEPT !.sort = Position, !.page = f.page], NoLetter>>
CursorEffect(f) ==
    LET deps == <<CursorFilters(f, initial), cursor.attempt>>
    IN  IF deps = cursor.deps THEN UNCHANGED <<cursor, reader>>
        ELSE /\ cursor' = [cursor EXCEPT !.deps = deps, !.loading = TRUE, !.error = FALSE,
                                         !.records = {}]
             /\ reader' = [NoReader EXCEPT !.on = TRUE, !.query = deps[1], !.at = changes]

OnDirectory == record.id = NoCamera
Flush ==
    /\ OnDirectory /\ RunEffects
    /\ LegacyEffect(committed) /\ CursorEffect(committed)
    /\ UNCHANGED <<initial, server, changes, cache, record>>
-----------------------------------------------------------------------------
(* Answers, outside the effects of a click.                                  *)

Answer == flush # "now" /\ UNCHANGED <<fvars, initial, server, changes>>

WalkPage == Highest(Listed(walk.filters), walk.offset + WalkLimit)
              \ Highest(Listed(walk.filters), walk.offset)
LastPage == Cardinality(Listed(walk.filters)) <= walk.offset + WalkLimit
\* Mutant of Seeds: a filtered walk seeds the cache, too.
SeedsAll == TRUE
Seeds == walk.shared

WalkAnswered ==
    /\ walk.on /\ Answer
    /\ LET got == walk.got \cup WalkPage IN
       IF LastPage
         THEN /\ walk' = NoWalk /\ legacy' = Shows(legacy, got, walk.filters, walk.at)
              /\ cache' = IF Seeds THEN [known |-> TRUE, records |-> got, at |-> walk.at] ELSE cache
         ELSE /\ walk' = [walk EXCEPT !.got = got, !.offset = @ + WalkLimit, !.tries = 0]
              /\ UNCHANGED <<legacy, cache>>
    /\ UNCHANGED <<cursor, reader, record>>

WalkRefused ==
    /\ walk.on /\ Answer
    /\ walk.tries < Retries /\ walk' = [walk EXCEPT !.tries = @ + 1]
    /\ UNCHANGED <<legacy, cursor, reader, cache, record>>

\* An error, or one refusal too many.
WalkFailed ==
    /\ walk.on /\ Answer
    /\ walk' = NoWalk /\ legacy' = Failed(legacy)
    /\ UNCHANGED <<cursor, reader, cache, record>>

CatalogPage == Lowest({c \in Catalogued(reader.query) : c > reader.after}, PageLimit)
ReaderAnswered ==
    /\ reader.on /\ Answer
    /\ IF reader.page = reader.query[1].page \/ CatalogPage = {}
         THEN /\ reader' = NoReader
              /\ cursor' = [cursor EXCEPT !.loading = FALSE, !.at = reader.at,
                                          !.records = CatalogPage]
         ELSE /\ reader' = [reader EXCEPT !.page = @ + 1, !.after = Max(CatalogPage)]
              /\ UNCHANGED cursor
    /\ UNCHANGED <<legacy, walk, cache, record>>
ReaderFailed ==
    /\ reader.on /\ Answer
    /\ reader' = NoReader /\ cursor' = Failed(cursor)
    /\ UNCHANGED <<legacy, walk, cache, record>>
-----------------------------------------------------------------------------
(* The page of a record, and the way between the pages.                      *)

\* Mutant of Resolved: a record that the cached list does not have is not found.
ListedOnly(id) ==
    IF cache.known
      THEN [NoRecord EXCEPT !.id = id, !.found = IF id \in cache.records THEN id ELSE NoCamera,
                            !.at = cache.at]
      ELSE [NoRecord EXCEPT !.id = id, !.loading = TRUE, !.at = changes]
\* usePublicCamera with its effect: the cache, then the endpoint of the record.
Resolved(id) ==
    IF cache.known /\ id \in cache.records
      THEN [NoRecord EXCEPT !.id = id, !.found = id, !.at = cache.at]
      ELSE [NoRecord EXCEPT !.id = id, !.loading = TRUE, !.at = changes]

\* Unmounting a page clears its timer and aborts its requests.
NewHooks(f) ==
    /\ Mount(f) /\ initial' = NoLetter
    /\ legacy' = FreshLegacy(f) /\ walk' = NoWalk
    /\ cursor' = FreshCursor(f) /\ reader' = NoReader
Arrives == flush # "now" /\ acts < MaxActs /\ acts' = acts + 1 /\ UNCHANGED <<server, changes>>

OpenRecord(id) ==
    /\ OnDirectory /\ Arrives
    /\ record' = Resolved(id)
    /\ NewHooks(NoFilters)
    /\ UNCHANGED cache
OpenDirectory(link) ==
    /\ ~OnDirectory /\ Arrives
    /\ record' = NoRecord
    /\ NewHooks(link)
    /\ UNCHANGED cache

RecordAnswered ==
    /\ record.loading /\ Answer
    /\ record' = [record EXCEPT !.loading = FALSE,
                                !.found = IF server[record.id] = "gone" THEN NoCamera ELSE record.id]
    /\ UNCHANGED <<hooks, cache>>
RecordFailed ==
    /\ record.loading /\ Answer
    /\ record' = [record EXCEPT !.loading = FALSE, !.error = TRUE]
    /\ UNCHANGED <<hooks, cache>>

\* reload, offered with an error: the legacy hook and the page of a record drop the cache.
\* Mutant of Attempted: the effect is not asked to run again.
NotAttempted(hook) == hook
Attempted(hook) == [hook EXCEPT !.attempt = @ + 1]
ReloadLegacy ==
    /\ OnDirectory /\ ~UsesCursor(committed) /\ legacy.error /\ User
    /\ legacy' = [Attempted(legacy) EXCEPT !.error = FALSE, !.loading = TRUE]
    /\ cache' = Cold
    /\ Rendered(committed, typed)
    /\ UNCHANGED <<address, router, going, timer, initial, server, changes, walk, cursor, reader,
                   record>>
ReloadCursor ==
    /\ OnDirectory /\ UsesCursor(committed) /\ cursor.error /\ User
    /\ cursor' = Attempted(cursor)
    /\ Rendered(committed, typed)
    /\ UNCHANGED <<address, router, going, timer, initial, server, changes, cache, legacy, walk,
                   reader, record>>
ReloadRecord ==
    /\ record.error /\ acts < MaxActs /\ acts' = acts + 1
    /\ record' = [NoRecord EXCEPT !.id = record.id, !.loading = TRUE, !.at = changes]
    /\ cache' = Cold
    /\ UNCHANGED <<address, router, going, committed, typed, timer, ref, seen, synced, flush,
                   initial, server, changes, hooks>>

\* onInitialSeek: a letter of the A-Z index, which shows in catalog mode once loaded.
Seek(letter) ==
    /\ OnDirectory /\ UsesCursor(committed) /\ ~cursor.loading
    /\ Choose([ref EXCEPT !.page = 1])
    /\ initial' = letter
    /\ UNCHANGED <<server, changes, cache, hooks, record>>

\* A moderator or the sweep takes a record off the list.
ServerChange(c, status) ==
    /\ changes < MaxChanges /\ changes' = changes + 1
    /\ server[c] = "listed" /\ server' = [server EXCEPT ![c] = status]
    /\ UNCHANGED <<fvars, initial, cache, hooks, record>>
-----------------------------------------------------------------------------
Init ==
    /\ server = [c \in Cameras |-> "listed"] /\ changes = 0 /\ cache = Cold
    /\ walk = NoWalk /\ reader = NoReader /\ record = NoRecord /\ initial = NoLetter
    /\ \E f \in Links : FilterInit(f) /\ legacy = FreshLegacy(f) /\ cursor = FreshCursor(f)

\* No filter of the address touches the letter, nor does Reset.
Filtering == OnDirectory /\ FilterStep
                         /\ UNCHANGED <<initial, server, changes, cache, hooks, record>>
Waking == OnDirectory /\ (Debounced \/ Navigated)
                      /\ UNCHANGED <<initial, server, changes, cache, hooks, record>>
Answering ==
    \/ WalkAnswered \/ WalkRefused \/ WalkFailed
    \/ ReaderAnswered \/ ReaderFailed
    \/ RecordAnswered \/ RecordFailed
Next ==
    \/ Filtering \/ Waking \/ Flush \/ Answering
    \/ \E id \in Cameras : OpenRecord(id)
    \/ \E link \in Links : OpenDirectory(link)
    \/ \E letter \in Letters : Seek(letter)
    \/ ReloadLegacy \/ ReloadCursor \/ ReloadRecord
    \/ \E c \in Cameras, status \in {"withdrawn", "gone"} : ServerChange(c, status)

Safety == Init /\ [][Next]_vars
\* Timers fire, effects run, navigations land, and requests are answered or fail.
Spec == Safety /\ WF_vars(Flush) /\ WF_vars(Waking) /\ WF_vars(Answering)
-----------------------------------------------------------------------------
(* What must hold.                                                          *)

Loading ==
    IF ~OnDirectory THEN record.loading
    ELSE IF UsesCursor(committed) THEN cursor.loading ELSE legacy.loading
\* Nothing is left to happen on the page.
Settled == ~Loading /\ ~walk.on /\ ~reader.on /\ (OnDirectory => AtRest)

Catalog(f, letter) ==
    LET listed == Catalogued(<<f, letter>>)
    IN  Lowest(listed, PageLimit * f.page) \ Lowest(listed, PageLimit * (f.page - 1))
CatalogIsRight ==
    UsesCursor(committed) /\ ~cursor.error /\ cursor.at = changes
      => cursor.records = Catalog(committed, initial)
\* What the filters of the page leave of the list.
ListIsRight ==
    ~UsesCursor(committed) /\ ~legacy.error /\ legacy.at = changes
      => LET shown == Matching(legacy.records, committed)
         IN  /\ shown \subseteq Listed(committed)
             /\ Matching(Listed([legacy.of EXCEPT !.type = All]), committed) \subseteq shown
RecordIsRight ==
    ~record.error /\ record.at = changes
      => (record.found # NoCamera <=> server[record.id] # "gone")
\* Whatever clicks, answers, failures and reloads came in between, a directory that has
\* settled shows its page of the catalog for the filters and the letter chosen, or the records
\* of its type that the last walk was about.
DirectoryIsRight == Settled /\ OnDirectory => CatalogIsRight /\ ListIsRight
\* The page of a record finds it if the server has it, withdrawn records included, whatever
\* the list in the cache says.
RecordIsFound == Settled /\ ~OnDirectory => RecordIsRight

\* Once the user stops, the page says in the end what it has found.
PageSettles == <>[]Settled
-----------------------------------------------------------------------------
(* What the comments say and some order of events refutes.                  *)

\* "Server-filtered walks re-run when the filter combo changes (each combo is its own
\* query)" (use-public-cameras.ts): the list is that of the filters of the page.
WalkFollowsFilters ==
    Settled /\ OnDirectory /\ ~UsesCursor(committed) /\ ~legacy.error /\ legacy.at = changes
      => Matching(legacy.records, committed) = Listed(committed)

\* "Deep links, shareable URLs and back/forward all re-derive the same" (DirectoryTool.tsx):
\* a page of the catalog is that of its address.
AddressTellsCatalog ==
    Settled /\ OnDirectory /\ UsesCursor(committed) /\ ~cursor.error /\ cursor.at = changes
        /\ address = committed
      => cursor.records = Catalog(address, NoLetter)

\* "callers can render an honest 'no records'" (use-public-cameras.ts): no list is shown
\* empty while the walk that may find something is under way.
EmptyIsHonest ==
    OnDirectory /\ ~UsesCursor(committed) /\ walk.on /\ ~legacy.loading /\ ~legacy.error
      => Matching(legacy.records, committed) # {}

\* "the banner contract must survive a warm directory cache" (use-public-cameras.ts): the
\* page of a withdrawn record asks the server.
BannerSurvives ==
    [][\A id \in Cameras : OpenRecord(id) /\ server[id] = "withdrawn" => record'.loading]_vars
=============================================================================
