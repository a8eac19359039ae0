------------------------------ MODULE EdgeCache ------------------------------
(***************************************************************************)
(* How a public record is read: GET /api/cameras?bbox behind the cache of    *)
(* the worker, and the purge that follows a moderation decision              *)
(* (app/lib/public-cache.ts, cache-purge.ts, app/api/cameras/route.ts).      *)
(*                                                                         *)
(* Simplifications: a box is the set of its points; a payload is the number   *)
(* of the change that wrote it, 0 while the record is not public; the cache   *)
(* fails open and is modelled working.                                     *)
(***************************************************************************)
EXTENDS Naturals, Sequences, FiniteSets

CONSTANTS
    Cameras,          \* record numbers
    Points, Boxes,    \* a box is a set of points
    Place, Kind,      \* of each record
    Filters, NoFilter,
    Wide, Sample,     \* boxes answered by a sample, and its records
    PageSize,         \* records in one answer
    Readers,          \* requests in flight together
    MaxChanges

ASSUME EdgeAssumption ==
    /\ Cameras \subseteq Nat \ {0} /\ IsFiniteSet(Cameras)
    /\ IsFiniteSet(Points) /\ Boxes \subseteq SUBSET Points /\ Wide \subseteq Boxes /\ Sample \subseteq Cameras
    /\ Place \in [Cameras -> Points] /\ Kind \in [Cameras -> Filters] /\ NoFilter \in Filters
    /\ PageSize \in Nat \ {0} /\ MaxChanges \in Nat

VARIABLES
    db,               \* payload of each record
    changes,          \* so far: the last payload
    desk,             \* records whose decision is stored and not purged yet
    edge,             \* the worker's cache
    get               \* locals of each request

evars == <<db, changes, desk, edge, get>>

Urls == [box : Boxes, filter : Filters, offset : Nat]
Record == [id : Cameras, payload : Nat]
\* next is the offset of the next page, 0 when there is none; made is the last
\* change before the answer was built.
Page == [records : SUBSET Record, next : Nat, sampled : BOOLEAN, made : Nat]
NoPage == [records |-> {}, next |-> 0, sampled |-> FALSE, made |-> 0]
Answers == {"ok", "limited", "failed"}
Get == [pc : {"idle", "match", "build", "put", "done"}, url : Urls, answer : Answers, page : Page]

EdgeTypeOK ==
    /\ db \in [Cameras -> Nat] /\ changes \in Nat
    /\ desk \subseteq Cameras
    /\ edge \subseteq [url : Urls, page : Page]
    /\ \A r \in Readers : get[r].pc # "idle" => get[r] \in Get

IdleGet == [pc |-> "idle"]
EdgeInit ==
    /\ db = [c \in Cameras |-> 1] /\ changes = 1
    /\ desk = {} /\ edge = {}
    /\ get = [r \in Readers |-> IdleGet]

\* The rows of a request.
Rows(url) ==
    LET public == {c \in Cameras : /\ db[c] # 0 /\ Place[c] \in url.box
                                   /\ url.filter \in {NoFilter, Kind[c]}}
    IN  IF url.box \in Wide THEN public \cap Sample ELSE public
\* Where a record stands among the rows, the newest first.
Standing(rows, c) == Cardinality({d \in rows : d >= c})
\* listPublicCamerasInBboxPage: a sample is one page, anything else is walked by offset.
Answer(url) ==
    LET rows == Rows(url)
        total == Cardinality(rows)
        whole == url.box \in Wide
        last == IF whole \/ total < url.offset + PageSize THEN total ELSE url.offset + PageSize
        answered == {c \in rows : url.offset < Standing(rows, c) /\ Standing(rows, c) <= last}
    IN  [records |-> {[id |-> c, payload |-> db[c]] : c \in answered},
         next |-> IF last < total THEN last ELSE 0,
         sampled |-> whole, made |-> changes]
-----------------------------------------------------------------------------
(* One request.                                                            *)

Ask(r, url) ==
    /\ get[r].pc = "idle"
    /\ get' = [get EXCEPT ![r] = [pc |-> "match", url |-> url, answer |-> "ok", page |-> NoPage]]

MatchEdge(r) ==
    /\ get[r].pc = "match"
    /\ \/ \E e \in edge :
            /\ e.url = get[r].url
            /\ get' = [get EXCEPT ![r].pc = "done", ![r].page = e.page]
       \/ /\ \A e \in edge : e.url # get[r].url
          /\ get' = [get EXCEPT ![r].pc = "build"]
    /\ UNCHANGED <<db, changes, desk, edge>>

\* The read bucket of the rate limiter, the query, and a database that fails.
Build(r) ==
    /\ get[r].pc = "build"
    /\ \/ get' = [get EXCEPT ![r].pc = "put", ![r].page = Answer(get[r].url)]
       \/ \E answer \in {"limited", "failed"} :
            get' = [get EXCEPT ![r].pc = "done", ![r].answer = answer]
    /\ UNCHANGED <<db, changes, desk, edge>>

Put(r) ==
    /\ get[r].pc = "put"
    /\ edge' = {e \in edge : e.url # get[r].url} \cup {[url |-> get[r].url, page |-> get[r].page]}
    /\ get' = [get EXCEPT ![r].pc = "done"]
    /\ UNCHANGED <<db, changes, desk>>

Serve(r) == MatchEdge(r) \/ Build(r) \/ Put(r)

EdgeExpires(e) ==
    /\ e \in edge
    /\ edge' = edge \ {e}
    /\ UNCHANGED <<db, changes, desk, get>>
-----------------------------------------------------------------------------
(* Changes of the public set.                                              *)

Write(c, payload) ==
    /\ changes < MaxChanges
    /\ changes' = changes + 1
    /\ db' = [db EXCEPT ![c] = payload]

\* A decision stores the record...
Decide(c) ==
    /\ c \notin desk
    /\ \E payload \in {changes + 1, 0} : payload # db[c] /\ Write(c, payload)
    /\ desk' = desk \cup {c}
    /\ UNCHANGED <<edge, get>>
\* ... and then purges the list, unless the call of the purge fails.
Purge(c) ==
    /\ c \in desk
    /\ desk' = desk \ {c}
    /\ (edge' = {} \/ UNCHANGED edge)
    /\ UNCHANGED <<db, changes, get>>

\* The community hides, removes or restores a record: nothing is purged.
Community(c) ==
    /\ \E payload \in {changes + 1, 0} : payload # db[c] /\ Write(c, payload)
    /\ UNCHANGED <<desk, edge, get>>

EdgeStep ==
    \/ \E r \in Readers : Serve(r)
    \/ \E e \in edge : EdgeExpires(e)
    \/ \E c \in Cameras : Decide(c) \/ Purge(c) \/ Community(c)
=============================================================================
