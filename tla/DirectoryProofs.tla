---- MODULE DirectoryProofs ----
(* Proofs about DirectoryPage: the state of the map and directory hooks is well formed, what they hold is  *)
(* what their effects asked for as of its date, and so a page that has settled is right, for any records,  *)
(* any filters and any sizes of the pages.                                                                 *)
EXTENDS DirectoryPage, FiniteSetTheorems, WellFoundedInduction, TLAPS

-----------------------------------------------------------------------------
(* Numbers, and the order of the records.                                   *)

\* A set of numbers has a least one.
LEMMA LeastNumber ==
    ASSUME NEW S \in SUBSET Nat, S # {}
    PROVE  \E x \in S : \A y \in S : x <= y
<1> DEFINE less == OpToRel(<, Nat)
<1>1. IsWellFoundedOn(less, Nat)
  BY NatLessThanWellFounded
<1>2. PICK x \in S : \A y \in S : ~(<<y, x>> \in less)
  <2> HIDE DEF less
  <2> QED
    BY <1>1, WFMin
<1>3. \A y \in S : ~(y < x)
  BY <1>2 DEF OpToRel
<1> QED
  BY <1>3

Below(S, c) == {d \in S : d < c}

\* How many of a finite set of numbers lie below one of them grows with it.
LEMMA BelowGrows ==
    ASSUME NEW S \in SUBSET Nat, IsFiniteSet(S), NEW c \in S, NEW d \in S, d < c
    PROVE  /\ Cardinality(Below(S, d)) \in Nat /\ Cardinality(Below(S, c)) \in Nat
           /\ Cardinality(Below(S, d)) < Cardinality(Below(S, c))
<1>1. Below(S, d) \in SUBSET Below(S, c) /\ Below(S, d) # Below(S, c) /\ Below(S, c) \in SUBSET S
  <2>1. c \in Nat /\ d \in Nat /\ \A e \in S : e \in Nat
    OBVIOUS
  <2>2. ASSUME NEW x \in S, x < d
        PROVE  x < c
    BY <2>1, <2>2
  <2>3. Below(S, d) \subseteq Below(S, c) /\ Below(S, c) \subseteq S
    BY <2>2 DEF Below
  <2>4. d \in Below(S, c) /\ d \notin Below(S, d)
    BY <2>1 DEF Below
  <2> QED
    BY <2>3, <2>4
<1>2. IsFiniteSet(Below(S, c))
  BY <1>1, FS_Subset
<1>3. /\ IsFiniteSet(Below(S, d)) /\ Cardinality(Below(S, d)) <= Cardinality(Below(S, c))
      /\ Cardinality(Below(S, c)) = Cardinality(Below(S, d)) => Below(S, c) = Below(S, d)
  BY <1>1, <1>2, FS_Subset
<1>4. Cardinality(Below(S, d)) \in Nat /\ Cardinality(Below(S, c)) \in Nat
  BY <1>2, <1>3, FS_CardinalityType
<1> QED
  BY <1>1, <1>3, <1>4

\* A finite set of numbers has a greatest one, which Max returns.
LEMMA GreatestNumber ==
    ASSUME NEW S \in SUBSET Nat, IsFiniteSet(S), S # {}
    PROVE  Max(S) \in S /\ \A y \in S : y <= Max(S)
<1> DEFINE rank(x) == Cardinality(Below(S, x))
           ranks == {n \in Nat : \E x \in S : n = Cardinality(S) - rank(x)}
<1>1. \A x \in S : IsFiniteSet(Below(S, x)) /\ Cardinality(Below(S, x)) <= Cardinality(S)
  BY FS_Subset DEF Below
<1>2. Cardinality(S) \in Nat /\ \A x \in S : rank(x) \in Nat
  BY <1>1, FS_CardinalityType
<1>3. ranks \in SUBSET Nat /\ ranks # {}
  <2>1. PICK x \in S : TRUE
    OBVIOUS
  <2>2. Cardinality(S) - rank(x) \in Nat
    BY <1>1, <1>2, <2>1
  <2> QED
    BY <2>2
<1>4. PICK n \in ranks : \A m \in ranks : n <= m
  <2> HIDE DEF ranks
  <2> QED
    BY <1>3, LeastNumber
<1>5. PICK x \in S : n = Cardinality(S) - rank(x)
  BY <1>4
<1>6. ASSUME NEW y \in S, ~(y <= x)
      PROVE  FALSE
  <2>1. rank(x) < rank(y)
    BY <1>6, BelowGrows
  <2>2. Cardinality(S) - rank(y) \in ranks
    BY <1>1, <1>2
  <2> QED
    BY <1>2, <1>4, <1>5, <2>1, <2>2
<1>7. \E z \in S : \A y \in S : z >= y
  BY <1>6
<1>8. Max(S) \in S /\ \A y \in S : Max(S) >= y
  BY <1>7 DEF Max
<1> QED
  BY <1>8

\* The first page of a walk over something is not empty.
LEMMA FirstPage ==
    ASSUME NEW S \in SUBSET Nat, IsFiniteSet(S), S # {}, NEW n \in Nat \ {0}
    PROVE  Highest(S, n) # {}
<1>1. Max(S) \in S /\ \A y \in S : y <= Max(S)
  BY GreatestNumber
<1>2. {d \in S : d > Max(S)} = {}
  <2>1. ASSUME NEW m \in S, \A y \in S : y <= m
        PROVE  \A d \in S : ~(d > m)
    BY <2>1
  <2> QED
    BY <1>1, <2>1
<1>3. Max(S) \in Highest(S, n)
  BY <1>1, <1>2, FS_EmptySet DEF Highest
<1> QED
  BY <1>3

\* A walk that was asked for as many records as there are has them all.
LEMMA WholeList ==
    ASSUME NEW S \in SUBSET Nat, IsFiniteSet(S), NEW n \in Nat, Cardinality(S) <= n
    PROVE  Highest(S, n) = S
<1> SUFFICES ASSUME NEW c \in S PROVE Cardinality({d \in S : d > c}) < n
  BY DEF Highest
<1>1. {d \in S : d > c} \in SUBSET S /\ {d \in S : d > c} # S
  BY c \in Nat
<1>2. /\ IsFiniteSet({d \in S : d > c})
      /\ Cardinality({d \in S : d > c}) <= Cardinality(S)
      /\ Cardinality({d \in S : d > c}) # Cardinality(S)
  BY <1>1, FS_Subset
<1>3. Cardinality({d \in S : d > c}) \in Nat /\ Cardinality(S) \in Nat
  BY <1>2, FS_CardinalityType
<1> QED
  BY <1>2, <1>3

\* The pages of a walk over a list that does not change fit together.
LEMMA PagesMeet ==
    ASSUME NEW S \in SUBSET Nat, IsFiniteSet(S), NEW k \in Nat, NEW n \in Nat
    PROVE  Highest(S, k) \cup (Highest(S, k + n) \ Highest(S, k)) = Highest(S, k + n)
<1>1. ASSUME NEW c \in Highest(S, k)
      PROVE  c \in Highest(S, k + n)
  <2>1. c \in S /\ Cardinality({d \in S : d > c}) < k /\ {d \in S : d > c} \in SUBSET S
    BY DEF Highest
  <2>2. Cardinality({d \in S : d > c}) \in Nat
    BY <2>1, FS_Subset, FS_CardinalityType
  <2>3. Cardinality({d \in S : d > c}) < k + n
    BY <2>1, <2>2
  <2> QED
    BY <2>1, <2>3 DEF Highest
<1> QED
  BY <1>1

\* Nothing comes before the first record.
LEMMA NoPage ==
    ASSUME NEW S \in SUBSET Nat, IsFiniteSet(S)
    PROVE  Highest(S, 0) = {} /\ Lowest(S, 0) = {}
<1>1. ASSUME NEW T \in SUBSET S
      PROVE  ~(Cardinality(T) < 0)
  <2>1. Cardinality(T) \in Nat
    BY FS_Subset, FS_CardinalityType
  <2> QED
    BY <2>1
<1>2. \A c \in S : {d \in S : d > c} \in SUBSET S /\ {d \in S : d < c} \in SUBSET S
  OBVIOUS
<1> QED
  BY <1>1, <1>2 DEF Highest, Lowest
-----------------------------------------------------------------------------
(* The pages of the catalog.                                                *)

\* A page is a beginning of what it is taken from.
LEMMA PageBegins ==
    ASSUME NEW S \in SUBSET Nat, IsFiniteSet(S), NEW n \in Nat,
           NEW c \in Lowest(S, n), NEW d \in S, d < c
    PROVE  d \in Lowest(S, n)
<1>1. c \in S /\ Cardinality(Below(S, c)) < n
  BY DEF Lowest, Below
<1>2. /\ Cardinality(Below(S, d)) \in Nat /\ Cardinality(Below(S, c)) \in Nat
      /\ Cardinality(Below(S, d)) < Cardinality(Below(S, c))
  BY <1>1, BelowGrows
<1>3. Cardinality(Below(S, d)) < n
  BY <1>1, <1>2
<1> QED
  BY <1>3 DEF Lowest, Below

\* If it leaves something it is full.
LEMMA FullPage ==
    ASSUME NEW S \in SUBSET Nat, IsFiniteSet(S), NEW n \in Nat \ {0},
           Lowest(S, n) # {}, S \ Lowest(S, n) # {}
    PROVE  Cardinality(Lowest(S, n)) = n
<1> DEFINE page == Lowest(S, n)
<1>1. page \in SUBSET S /\ page \in SUBSET Nat /\ IsFiniteSet(page)
  BY FS_Subset DEF Lowest
<1>2. PICK m \in page : \A y \in page : y <= m
  BY <1>1, GreatestNumber
<1>3. PICK t \in S \ page : \A y \in S \ page : t <= y
  <2>1. S \ page \in SUBSET Nat
    OBVIOUS
  <2> QED
    BY <2>1, LeastNumber
<1>4. page = Below(S, m) \cup {m} /\ m \notin Below(S, m)
  <2>1. m \in S /\ m \in Nat /\ \A y \in page : y \in S /\ y \in Nat
    BY <1>1
  <2>2. ASSUME NEW y \in S, y < m
        PROVE  y \in page
    BY <2>2, PageBegins
  <2>3. ASSUME NEW y \in page, y # m
        PROVE  y < m
    BY <1>2, <2>1, <2>3
  <2>4. \A y \in Below(S, m) : y \in S /\ y < m
    BY DEF Below
  <2>5. ~(m < m)
    BY <2>1
  <2>6. \A y \in page : y = m \/ y \in Below(S, m)
    BY <2>1, <2>3 DEF Below
  <2> HIDE DEF page
  <2> QED
    BY <2>2, <2>4, <2>5, <2>6
<1>5. page = Below(S, t)
  <2>1. t \in S /\ t \in Nat /\ \A y \in page : y \in S /\ y \in Nat
    BY <1>1
  <2>2. ASSUME NEW y \in S, y < t
        PROVE  y \in page
    BY <1>3, <2>2
  <2>3. ASSUME NEW y \in page
        PROVE  y < t
    <3>1. ~(t < y)
      BY <2>1, <2>3, PageBegins
    <3>2. y # t
      BY <1>3
    <3> QED
      BY <2>1, <3>1, <3>2
  <2> HIDE DEF page
  <2> QED
    BY <2>1, <2>2, <2>3 DEF Below
<1>6. IsFiniteSet(Below(S, m)) /\ IsFiniteSet(page)
  BY <1>1, <1>4, FS_Subset
<1>7. Cardinality(Below(S, m) \cup {m})
        = IF m \in Below(S, m) THEN Cardinality(Below(S, m)) ELSE Cardinality(Below(S, m)) + 1
  BY <1>6, FS_AddElement
<1>8. Cardinality(Below(S, m)) \in Nat /\ Cardinality(page) \in Nat
  BY <1>6, FS_CardinalityType
<1>9. Cardinality(Below(S, m)) < n /\ ~(Cardinality(Below(S, t)) < n)
  BY <1>3 DEF Lowest, Below
<1> QED
  BY <1>4, <1>5, <1>7, <1>8, <1>9

\* The reader has come to the end of the k-th record: after is that record.
Reached(S, k, a) ==
    /\ {c \in S : c <= a} = Lowest(S, k)
    /\ Cardinality({c \in S : c <= a}) = k \/ {c \in S : c > a} = {}

\* Then the next page is the right one.
LEMMA NextPage ==
    ASSUME NEW S \in SUBSET Nat, IsFiniteSet(S), NEW k \in Nat, NEW n \in Nat \ {0},
           NEW a \in Int, Reached(S, k, a)
    PROVE  Lowest({c \in S : c > a}, n) = Lowest(S, k + n) \ Lowest(S, k)
<1> DEFINE done == {c \in S : c <= a}
           rest == {c \in S : c > a}
<1>1. \A c \in S : c \in Nat /\ (c \in rest <=> c \notin done)
  OBVIOUS
<1>2. done = Lowest(S, k) /\ done \in SUBSET S /\ rest \in SUBSET S
  BY DEF Reached
<1>3. ASSUME NEW c \in rest
      PROVE  Cardinality(Below(S, c)) < k + n <=> Cardinality(Below(rest, c)) < n
  <2>1. Below(S, c) = done \cup Below(rest, c) /\ done \cap Below(rest, c) = {}
    <3>1. ASSUME NEW d \in done
          PROVE  d < c
      BY <1>1
    <3> QED
      BY <1>1, <3>1 DEF Below
  <2>2. /\ IsFiniteSet(done) /\ IsFiniteSet(Below(rest, c))
    BY <1>2, FS_Subset DEF Below
  <2>3. Cardinality(Below(S, c))
          = Cardinality(done) + Cardinality(Below(rest, c)) - Cardinality(done \cap Below(rest, c))
    BY <2>1, <2>2, FS_Union
  <2>4. Cardinality(done) = k
    BY <1>3 DEF Reached
  <2>5. Cardinality(Below(rest, c)) \in Nat /\ Cardinality({}) = 0
    BY <2>2, FS_CardinalityType, FS_EmptySet
  <2>6. Cardinality(done \cap Below(rest, c)) = 0
    BY <2>1, <2>5
  <2> HIDE DEF rest, done
  <2>7. Cardinality(Below(S, c)) = k + Cardinality(Below(rest, c))
    BY <2>3, <2>4, <2>5, <2>6
  <2> QED
    BY <2>5, <2>7
<1>4. Lowest(rest, n) = {c \in rest : Cardinality(Below(rest, c)) < n}
  BY DEF Lowest, Below
<1>5. Lowest(S, k + n) = {c \in S : Cardinality(Below(S, c)) < k + n}
  BY DEF Lowest, Below
<1> HIDE DEF rest, done
<1>6. Lowest(rest, n) = Lowest(S, k + n) \ done
  BY <1>1, <1>2, <1>3, <1>4, <1>5
<1> QED
  BY <1>2, <1>6 DEF rest

\* Its last record is the end of as many records more.
LEMMA ReachedNext ==
    ASSUME NEW S \in SUBSET Nat, IsFiniteSet(S), NEW k \in Nat, NEW n \in Nat \ {0},
           NEW a \in Int, Reached(S, k, a), NEW page, page = Lowest({c \in S : c > a}, n),
           page # {}
    PROVE  Max(page) \in Nat /\ Reached(S, k + n, Max(page))
<1> DEFINE done == {c \in S : c <= a}
           rest == {c \in S : c > a}
<1>1. \A c \in S : c \in Nat /\ (c \in rest <=> c \notin done)
  OBVIOUS
<1>2. /\ rest \in SUBSET S /\ rest \in SUBSET Nat /\ IsFiniteSet(rest) /\ done \in SUBSET S
      /\ page \in SUBSET rest /\ IsFiniteSet(page) /\ page \in SUBSET Nat
  BY FS_Subset DEF Lowest
<1>3. PICK m \in page : m = Max(page) /\ \A y \in page : y <= m
  BY <1>2, GreatestNumber
<1>4. m \in Nat /\ m \in rest
  BY <1>2
<1>5. {c \in S : c <= m} = done \cup page
  <2>1. ASSUME NEW c \in rest, c <= m
        PROVE  c \in page
    <3>1. CASE c = m
      BY <3>1
    <3>2. CASE c < m
      BY <1>2, <3>2, PageBegins
    <3> QED
      BY <1>2, <1>4, <2>1, <3>1, <3>2
  <2>2. ASSUME NEW c \in done
        PROVE  c <= m
    BY <1>4
  <2>3. \A c \in page : c \in S /\ c <= m
    BY <1>2, <1>3
  <2> HIDE DEF done, rest
  <2> QED
    BY <1>1, <1>2, <2>1, <2>2, <2>3
<1>6. done = Lowest(S, k) /\ page = Lowest(S, k + n) \ Lowest(S, k)
  BY NextPage DEF Reached
<1>7. Lowest(S, k) \subseteq Lowest(S, k + n)
  <2>1. ASSUME NEW c \in S, Cardinality(Below(S, c)) < k
        PROVE  Cardinality(Below(S, c)) < k + n
    <3>1. Below(S, c) \in SUBSET S
      BY DEF Below
    <3>2. Cardinality(Below(S, c)) \in Nat
      BY <3>1, FS_Subset, FS_CardinalityType
    <3> QED
      BY <2>1, <3>2
  <2> QED
    BY <2>1 DEF Lowest, Below
<1>8. {c \in S : c <= m} = Lowest(S, k + n)
  BY <1>5, <1>6, <1>7
<1>9. ASSUME {c \in S : c > m} # {}
      PROVE  Cardinality({c \in S : c <= m}) = k + n
  <2>1. PICK t \in S : t > m
    BY <1>9
  <2>2. t \in rest \ page
    BY <1>1, <1>2, <1>3, <1>4, <2>1
  <2>3. Cardinality(page) = n
    BY <1>2, <2>2, FullPage
  <2>4. Cardinality(done) = k
    BY <1>4 DEF Reached
  <2>5. IsFiniteSet(done) /\ done \cap page = {}
    BY <1>1, <1>2, FS_Subset
  <2>6. Cardinality(done \cup page)
          = Cardinality(done) + Cardinality(page) - Cardinality(done \cap page)
    BY <1>2, <2>5, FS_Union
  <2>7. Cardinality(done \cup page) = k + n
    BY <2>3, <2>4, <2>5, <2>6, FS_EmptySet
  <2> QED
    BY <1>5, <2>7
<1>10. Reached(S, k + n, m)
  BY <1>8, <1>9 DEF Reached
<1> QED
  BY <1>3, <1>4, <1>10

\* An empty page is the end of the catalog, and no later page has anything.
LEMMA LastPageEmpty ==
    ASSUME NEW S \in SUBSET Nat, IsFiniteSet(S), NEW k \in Nat, NEW n \in Nat \ {0},
           NEW a \in Int, Reached(S, k, a), Lowest({c \in S : c > a}, n) = {},
           NEW j \in Nat, k <= j
    PROVE  Lowest(S, j + n) \ Lowest(S, j) = {}
<1> DEFINE rest == {c \in S : c > a}
<1>1. rest = {}
  <2> SUFFICES ASSUME rest # {} PROVE FALSE
    OBVIOUS
  <2>1. rest \in SUBSET Nat /\ IsFiniteSet(rest)
    BY FS_Subset
  <2>2. PICK x \in rest : \A y \in rest : x <= y
    <3> HIDE DEF rest
    <3> QED
      BY <2>1, LeastNumber
  <2>3. \A y \in rest : y \in Nat
    BY <2>1
  <2> HIDE DEF rest
  <2>4. {y \in rest : y < x} = {}
    BY <2>2, <2>3
  <2>5. x \in Lowest(rest, n)
    BY <2>4, FS_EmptySet DEF Lowest
  <2> QED
    BY <2>5 DEF rest
<1>2. S = Lowest(S, k)
  <2>1. \A c \in S : c <= a
    BY <1>1
  <2> QED
    BY <2>1 DEF Reached
<1>3. ASSUME NEW c \in S
      PROVE  c \in Lowest(S, j)
  <2>1. Cardinality(Below(S, c)) < k /\ Below(S, c) \in SUBSET S
    BY <1>2 DEF Lowest, Below
  <2>2. Cardinality(Below(S, c)) \in Nat
    BY <2>1, FS_Subset, FS_CardinalityType
  <2>3. Cardinality(Below(S, c)) < j
    BY <2>1, <2>2
  <2> QED
    BY <2>3 DEF Lowest, Below
<1> QED
  BY <1>3 DEF Lowest

-----------------------------------------------------------------------------
(* Type correctness of the filters.                                         *)

LEMMA FilterFacts ==
    /\ NoFilters \in Filters
    /\ \A f \in Filters, t \in Types, s \in Sorts, p \in Pages, text \in Texts :
         /\ [f EXCEPT !.type = t, !.page = 1] \in Filters
         /\ [f EXCEPT !.sort = s, !.page = 1] \in Filters
         /\ [f EXCEPT !.page = p] \in Filters
         /\ [f EXCEPT !.q = text, !.page = 1] \in Filters
BY FilterAssumption DEF Filters, NoFilters

LEMMA RenderedType ==
    ASSUME FilterTypeOK, NEW next \in Filters, NEW text \in Texts, Rendered(next, text)
    PROVE  /\ ref' \in Filters /\ seen' \in Filters /\ committed' \in Filters
           /\ synced' \in Texts /\ typed' \in Texts
BY DEF FilterTypeOK, Rendered, BoxSynced, Filters

LEMMA WriteType ==
    ASSUME FilterTypeOK, NEW next \in Filters, NEW via, Write(next, via)
    PROVE  address' \in Filters /\ going' \in Filters \cup {Nowhere}
BY DEF FilterTypeOK, Write

LEMMA MountType ==
    ASSUME NEW f \in Filters, Mount(f), acts' \in Nat
    PROVE  FilterTypeOK'
BY FilterFacts, FilterAssumption DEF Mount, FilterTypeOK, NoTimer, Filters

LEMMA FilterStepType ==
    ASSUME FilterTypeOK, FilterStep
    PROVE  FilterTypeOK'
<1> DEFINE Clicked == flush' = "now" /\ acts' \in Nat
<1>1. ASSUME NEW text \in Texts, Type(text)
      PROVE  FilterTypeOK'
  <2>1. /\ flush' = "now" /\ acts' = acts + 1 /\ router' = router
    BY <1>1 DEF Type, User
  <2>2. CASE Unchanged(text)
    <3>1. Rendered(committed, text) /\ committed \in Filters
      BY <2>2 DEF Unchanged, FilterTypeOK
    <3>2. address' = address /\ going' = going /\ timer' = NoTimer
      BY <2>2 DEF Unchanged
    <3> QED
      BY <2>1, <3>1, <3>2, RenderedType, FilterAssumption DEF FilterTypeOK, NoTimer
  <2>3. CASE Cleared(text)
    <3> DEFINE next == [committed EXCEPT !.q = NoText, !.page = 1]
    <3>1. next \in Filters
      BY FilterFacts, FilterAssumption DEF FilterTypeOK
    <3>2. Rendered(next, text) /\ Write(next, "history") /\ timer' = NoTimer
      BY <2>3 DEF Cleared
    <3> HIDE DEF next
    <3>3. address' \in Filters /\ going' \in Filters \cup {Nowhere}
      BY <3>1, <3>2, WriteType
    <3> QED
      BY <2>1, <3>1, <3>2, <3>3, RenderedType, FilterAssumption DEF FilterTypeOK, NoTimer
  <2>4. CASE TypedOn(text)
    <3>1. Rendered(committed, text) /\ committed \in Filters
      BY <2>4 DEF TypedOn, FilterTypeOK
    <3>2. address' = address /\ going' = going /\ timer' = [text |-> text, on |-> TRUE]
      BY <2>4 DEF TypedOn
    <3> QED
      BY <2>1, <3>1, <3>2, RenderedType DEF FilterTypeOK
  <2> QED
    BY <1>1, <2>2, <2>3, <2>4 DEF Type
<1>2. ASSUME NEW next \in Selections, Choose(next)
      PROVE  FilterTypeOK'
  <2>1. next \in Filters
    <3>1. ref \in Filters
      BY DEF FilterTypeOK
    <3>2. \/ \E t \in Types : next = [ref EXCEPT !.type = t, !.page = 1]
          \/ \E s \in Sorts : next = [ref EXCEPT !.sort = s, !.page = 1]
          \/ \E p \in Pages : next = [ref EXCEPT !.page = p]
      BY DEF Selections
    <3> QED
      BY <3>1, <3>2, FilterAssumption DEF Filters
  <2>2. /\ Rendered(next, typed) /\ Write(next, "router") /\ typed \in Texts
        /\ flush' = "now" /\ acts' = acts + 1 /\ router' = router /\ timer' = timer
    BY <1>2 DEF Choose, User, FilterTypeOK
  <2>3. address' \in Filters /\ going' \in Filters \cup {Nowhere}
    BY <2>1, <2>2, WriteType
  <2> QED
    BY <2>1, <2>2, <2>3, RenderedType DEF FilterTypeOK
<1>3. ASSUME Reset
      PROVE  FilterTypeOK'
  <2>1. NoFilters \in Filters /\ NoText \in Texts
    BY FilterFacts, FilterAssumption
  <2>2. /\ Rendered(NoFilters, NoText) /\ Write(NoFilters, "router") /\ timer' = NoTimer
        /\ flush' = "now" /\ acts' = acts + 1 /\ router' = router
    BY <1>3 DEF Reset, User
  <2>3. address' \in Filters /\ going' \in Filters \cup {Nowhere}
    BY <2>1, <2>2, WriteType
  <2> QED
    BY <2>1, <2>2, <2>3, RenderedType DEF FilterTypeOK, NoTimer
<1>4. ASSUME NEW link \in Links, Follow(link)
      PROVE  FilterTypeOK'
  <2>1. /\ Rendered(committed, typed) /\ going' = link /\ link \in Filters
        /\ flush' = "now" /\ acts' = acts + 1 /\ UNCHANGED <<address, router, timer>>
        /\ committed \in Filters /\ typed \in Texts
    BY <1>4, LinksAssumption DEF Follow, User, FilterTypeOK
  <2> QED
    BY <2>1, RenderedType DEF FilterTypeOK
<1> QED
  BY <1>1, <1>2, <1>3, <1>4 DEF FilterStep

LEMMA FilterWakes ==
    ASSUME FilterTypeOK, RunEffects \/ Debounced \/ Navigated
    PROVE  FilterTypeOK'
<1>1. committed \in Filters /\ typed \in Texts /\ ref \in Filters /\ timer.text \in Texts
  BY DEF FilterTypeOK
<1>2. CASE RunEffects
  <2>1. /\ Rendered(committed, typed) /\ flush' \in {"later", "none"}
        /\ UNCHANGED <<address, router, going, timer, acts>>
    BY <1>2 DEF RunEffects
  <2> QED
    BY <1>1, <2>1, RenderedType DEF FilterTypeOK
<1>3. CASE Debounced
  <2> DEFINE next == TextCommitted(timer.text)
  <2>1. next \in Filters
    BY <1>1, FilterFacts, FilterAssumption DEF TextCommitted
  <2>2. /\ Rendered(next, typed) /\ Write(next, "history") /\ timer' = NoTimer
        /\ flush' = "later" /\ UNCHANGED <<router, acts>>
    BY <1>3 DEF Debounced
  <2> HIDE DEF next
  <2>3. address' \in Filters /\ going' \in Filters \cup {Nowhere}
    BY <2>1, <2>2, WriteType
  <2> QED
    BY <1>1, <2>1, <2>2, <2>3, RenderedType, FilterAssumption DEF FilterTypeOK, NoTimer
<1>4. CASE Navigated
  <2>1. /\ Rendered(committed, typed) /\ address' = going /\ router' = going
        /\ going' = Nowhere /\ going \in Filters
        /\ flush' = "later" /\ UNCHANGED <<timer, acts>>
    BY <1>4 DEF Navigated, FilterTypeOK
  <2> QED
    BY <1>1, <2>1, RenderedType DEF FilterTypeOK
<1> QED
  BY <1>2, <1>3, <1>4
-----------------------------------------------------------------------------
(* Type correctness of the hooks.                                           *)

LEMMA ListedType ==
    ASSUME NEW f
    PROVE  /\ Listed(f) \in SUBSET Cameras /\ Listed(f) \in SUBSET Nat /\ IsFiniteSet(Listed(f))
           /\ Listed(f) \subseteq Listed(NoFilters)
<1>1. Listed(f) \in SUBSET Cameras
  BY DEF Listed, Matching
<1>2. Listed(f) \subseteq Listed(NoFilters)
  BY DEF Listed, Matching, NoFilters
<1> QED
  BY <1>1, <1>2, FS_Subset, DirectoryAssumption

LEMMA CataloguedType ==
    ASSUME NEW query
    PROVE  /\ Catalogued(query) \in SUBSET Cameras /\ Catalogued(query) \in SUBSET Nat
           /\ IsFiniteSet(Catalogued(query))
<1>1. Catalogued(query) \in SUBSET Listed(query[1])
  BY DEF Catalogued
<1> QED
  BY <1>1, ListedType, FS_Subset

LEMMA DepsType ==
    ASSUME NEW f \in Filters, NEW attempt \in Nat
    PROVE  /\ LegacyDeps(f, attempt) \in Deps /\ Active(f) \in BOOLEAN /\ Key(f) \in Types
           /\ \A letter \in Letters \cup {NoLetter} : CursorFilters(f, letter) \in Queries
<1>1. Active(f) \in BOOLEAN
  BY DEF Active, UsesCursor
<1>2. Key(f) \in Types
  BY FilterAssumption DEF Key, Filters
<1>3. ASSUME NEW letter \in Letters \cup {NoLetter}
      PROVE  CursorFilters(f, letter) \in Queries
  <2>1. [NoFilters EXCEPT !.sort = Position, !.page = f.page] \in Filters
    BY FilterAssumption, DirectoryAssumption DEF Filters, NoFilters
  <2> QED
    BY <2>1 DEF CursorFilters, Queries
<1>4. LegacyDeps(f, attempt) \in Deps
  BY <1>1, <1>2 DEF LegacyDeps, Deps, UsesCursor
<1> QED
  BY <1>1, <1>2, <1>3, <1>4

\* What an answer leaves in the hook.
LEMMA ShowsType ==
    ASSUME NEW hook \in Legacy, NEW records \in SUBSET Cameras, NEW f \in Filters, NEW at \in Nat
    PROVE  /\ Shows(hook, records, f, at) \in Legacy
           /\ Shows(hook, records, f, at).of = f
           /\ Shows(hook, records, f, at).deps = hook.deps
           /\ Shows(hook, records, f, at).attempt = hook.attempt
           /\ Shows(hook, records, f, at).records = IF records = {} THEN hook.records ELSE records
           /\ Shows(hook, records, f, at).at
                = IF records = {} /\ hook.records # {} THEN hook.at ELSE at
BY DEF Shows, Legacy

LEMMA WalkingType ==
    ASSUME NEW f \in Filters, changes \in Nat
    PROVE  /\ Walking(f) \in Walk /\ NoWalk \in Walk /\ ~NoWalk.on /\ NoWalk.at = 0
           /\ Walking(f).on /\ Walking(f).shared = ~Active(f) /\ Walking(f).at = changes
           /\ Walking(f).offset = 0 /\ Walking(f).got = {}
           /\ Walking(f).filters = IF Active(f) THEN f ELSE NoFilters
<1>1. Active(f) \in BOOLEAN
  BY DEF Active, UsesCursor
<1> QED
  BY <1>1, FilterFacts DEF Walking, NoWalk, Walk

LEMMA NoReaderType == NoReader \in Reader /\ ~NoReader.on /\ NoReader.at = 0
<1>1. NoFilters \in Filters
  BY FilterFacts
<1>2. -1 \in Int /\ <<NoFilters, NoLetter>> \in Queries
  BY <1>1 DEF Queries
<1> QED
  BY <1>1, <1>2 DEF NoReader, Reader

LEMMA FreshType ==
    ASSUME NEW f \in Filters, changes \in Nat, cache \in Cache
    PROVE  /\ FreshLegacy(f) \in Legacy /\ ~FreshLegacy(f).deps.enabled
           /\ FreshLegacy(f).records = {} /\ FreshLegacy(f).at = changes
           /\ FreshCursor(f) \in Cursor /\ FreshCursor(f).loading /\ FreshCursor(f).at = changes
<1>1. LegacyDeps(f, 0) \in Deps /\ Active(f) \in BOOLEAN
  BY DepsType
<1>2. [LegacyDeps(f, 0) EXCEPT !.enabled = FALSE] \in Deps
  BY <1>1 DEF Deps
<1>3. /\ FreshLegacy(f) \in Legacy /\ ~FreshLegacy(f).deps.enabled
      /\ FreshLegacy(f).records = {} /\ FreshLegacy(f).at = changes
  BY <1>1, <1>2, FilterFacts DEF FreshLegacy, Legacy, Cache, Deps
<1>4. /\ FreshCursor(f) \in Cursor /\ FreshCursor(f).loading /\ FreshCursor(f).at = changes
  <2>1. <<<<f, NoLetter>>, -1>> \in Queries \X Int
    BY DEF Queries
  <2> QED
    BY <2>1 DEF FreshCursor, Cursor
<1> QED
  BY <1>3, <1>4

LEMMA LegacyEffectType ==
    ASSUME DirectoryTypeOK, LegacyEffect(committed)
    PROVE  legacy' \in Legacy /\ walk' \in Walk
<1> DEFINE deps == LegacyDeps(committed, legacy.attempt)
           ran == [legacy EXCEPT !.deps = deps]
<1>1. committed \in Filters /\ legacy \in Legacy /\ changes \in Nat /\ cache \in Cache
      /\ walk \in Walk
  BY DEF DirectoryTypeOK, FilterTypeOK
<1>2. deps \in Deps
  BY <1>1, DepsType DEF Legacy
<1>3. ran \in Legacy
  BY <1>1, <1>2 DEF Legacy
<1>4. \/ UNCHANGED <<legacy, walk>>
      \/ legacy' = ran /\ walk' \in {NoWalk, Walking(committed)}
      \/ legacy' = Shows(ran, cache.records, NoFilters, cache.at) /\ walk' = NoWalk
  BY DEF LegacyEffect
<1>5. Shows(ran, cache.records, NoFilters, cache.at) \in Legacy
  BY <1>1, <1>3, ShowsType, FilterFacts DEF Cache
<1> HIDE DEF ran
<1> QED
  BY <1>1, <1>3, <1>4, <1>5, WalkingType

LEMMA CursorEffectType ==
    ASSUME DirectoryTypeOK, CursorEffect(committed)
    PROVE  cursor' \in Cursor /\ reader' \in Reader
<1> DEFINE query == CursorFilters(committed, initial)
           deps == <<query, cursor.attempt>>
<1>1. /\ committed \in Filters /\ cursor \in Cursor /\ changes \in Nat /\ reader \in Reader
      /\ initial \in Letters \cup {NoLetter}
  BY DEF DirectoryTypeOK, FilterTypeOK
<1>2. query \in Queries /\ deps \in Queries \X Int
  BY <1>1, DepsType DEF Cursor
<1>3. \/ UNCHANGED <<cursor, reader>>
      \/ /\ cursor' = [cursor EXCEPT !.deps = deps, !.loading = TRUE, !.error = FALSE,
                                     !.records = {}]
         /\ reader' = [NoReader EXCEPT !.on = TRUE, !.query = query, !.at = changes]
  BY DEF CursorEffect
<1>4. [NoReader EXCEPT !.on = TRUE, !.query = query, !.at = changes] \in Reader
  BY <1>1, <1>2, NoReaderType DEF Reader
<1> HIDE DEF deps, query
<1> QED
  BY <1>1, <1>2, <1>3, <1>4 DEF Cursor

-----------------------------------------------------------------------------
(* Type correctness of every step.                                          *)

LEMMA DirectoryTypeInit == Init => DirectoryTypeOK
<1> SUFFICES ASSUME Init PROVE DirectoryTypeOK
  OBVIOUS
<1>1. PICK f \in Links : FilterInit(f) /\ legacy = FreshLegacy(f) /\ cursor = FreshCursor(f)
  BY DEF Init
<1>2. f \in Filters
  BY LinksAssumption
<1>3. /\ server = [c \in Cameras |-> "listed"] /\ changes = 0 /\ cache = Cold
      /\ walk = NoWalk /\ reader = NoReader /\ record = NoRecord /\ initial = NoLetter
  BY DEF Init
<1>4. cache \in Cache /\ changes \in Nat /\ record \in Page
  BY <1>3 DEF Cold, Cache, NoRecord, Page
<1>5. FilterTypeOK
  BY <1>1, <1>2, FilterFacts, FilterAssumption DEF FilterInit, FilterTypeOK, NoTimer, Filters
<1>6. legacy \in Legacy /\ cursor \in Cursor /\ walk \in Walk /\ reader \in Reader
  BY <1>1, <1>2, <1>3, <1>4, FreshType, WalkingType, NoReaderType
<1> QED
  BY <1>3, <1>4, <1>5, <1>6 DEF DirectoryTypeOK

\* What an answer and the user's way between the pages leave.
LEMMA AnswerType ==
    ASSUME DirectoryTypeOK, Answering
    PROVE  DirectoryTypeOK'
<1>1. /\ FilterTypeOK' /\ server' = server /\ changes' = changes
      /\ initial' \in Letters \cup {NoLetter}
  BY DEF Answering, WalkAnswered, WalkRefused, WalkFailed, ReaderAnswered, ReaderFailed,
         RecordAnswered, RecordFailed, Answer, fvars, DirectoryTypeOK, FilterTypeOK, Nowhere
<1>2. /\ cache \in Cache /\ legacy \in Legacy /\ walk \in Walk /\ cursor \in Cursor
      /\ reader \in Reader /\ record \in Page /\ changes \in Nat
      /\ server \in [Cameras -> {"listed", "withdrawn", "gone"}]
  BY DEF DirectoryTypeOK
<1>b. NoWalk \in Walk /\ NoReader \in Reader
  BY <1>2, WalkingType, FilterFacts, NoReaderType
<1> DEFINE Typed == cache' \in Cache /\ legacy' \in Legacy /\ walk' \in Walk /\ cursor' \in Cursor
                      /\ reader' \in Reader /\ record' \in Page
<1>3. ASSUME WalkAnswered
      PROVE  Typed
  <2>1. PICK got : /\ got = walk.got \cup WalkPage
                   /\ \/ /\ walk' = NoWalk /\ legacy' = Shows(legacy, got, walk.filters, walk.at)
                         /\ cache' = IF Seeds THEN [known |-> TRUE, records |-> got, at |-> walk.at]
                                     ELSE cache
                      \/ /\ walk' = [walk EXCEPT !.got = got, !.offset = @ + WalkLimit, !.tries = 0]
                         /\ UNCHANGED <<legacy, cache>>
                   /\ UNCHANGED <<cursor, reader, record>>
    BY <1>3 DEF WalkAnswered
  <2>2. got \in SUBSET Cameras
    BY <1>2, <2>1, ListedType DEF WalkPage, Highest, Walk
  <2>3. walk.filters \in Filters /\ walk.at \in Nat /\ walk.offset + WalkLimit \in Nat
    BY <1>2, DirectoryAssumption DEF Walk
  <2>4. Shows(legacy, got, walk.filters, walk.at) \in Legacy
    BY <1>2, <2>2, <2>3, ShowsType
  <2>5. [walk EXCEPT !.got = got, !.offset = @ + WalkLimit, !.tries = 0] \in Walk
    BY <1>2, <2>2, <2>3 DEF Walk
  <2>6. [known |-> TRUE, records |-> got, at |-> walk.at] \in Cache
    BY <2>2, <2>3 DEF Cache
  <2> QED
    BY <1>2, <1>b, <2>1, <2>4, <2>5, <2>6
<1>4. ASSUME WalkRefused
      PROVE  Typed
  <2>1. walk' = [walk EXCEPT !.tries = @ + 1] /\ UNCHANGED <<legacy, cursor, reader, cache, record>>
    BY <1>4 DEF WalkRefused
  <2>2. [walk EXCEPT !.tries = @ + 1] \in Walk
    BY <1>2 DEF Walk
  <2> QED
    BY <1>2, <2>1, <2>2
<1>5. ASSUME WalkFailed
      PROVE  Typed
  <2>1. /\ walk' = NoWalk /\ legacy' = [legacy EXCEPT !.loading = FALSE, !.error = TRUE]
        /\ UNCHANGED <<cursor, reader, cache, record>>
    BY <1>5 DEF WalkFailed, Failed
  <2>2. [legacy EXCEPT !.loading = FALSE, !.error = TRUE] \in Legacy
    BY <1>2 DEF Legacy
  <2> QED
    BY <1>2, <1>b, <2>1, <2>2
<1>6. CatalogPage \in SUBSET Cameras /\ CatalogPage \in SUBSET Nat /\ IsFiniteSet(CatalogPage)
  <2>1. CatalogPage \in SUBSET Catalogued(reader.query)
    BY DEF CatalogPage, Lowest
  <2> QED
    BY <2>1, CataloguedType, FS_Subset
<1>7. ASSUME ReaderAnswered
      PROVE  Typed
  <2>1. /\ \/ /\ reader' = NoReader
              /\ cursor' = [cursor EXCEPT !.loading = FALSE, !.at = reader.at,
                                          !.records = CatalogPage]
           \/ /\ reader' = [reader EXCEPT !.page = @ + 1, !.after = Max(CatalogPage)]
              /\ CatalogPage # {} /\ cursor' = cursor
        /\ UNCHANGED <<legacy, walk, cache, record>>
    BY <1>7 DEF ReaderAnswered
  <2>2. CatalogPage # {} => Max(CatalogPage) \in Int
    <3>1. CatalogPage # {} => Max(CatalogPage) \in CatalogPage
      BY <1>6, GreatestNumber
    <3>2. \A n \in CatalogPage : n \in Int
      BY <1>6
    <3> QED
      BY <3>1, <3>2
  <2>3. reader.at \in Nat /\ reader.page + 1 \in Nat
    BY <1>2 DEF Reader
  <2>4. [cursor EXCEPT !.loading = FALSE, !.at = reader.at, !.records = CatalogPage] \in Cursor
    BY <1>2, <1>6, <2>3 DEF Cursor
  <2>5. CatalogPage # {}
          => [reader EXCEPT !.page = @ + 1, !.after = Max(CatalogPage)] \in Reader
    BY <1>2, <2>2, <2>3 DEF Reader
  <2> QED
    BY <1>2, <1>b, <2>1, <2>4, <2>5
<1>8. ASSUME ReaderFailed
      PROVE  Typed
  <2>1. /\ reader' = NoReader /\ cursor' = [cursor EXCEPT !.loading = FALSE, !.error = TRUE]
        /\ UNCHANGED <<legacy, walk, cache, record>>
    BY <1>8 DEF ReaderFailed, Failed
  <2>2. [cursor EXCEPT !.loading = FALSE, !.error = TRUE] \in Cursor
    BY <1>2 DEF Cursor
  <2> QED
    BY <1>2, <1>b, <2>1, <2>2
<1>9. ASSUME RecordAnswered \/ RecordFailed
      PROVE  Typed
  <2>1. /\ \/ \E found \in {NoCamera, record.id} :
                record' = [record EXCEPT !.loading = FALSE, !.found = found]
           \/ record' = [record EXCEPT !.loading = FALSE, !.error = TRUE]
        /\ UNCHANGED <<legacy, walk, cursor, reader, cache>>
    BY <1>9 DEF RecordAnswered, RecordFailed, hooks
  <2>2. \A found \in {NoCamera, record.id} :
          /\ [record EXCEPT !.loading = FALSE, !.found = found] \in Page
          /\ [record EXCEPT !.loading = FALSE, !.error = TRUE] \in Page
    BY <1>2 DEF Page
  <2> QED
    BY <1>2, <2>1, <2>2
<1>10. Typed
  BY <1>3, <1>4, <1>5, <1>7, <1>8, <1>9 DEF Answering
<1> QED
  BY <1>1, <1>2, <1>10 DEF DirectoryTypeOK

LEMMA NoRecordType == NoRecord \in Page
BY DEF NoRecord, Page

LEMMA ResolvedType ==
    ASSUME DirectoryTypeOK, NEW id \in Cameras
    PROVE  /\ Resolved(id) \in Page /\ Resolved(id).id = id
           /\ ~Resolved(id).error
           /\ \/ Resolved(id).loading /\ Resolved(id).at = changes
              \/ /\ Resolved(id).found = id /\ Resolved(id).at = cache.at
                 /\ cache.known /\ id \in cache.records
BY DEF DirectoryTypeOK, Resolved, NoRecord, Page, Cache

LEMMA ArrivalType ==
    ASSUME DirectoryTypeOK,
           \/ \E id \in Cameras : OpenRecord(id)
           \/ \E link \in Links : OpenDirectory(link)
    PROVE  DirectoryTypeOK'
<1>1. PICK f \in Filters : NewHooks(f)
  BY FilterFacts, LinksAssumption DEF OpenRecord, OpenDirectory
<1>2. /\ acts' = acts + 1 /\ server' = server /\ changes' = changes /\ cache' = cache
      /\ record' \in Page
  BY ResolvedType, NoRecordType DEF OpenRecord, OpenDirectory, Arrives, DirectoryTypeOK
<1>3. /\ Mount(f) /\ legacy' = FreshLegacy(f) /\ walk' = NoWalk
      /\ cursor' = FreshCursor(f) /\ reader' = NoReader /\ initial' = NoLetter
  BY <1>1 DEF NewHooks
<1>4. FilterTypeOK'
  BY <1>2, <1>3, MountType DEF DirectoryTypeOK, FilterTypeOK
<1>5. legacy' \in Legacy /\ walk' \in Walk /\ cursor' \in Cursor /\ reader' \in Reader
  BY <1>3, FreshType, WalkingType, NoReaderType DEF DirectoryTypeOK
<1> QED
  BY <1>2, <1>3, <1>4, <1>5 DEF DirectoryTypeOK

LEMMA ReloadType ==
    ASSUME DirectoryTypeOK, ReloadLegacy \/ ReloadCursor \/ ReloadRecord
    PROVE  DirectoryTypeOK'
<1>1. FilterTypeOK /\ committed \in Filters /\ typed \in Texts /\ Cold \in Cache
  BY DEF DirectoryTypeOK, FilterTypeOK, Cold, Cache
<1>2. CASE ReloadLegacy \/ ReloadCursor
  <2>1. /\ Rendered(committed, typed) /\ UNCHANGED <<address, router, going, timer>>
        /\ flush' = "now" /\ acts' = acts + 1
        /\ UNCHANGED <<initial, server, changes, walk, reader, record>>
    BY <1>2 DEF ReloadLegacy, ReloadCursor, User
  <2>2. FilterTypeOK'
    BY <1>1, <2>1, RenderedType DEF FilterTypeOK
  <2>3. /\ \/ legacy' = [legacy EXCEPT !.attempt = @ + 1, !.error = FALSE, !.loading = TRUE]
           \/ legacy' = legacy
        /\ \/ cursor' = [cursor EXCEPT !.attempt = @ + 1]
           \/ cursor' = cursor
        /\ cache' \in {cache, Cold}
    BY <1>2 DEF ReloadLegacy, ReloadCursor, Attempted
  <2>4. legacy' \in Legacy /\ cursor' \in Cursor /\ cache' \in Cache
    <3>1. legacy \in Legacy /\ cursor \in Cursor /\ cache \in Cache
      BY DEF DirectoryTypeOK
    <3>2. [legacy EXCEPT !.attempt = @ + 1, !.error = FALSE, !.loading = TRUE] \in Legacy
      <4>1. legacy.attempt + 1 \in Nat
        BY <3>1 DEF Legacy
      <4>2. \A n \in Nat :
              [legacy EXCEPT !.attempt = n, !.error = FALSE, !.loading = TRUE] \in Legacy
        BY <3>1 DEF Legacy
      <4> QED
        BY <4>1, <4>2
    <3>3. [cursor EXCEPT !.attempt = @ + 1] \in Cursor
      BY <3>1 DEF Cursor
    <3> QED
      BY <1>1, <2>3, <3>1, <3>2, <3>3
  <2> QED
    BY <2>1, <2>2, <2>4 DEF DirectoryTypeOK
<1>3. CASE ReloadRecord
  <2>1. /\ acts' = acts + 1 /\ cache' = Cold
        /\ record' = [NoRecord EXCEPT !.id = record.id, !.loading = TRUE, !.at = changes]
        /\ UNCHANGED <<address, router, going, committed, typed, timer, ref, seen, synced, flush,
                       initial, server, changes, legacy, walk, cursor, reader>>
    BY <1>3 DEF ReloadRecord, hooks
  <2>2. record' \in Page
    BY <2>1 DEF DirectoryTypeOK, Page, NoRecord
  <2>3. FilterTypeOK'
    BY <1>1, <2>1 DEF FilterTypeOK, Nowhere
  <2> QED
    BY <1>1, <2>1, <2>2, <2>3 DEF DirectoryTypeOK
<1> QED
  BY <1>2, <1>3

LEMMA DirectoryTypeNext ==
    ASSUME DirectoryTypeOK, [Next]_vars
    PROVE  DirectoryTypeOK'
<1>1. CASE Filtering \/ Waking
  <2>1. FilterTypeOK' /\ UNCHANGED <<initial, server, changes, cache, hooks, record>>
    BY <1>1, FilterStepType, FilterWakes DEF Filtering, Waking, DirectoryTypeOK
  <2> QED
    BY <2>1 DEF DirectoryTypeOK, hooks
<1>2. CASE Flush
  <2>1. FilterTypeOK' /\ UNCHANGED <<initial, server, changes, cache, record>>
    BY <1>2, FilterWakes DEF Flush, DirectoryTypeOK
  <2>2. legacy' \in Legacy /\ walk' \in Walk /\ cursor' \in Cursor /\ reader' \in Reader
    BY <1>2, LegacyEffectType, CursorEffectType DEF Flush
  <2> QED
    BY <2>1, <2>2 DEF DirectoryTypeOK
<1>3. CASE Answering
  BY <1>3, AnswerType
<1>4. CASE \E id \in Cameras : OpenRecord(id)
  BY <1>4, ArrivalType
<1>5. CASE \E link \in Links : OpenDirectory(link)
  BY <1>5, ArrivalType
<1>6. CASE ReloadLegacy \/ ReloadCursor \/ ReloadRecord
  BY <1>6, ReloadType
<1>7. ASSUME NEW c \in Cameras, NEW status \in {"withdrawn", "gone"}, ServerChange(c, status)
      PROVE  DirectoryTypeOK'
  <2>1. /\ changes' = changes + 1 /\ server' = [server EXCEPT ![c] = status]
        /\ UNCHANGED <<fvars, initial, cache, hooks, record>>
    BY <1>7 DEF ServerChange
  <2>2. FilterTypeOK'
    BY <2>1 DEF DirectoryTypeOK, FilterTypeOK, fvars, Nowhere
  <2> QED
    BY <2>1, <2>2 DEF DirectoryTypeOK, hooks
<1>8. CASE UNCHANGED vars
  <2>1. FilterTypeOK'
    BY <1>8 DEF DirectoryTypeOK, FilterTypeOK, vars, fvars, Nowhere
  <2> QED
    BY <1>8, <2>1 DEF DirectoryTypeOK, vars, hooks
<1>9. ASSUME NEW letter \in Letters, Seek(letter)
      PROVE  DirectoryTypeOK'
  <2>1. [ref EXCEPT !.page = 1] \in Selections
    BY FilterAssumption DEF Selections
  <2>2. FilterStep
    BY <1>9, <2>1 DEF Seek, FilterStep
  <2>3. FilterTypeOK'
    BY <2>2, FilterStepType DEF DirectoryTypeOK
  <2>4. initial' = letter /\ UNCHANGED <<server, changes, cache, hooks, record>>
    BY <1>9 DEF Seek
  <2> QED
    BY <2>3, <2>4 DEF DirectoryTypeOK, hooks
<1> QED
  BY <1>1, <1>2, <1>3, <1>4, <1>5, <1>6, <1>7, <1>8, <1>9 DEF Next

\* Every reachable state of the two pages is well typed, whatever is clicked, answered or
\* reloaded (useCameraFilters, usePublicCameras, usePublicCamerasPage, usePublicCamera).
THEOREM PagesTyped == Spec => []DirectoryTypeOK
<1>1. DirectoryTypeOK /\ [Next]_vars => DirectoryTypeOK'
  BY DirectoryTypeNext
<1> QED
  BY <1>1, DirectoryTypeInit, PTL DEF Spec, Safety

-----------------------------------------------------------------------------
(* What the pages know of the server.  n is the number of its changes.      *)

\* What the server srv lists for the filters f.
OnList(srv, f) == Matching({c \in Cameras : srv[c] = "listed"}, f)
\* Its catalog for a query, and the page of it that the query is for.
OnCatalog(srv, query) == {c \in OnList(srv, query[1]) : query[2] \in {NoLetter, InitialOf[c]}}
CatalogPageOf(srv, query) ==
    Lowest(OnCatalog(srv, query), PageLimit * query[1].page)
      \ Lowest(OnCatalog(srv, query), PageLimit * (query[1].page - 1))

\* f is what an effect with the dependencies deps asks for.
AskedFor(f, deps) == f.type = deps.key /\ (~deps.active => f = NoFilters)

\* The cache: what it says of the present is true, and it is empty only if nothing is listed.
CacheOk(ca, srv, n) ==
    /\ ca.at <= n
    /\ ca.known => /\ ca.at = n => ca.records = OnList(srv, NoFilters)
                   /\ ca.records = {} => OnList(srv, NoFilters) = {}

\* A walk asks what the effect ran for, and has every record up to its offset unless the list
\* changed on its way.
WalkOk(w, deps, srv, n) ==
    /\ w.at <= n
    /\ w.on => /\ deps.enabled /\ AskedFor(w.filters, deps)
               /\ w.shared => w.filters = NoFilters
               /\ w.offset > 0 => w.got # {}
               /\ w.at = n => w.got = Highest(OnList(srv, w.filters), w.offset)

\* The list shows nothing that is not there; once it is answered it is what the effect asked.
ListOk(l, on, srv, n) ==
    /\ l.at <= n
    /\ l.at = n => l.records \subseteq OnList(srv, NoFilters)
    /\ l.deps.enabled /\ ~on /\ ~l.loading /\ ~l.error =>
         /\ AskedFor(l.of, l.deps)
         /\ l.at = n => OnList(srv, l.of) \subseteq l.records

\* The reader of the catalog, and its page once it is read.
ReaderOk(rd, query, srv, n) ==
    /\ rd.at <= n
    /\ rd.on => /\ rd.query = query /\ rd.page <= query[1].page /\ rd.page > 0
                /\ rd.at = n => Reached(OnCatalog(srv, query), PageLimit * (rd.page - 1), rd.after)
PageOk(cu, on, srv, n) ==
    /\ cu.at <= n
    /\ ~on /\ ~cu.loading /\ ~cu.error /\ cu.at = n => cu.records = CatalogPageOf(srv, cu.deps[1])

RecordOk(re, srv, n) ==
    /\ re.at <= n
    /\ re.id # NoCamera /\ ~re.loading /\ ~re.error /\ re.at = n =>
         (re.found # NoCamera <=> srv[re.id] # "gone")

\* Without effects that wait, both hooks have run for the filters and the letter of the page.
InStep == flush = "none" =>
    /\ legacy.deps = LegacyDeps(committed, legacy.attempt)
    /\ cursor.deps = <<CursorFilters(committed, initial), cursor.attempt>>

DirectoryInv ==
    /\ InStep
    /\ CacheOk(cache, server, changes)
    /\ WalkOk(walk, legacy.deps, server, changes)
    /\ ListOk(legacy, walk.on, server, changes)
    /\ ReaderOk(reader, cursor.deps[1], server, changes)
    /\ PageOk(cursor, reader.on, server, changes)
    /\ RecordOk(record, server, changes)

LEMMA OnListType ==
    ASSUME NEW srv, NEW f
    PROVE  /\ OnList(srv, f) \in SUBSET Cameras /\ OnList(srv, f) \in SUBSET Nat
           /\ IsFiniteSet(OnList(srv, f)) /\ OnList(srv, f) \subseteq OnList(srv, NoFilters)
<1>1. OnList(srv, f) \in SUBSET Cameras
  BY DEF OnList, Matching
<1>2. OnList(srv, f) \subseteq OnList(srv, NoFilters)
  BY DEF OnList, Matching, NoFilters
<1> QED
  BY <1>1, <1>2, FS_Subset, DirectoryAssumption

LEMMA OnCatalogType ==
    ASSUME NEW srv, NEW query
    PROVE  OnCatalog(srv, query) \in SUBSET Nat /\ IsFiniteSet(OnCatalog(srv, query))
<1>1. OnCatalog(srv, query) \in SUBSET OnList(srv, query[1])
  BY DEF OnCatalog
<1> QED
  BY <1>1, OnListType, FS_Subset

\* A change of the server makes everything known a matter of the past.
LEMMA Outdated ==
    ASSUME DirectoryTypeOK, DirectoryInv,
           NEW c \in Cameras, NEW status \in {"withdrawn", "gone"}, ServerChange(c, status)
    PROVE  DirectoryInv'
<1>1. /\ changes' = changes + 1 /\ server' = [server EXCEPT ![c] = status]
      /\ UNCHANGED <<cache, legacy, walk, cursor, reader, record, flush, committed, initial>>
      /\ server \in [Cameras -> {"listed", "withdrawn", "gone"}] /\ changes \in Nat
  BY DEF ServerChange, hooks, fvars, DirectoryTypeOK
<1>2. \A n \in Nat : n <= changes => n <= changes' /\ n # changes'
  BY <1>1
<1>3. /\ cache.at \in Nat /\ legacy.at \in Nat /\ walk.at \in Nat /\ cursor.at \in Nat
      /\ reader.at \in Nat /\ record.at \in Nat
  BY DEF DirectoryTypeOK, Cache, Legacy, Walk, Cursor, Reader, Page
<1>4. OnList(server, NoFilters) = {} => OnList(server', NoFilters) = {}
  BY <1>1 DEF OnList, Matching
<1>5. InStep'
  BY <1>1 DEF DirectoryInv, InStep
<1>6. CacheOk(cache', server', changes')
  BY <1>1, <1>2, <1>3, <1>4 DEF DirectoryInv, CacheOk
<1>7. WalkOk(walk', legacy'.deps, server', changes') /\ ListOk(legacy', walk'.on, server', changes')
  BY <1>1, <1>2, <1>3 DEF DirectoryInv, WalkOk, ListOk
<1>8. /\ ReaderOk(reader', cursor'.deps[1], server', changes')
      /\ PageOk(cursor', reader'.on, server', changes') /\ RecordOk(record', server', changes')
  BY <1>1, <1>2, <1>3 DEF DirectoryInv, ReaderOk, PageOk, RecordOk
<1> QED
  BY <1>5, <1>6, <1>7, <1>8 DEF DirectoryInv

LEMMA IdleWalk ==
    ASSUME changes \in Nat, NEW deps, NEW srv
    PROVE  WalkOk(NoWalk, deps, srv, changes)
BY DEF WalkOk, NoWalk

LEMMA IdleReader ==
    ASSUME changes \in Nat, NEW query, NEW srv
    PROVE  ReaderOk(NoReader, query, srv, changes)
BY DEF ReaderOk, NoReader

\* The effects of a render.
LEMMA LegacyRuns ==
    ASSUME DirectoryTypeOK, DirectoryInv, LegacyEffect(committed)
    PROVE  /\ legacy'.deps = LegacyDeps(committed, legacy'.attempt)
           /\ WalkOk(walk', legacy'.deps, server, changes)
           /\ ListOk(legacy', walk'.on, server, changes)
<1> DEFINE deps == LegacyDeps(committed, legacy.attempt)
           ran == [legacy EXCEPT !.deps = deps]
<1>1. /\ committed \in Filters /\ legacy \in Legacy /\ changes \in Nat /\ cache \in Cache
      /\ walk \in Walk /\ legacy.attempt \in Nat
  BY DEF DirectoryTypeOK, FilterTypeOK, Legacy
<1>2. /\ deps \in Deps /\ deps.active = Active(committed) /\ deps.key = Key(committed)
  BY <1>1, DepsType DEF LegacyDeps
<1>3. /\ ran \in Legacy /\ ran.deps = deps /\ ran.records = legacy.records /\ ran.at = legacy.at
      /\ ran.attempt = legacy.attempt
  BY <1>1, <1>2 DEF Legacy
<1>4. /\ WalkOk(walk, legacy.deps, server, changes) /\ ListOk(legacy, walk.on, server, changes)
      /\ CacheOk(cache, server, changes)
  BY DEF DirectoryInv
<1>5. legacy.at <= changes /\ (legacy.at = changes => legacy.records \subseteq OnList(server, NoFilters))
  BY <1>4 DEF ListOk
<1> HIDE DEF deps, ran
<1>6. CASE deps = legacy.deps /\ UNCHANGED <<legacy, walk>>
  BY <1>4, <1>6 DEF deps
<1>7. CASE ~deps.enabled /\ legacy' = ran /\ walk' = NoWalk
  <2>1. WalkOk(walk', legacy'.deps, server, changes)
    BY <1>1, <1>7, IdleWalk
  <2>2. ListOk(legacy', walk'.on, server, changes)
    BY <1>3, <1>5, <1>7 DEF ListOk
  <2> QED
    BY <1>3, <1>7, <2>1, <2>2 DEF deps
<1>8. CASE /\ ~deps.active /\ cache.known /\ walk' = NoWalk
           /\ legacy' = Shows(ran, cache.records, NoFilters, cache.at)
  <2>1. /\ legacy'.of = NoFilters /\ legacy'.deps = deps /\ legacy'.attempt = legacy.attempt
        /\ legacy'.records = IF cache.records = {} THEN legacy.records ELSE cache.records
        /\ legacy'.at = IF cache.records = {} /\ legacy.records # {} THEN legacy.at ELSE cache.at
    <3>1. cache.records \in SUBSET Cameras /\ cache.at \in Nat
      BY <1>1 DEF Cache
    <3>2. NoFilters \in Filters
      BY FilterFacts
    <3>3. PICK shown : shown = Shows(ran, cache.records, NoFilters, cache.at)
      OBVIOUS
    <3>4. /\ shown.of = NoFilters /\ shown.deps = ran.deps /\ shown.attempt = ran.attempt
          /\ shown.records = IF cache.records = {} THEN ran.records ELSE cache.records
          /\ shown.at = IF cache.records = {} /\ ran.records # {} THEN ran.at ELSE cache.at
      BY <1>3, <3>1, <3>2, <3>3, ShowsType
    <3> QED
      BY <1>3, <1>8, <3>3, <3>4
  <2>2. /\ cache.at <= changes /\ (cache.at = changes => cache.records = OnList(server, NoFilters))
        /\ (cache.records = {} => OnList(server, NoFilters) = {})
    BY <1>4, <1>8 DEF CacheOk
  <2>3. AskedFor(legacy'.of, legacy'.deps)
    BY <1>2, <1>8, <2>1 DEF AskedFor, Key, NoFilters
  <2>4. /\ legacy'.at <= changes
        /\ legacy'.at = changes => /\ legacy'.records \subseteq OnList(server, NoFilters)
                                   /\ OnList(server, NoFilters) \subseteq legacy'.records
    BY <1>5, <2>1, <2>2
  <2>5. ListOk(legacy', walk'.on, server, changes)
    BY <2>1, <2>3, <2>4 DEF ListOk
  <2>6. WalkOk(walk', legacy'.deps, server, changes)
    BY <1>1, <1>8, IdleWalk
  <2> QED
    BY <2>1, <2>5, <2>6 DEF deps
<1>9. CASE deps.enabled /\ legacy' = ran /\ walk' = Walking(committed)
  <2>1. /\ walk'.on /\ walk'.shared = ~Active(committed) /\ walk'.at = changes
        /\ walk'.offset = 0 /\ walk'.got = {}
        /\ walk'.filters = IF Active(committed) THEN committed ELSE NoFilters
    BY <1>1, <1>9, WalkingType
  <2>2. AskedFor(walk'.filters, deps)
    BY <1>2, <2>1 DEF AskedFor, Key, NoFilters
  <2>3. Highest(OnList(server, walk'.filters), 0) = {}
    BY OnListType, NoPage
  <2>4. WalkOk(walk', legacy'.deps, server, changes)
    BY <1>1, <1>3, <1>9, <2>1, <2>2, <2>3 DEF WalkOk
  <2>5. ListOk(legacy', walk'.on, server, changes)
    BY <1>3, <1>5, <1>9, <2>1 DEF ListOk
  <2> QED
    BY <1>3, <1>9, <2>4, <2>5 DEF deps
<1> QED
  BY <1>6, <1>7, <1>8, <1>9 DEF LegacyEffect, deps, ran

LEMMA CursorRuns ==
    ASSUME DirectoryTypeOK, DirectoryInv, CursorEffect(committed)
    PROVE  /\ cursor'.deps = <<CursorFilters(committed, initial), cursor'.attempt>>
           /\ ReaderOk(reader', cursor'.deps[1], server, changes)
           /\ PageOk(cursor', reader'.on, server, changes)
<1> DEFINE q == CursorFilters(committed, initial)
<1>1. /\ committed \in Filters /\ cursor \in Cursor /\ changes \in Nat /\ q \in Queries
      /\ cursor.attempt \in Nat
  BY DepsType DEF DirectoryTypeOK, FilterTypeOK, Cursor
<1>2. /\ ReaderOk(reader, cursor.deps[1], server, changes) /\ PageOk(cursor, reader.on, server, changes)
  BY DEF DirectoryInv
<1> HIDE DEF q
<1>3. CASE cursor.deps = <<q, cursor.attempt>> /\ UNCHANGED <<cursor, reader>>
  BY <1>2, <1>3 DEF q
<1>4. CASE /\ cursor' = [cursor EXCEPT !.deps = <<q, cursor.attempt>>, !.loading = TRUE,
                                       !.error = FALSE, !.records = {}]
           /\ reader' = [NoReader EXCEPT !.on = TRUE, !.query = q, !.at = changes]
  <2>1. /\ cursor'.deps = <<q, cursor.attempt>> /\ cursor'.loading /\ cursor'.at = cursor.at
        /\ cursor'.attempt = cursor.attempt
    BY <1>1, <1>4 DEF Cursor
  <2>2. reader'.query = q /\ reader'.page = 1 /\ reader'.after = -1 /\ reader'.at = changes
    BY <1>4 DEF NoReader
  <2>3. q[1].page \in Nat /\ 1 <= q[1].page
    <3>1. q[1].page \in Pages
      BY <1>1 DEF Queries, Filters
    <3>2. \A p \in Pages : p \in Nat /\ 1 <= p
      BY FilterAssumption
    <3> QED
      BY <3>1, <3>2
  <2>4. {c \in OnCatalog(server, q) : c <= -1} = {}
    <3>1. \A c \in OnCatalog(server, q) : c \in Nat
      BY OnCatalogType
    <3> QED
      BY <3>1
  <2>5. PageLimit * (1 - 1) = 0
    BY DirectoryAssumption
  <2>6. Reached(OnCatalog(server, q), 0, -1)
    BY <2>4, OnCatalogType, NoPage, FS_EmptySet DEF Reached
  <2>7. ReaderOk(reader', q, server, changes)
    BY <1>1, <2>2, <2>3, <2>5, <2>6 DEF ReaderOk
  <2>8. PageOk(cursor', reader'.on, server, changes)
    BY <1>2, <2>1 DEF PageOk
  <2> QED
    BY <2>1, <2>7, <2>8 DEF q
<1> QED
  BY <1>3, <1>4 DEF CursorEffect, q

LEMMA FlushKeeps ==
    ASSUME DirectoryTypeOK, DirectoryInv, Flush
    PROVE  DirectoryInv'
<1>1. /\ LegacyEffect(committed) /\ CursorEffect(committed) /\ RunEffects
      /\ UNCHANGED <<initial, server, changes, cache, record>>
  BY DEF Flush
<1>2. flush' = "none" => committed' = committed
  BY <1>1 DEF RunEffects, Rendered
<1>3. InStep'
  BY <1>1, <1>2, LegacyRuns, CursorRuns DEF InStep
<1> QED
  BY <1>1, <1>3, LegacyRuns, CursorRuns DEF DirectoryInv

-----------------------------------------------------------------------------
(* What every answer leaves true.                                           *)

\* A walk that has found nothing has been told that nothing is listed.
LEMMA NothingFound ==
    ASSUME DirectoryTypeOK, DirectoryInv, walk.on, walk.got \cup WalkPage = {}
    PROVE  OnList(server, walk.filters) = {}
<1> DEFINE S == OnList(server, walk.filters)
<1>1. WalkPage = Highest(S, walk.offset + WalkLimit) \ Highest(S, walk.offset)
  BY DEF WalkPage, OnList, Listed
<1>2. walk.offset \in Nat /\ WalkLimit \in Nat \ {0}
  BY DirectoryAssumption DEF DirectoryTypeOK, Walk
<1>3. walk.offset = 0
  BY <1>2 DEF DirectoryInv, WalkOk
<1>4. S \in SUBSET Nat /\ IsFiniteSet(S)
  BY OnListType
<1> HIDE DEF S
<1>5. Highest(S, 0) = {}
  BY <1>4, NoPage
<1>6. 0 + WalkLimit = WalkLimit
  BY <1>2
<1>7. Highest(S, WalkLimit) = {}
  BY <1>1, <1>3, <1>5, <1>6
<1> QED
  BY <1>2, <1>4, <1>7, FirstPage DEF S

LEMMA WalkAnswerKeeps ==
    ASSUME DirectoryTypeOK, DirectoryInv, WalkAnswered
    PROVE  /\ CacheOk(cache', server, changes)
           /\ WalkOk(walk', legacy'.deps, server, changes)
           /\ ListOk(legacy', walk'.on, server, changes)
           /\ legacy'.deps = legacy.deps /\ legacy'.attempt = legacy.attempt
<1> DEFINE S == OnList(server, walk.filters)
           next == walk.offset + WalkLimit
           done == [known |-> TRUE, records |-> walk.got \cup WalkPage, at |-> walk.at]
           shown == Shows(legacy, walk.got \cup WalkPage, walk.filters, walk.at)
<1>1. /\ legacy \in Legacy /\ changes \in Nat /\ cache \in Cache /\ walk \in Walk
      /\ walk.offset \in Nat /\ WalkLimit \in Nat /\ walk.at \in Nat
      /\ walk.got \in SUBSET Cameras /\ walk.filters \in Filters
  BY DirectoryAssumption DEF DirectoryTypeOK, Walk
<1>2. /\ walk.on /\ WalkOk(walk, legacy.deps, server, changes)
      /\ ListOk(legacy, walk.on, server, changes) /\ CacheOk(cache, server, changes)
  BY DEF DirectoryInv, WalkAnswered
<1>3. /\ WalkPage = Highest(S, next) \ Highest(S, walk.offset)
      /\ LastPage <=> Cardinality(S) <= next
  BY DEF WalkPage, LastPage, OnList, Listed
<1>4. S \in SUBSET Nat /\ IsFiniteSet(S) /\ S \in SUBSET Cameras /\ S \subseteq OnList(server, NoFilters)
  BY OnListType
<1>5. PICK got : got = walk.got \cup WalkPage
  OBVIOUS
<1>6. got = {} => S = {}
  BY <1>2, <1>5, NothingFound
<1>7. walk.at = changes => got = Highest(S, next)
  BY <1>1, <1>2, <1>3, <1>4, <1>5, PagesMeet DEF WalkOk
<1>8. got \in SUBSET Cameras
  BY <1>1, <1>3, <1>4, <1>5 DEF Highest
<1>9. legacy.at <= changes /\ (legacy.at = changes => legacy.records \subseteq OnList(server, NoFilters))
  BY <1>2 DEF ListOk
<1>10. /\ walk.at <= changes /\ legacy.deps.enabled /\ AskedFor(walk.filters, legacy.deps)
       /\ walk.shared => walk.filters = NoFilters
  BY <1>2 DEF WalkOk
<1> HIDE DEF S, next, done, shown
<1>11. CASE /\ Cardinality(S) <= next /\ walk' = NoWalk /\ legacy' = shown
            /\ cache' = IF walk.shared THEN done ELSE cache
  <2>1. next \in Nat
    BY <1>1 DEF next
  <2>2. walk.at = changes => got = S
    BY <1>4, <1>7, <1>11, <2>1, WholeList
  <2>3. /\ shown.of = walk.filters /\ shown.deps = legacy.deps /\ shown.attempt = legacy.attempt
        /\ shown.records = IF got = {} THEN legacy.records ELSE got
        /\ shown.at = IF got = {} /\ legacy.records # {} THEN legacy.at ELSE walk.at
    BY <1>1, <1>5, <1>8, ShowsType DEF shown
  <2>4. /\ shown.at <= changes
        /\ shown.at = changes => /\ shown.records \subseteq OnList(server, NoFilters)
                                 /\ S \subseteq shown.records
    BY <1>4, <1>6, <1>9, <1>10, <2>2, <2>3
  <2>5. ListOk(legacy', walk'.on, server, changes)
    BY <1>10, <1>11, <2>3, <2>4 DEF ListOk, S
  <2>6. done.known /\ done.records = got /\ done.at = walk.at
    BY <1>5 DEF done
  <2>7. walk.shared => CacheOk(done, server, changes)
    BY <1>6, <1>10, <2>2, <2>6 DEF CacheOk, S
  <2>8. WalkOk(walk', legacy'.deps, server, changes)
    BY <1>1, <1>11, IdleWalk
  <2> QED
    BY <1>2, <1>11, <2>3, <2>5, <2>7, <2>8
<1>12. CASE /\ ~(Cardinality(S) <= next) /\ UNCHANGED <<legacy, cache>>
            /\ walk' = [walk EXCEPT !.got = got, !.offset = next, !.tries = 0]
  <2>1. /\ walk'.on = walk.on /\ walk'.got = got /\ walk'.offset = next /\ walk'.at = walk.at
        /\ walk'.filters = walk.filters /\ walk'.shared = walk.shared
    BY <1>1, <1>12 DEF Walk
  <2>2. got # {}
    <3>1. Cardinality({}) <= next
      BY <1>1, FS_EmptySet DEF next
    <3> QED
      BY <1>6, <1>12, <3>1
  <2>3. WalkOk(walk', legacy'.deps, server, changes)
    BY <1>2, <1>7, <1>10, <1>12, <2>1, <2>2 DEF WalkOk, S
  <2>4. ListOk(legacy', walk'.on, server, changes)
    BY <1>2, <1>12, <2>1
  <2> QED
    BY <1>2, <1>12, <2>3, <2>4
<1> QED
  <2>1. \/ /\ LastPage /\ walk' = NoWalk /\ legacy' = shown
           /\ cache' = IF walk.shared THEN done ELSE cache
        \/ /\ ~LastPage /\ UNCHANGED <<legacy, cache>>
           /\ walk' = [walk EXCEPT !.got = got, !.offset = next, !.tries = 0]
    BY <1>5 DEF WalkAnswered, Seeds, shown, done, next
  <2> QED
    BY <1>3, <1>11, <1>12, <2>1

LEMMA WalkFailureKeeps ==
    ASSUME DirectoryTypeOK, DirectoryInv, WalkRefused \/ WalkFailed
    PROVE  /\ WalkOk(walk', legacy'.deps, server, changes)
           /\ ListOk(legacy', walk'.on, server, changes)
           /\ legacy'.deps = legacy.deps /\ legacy'.attempt = legacy.attempt
<1>1. legacy \in Legacy /\ changes \in Nat /\ walk \in Walk
  BY DEF DirectoryTypeOK
<1>2. /\ WalkOk(walk, legacy.deps, server, changes) /\ ListOk(legacy, walk.on, server, changes)
      /\ walk.on
  BY DEF DirectoryInv, WalkRefused, WalkFailed
<1>3. CASE WalkRefused
  <2>1. /\ walk'.on = walk.on /\ walk'.got = walk.got /\ walk'.offset = walk.offset
        /\ walk'.at = walk.at /\ walk'.filters = walk.filters /\ walk'.shared = walk.shared
        /\ legacy' = legacy
    BY <1>1, <1>3 DEF WalkRefused, Walk
  <2>2. WalkOk(walk', legacy'.deps, server, changes)
    BY <1>2, <2>1 DEF WalkOk
  <2> QED
    BY <1>2, <2>1, <2>2
<1>4. CASE WalkFailed
  <2>1. walk' = NoWalk /\ legacy' = [legacy EXCEPT !.loading = FALSE, !.error = TRUE]
    BY <1>4 DEF WalkFailed, Failed
  <2>2. /\ legacy'.error /\ legacy'.at = legacy.at /\ legacy'.records = legacy.records
        /\ legacy'.deps = legacy.deps /\ legacy'.attempt = legacy.attempt
    BY <1>1, <2>1 DEF Legacy
  <2>3. ListOk(legacy', walk'.on, server, changes)
    BY <1>2, <2>2 DEF ListOk
  <2>4. WalkOk(walk', legacy'.deps, server, changes)
    BY <1>1, <2>1, IdleWalk
  <2> QED
    BY <2>2, <2>3, <2>4
<1> QED
  BY <1>3, <1>4

\* The reader of the catalog turns the page, or has found its page.
LEMMA ReaderKeeps ==
    ASSUME DirectoryTypeOK, DirectoryInv, ReaderAnswered \/ ReaderFailed
    PROVE  /\ ReaderOk(reader', cursor'.deps[1], server, changes)
           /\ PageOk(cursor', reader'.on, server, changes)
           /\ cursor'.deps = cursor.deps /\ cursor'.attempt = cursor.attempt
<1> DEFINE query == cursor.deps[1]
           f == query[1]
           S == OnCatalog(server, query)
           k == PageLimit * (reader.page - 1)
<1>1. /\ cursor \in Cursor /\ reader \in Reader /\ changes \in Nat /\ reader.on
      /\ reader.page \in Nat /\ reader.after \in Int /\ reader.at \in Nat
  BY DEF DirectoryTypeOK, ReaderAnswered, ReaderFailed, Reader
<1>2. f.page \in Nat
  <2>1. f \in Filters
    BY <1>1 DEF Cursor, Queries
  <2> QED
    BY <2>1, FilterAssumption DEF Filters
<1>3. /\ ReaderOk(reader, query, server, changes) /\ PageOk(cursor, reader.on, server, changes)
  BY DEF DirectoryInv
<1>4. /\ reader.at <= changes /\ reader.query = query /\ reader.page <= f.page /\ reader.page > 0
      /\ reader.at = changes => Reached(S, k, reader.after)
  BY <1>1, <1>3 DEF ReaderOk
<1>5. cursor.at <= changes
  BY <1>3 DEF PageOk
<1>6. S \in SUBSET Nat /\ IsFiniteSet(S) /\ PageLimit \in Nat \ {0}
  BY OnCatalogType, DirectoryAssumption
<1>7. k \in Nat /\ k + PageLimit = PageLimit * reader.page
  <2>1. reader.page - 1 \in Nat
    BY <1>1, <1>4
  <2>2. PICK p \in Nat : p = reader.page - 1
    BY <2>1
  <2>3. reader.page = p + 1 /\ PageLimit * p \in Nat
    BY <1>1, <1>6, <2>2
  <2>4. PageLimit * (p + 1) = PageLimit * p + PageLimit
    BY <1>6
  <2> QED
    BY <2>2, <2>3, <2>4
<1>8. CatalogPage = Lowest({c \in S : c > reader.after}, PageLimit)
  BY <1>4 DEF CatalogPage, OnCatalog, Catalogued, OnList, Listed
<1> HIDE DEF query, f, S, k
<1>9. CASE /\ ReaderAnswered
           /\ reader.page = f.page \/ CatalogPage = {}
           /\ reader' = NoReader
           /\ cursor' = [cursor EXCEPT !.loading = FALSE, !.at = reader.at,
                                       !.records = CatalogPage]
  <2>1. /\ cursor'.at = reader.at /\ cursor'.records = CatalogPage /\ cursor'.deps = cursor.deps
        /\ cursor'.attempt = cursor.attempt
    BY <1>1, <1>9 DEF Cursor
  <2>2. ASSUME reader.at = changes
        PROVE  CatalogPage = Lowest(S, PageLimit * f.page) \ Lowest(S, PageLimit * (f.page - 1))
    <3>1. Reached(S, k, reader.after)
      BY <1>4, <2>2
    <3>2. CASE reader.page = f.page
      <4>1. CatalogPage = Lowest(S, k + PageLimit) \ Lowest(S, k)
        BY <1>1, <1>6, <1>7, <1>8, <3>1, NextPage
      <4> QED
        BY <1>7, <3>2, <4>1 DEF k
    <3>3. CASE CatalogPage = {}
      <4>1. PICK p \in Nat, q \in Nat : p = reader.page - 1 /\ q = f.page - 1 /\ p <= q
        BY <1>1, <1>2, <1>4
      <4>2. PICK j \in Nat : j = PageLimit * q
        BY <1>6, <4>1
      <4>3. k <= j
        <5>1. PICK d \in Nat : q = p + d
          <6>1. q - p \in Nat /\ q = p + (q - p)
            BY <4>1
          <6> QED
            BY <6>1
        <5>2. PageLimit * (p + d) = PageLimit * p + PageLimit * d /\ PageLimit * d \in Nat
          BY <1>6
        <5>3. k = PageLimit * p
          BY <4>1 DEF k
        <5> QED
          BY <1>6, <1>7, <4>2, <5>1, <5>2, <5>3
      <4>4. Lowest(S, j + PageLimit) \ Lowest(S, j) = {}
        BY <1>1, <1>6, <1>7, <1>8, <3>1, <3>3, <4>3, LastPageEmpty
      <4>5. j + PageLimit = PageLimit * f.page /\ j = PageLimit * (f.page - 1)
        <5>1. f.page = q + 1
          BY <1>2, <4>1
        <5>2. PageLimit * (q + 1) = PageLimit * q + PageLimit
          BY <1>6
        <5> QED
          BY <4>1, <4>2, <5>1, <5>2
      <4> QED
        BY <3>3, <4>4, <4>5
    <3> QED
      BY <1>9, <3>2, <3>3
  <2>3. PageOk(cursor', reader'.on, server, changes)
    BY <1>4, <2>1, <2>2 DEF PageOk, CatalogPageOf, query, f, S
  <2>4. ReaderOk(reader', cursor'.deps[1], server, changes)
    BY <1>1, <1>9, IdleReader
  <2> QED
    BY <2>1, <2>3, <2>4
<1>10. CASE /\ ReaderAnswered
            /\ reader.page # f.page /\ CatalogPage # {} /\ cursor' = cursor
            /\ reader' = [reader EXCEPT !.page = @ + 1, !.after = Max(CatalogPage)]
  <2>1. /\ reader'.on /\ reader'.query = query /\ reader'.at = reader.at
        /\ reader'.page = reader.page + 1 /\ reader'.after = Max(CatalogPage)
    BY <1>1, <1>4, <1>10 DEF Reader
  <2>2. reader'.page <= f.page /\ reader'.page > 0 /\ reader'.page - 1 = reader.page
    BY <1>1, <1>2, <1>4, <1>10, <2>1
  <2>3. reader.at = changes => Reached(S, k + PageLimit, Max(CatalogPage))
    BY <1>1, <1>4, <1>6, <1>7, <1>8, <1>10, ReachedNext
  <2>4. ReaderOk(reader', cursor'.deps[1], server, changes)
    BY <1>4, <1>7, <1>10, <2>1, <2>2, <2>3 DEF ReaderOk, S, query, f
  <2>5. PageOk(cursor', reader'.on, server, changes)
    BY <1>5, <1>10, <2>1 DEF PageOk
  <2> QED
    BY <1>10, <2>4, <2>5
<1>11. CASE ReaderFailed
  <2>1. reader' = NoReader /\ cursor' = [cursor EXCEPT !.loading = FALSE, !.error = TRUE]
    BY <1>11 DEF ReaderFailed, Failed
  <2>2. /\ cursor'.error /\ cursor'.at = cursor.at /\ cursor'.deps = cursor.deps
        /\ cursor'.attempt = cursor.attempt
    BY <1>1, <2>1 DEF Cursor
  <2>3. ReaderOk(reader', cursor'.deps[1], server, changes)
    BY <1>1, <2>1, IdleReader
  <2> QED
    BY <1>5, <2>2, <2>3 DEF PageOk
<1> QED
  <2>1. ReaderAnswered => \/ /\ reader.page = f.page \/ CatalogPage = {}
                             /\ reader' = NoReader
                             /\ cursor' = [cursor EXCEPT !.loading = FALSE, !.at = reader.at,
                                                         !.records = CatalogPage]
                          \/ /\ reader.page # f.page /\ CatalogPage # {} /\ cursor' = cursor
                             /\ reader' = [reader EXCEPT !.page = @ + 1, !.after = Max(CatalogPage)]
    BY <1>4 DEF ReaderAnswered, f
  <2> QED
    BY <1>9, <1>10, <1>11, <2>1

-----------------------------------------------------------------------------
(* Every step keeps the invariant, and what a settled page shows.           *)

LEMMA AnswersKeep ==
    ASSUME DirectoryTypeOK, DirectoryInv, Answering
    PROVE  DirectoryInv'
<1>1. /\ server' = server /\ changes' = changes /\ flush' = flush /\ committed' = committed
      /\ initial' = initial
  BY DEF Answering, WalkAnswered, WalkRefused, WalkFailed, ReaderAnswered, ReaderFailed,
         RecordAnswered, RecordFailed, Answer, fvars
<1>2. /\ InStep /\ CacheOk(cache, server, changes)
      /\ WalkOk(walk, legacy.deps, server, changes) /\ ListOk(legacy, walk.on, server, changes)
      /\ ReaderOk(reader, cursor.deps[1], server, changes)
      /\ PageOk(cursor, reader.on, server, changes) /\ RecordOk(record, server, changes)
  BY DEF DirectoryInv
<1>3. CASE WalkAnswered \/ WalkRefused \/ WalkFailed
  <2>1. /\ UNCHANGED <<cursor, reader, record>> /\ CacheOk(cache', server, changes)
        /\ WalkOk(walk', legacy'.deps, server, changes)
        /\ ListOk(legacy', walk'.on, server, changes)
        /\ legacy'.deps = legacy.deps /\ legacy'.attempt = legacy.attempt
    <3>1. CASE WalkAnswered
      BY <3>1, WalkAnswerKeeps DEF WalkAnswered
    <3>2. CASE WalkRefused \/ WalkFailed
      <4>1. UNCHANGED <<cursor, reader, record, cache>>
        BY <3>2 DEF WalkRefused, WalkFailed
      <4> QED
        BY <1>2, <3>2, <4>1, WalkFailureKeeps
    <3> QED
      BY <1>3, <3>1, <3>2
  <2>2. InStep'
    BY <1>1, <1>2, <2>1 DEF InStep
  <2> QED
    BY <1>1, <1>2, <2>1, <2>2 DEF DirectoryInv
<1>4. CASE ReaderAnswered \/ ReaderFailed
  <2>1. /\ UNCHANGED <<legacy, walk, cache, record>>
        /\ ReaderOk(reader', cursor'.deps[1], server, changes)
        /\ PageOk(cursor', reader'.on, server, changes)
        /\ cursor'.deps = cursor.deps /\ cursor'.attempt = cursor.attempt
    BY <1>4, ReaderKeeps DEF ReaderAnswered, ReaderFailed
  <2>2. InStep'
    BY <1>1, <1>2, <2>1 DEF InStep
  <2> QED
    BY <1>1, <1>2, <2>1, <2>2 DEF DirectoryInv
<1>5. CASE RecordAnswered \/ RecordFailed
  <2>1. UNCHANGED <<legacy, walk, cursor, reader, cache>>
    BY <1>5 DEF RecordAnswered, RecordFailed, hooks
  <2>2. record \in Page
    BY DEF DirectoryTypeOK
  <2>3. RecordOk(record', server, changes)
    <3>1. CASE RecordAnswered
      <4>1. /\ record'.id = record.id /\ record'.at = record.at
            /\ record'.found = IF server[record.id] = "gone" THEN NoCamera ELSE record.id
        BY <2>2, <3>1 DEF RecordAnswered, Page
      <4> QED
        BY <1>2, <4>1 DEF RecordOk
    <3>2. CASE RecordFailed
      <4>1. record'.at = record.at /\ record'.error
        BY <2>2, <3>2 DEF RecordFailed, Page
      <4> QED
        BY <1>2, <4>1 DEF RecordOk
    <3> QED
      BY <1>5, <3>1, <3>2
  <2>4. InStep'
    BY <1>1, <1>2, <2>1 DEF InStep
  <2> QED
    BY <1>1, <1>2, <2>1, <2>3, <2>4 DEF DirectoryInv
<1> QED
  BY <1>3, <1>4, <1>5 DEF Answering

\* Hooks that have just been mounted.
LEMMA FreshHooks ==
    ASSUME changes \in Nat, cache \in Cache, NEW f \in Filters, NEW srv
    PROVE  /\ WalkOk(NoWalk, FreshLegacy(f).deps, srv, changes)
           /\ ListOk(FreshLegacy(f), NoWalk.on, srv, changes)
           /\ ReaderOk(NoReader, FreshCursor(f).deps[1], srv, changes)
           /\ PageOk(FreshCursor(f), NoReader.on, srv, changes)
<1>1. WalkOk(NoWalk, FreshLegacy(f).deps, srv, changes)
  BY IdleWalk
<1>2. ReaderOk(NoReader, FreshCursor(f).deps[1], srv, changes)
  BY IdleReader
<1>3. ListOk(FreshLegacy(f), NoWalk.on, srv, changes)
  BY FreshType DEF ListOk
<1>4. PageOk(FreshCursor(f), NoReader.on, srv, changes)
  BY FreshType DEF PageOk
<1> QED
  BY <1>1, <1>2, <1>3, <1>4

LEMMA ArrivalKeeps ==
    ASSUME DirectoryTypeOK, DirectoryInv,
           \/ \E id \in Cameras : OpenRecord(id)
           \/ \E link \in Links : OpenDirectory(link)
    PROVE  DirectoryInv'
<1>1. PICK f \in Filters : NewHooks(f)
  BY FilterFacts, LinksAssumption DEF OpenRecord, OpenDirectory
<1>2. /\ server' = server /\ changes' = changes /\ cache' = cache
      /\ changes \in Nat /\ cache \in Cache
  BY DEF OpenRecord, OpenDirectory, Arrives, DirectoryTypeOK
<1>3. /\ flush' = "later" /\ legacy' = FreshLegacy(f) /\ walk' = NoWalk
      /\ cursor' = FreshCursor(f) /\ reader' = NoReader
  BY <1>1 DEF NewHooks, Mount
<1>4. RecordOk(record', server, changes)
  <2>1. ASSUME NEW id \in Cameras, record' = Resolved(id)
        PROVE  RecordOk(record', server, changes)
    <3>1. CacheOk(cache, server, changes)
      BY DEF DirectoryInv
    <3>2. CASE record'.loading /\ record'.at = changes
      BY <1>2, <3>2 DEF RecordOk
    <3>3. CASE /\ record'.found = id /\ record'.at = cache.at
               /\ cache.known /\ id \in cache.records
      <4>1. cache.at = changes => server[id] = "listed"
        BY <3>1, <3>3 DEF CacheOk, OnList, Matching
      <4>2. id # NoCamera /\ record'.id = id
        BY <2>1, ResolvedType, DirectoryAssumption
      <4> QED
        BY <3>1, <3>3, <4>1, <4>2 DEF RecordOk, CacheOk
    <3> QED
      BY <2>1, <3>2, <3>3, ResolvedType
  <2>2. ASSUME record' = NoRecord
        PROVE  RecordOk(record', server, changes)
    BY <1>2, <2>2 DEF NoRecord, RecordOk
  <2> QED
    BY <2>1, <2>2 DEF OpenRecord, OpenDirectory
<1>5. InStep'
  BY <1>3 DEF InStep
<1> QED
  BY <1>2, <1>3, <1>4, <1>5, FreshHooks DEF DirectoryInv

LEMMA ReloadKeeps ==
    ASSUME DirectoryTypeOK, DirectoryInv, ReloadLegacy \/ ReloadCursor \/ ReloadRecord
    PROVE  DirectoryInv'
<1>1. /\ server' = server /\ changes' = changes /\ changes \in Nat
      /\ legacy \in Legacy /\ cursor \in Cursor /\ record \in Page
  BY DEF ReloadLegacy, ReloadCursor, ReloadRecord, DirectoryTypeOK
<1>2. /\ InStep /\ CacheOk(cache, server, changes)
      /\ WalkOk(walk, legacy.deps, server, changes) /\ ListOk(legacy, walk.on, server, changes)
      /\ ReaderOk(reader, cursor.deps[1], server, changes)
      /\ PageOk(cursor, reader.on, server, changes) /\ RecordOk(record, server, changes)
  BY DEF DirectoryInv
<1>3. CacheOk(Cold, server, changes)
  BY <1>1 DEF CacheOk, Cold
<1>4. CASE ReloadLegacy
  <2>1. /\ legacy' = [legacy EXCEPT !.attempt = @ + 1, !.error = FALSE, !.loading = TRUE]
        /\ cache' = Cold /\ UNCHANGED <<walk, cursor, reader, record>> /\ flush' = "now"
    BY <1>4 DEF ReloadLegacy, Attempted, User
  <2>2. /\ legacy'.loading /\ legacy'.at = legacy.at /\ legacy'.records = legacy.records
        /\ legacy'.deps = legacy.deps
    <3>1. \A n : LET reloaded == [legacy EXCEPT !.attempt = n, !.error = FALSE, !.loading = TRUE]
                 IN  /\ reloaded.loading /\ reloaded.at = legacy.at
                     /\ reloaded.records = legacy.records /\ reloaded.deps = legacy.deps
      BY <1>1 DEF Legacy
    <3> QED
      BY <2>1, <3>1
  <2>3. ListOk(legacy', walk'.on, server, changes)
    BY <1>2, <2>2 DEF ListOk
  <2>4. InStep'
    BY <2>1 DEF InStep
  <2> QED
    BY <1>1, <1>2, <1>3, <2>1, <2>2, <2>3, <2>4 DEF DirectoryInv
<1>5. CASE ReloadCursor
  <2>1. /\ cursor' = [cursor EXCEPT !.attempt = @ + 1]
        /\ UNCHANGED <<cache, legacy, walk, reader, record>> /\ flush' = "now"
    BY <1>5 DEF ReloadCursor, Attempted, User
  <2>2. /\ cursor'.loading = cursor.loading /\ cursor'.error = cursor.error
        /\ cursor'.at = cursor.at /\ cursor'.records = cursor.records /\ cursor'.deps = cursor.deps
    BY <1>1, <2>1 DEF Cursor
  <2>3. PageOk(cursor', reader'.on, server, changes)
    BY <1>2, <2>1, <2>2 DEF PageOk
  <2>4. InStep'
    BY <2>1 DEF InStep
  <2> QED
    BY <1>1, <1>2, <2>1, <2>2, <2>3, <2>4 DEF DirectoryInv
<1>6. CASE ReloadRecord
  <2>1. /\ record' = [NoRecord EXCEPT !.id = record.id, !.loading = TRUE, !.at = changes]
        /\ cache' = Cold /\ UNCHANGED <<flush, committed, initial, legacy, walk, cursor, reader>>
    BY <1>6 DEF ReloadRecord, hooks
  <2>2. record'.loading /\ record'.at = changes
    BY <2>1 DEF NoRecord
  <2>3. RecordOk(record', server, changes)
    BY <1>1, <2>2 DEF RecordOk
  <2>4. InStep'
    BY <1>2, <2>1 DEF InStep
  <2> QED
    BY <1>1, <1>2, <1>3, <2>1, <2>3, <2>4 DEF DirectoryInv
<1> QED
  BY <1>4, <1>5, <1>6

\* Events of the filters touch nothing the hooks have, and their effects still wait.
LEMMA FiltersKeep ==
    ASSUME DirectoryInv, UNCHANGED <<server, changes, cache, hooks, record>>,
           flush' # "none" \/ UNCHANGED <<flush, committed, initial>>
    PROVE  DirectoryInv'
<1>1. UNCHANGED <<legacy, walk, cursor, reader>>
  BY DEF hooks
<1>2. InStep'
  BY <1>1 DEF DirectoryInv, InStep
<1> QED
  BY <1>1, <1>2 DEF DirectoryInv

LEMMA DirectoryInvInit == Init => DirectoryInv
<1> SUFFICES ASSUME Init PROVE DirectoryInv
  OBVIOUS
<1>1. PICK f \in Filters : FilterInit(f) /\ legacy = FreshLegacy(f) /\ cursor = FreshCursor(f)
  BY LinksAssumption DEF Init
<1>2. /\ changes = 0 /\ cache = Cold /\ walk = NoWalk /\ reader = NoReader /\ record = NoRecord
  BY DEF Init
<1>3. changes \in Nat /\ cache \in Cache
  BY <1>2 DEF Cold, Cache
<1>4. CacheOk(cache, server, changes) /\ RecordOk(record, server, changes)
  BY <1>2 DEF CacheOk, Cold, RecordOk, NoRecord
<1>5. InStep
  BY <1>1 DEF FilterInit, InStep
<1> QED
  BY <1>1, <1>2, <1>3, <1>4, <1>5, FreshHooks DEF DirectoryInv

LEMMA DirectoryInvNext ==
    ASSUME DirectoryTypeOK, DirectoryInv, [Next]_vars
    PROVE  DirectoryInv'
<1>1. CASE Filtering
  <2>1. flush' = "now" /\ UNCHANGED <<server, changes, cache, hooks, record>>
    BY <1>1 DEF Filtering, FilterStep, Type, Choose, Reset, Follow, User
  <2> QED
    BY <2>1, FiltersKeep
<1>2. CASE Waking
  <2>1. flush' = "later" /\ UNCHANGED <<server, changes, cache, hooks, record>>
    BY <1>2 DEF Waking, Debounced, Navigated
  <2> QED
    BY <2>1, FiltersKeep
<1>3. CASE Flush
  BY <1>3, FlushKeeps
<1>4. CASE Answering
  BY <1>4, AnswersKeep
<1>5. CASE (\E id \in Cameras : OpenRecord(id)) \/ (\E link \in Links : OpenDirectory(link))
  BY <1>5, ArrivalKeeps
<1>6. CASE ReloadLegacy \/ ReloadCursor \/ ReloadRecord
  BY <1>6, ReloadKeeps
<1>7. CASE \E c \in Cameras, status \in {"withdrawn", "gone"} : ServerChange(c, status)
  BY <1>7, Outdated
<1>8. CASE UNCHANGED vars
  BY <1>8, FiltersKeep DEF vars, fvars
<1>9. CASE \E letter \in Letters : Seek(letter)
  <2>1. flush' = "now" /\ UNCHANGED <<server, changes, cache, hooks, record>>
    BY <1>9 DEF Seek, Choose, User
  <2> QED
    BY <2>1, FiltersKeep
<1> QED
  BY <1>1, <1>2, <1>3, <1>4, <1>5, <1>6, <1>7, <1>8, <1>9 DEF Next

\* Whatever is clicked, typed, answered, refused, reloaded or taken off the list in between,
\* what the hooks of the two pages hold is what their effects asked for, as of its date.
THEOREM PagesInductive == Spec => []DirectoryInv
<1>1. DirectoryTypeOK /\ DirectoryInv /\ [Next]_vars => DirectoryInv'
  BY DirectoryInvNext
<1> QED
  BY <1>1, DirectoryInvInit, PagesTyped, PTL DEF Spec, Safety

LEMMA SettledCatalog ==
    ASSUME DirectoryTypeOK, DirectoryInv, Settled, OnDirectory
    PROVE  CatalogIsRight
<1> SUFFICES ASSUME UsesCursor(committed), ~cursor.error, cursor.at = changes
             PROVE  cursor.records = Catalog(committed, initial)
  BY DEF CatalogIsRight
<1>1. ~cursor.loading /\ ~reader.on /\ flush = "none"
  BY DEF Settled, Loading, AtRest
<1>2. cursor.records = CatalogPageOf(server, cursor.deps[1])
  BY <1>1 DEF DirectoryInv, PageOk
<1>3. cursor.deps[1] = <<committed, initial>>
  BY <1>1 DEF DirectoryInv, InStep, CursorFilters
<1> QED
  BY <1>2, <1>3 DEF Catalog, Catalogued, CatalogPageOf, OnCatalog, OnList, Listed

LEMMA SettledList ==
    ASSUME DirectoryTypeOK, DirectoryInv, Settled, OnDirectory
    PROVE  ListIsRight
<1> SUFFICES ASSUME ~UsesCursor(committed), ~legacy.error, legacy.at = changes
             PROVE  /\ Matching(legacy.records, committed) \subseteq Listed(committed)
                    /\ Matching(Listed([legacy.of EXCEPT !.type = All]), committed)
                         \subseteq Matching(legacy.records, committed)
  BY DEF ListIsRight
<1>1. ~legacy.loading /\ ~walk.on /\ flush = "none"
  BY DEF Settled, Loading, AtRest
<1>2. legacy.deps = LegacyDeps(committed, legacy.attempt)
  BY <1>1 DEF DirectoryInv, InStep
<1>3. legacy.deps.enabled /\ legacy.deps.key = Key(committed)
  <2>1. LegacyDeps(committed, legacy.attempt).enabled = ~UsesCursor(committed)
    BY Zenon DEF LegacyDeps
  <2>2. LegacyDeps(committed, legacy.attempt).key = Key(committed)
    BY DEF LegacyDeps
  <2> QED
    BY <1>2, <2>1, <2>2, Zenon
<1>4. /\ legacy.records \subseteq OnList(server, NoFilters) /\ AskedFor(legacy.of, legacy.deps)
      /\ OnList(server, legacy.of) \subseteq legacy.records
  BY <1>1, <1>3 DEF DirectoryInv, ListOk
<1>5. legacy.of.type \in {All, committed.type}
  BY <1>3, <1>4 DEF AskedFor, Key
<1>6. legacy.of \in Filters
  BY DEF DirectoryTypeOK, Legacy
<1>7. Matching(legacy.records, committed) \subseteq Listed(committed)
  BY <1>4 DEF Matching, Listed, OnList
<1>8. ASSUME NEW c \in Matching(Listed([legacy.of EXCEPT !.type = All]), committed)
      PROVE  c \in OnList(server, legacy.of)
  <2>1. [legacy.of EXCEPT !.type = All].q = legacy.of.q
    BY <1>6 DEF Filters
  <2>2. /\ c \in Cameras /\ server[c] = "listed" /\ legacy.of.q \in {NoText, TextOf[c]}
        /\ committed.type \in {All, TypeOf[c]}
    BY <2>1 DEF Matching, Listed
  <2> QED
    BY <1>5, <2>2 DEF OnList, Matching
<1>9. \A c \in Matching(Listed([legacy.of EXCEPT !.type = All]), committed) :
        c \in Matching(legacy.records, committed)
  BY <1>4, <1>8 DEF Matching
<1> QED
  BY <1>7, <1>9

\* A directory that has settled shows its page of the catalog for its filters and the letter
\* chosen in the index, or the records of its type that the last walk was about
\* (usePublicCameras, usePublicCamerasPage), for any list of records, any titles, any sizes of
\* the pages and any filters.
THEOREM DirectoryRight == Spec => []DirectoryIsRight
<1>1. DirectoryTypeOK /\ DirectoryInv => DirectoryIsRight
  BY SettledCatalog, SettledList DEF DirectoryIsRight
<1> QED
  BY <1>1, PagesTyped, PagesInductive, PTL

\* A settled page of a record has found it if the server has it, whatever the cached list says
\* (usePublicCamera).
THEOREM RecordFound == Spec => []RecordIsFound
<1>1. DirectoryInv => RecordIsFound
  BY DEF DirectoryInv, RecordOk, RecordIsFound, RecordIsRight, Settled, Loading, OnDirectory
<1> QED
  BY <1>1, PagesInductive, PTL
=============================================================================
