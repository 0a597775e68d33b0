------------------------- MODULE SubscriberMarts_proofs -------------------------
(***************************************************************************)
(* The dimensions built on change events, for every feed: what any build   *)
(* makes of the events delivered so far, in whatever order and batches.    *)
(***************************************************************************)
EXTENDS SubscriberMarts, TLAPS, FiniteSetTheorems, WellFoundedInduction

(***************************************************************************)
(* Sets of times.                                                          *)
(***************************************************************************)
LEMMA LeastOf ==
    ASSUME NEW S \in SUBSET Nat, S # {}
    PROVE  Min(S) \in S /\ \A x \in S : Min(S) <= x
<1>1. PICK m \in S : \A y \in S : ~ (<< y, m >> \in OpToRel(<, Nat))
  BY NatLessThanWellFounded, WFMin
<1>2. \A y \in S : ~ (y < m)
  BY <1>1 DEF OpToRel
<1>3. \A y \in S : m <= y
  BY <1>2
<1> QED  BY <1>3, Zenon DEF Min

LEMMA GreatestOf ==
    ASSUME NEW n \in Nat, NEW S \in SUBSET (0..n), S # {}
    PROVE  \E x \in S : \A y \in S : y <= x
<1> DEFINE T == {k \in Nat : n - k \in S}
<1>1. PICK e \in S : TRUE
  OBVIOUS
<1>2. n - e \in T
  BY <1>1
<1>3. Min(T) \in T /\ \A y \in T : Min(T) <= y
  BY <1>2, LeastOf
<1>4. n - Min(T) \in S
  BY <1>3
<1>5. ASSUME NEW j \in S PROVE j <= n - Min(T)
  <2>1. n - j \in T /\ j \in Int /\ Min(T) \in Nat
    BY <1>3
  <2> HIDE DEF T
  <2> QED  BY <1>3, <2>1
<1> QED  BY <1>4, <1>5

(* A value that no step of its own changes between two times is the same   *)
(* at both.                                                                *)
LEMMA NoChange ==
    ASSUME NEW T \in SUBSET Instants, NEW val, NEW a \in T, NEW b \in T, a <= b,
           \A x \in T : a < x /\ x <= b =>
              \E y \in T : /\ y < x /\ \A z \in T : z < x => z <= y
                           /\ val[y] = val[x]
    PROVE  val[a] = val[b]
<1>0. T \subseteq Nat
  BY DEF Instants
<1> DEFINE Other == {x \in T : a <= x /\ x <= b /\ val[x] # val[a]}
<1> SUFFICES ASSUME Other # {} PROVE FALSE
  BY <1>0
<1>1. Min(Other) \in Other /\ \A x \in Other : Min(Other) <= x
  BY <1>0, LeastOf
<1>2. PICK x \in T : /\ a <= x /\ x <= b /\ val[x] # val[a]
                     /\ \A z \in Other : x <= z
  BY <1>1
<1>3. a < x
  BY <1>0, <1>2
<1>4. PICK y \in T : /\ y < x /\ \A z \in T : z < x => z <= y
                     /\ val[y] = val[x]
  BY <1>2, <1>3
<1>5. a <= y
  BY <1>3, <1>4
<1>6. y \in Other
  BY <1>0, <1>2, <1>4, <1>5
<1> QED  BY <1>0, <1>2, <1>4, <1>6

(* The latest of some times up to t.                                       *)
LEMMA LatestUpto ==
    ASSUME NEW T \in SUBSET Instants, NEW t \in Int, \E x \in T : x <= t
    PROVE  \E x \in T : x <= t /\ \A y \in T : y <= t => y <= x
<1> DEFINE S == {x \in T : x <= t}
<1>1. S \in SUBSET (0..LastInstant) /\ S # {} /\ LastInstant \in Nat
  BY TimeAssumption DEF Instants
<1>2. PICK x \in S : \A y \in S : y <= x
  BY <1>1, GreatestOf
<1> QED  BY <1>2

(***************************************************************************)
(* The versions of one member of a dimension: each ends where the next     *)
(* begins.                                                                 *)
(***************************************************************************)
Chained(V) ==
    /\ \A r \in V : r.from \in Instants \cup {Sentinel}
    /\ \A r, q \in V : r.from = q.from => r = q
    /\ \A r \in V : r.to = Min({HighDate} \cup {q.from : q \in {u \in V : u.from > r.from}})

LEMMA ChainedTo ==
    ASSUME NEW V, Chained(V), NEW r \in V
    PROVE  /\ r.to \in Nat /\ r.from \in Int /\ r.from < r.to /\ r.to <= HighDate
           /\ \A q \in V : q.from > r.from => r.to <= q.from
           /\ r.to = HighDate \/ \E q \in V : q.from > r.from /\ r.to = q.from
<1> DEFINE S == {HighDate} \cup {q.from : q \in {u \in V : u.from > r.from}}
<1>0. /\ LastInstant \in Nat /\ HighDate = LastInstant + 1 /\ Sentinel \in Int /\ Sentinel < 0
      /\ Instants = 0..LastInstant
  BY TimeAssumption DEF HighDate, Sentinel, Instants
<1>1. r.from \in Int /\ r.from < HighDate
  BY <1>0 DEF Chained
<1>2. \A q \in V : q.from > r.from => q.from \in Nat
  BY <1>0, <1>1 DEF Chained
<1>3. S \in SUBSET Nat /\ S # {}
  BY <1>0, <1>2
<1>4. r.to \in S /\ \A x \in S : r.to <= x
  <2>1. r.to = Min(S)
    BY DEF Chained
  <2> HIDE DEF S
  <2> QED  BY <1>3, <2>1, LeastOf
<1>5. HighDate \in S /\ \A q \in V : q.from > r.from => q.from \in S
  OBVIOUS
<1>6. r.to = HighDate \/ \E q \in V : q.from > r.from /\ r.to = q.from
  BY <1>4
<1> HIDE DEF S
<1> QED  BY <1>0, <1>1, <1>3, <1>4, <1>5, <1>6

(* An instant is covered by the last version that began by then, and by    *)
(* none before the first one.                                              *)
LEMMA ChainedCovers ==
    ASSUME NEW V, Chained(V), NEW t \in Instants, NEW r \in V, r.from <= t,
           \A q \in V : q.from <= t => q.from <= r.from
    PROVE  Covering(V, t) = {r}
<1>0. t \in Nat /\ t < HighDate
  BY TimeAssumption DEF Instants, HighDate
<1>1. r.from \in Int /\ r.to \in Nat /\ t < r.to
  BY <1>0, ChainedTo
<1>2. ASSUME NEW q \in V, q.from <= t, t < q.to PROVE q = r
  <2>1. q.from \in Int /\ q.to \in Nat /\ ~ (q.from < r.from)
    BY <1>0, <1>1, <1>2, ChainedTo
  <2> QED  BY <1>1, <1>2, <2>1 DEF Chained
<1> QED  BY <1>1, <1>2 DEF Covering

LEMMA CoveredByLast ==
    ASSUME NEW V, Chained(V), NEW t \in Instants, NEW r \in Covering(V, t)
    PROVE  /\ r \in V /\ r.from <= t
           /\ \A q \in V : q.from <= t => q.from <= r.from
<1>0. t \in Nat
  BY TimeAssumption DEF Instants
<1> QED  BY <1>0, ChainedTo DEF Covering

LEMMA ChainedLast ==
    ASSUME NEW V, Chained(V), NEW t \in Nat, \E q \in V : q.from <= t
    PROVE  \E r \in V : r.from <= t /\ \A q \in V : q.from <= t => q.from <= r.from
<1>0. t \in Nat /\ Sentinel \in Int /\ Sentinel < 0 /\ Instants \subseteq Nat
  BY TimeAssumption DEF Instants, Sentinel
<1> DEFINE T == {q.from : q \in {u \in V : u.from \in Instants}}
<1>1. ASSUME \E q \in V : q.from \in Instants /\ q.from <= t
      PROVE  \E r \in V : r.from <= t /\ \A q \in V : q.from <= t => q.from <= r.from
  <2>1. T \in SUBSET Instants /\ t \in Int /\ \E x \in T : x <= t
    BY <1>0, <1>1
  <2>2. PICK x \in T : x <= t /\ \A y \in T : y <= t => y <= x
    BY <2>1, LatestUpto
  <2>3. PICK r \in V : r.from = x /\ x \in Instants
    BY <2>2
  <2>4. \A q \in V : q.from <= t => q.from <= r.from
    BY <1>0, <2>2, <2>3 DEF Chained
  <2> QED  BY <2>2, <2>3, <2>4
<1>2. ASSUME ~ \E q \in V : q.from \in Instants /\ q.from <= t
      PROVE  \E r \in V : r.from <= t /\ \A q \in V : q.from <= t => q.from <= r.from
  BY <1>0, <1>2 DEF Chained
<1> QED  BY <1>1, <1>2

LEMMA ChainedExists ==
    ASSUME NEW V, Chained(V), NEW t \in Instants, \E q \in V : q.from <= t
    PROVE  \E r \in V : /\ r.from <= t /\ \A q \in V : q.from <= t => q.from <= r.from
                        /\ Covering(V, t) = {r}
<1>0. t \in Nat
  BY TimeAssumption DEF Instants
<1> QED  BY <1>0, ChainedLast, ChainedCovers

(* The widened join takes the last version that began within the second.   *)
LEMMA ChainedClosest ==
    ASSUME NEW V, Chained(V), NEW t \in Instants, \E q \in V : q.from <= t + PerSecond
    PROVE  \E r \in V : /\ r.from <= t + PerSecond
                        /\ \A q \in V : q.from <= t + PerSecond => q.from <= r.from
                        /\ Closest(V, t) = {r}
<1>0. t \in Nat /\ t < HighDate /\ HighDate \in Nat /\ t + PerSecond \in Nat /\ t < t + PerSecond
  BY TimeAssumption DEF Instants, HighDate
<1> DEFINE u == t + PerSecond
<1>1. u \in Nat /\ t < u /\ \E q \in V : q.from <= u
  BY <1>0
<1> HIDE DEF u
<1>2. PICK r \in V : r.from <= u /\ \A q \in V : q.from <= u => q.from <= r.from
  BY <1>1, ChainedLast
<1>3. r.from \in Int /\ r.to \in Nat /\ t < r.to
  <2>1. CASE r.to = HighDate
    BY <1>0, <2>1, ChainedTo
  <2>2. CASE \E q \in V : q.from > r.from /\ r.to = q.from
    <3>1. PICK q \in V : q.from > r.from /\ r.to = q.from
      BY <2>2
    <3>2. q.from \in Int /\ r.from \in Int /\ r.to \in Nat
      BY ChainedTo
    <3>3. ~ (q.from <= u)
      BY <1>2, <3>1, <3>2
    <3> QED  BY <1>0, <1>1, <3>1, <3>2, <3>3
  <2> QED  BY <2>1, <2>2, ChainedTo
<1>4. \A q : q \in Candidates(V, t) <=> q \in V /\ q.from <= u /\ t < q.to
  BY DEF Candidates, u
<1>5. r \in Candidates(V, t) /\ \A q \in Candidates(V, t) : q.from <= r.from
  BY <1>2, <1>3, <1>4
<1>6. ASSUME NEW q \in Candidates(V, t), r.from <= q.from PROVE q = r
  <2>1. q \in V /\ q.from <= u
    BY <1>4
  <2>2. q.from = r.from
    BY <1>2, <1>3, <1>6, <2>1, ChainedTo
  <2> QED  BY <2>1, <2>2 DEF Chained
<1>7. Closest(V, t) = {r}
  BY <1>5, <1>6 DEF Closest
<1> QED  BY <1>2, <1>7 DEF u

(* With the time cut down to its second it takes the version of the event  *)
(* itself, if none begins in the rest of the widened second.               *)
LEMMA ChainedWholeSecond ==
    ASSUME NEW V, Chained(V), NEW t \in Instants,
           \A r \in V : ~ (t < r.from /\ r.from <= WholeSecond(t) + PerSecond)
    PROVE  Closest(V, WholeSecond(t)) = Covering(V, t)
<1> DEFINE w == WholeSecond(t)
           u == WholeSecond(t) + PerSecond
<1>0. t \in Nat /\ w \in Nat /\ u \in Nat /\ w <= t /\ t < u
  BY TimeAssumption DEF Instants, WholeSecond
<1>1. \A r : r \in Candidates(V, w) <=> r \in V /\ r.from <= u /\ w < r.to
  BY DEF Candidates
<1> HIDE DEF w, u
<1>2. \A r \in V : r.from \in Int /\ r.to \in Nat /\ (r.from <= u <=> r.from <= t)
  BY <1>0, ChainedTo DEF u
<1>3. ASSUME ~ \E q \in V : q.from <= t PROVE Closest(V, w) = Covering(V, t)
  <2>1. Candidates(V, w) = {} /\ Covering(V, t) = {}
    BY <1>1, <1>2, <1>3 DEF Covering
  <2> QED  BY <2>1 DEF Closest
<1>4. ASSUME \E q \in V : q.from <= t PROVE Closest(V, w) = Covering(V, t)
  <2>1. PICK r \in V : /\ r.from <= t /\ \A q \in V : q.from <= t => q.from <= r.from
                       /\ Covering(V, t) = {r}
    BY <1>4, ChainedExists
  <2>2. t < r.to
    BY <2>1 DEF Covering
  <2>3. r \in Candidates(V, w) /\ \A q \in Candidates(V, w) : q.from <= r.from
    BY <1>0, <1>1, <1>2, <2>1, <2>2
  <2>4. ASSUME NEW q \in Candidates(V, w), r.from <= q.from PROVE q = r
    <3>1. q \in V /\ q.from = r.from
      BY <1>1, <1>2, <2>3, <2>4
    <3> QED  BY <3>1 DEF Chained
  <2> QED  BY <2>1, <2>3, <2>4 DEF Closest
<1> QED  BY <1>3, <1>4 DEF w

(***************************************************************************)
(* The versions of dim_subscriber.  F is what the tie-break leaves: one    *)
(* hashed event per subscriber and instant.                                *)
(***************************************************************************)
OnePerInstant(F) ==
    /\ \A e \in F : e.at \in Instants /\ e["row_hash"] = << e.plan, e.status >>
    /\ \A d, e \in F : d.sub = e.sub /\ d.at = e.at => d = e

LEMMA InstantsAre == Instants \subseteq Nat /\ Instants = 0..LastInstant /\ LastInstant \in Nat
BY TimeAssumption DEF Instants

(* An event that opens no segment has a predecessor with its value.        *)
LEMMA NotOpening ==
    ASSUME NEW F, OnePerInstant(F), NEW e \in F, NEW column, ~ Opens(F, e, column)
    PROVE  \E d \in F : /\ d.sub = e.sub /\ d.at < e.at /\ d[column] = e[column]
                        /\ \A c \in F : c.sub = e.sub /\ c.at < e.at => c.at <= d.at
BY DEF Opens, Lag

LEMMA SteadyColumn ==
    ASSUME NEW F, OnePerInstant(F), NEW d \in F, NEW e \in F, NEW column,
           d.sub = e.sub, d.at <= e.at,
           \A c \in F : c.sub = e.sub /\ d.at < c.at /\ c.at <= e.at => ~ Opens(F, c, column)
    PROVE  d[column] = e[column]
<1> DEFINE T == {x \in Instants : \E c \in F : c.sub = e.sub /\ c.at = x}
           val == [x \in T |-> (CHOOSE c \in F : c.sub = e.sub /\ c.at = x)[column]]
<1>1. \A c \in F : c.sub = e.sub => c.at \in T
  BY DEF OnePerInstant
<1>2. ASSUME NEW c \in F, c.sub = e.sub PROVE val[c.at] = c[column]
  <2>1. (CHOOSE b \in F : b.sub = e.sub /\ b.at = c.at) = c
    BY <1>2 DEF OnePerInstant
  <2> QED  BY <1>1, <1>2, <2>1
<1>3. ASSUME NEW x \in T, d.at < x, x <= e.at
      PROVE  \E y \in T : /\ y < x /\ \A z \in T : z < x => z <= y
                          /\ val[y] = val[x]
  <2>1. PICK c \in F : c.sub = e.sub /\ c.at = x
    OBVIOUS
  <2>2. PICK b \in F : /\ b.sub = c.sub /\ b.at < c.at /\ b[column] = c[column]
                       /\ \A a \in F : a.sub = c.sub /\ a.at < c.at => a.at <= b.at
    BY <1>3, <2>1, NotOpening
  <2>3. b.at \in T /\ b.at < x /\ val[b.at] = val[x]
    BY <1>1, <1>2, <2>1, <2>2
  <2>4. \A z \in T : z < x => z <= b.at
    BY <2>1, <2>2
  <2> QED  BY <2>3, <2>4
<1>4. T \in SUBSET Instants /\ d.at \in T /\ e.at \in T
  BY <1>1
<1> HIDE DEF T, val
<1>5. val[d.at] = val[e.at]
  <2>1. \A x \in T : d.at < x /\ x <= e.at =>
           \E y \in T : /\ y < x /\ \A z \in T : z < x => z <= y
                       /\ val[y] = val[x]
    BY <1>3
  <2> DEFINE a == d.at
             b == e.at
  <2>2. a \in T /\ b \in T /\ a <= b
    BY <1>4
  <2> HIDE DEF a, b
  <2>3. \A x \in T : a < x /\ x <= b =>
           \E y \in T : /\ y < x /\ \A z \in T : z < x => z <= y
                       /\ val[y] = val[x]
    BY <2>1 DEF a, b
  <2>4. val[a] = val[b]
    BY <1>4, <2>2, <2>3, NoChange
  <2> QED  BY <2>4 DEF a, b
<1>6. val[d.at] = d[column]
  BY <1>2
<1>7. val[e.at] = e[column]
  BY <1>2
<1> QED  BY <1>5, <1>6, <1>7

(* Segments count the openings, so they are ordered by time, and the same  *)
(* just when none opens in between.                                        *)
LEMMA SegmentOrder ==
    ASSUME NEW F, OnePerInstant(F), NEW d \in F, NEW e \in F, NEW column,
           d.sub = e.sub, d.at <= e.at
    PROVE  /\ Segment(F, d, column) \in Nat /\ Segment(F, e, column) \in Nat
           /\ Segment(F, d, column) <= Segment(F, e, column)
           /\ Segment(F, d, column) = Segment(F, e, column) <=>
                \A c \in F : c.sub = e.sub /\ d.at < c.at /\ c.at <= e.at => ~ Opens(F, c, column)
<1> DEFINE D == {c \in Upto(F, d) : Opens(F, c, column)}
           E == {c \in Upto(F, e) : Opens(F, c, column)}
<1>0. \A c \in F : c.at \in Int
  BY InstantsAre DEF OnePerInstant
<1>1. D \subseteq E
  BY <1>0 DEF Upto
<1>2. IsFiniteSet(E)
  <2> DEFINE f == [c \in E |-> c.at]
  <2>1. \A c \in E : c \in F /\ c.sub = e.sub
    BY DEF Upto
  <2>2. f \in [E -> Instants]
    BY <2>1 DEF OnePerInstant
  <2>3. \A b, c \in E : f[b] = f[c] => b = c
    BY <2>1 DEF OnePerInstant
  <2> HIDE DEF E, f
  <2>4. f \in Injection(E, Instants)
    BY <2>2, <2>3 DEF Injection, IsInjective
  <2>5. IsFiniteSet(Instants)
    BY InstantsAre, FS_Interval
  <2> QED  BY <2>4, <2>5, FS_Injection
<1>3. D = E <=> \A c \in F : c.sub = e.sub /\ d.at < c.at /\ c.at <= e.at => ~ Opens(F, c, column)
  <2>1. \A c : c \in D <=> c \in F /\ c.sub = d.sub /\ c.at <= d.at /\ Opens(F, c, column)
    BY DEF Upto
  <2>2. \A c : c \in E <=> c \in F /\ c.sub = e.sub /\ c.at <= e.at /\ Opens(F, c, column)
    BY DEF Upto
  <2> HIDE DEF D, E
  <2> QED  BY <1>0, <1>1, <2>1, <2>2
<1>4. Segment(F, d, column) = Cardinality(D) /\ Segment(F, e, column) = Cardinality(E)
  BY DEF Segment
<1> HIDE DEF D, E
<1>5. /\ Cardinality(E) \in Nat /\ Cardinality(D) \in Nat /\ Cardinality(D) <= Cardinality(E)
      /\ Cardinality(D) = Cardinality(E) <=> D = E
  BY <1>1, <1>2, FS_Subset, FS_CardinalityType
<1> QED  BY <1>3, <1>4, <1>5

LEMMA SameSegment ==
    ASSUME NEW F, OnePerInstant(F), NEW d \in F, NEW e \in F, NEW column,
           d.sub = e.sub, Segment(F, d, column) = Segment(F, e, column)
    PROVE  d[column] = e[column]
<1>1. d.at \in Int /\ e.at \in Int
  BY InstantsAre DEF OnePerInstant
<1>2. CASE d.at <= e.at
  BY <1>2, SegmentOrder, SteadyColumn
<1>3. CASE e.at <= d.at
  BY <1>3, SegmentOrder, SteadyColumn
<1> QED  BY <1>1, <1>2, <1>3

(* A change of plan or of status opens a version.                          *)
LEMMA VersionOpens ==
    ASSUME NEW F, OnePerInstant(F), NEW e \in F, ~ Opens(F, e, "row_hash")
    PROVE  ~ Opens(F, e, "plan") /\ ~ Opens(F, e, "status")
<1>1. PICK d \in Lag(F, e) : d["row_hash"] = e["row_hash"]
  BY DEF Opens
<1>2. d \in F
  BY <1>1 DEF Lag
<1>3. << d.plan, d.status >> = << e.plan, e.status >>
  BY <1>1, <1>2 DEF OnePerInstant
<1>4. d["plan"] = e["plan"] /\ d["status"] = e["status"]
  BY <1>3
<1> QED  BY <1>1, <1>4 DEF Opens

Opening(F) == {e \in F : Opens(F, e, "row_hash")}
VersionOf(F, f) ==
    [sub |-> f.sub, plan |-> f.plan, status |-> f.status, from |-> f.at,
     planSegment |-> Segment(F, f, "plan"), statusSegment |-> Segment(F, f, "status")]

(* Of the events of one segment, the earliest opens it.                    *)
LEMMA FirstOfGroup ==
    ASSUME NEW F, OnePerInstant(F), NEW e \in F
    PROVE  \E f \in Opening(F) :
              /\ f.sub = e.sub /\ f.at <= e.at
              /\ f.at = Min({d.at : d \in VersionGroup(F, e)})
              /\ Segment(F, f, "row_hash") = Segment(F, e, "row_hash")
<1> DEFINE A == {d.at : d \in VersionGroup(F, e)}
<1>0. \A d \in F : d.at \in Nat
  BY InstantsAre DEF OnePerInstant
<1>1. \A d : d \in VersionGroup(F, e) <=>
        d \in F /\ d.sub = e.sub /\ Segment(F, d, "row_hash") = Segment(F, e, "row_hash")
  BY DEF VersionGroup
<1>2. A \in SUBSET Nat /\ e.at \in A
  BY <1>0, <1>1
<1>3. Min(A) \in A /\ \A x \in A : Min(A) <= x
  BY <1>2, LeastOf
<1>4. PICK f \in VersionGroup(F, e) : f.at = Min(A)
  BY <1>3
<1>5. \A d \in VersionGroup(F, e) : f.at <= d.at
  BY <1>3, <1>4
<1> HIDE DEF A
<1>6. f \in F /\ f.sub = e.sub /\ Segment(F, f, "row_hash") = Segment(F, e, "row_hash")
  BY <1>1
<1>7. ASSUME ~ Opens(F, f, "row_hash") PROVE FALSE
  <2>1. PICK d \in F : /\ d.sub = f.sub /\ d.at < f.at /\ d["row_hash"] = f["row_hash"]
                       /\ \A c \in F : c.sub = f.sub /\ c.at < f.at => c.at <= d.at
    BY <1>6, <1>7, NotOpening
  <2>2. \A c \in F : c.sub = f.sub /\ d.at < c.at /\ c.at <= f.at => c = f
    BY <1>0, <1>6, <2>1 DEF OnePerInstant
  <2>3. d.at <= f.at /\ \A c \in F : c.sub = f.sub /\ d.at < c.at /\ c.at <= f.at
                                      => ~ Opens(F, c, "row_hash")
    BY <1>0, <1>6, <1>7, <2>1, <2>2
  <2>4. Segment(F, d, "row_hash") = Segment(F, f, "row_hash")
    BY <1>6, <2>1, <2>3, SegmentOrder
  <2>5. d \in VersionGroup(F, e)
    BY <1>1, <1>6, <2>1, <2>4
  <2> QED  BY <1>0, <1>5, <1>6, <2>1, <2>5
<1> QED  BY <1>2, <1>4, <1>5, <1>6, <1>7 DEF Opening, A

LEMMA VersionsAreOpenings ==
    ASSUME NEW F, OnePerInstant(F)
    PROVE  Versions(F) = {VersionOf(F, f) : f \in Opening(F)}
<1> DEFINE Row(e) ==
             [sub |-> e.sub, plan |-> e.plan, status |-> e.status,
              from |-> Min({d.at : d \in VersionGroup(F, e)}),
              planSegment |-> Segment(F, e, "plan"),
              statusSegment |-> Segment(F, e, "status")]
<1>0. \A d \in F : d.at \in Nat
  BY InstantsAre DEF OnePerInstant
<1>1. Versions(F) = {Row(e) : e \in F}
  BY DEF Versions
<1>2. ASSUME NEW e \in F PROVE \E f \in Opening(F) : Row(e) = VersionOf(F, f)
  <2>1. PICK f \in Opening(F) :
           /\ f.sub = e.sub /\ f.at <= e.at
           /\ f.at = Min({d.at : d \in VersionGroup(F, e)})
           /\ Segment(F, f, "row_hash") = Segment(F, e, "row_hash")
    BY FirstOfGroup
  <2>2. f \in F
    BY DEF Opening
  <2>3. \A c \in F : c.sub = e.sub /\ f.at < c.at /\ c.at <= e.at
                        => ~ Opens(F, c, "row_hash")
    BY <2>1, <2>2, SegmentOrder
  <2>4. /\ Segment(F, f, "plan") = Segment(F, e, "plan")
        /\ Segment(F, f, "status") = Segment(F, e, "status")
    BY <2>1, <2>2, <2>3, VersionOpens, SegmentOrder
  <2>5. f["plan"] = e["plan"] /\ f["status"] = e["status"]
    BY <2>1, <2>2, <2>4, SameSegment
  <2> QED  BY <2>1, <2>4, <2>5 DEF VersionOf
<1>3. ASSUME NEW f \in Opening(F) PROVE f \in F /\ Row(f) = VersionOf(F, f)
  <2>1. f \in F /\ Opens(F, f, "row_hash")
    BY DEF Opening
  <2>2. PICK g \in Opening(F) :
           /\ g.sub = f.sub /\ g.at <= f.at
           /\ g.at = Min({d.at : d \in VersionGroup(F, f)})
           /\ Segment(F, g, "row_hash") = Segment(F, f, "row_hash")
    BY <2>1, FirstOfGroup
  <2>3. g.at = f.at
    <3>1. g \in F
      BY DEF Opening
    <3>2. \A c \in F : c.sub = f.sub /\ g.at < c.at /\ c.at <= f.at
                          => ~ Opens(F, c, "row_hash")
      BY <2>1, <2>2, <3>1, SegmentOrder
    <3> QED  BY <1>0, <2>1, <2>2, <3>1, <3>2
  <2> QED  BY <2>1, <2>2, <2>3 DEF VersionOf
<1> HIDE DEF Row
<1> QED  BY <1>1, <1>2, <1>3

(***************************************************************************)
(* From the change events in silver to the events versions are built on.   *)
(***************************************************************************)
ChangeFields == {"id", "sub", "at", "type", "profile", "signup", "plan", "status", "batch"}
Bounded(C) == \E n, m \in Nat : \A c \in C : c.id \in 1..n /\ c.batch \in 1..m
ChangeRows(C) ==
    /\ OnePerId(C) /\ Bounded(C)
    /\ \A c \in C : DOMAIN c = ChangeFields /\ c.at \in Instants /\ c.sub # UnknownId

(* The last of the events of one instant, and its image in gold.           *)
Latest(C, c) == \A d \in C : SameInstant(d, c) => After(c, d)
Gold(c) == [c EXCEPT !.status = GoldStatus(@)]

LEMMA GoldFields ==
    ASSUME NEW C, ChangeRows(C), NEW c \in C
    PROVE  /\ DOMAIN Gold(c) = ChangeFields
           /\ Gold(c).id = c.id /\ Gold(c).sub = c.sub /\ Gold(c).at = c.at
           /\ Gold(c).type = c.type /\ Gold(c).signup = c.signup
           /\ Gold(c).plan = c.plan /\ Gold(c).batch = c.batch
           /\ Gold(c).status = GoldStatus(c.status)
<1>1. DOMAIN c = ChangeFields
  BY DEF ChangeRows
<1> QED  BY <1>1 DEF Gold, ChangeFields

LEMMA FilteredIs ==
    ASSUME NEW C, ChangeRows(C)
    PROVE  Filtered(C) = {Gold(c) : c \in {b \in C : Latest(C, b)}}
<1>1. RawEvents(C) = {Gold(c) : c \in C}
  BY DEF RawEvents, Gold
<1>2. ASSUME NEW c \in C, NEW d \in C
      PROVE  /\ SameInstant(Gold(d), Gold(c)) <=> SameInstant(d, c)
             /\ After(Gold(c), Gold(d)) <=> After(c, d)
  BY GoldFields DEF SameInstant, After
<1>3. Filtered(C) = {e \in RawEvents(C) : \A d \in RawEvents(C) : SameInstant(d, e) => After(e, d)}
  BY DEF Filtered
<1>4. ASSUME NEW c \in C
      PROVE  (\A d \in RawEvents(C) : SameInstant(d, Gold(c)) => After(Gold(c), d)) <=> Latest(C, c)
  BY <1>1, <1>2 DEF Latest
<1> QED  BY <1>1, <1>3, <1>4

(* Of any rows one comes last, by batch and then by id.                    *)
LEMMA LastRow ==
    ASSUME NEW E, Bounded(E), E # {}
    PROVE  \E d \in E : \A e \in E : After(d, e)
<1>1. PICK n \in Nat, m \in Nat : \A d \in E : d.id \in 1..n /\ d.batch \in 1..m
  BY DEF Bounded
<1> DEFINE B == {k \in 0..m : \E d \in E : d.batch = k}
<1>2. B \in SUBSET (0..m) /\ B # {}
  BY <1>1
<1>3. PICK k \in B : \A j \in B : j <= k
  BY <1>2, GreatestOf
<1> DEFINE I == {i \in 0..n : \E d \in E : d.batch = k /\ d.id = i}
<1>4. I \in SUBSET (0..n) /\ I # {}
  BY <1>1, <1>3
<1>5. PICK i \in I : \A j \in I : j <= i
  BY <1>4, GreatestOf
<1>6. PICK d \in E : d.batch = k /\ d.id = i
  BY <1>5
<1>7. ASSUME NEW e \in E PROVE After(d, e)
  <2>1. e.batch \in B /\ e.batch \in Int /\ e.id \in 0..n
    BY <1>1
  <2>2. e.batch <= k /\ k \in Int
    BY <1>3, <2>1
  <2>3. e.batch = k => e.id \in I
    BY <1>1, <2>1
  <2>4. e.batch = k => e.id <= i
    BY <1>5, <2>3
  <2> QED  BY <1>6, <2>1, <2>2, <2>4 DEF After
<1> QED  BY <1>6, <1>7

LEMMA OneLastRow ==
    ASSUME NEW E, OnePerId(E), Bounded(E), NEW c \in E, NEW d \in E, After(c, d), After(d, c)
    PROVE  c = d
<1>1. c.id \in Int /\ d.id \in Int /\ c.batch \in Int /\ d.batch \in Int
  BY DEF Bounded
<1>2. c.id = d.id
  BY <1>1 DEF After
<1> QED  BY <1>2 DEF OnePerId

(* So some event is the last of its instant, and only one.                 *)
LEMMA LatestExists ==
    ASSUME NEW C, ChangeRows(C), NEW c \in C
    PROVE  \E d \in C : SameInstant(d, c) /\ Latest(C, d)
<1> DEFINE E == {d \in C : SameInstant(d, c)}
<1>1. Bounded(E) /\ c \in E
  BY DEF ChangeRows, Bounded, SameInstant
<1>2. PICK d \in E : \A e \in E : After(d, e)
  BY <1>1, LastRow
<1>3. \A e \in C : SameInstant(e, d) => e \in E
  BY DEF SameInstant
<1> QED  BY <1>2, <1>3 DEF Latest

LEMMA LatestUnique ==
    ASSUME NEW C, ChangeRows(C), NEW c \in C, NEW d \in C, SameInstant(d, c),
           Latest(C, c), Latest(C, d)
    PROVE  c = d
<1>1. After(c, d) /\ After(d, c)
  BY DEF Latest, SameInstant
<1> QED  BY <1>1, OneLastRow DEF ChangeRows

(* The hashed events.                                                      *)
WithHash(e) == [c \in DOMAIN e \cup {"row_hash"} |-> IF c = "row_hash" THEN RowHash(e) ELSE e[c]]
Events(C) == Hashed(Filtered(C))

LEMMA HashedFields ==
    ASSUME NEW C, ChangeRows(C), NEW c \in C
    PROVE  LET h == WithHash(Gold(c)) IN
           /\ h.sub = c.sub /\ h.at = c.at /\ h.plan = c.plan /\ h.status = GoldStatus(c.status)
           /\ h.type = c.type /\ h.signup = c.signup
           /\ h["row_hash"] = << h.plan, h.status >>
<1>1. DOMAIN Gold(c) = ChangeFields
  BY GoldFields
<1> DEFINE g == Gold(c)
           h == WithHash(Gold(c))
<1>2. /\ h["row_hash"] = RowHash(g)
      /\ h["sub"] = g["sub"] /\ h["at"] = g["at"] /\ h["plan"] = g["plan"]
      /\ h["status"] = g["status"] /\ h["type"] = g["type"] /\ h["signup"] = g["signup"]
  BY <1>1 DEF WithHash, ChangeFields
<1> QED  BY <1>2, GoldFields DEF RowHash

LEMMA EventsAre ==
    ASSUME NEW C, ChangeRows(C)
    PROVE  Events(C) = {WithHash(Gold(c)) : c \in {b \in C : Latest(C, b)}}
<1>1. Events(C) = {WithHash(e) : e \in Filtered(C)}
  BY DEF Events, Hashed, WithHash
<1> QED  BY <1>1, FilteredIs

(* One event per subscriber and instant is left, the latest.               *)
LEMMA EventsOnePerInstant ==
    ASSUME NEW C, ChangeRows(C)
    PROVE  /\ OnePerInstant(Events(C))
           /\ \A h \in Events(C) : \E c \in C :
                /\ Latest(C, c) /\ h = WithHash(Gold(c))
                /\ h.sub = c.sub /\ h.at = c.at /\ h.plan = c.plan
                /\ h.status = GoldStatus(c.status)
           /\ \A c \in C : \E h \in Events(C) : h.sub = c.sub /\ h.at = c.at
<1>1. \A h \in Events(C) : \E c \in C :
         /\ Latest(C, c) /\ h = WithHash(Gold(c))
         /\ h.sub = c.sub /\ h.at = c.at /\ h.plan = c.plan /\ h.status = GoldStatus(c.status)
         /\ h["row_hash"] = << h.plan, h.status >>
  BY EventsAre, HashedFields
<1>2. \A h \in Events(C) : h.at \in Instants /\ h["row_hash"] = << h.plan, h.status >>
  BY <1>1 DEF ChangeRows
<1>3. ASSUME NEW g \in Events(C), NEW h \in Events(C), g.sub = h.sub, g.at = h.at
      PROVE  g = h
  <2>1. PICK b \in C : Latest(C, b) /\ g = WithHash(Gold(b)) /\ g.sub = b.sub /\ g.at = b.at
    BY <1>1
  <2>2. PICK c \in C : Latest(C, c) /\ h = WithHash(Gold(c)) /\ h.sub = c.sub /\ h.at = c.at
    BY <1>1
  <2>3. b = c
    BY <1>3, <2>1, <2>2, LatestUnique DEF SameInstant
  <2> QED  BY <2>1, <2>2, <2>3
<1>4. ASSUME NEW c \in C PROVE \E h \in Events(C) : h.sub = c.sub /\ h.at = c.at
  <2>1. PICK d \in C : SameInstant(d, c) /\ Latest(C, d)
    BY LatestExists
  <2>2. WithHash(Gold(d)) \in Events(C)
    BY <2>1, EventsAre
  <2> QED  BY <2>1, <2>2, HashedFields DEF SameInstant
<1> QED  BY <1>1, <1>2, <1>3, <1>4 DEF OnePerInstant

(***************************************************************************)
(* The rows of dim_subscriber.                                             *)
(***************************************************************************)
RegularRow(F, V, v) ==
    [sk |-> << v.sub, v.from >>, sub |-> v.sub,
     profile |-> LatestEvent(F, v.sub).profile,
     signup |-> SignupDay(F, v.sub),
     plan |-> v.plan, status |-> v.status,
     currentPlan |-> LatestEvent(F, v.sub).plan,
     previousPlan |-> PreviousPlan(V, v),
     churn |-> ChurnDay(V, v.sub),
     from |-> v.from, to |-> NextFrom(V, v),
     current |-> NextFrom(V, v) = HighDate,
     version |-> ScdVersion(V, v), inferred |-> FALSE]

RowOf(C, f) == RegularRow(Events(C), Versions(Events(C)), VersionOf(Events(C), f))

LEMMA RowFields ==
    ASSUME NEW C, NEW f
    PROVE  LET r == RowOf(C, f) IN
           /\ r.sk = << f.sub, f.at >> /\ r.sub = f.sub /\ r.from = f.at
           /\ r.plan = f.plan /\ r.status = f.status
           /\ r.to = NextFrom(Versions(Events(C)), VersionOf(Events(C), f))
           /\ r.previousPlan = PreviousPlan(Versions(Events(C)), VersionOf(Events(C), f))
           /\ r.churn = ChurnDay(Versions(Events(C)), f.sub)
BY DEF RowOf, RegularRow, VersionOf

LEMMA RegularRowsAre ==
    ASSUME NEW C, ChangeRows(C)
    PROVE  RegularRows(C) = {RowOf(C, f) : f \in Opening(Events(C))}
<1>1. RegularRows(C) = {RegularRow(Events(C), Versions(Events(C)), v) : v \in Versions(Events(C))}
  BY DEF RegularRows, RegularRow, Events
<1>2. Versions(Events(C)) = {VersionOf(Events(C), f) : f \in Opening(Events(C))}
  BY EventsOnePerInstant, VersionsAreOpenings
<1> QED  BY <1>1, <1>2 DEF RowOf

KnownTo(C) == {c.sub : c \in C}

LEMMA OfKnown ==
    ASSUME NEW C, ChangeRows(C), NEW ids, NEW s \in KnownTo(C)
    PROVE  Of(DimRows(C, ids), s) = {RowOf(C, f) : f \in {g \in Opening(Events(C)) : g.sub = s}}
<1>1. s # UnknownId
  BY DEF KnownTo, ChangeRows
<1>2. UnknownMember.sub = UnknownId
  BY DEF UnknownMember, WholeTime
<1>3. \A r \in InferredRows(C, ids) : r.sub \notin KnownTo(C)
  BY DEF InferredRows, WholeTime, KnownTo
<1>4. \A f : RowOf(C, f).sub = f.sub
  BY RowFields
<1> QED  BY <1>1, <1>2, <1>3, <1>4, RegularRowsAre DEF Of, DimRows

(* The versions of a known subscriber follow one another.                  *)
LEMMA KnownChained ==
    ASSUME NEW C, ChangeRows(C), NEW ids, NEW s \in KnownTo(C)
    PROVE  Chained(Of(DimRows(C, ids), s))
<1> DEFINE F == Events(C)
           V == Versions(F)
           O == {g \in Opening(F) : g.sub = s}
           D == Of(DimRows(C, ids), s)
<1>0. OnePerInstant(F) /\ V = {VersionOf(F, f) : f \in Opening(F)}
  BY EventsOnePerInstant, VersionsAreOpenings
<1>1. D = {RowOf(C, f) : f \in O}
  BY OfKnown
<1>2. \A f : /\ RowOf(C, f).from = f.at
             /\ RowOf(C, f).to = NextFrom(V, VersionOf(F, f))
  BY RowFields
<1>3. \A f : VersionOf(F, f).from = f.at /\ VersionOf(F, f).sub = f.sub
  BY DEF VersionOf
<1>4. \A f \in O : f \in F /\ f.sub = s /\ f.at \in Instants
  BY <1>0 DEF Opening, OnePerInstant
<1> HIDE DEF D, V, F
<1>5. \A r \in D : r.from \in Instants
  BY <1>1, <1>2, <1>4
<1>6. \A r, q \in D : r.from = q.from => r = q
  BY <1>0, <1>1, <1>2, <1>4 DEF OnePerInstant
<1>7. ASSUME NEW r \in D
      PROVE  r.to = Min({HighDate} \cup {q.from : q \in {u \in D : u.from > r.from}})
  <2>1. PICK f \in O : r = RowOf(C, f)
    BY <1>1
  <2> DEFINE v == VersionOf(F, f)
  <2>2. r.to = NextFrom(V, v) /\ r.from = f.at /\ v.from = f.at /\ v.sub = s
    BY <1>2, <1>3, <1>4, <2>1
  <2>3. Of(V, s) = {VersionOf(F, g) : g \in O}
    BY <1>0, <1>3 DEF Of
  <2>4. {w.from : w \in {u \in Of(V, s) : u.from > f.at}} = {g.at : g \in {h \in O : h.at > f.at}}
    BY <1>3, <2>3
  <2>5. {q.from : q \in {u \in D : u.from > f.at}} = {g.at : g \in {h \in O : h.at > f.at}}
    BY <1>1, <1>2
  <2> HIDE DEF v
  <2> QED  BY <2>2, <2>4, <2>5 DEF NextFrom
<1> QED  BY <1>5, <1>6, <1>7 DEF Chained, D

(* The version that covers an instant began with the last event by then    *)
(* that changed anything, and still says what the last event says.         *)
LEMMA VersionAt ==
    ASSUME NEW C, ChangeRows(C), NEW ids, NEW s \in KnownTo(C), NEW t \in Instants,
           \E c \in C : c.sub = s /\ c.at <= t
    PROVE  \E f \in Opening(Events(C)), h \in Events(C) :
              /\ f.sub = s /\ h.sub = s /\ f.at <= h.at /\ h.at <= t
              /\ \A g \in Events(C) : g.sub = s /\ g.at <= t => g.at <= h.at
              /\ \A g \in Opening(Events(C)) : g.sub = s /\ g.at <= t => g.at <= f.at
              /\ Covering(Of(DimRows(C, ids), s), t) = {RowOf(C, f)}
              /\ f.plan = h.plan /\ f.status = h.status
<1> DEFINE F == Events(C)
           O == {g \in Opening(F) : g.sub = s}
           D == Of(DimRows(C, ids), s)
           T == {x \in Instants : \E g \in F : g.sub = s /\ g.at = x}
<1>0. /\ OnePerInstant(F) /\ Chained(D) /\ D = {RowOf(C, f) : f \in O}
      /\ \A c \in C : \E h \in F : h.sub = c.sub /\ h.at = c.at
  BY EventsOnePerInstant, KnownChained, OfKnown
<1>1. t \in Int /\ \A g \in F : g.at \in Instants /\ g.at \in Int
  BY <1>0, InstantsAre DEF OnePerInstant
<1>2. O \subseteq F
  BY DEF Opening
<1>3. \A f : RowOf(C, f).from = f.at
  BY RowFields
<1> HIDE DEF F, D
<1>4. PICK h \in F : /\ h.sub = s /\ h.at <= t
                     /\ \A g \in F : g.sub = s /\ g.at <= t => g.at <= h.at
  <2>1. \E x \in T : x <= t
    BY <1>0, <1>1
  <2>2. PICK x \in T : x <= t /\ \A y \in T : y <= t => y <= x
    BY <1>1, <2>1, LatestUpto
  <2> QED  BY <1>1, <2>2
<1>5. PICK f0 \in Opening(F) : f0.sub = h.sub /\ f0.at <= h.at
  BY <1>0, <1>4, FirstOfGroup
<1>6. \E q \in D : q.from <= t
  <2>1. f0 \in O /\ f0.at \in Int /\ h.at \in Int
    BY <1>1, <1>2, <1>4, <1>5
  <2>2. RowOf(C, f0) \in D
    BY <1>0, <2>1
  <2> QED  BY <1>1, <1>3, <1>4, <1>5, <2>1, <2>2
<1>7. PICK r \in D : /\ r.from <= t /\ \A q \in D : q.from <= t => q.from <= r.from
                     /\ Covering(D, t) = {r}
  BY <1>0, <1>6, ChainedExists
<1>8. PICK f \in O : r = RowOf(C, f)
  BY <1>0
<1>9. /\ f \in F /\ f \in Opening(F) /\ f.sub = s /\ f.at <= t /\ f.at <= h.at
      /\ \A g \in Opening(F) : g.sub = s /\ g.at <= t => g.at <= f.at
  <2>1. f \in F /\ f.sub = s /\ f.at <= t
    BY <1>2, <1>3, <1>7, <1>8
  <2>2. ASSUME NEW g \in Opening(F), g.sub = s, g.at <= t PROVE g.at <= f.at
    <3>1. RowOf(C, g) \in D /\ RowOf(C, g).from = g.at
      BY <1>0, <1>3, <2>2
    <3> QED  BY <1>3, <1>7, <1>8, <2>2, <3>1
  <2> QED  BY <1>4, <2>1, <2>2
<1>10. \A c \in F : c.sub = h.sub /\ f.at < c.at /\ c.at <= h.at => ~ Opens(F, c, "row_hash")
  BY <1>1, <1>4, <1>9 DEF Opening
<1>11. f["row_hash"] = h["row_hash"]
  BY <1>0, <1>4, <1>9, <1>10, SteadyColumn
<1>12. << f.plan, f.status >> = << h.plan, h.status >>
  BY <1>0, <1>9, <1>11 DEF OnePerInstant
<1>13. f.plan = h.plan /\ f.status = h.status
  BY <1>12
<1> QED  BY <1>4, <1>7, <1>8, <1>9, <1>13 DEF F, D

(* The reference takes the same event for the last one.                    *)
LEMMA LastChangeIs ==
    ASSUME ChangeRows(silver.changes), NEW s, NEW t \in Instants,
           NEW h \in Events(silver.changes), h.sub = s, h.at <= t,
           \A g \in Events(silver.changes) : g.sub = s /\ g.at <= t => g.at <= h.at
    PROVE  /\ LastChange(s, t) \in Past(s, t) /\ LastChange(s, t).at = h.at
           /\ LastChange(s, t).plan = h.plan /\ StatusAt(s, t) = h.status
<1> DEFINE C == silver.changes
           P(x) == \A d \in Past(s, t) :
                      \/ d.at < x.at
                      \/ d.at = x.at /\ d.batch < x.batch
                      \/ d.at = x.at /\ d.batch = x.batch /\ d.id <= x.id
<1>0. \A c \in C : c.at \in Int
  BY InstantsAre DEF ChangeRows
<1>1. PICK c \in C : /\ Latest(C, c) /\ h.sub = c.sub /\ h.at = c.at /\ h.plan = c.plan
                     /\ h.status = GoldStatus(c.status)
  BY EventsOnePerInstant
<1>2. c \in Past(s, t)
  BY <1>1 DEF Past
<1>3. ASSUME NEW d \in Past(s, t)
      PROVE  \/ d.at < c.at
             \/ d.at = c.at /\ d.batch < c.batch
             \/ d.at = c.at /\ d.batch = c.batch /\ d.id <= c.id
  <2>1. d \in C /\ d.sub = s /\ d.at <= t
    BY DEF Past
  <2>2. PICK g \in Events(C) : g.sub = d.sub /\ g.at = d.at
    BY <2>1, EventsOnePerInstant
  <2>3. d.at <= c.at
    BY <1>1, <2>1, <2>2
  <2>4. d.at = c.at => After(c, d)
    BY <1>1, <2>1 DEF Latest, SameInstant
  <2> QED  BY <1>0, <2>1, <2>3, <2>4 DEF After
<1>4. P(LastChange(s, t)) /\ LastChange(s, t) \in Past(s, t)
  BY <1>2, <1>3 DEF LastChange
<1>5. LastChange(s, t) = c
  <2> DEFINE x == LastChange(s, t)
  <2>1. x \in C /\ x.at \in Int /\ c.at \in Int
    BY <1>0, <1>4 DEF Past
  <2>2. \/ c.at < x.at
        \/ c.at = x.at /\ After(x, c)
    BY <1>2, <1>4 DEF After
  <2>3. \/ x.at < c.at
        \/ x.at = c.at /\ After(c, x)
    BY <1>3, <1>4 DEF After
  <2> HIDE DEF x
  <2>4. After(x, c) /\ After(c, x)
    BY <2>1, <2>2, <2>3
  <2>5. x = c
    BY <2>1, <2>4, OneLastRow DEF ChangeRows
  <2> QED  BY <2>5 DEF x
<1> QED  BY <1>1, <1>2, <1>5 DEF StatusAt

(* No version of a subscriber repeats the one before.                      *)
LEMMA VersionsDiffer ==
    ASSUME NEW C, ChangeRows(C), NEW ids, NEW s \in KnownTo(C),
           NEW r \in Of(DimRows(C, ids), s), NEW q \in Of(DimRows(C, ids), s), r.to = q.from
    PROVE  RowHash(r) # RowHash(q)
<1> DEFINE F == Events(C)
           O == {g \in Opening(F) : g.sub = s}
           D == Of(DimRows(C, ids), s)
           T == {x \in Instants : \E g \in F : g.sub = s /\ g.at = x}
<1>0. OnePerInstant(F) /\ Chained(D) /\ D = {RowOf(C, f) : f \in O}
  BY EventsOnePerInstant, KnownChained, OfKnown
<1>1. PICK f \in O : r = RowOf(C, f)
  BY <1>0
<1>2. PICK g \in O : q = RowOf(C, g)
  BY <1>0
<1>3. /\ r.from = f.at /\ r.plan = f.plan /\ r.status = f.status
      /\ q.from = g.at /\ q.plan = g.plan /\ q.status = g.status
  BY <1>1, <1>2, RowFields
<1>4. /\ f \in F /\ g \in F /\ f.sub = s /\ g.sub = s /\ Opens(F, g, "row_hash")
      /\ \A e \in F : e.at \in Instants /\ e.at \in Nat
  BY <1>0, InstantsAre DEF Opening, OnePerInstant
<1> HIDE DEF F, D
<1>5. f.at < g.at
  BY <1>0, <1>3, ChainedTo DEF D
<1>6. PICK d \in F : /\ d.sub = s /\ d.at < g.at
                     /\ \A e \in F : e.sub = s /\ e.at < g.at => e.at <= d.at
  <2> DEFINE u == g.at - 1
  <2>1. /\ u \in Int /\ f.at \in T /\ f.at <= u /\ T \in SUBSET Instants
        /\ \A x \in Nat : x <= u <=> x < g.at
    BY <1>4, <1>5
  <2> HIDE DEF u, T
  <2>2. PICK x \in T : x <= u /\ \A y \in T : y <= u => y <= x
    BY <2>1, LatestUpto
  <2> USE DEF T
  <2>3. PICK d \in F : d.sub = s /\ d.at = x
    BY <2>2
  <2>4. d.at < g.at
    BY <1>4, <2>1, <2>2, <2>3
  <2>5. ASSUME NEW e \in F, e.sub = s, e.at < g.at PROVE e.at <= d.at
    <3>1. e.at \in T /\ e.at <= u
      BY <1>4, <2>1, <2>5
    <3> QED  BY <2>2, <2>3, <3>1
  <2> QED  BY <2>3, <2>4, <2>5
<1>7. d["row_hash"] # g["row_hash"]
  BY <1>4, <1>6 DEF Opens, Lag
<1>8. f.at <= d.at
  BY <1>4, <1>5, <1>6
<1>9. ASSUME NEW c \in F, c.sub = d.sub, f.at < c.at, c.at <= d.at
      PROVE  ~ Opens(F, c, "row_hash")
  <2>1. SUFFICES ASSUME Opens(F, c, "row_hash") PROVE FALSE
    OBVIOUS
  <2>2. c \in O
    BY <1>6, <1>9, <2>1 DEF Opening
  <2>3. RowOf(C, c) \in D /\ RowOf(C, c).from = c.at
    BY <1>0, <2>2, RowFields
  <2>4. r.to <= c.at
    BY <1>0, <1>3, <1>9, <2>3, ChainedTo DEF D
  <2> QED  BY <1>3, <1>4, <1>6, <1>9, <2>4
<1>10. f["row_hash"] = d["row_hash"]
  BY <1>0, <1>4, <1>6, <1>8, <1>9, SteadyColumn
<1>11. << f.plan, f.status >> # << g.plan, g.status >>
  BY <1>0, <1>4, <1>7, <1>10 DEF OnePerInstant
<1> QED  BY <1>3, <1>11 DEF RowHash

(***************************************************************************)
(* The versions of dim_title.                                              *)
(***************************************************************************)
TitleEvents(T) ==
    /\ OnePerId(T) /\ Bounded(T)
    /\ \A e \in T : e.at \in Instants /\ e.title # UnknownId

TitleRow(V, v) ==
    [sk |-> << v.title, v.at >>, title |-> v.title, attributes |-> v.attributes,
     from |-> v.at, to |-> Min({HighDate} \cup {w.at : w \in Later(V, v)}),
     current |-> Later(V, v) = {},
     version |-> Cardinality({w \in V : w.title = v.title /\ w.at <= v.at})]
TitleRowOf(T, v) == TitleRow(TitleVersions(TitleDeduped(T)), v)
TitleOpenings(T, i) == {v \in TitleVersions(TitleDeduped(T)) : v.title = i}

LEMMA TitleDedupedIs ==
    ASSUME NEW T, TitleEvents(T)
    PROVE  LET F == TitleDeduped(T) IN
           /\ F \subseteq T
           /\ \A e \in F : e.at \in Instants /\ e.at \in Nat
           /\ \A d, e \in F : d.title = e.title /\ d.at = e.at => d = e
           /\ \A c \in T : \E e \in F : e.title = c.title /\ e.at = c.at
           /\ \A e \in F, d \in T : d.title = e.title /\ d.at = e.at => After(e, d)
<1> DEFINE F == TitleDeduped(T)
<1>1. \A e : e \in F <=> e \in T /\ \A d \in T : d.title = e.title /\ d.at = e.at => After(e, d)
  BY DEF TitleDeduped, After
<1> HIDE DEF F
<1>2. \A d, e \in F : d.title = e.title /\ d.at = e.at => d = e
  <2> TAKE d, e \in F
  <2> HAVE d.title = e.title /\ d.at = e.at
  <2>1. d \in T /\ e \in T /\ After(d, e) /\ After(e, d)
    BY <1>1
  <2> QED  BY <2>1, OneLastRow DEF TitleEvents
<1>3. ASSUME NEW c \in T PROVE \E e \in F : e.title = c.title /\ e.at = c.at
  <2> DEFINE E == {d \in T : d.title = c.title /\ d.at = c.at}
  <2>1. Bounded(E) /\ c \in E
    BY DEF TitleEvents, Bounded
  <2>2. PICK d \in E : \A e \in E : After(d, e)
    BY <2>1, LastRow
  <2> QED  BY <1>1, <2>2
<1>4. F \subseteq T /\ \A e \in F : e.at \in Instants /\ e.at \in Nat
  BY <1>1, InstantsAre DEF TitleEvents
<1> QED  BY <1>1, <1>2, <1>3, <1>4 DEF F

(* Between two openings of a title its attributes do not change.           *)
LEMMA SteadyTitle ==
    ASSUME NEW T, TitleEvents(T), NEW d \in TitleDeduped(T), NEW e \in TitleDeduped(T),
           d.title = e.title, d.at <= e.at,
           \A c \in TitleDeduped(T) : c.title = e.title /\ d.at < c.at /\ c.at <= e.at
              => c \notin TitleVersions(TitleDeduped(T))
    PROVE  d.attributes = e.attributes
<1> DEFINE F == TitleDeduped(T)
           A == {x \in Instants : \E c \in F : c.title = e.title /\ c.at = x}
           val == [x \in A |-> (CHOOSE c \in F : c.title = e.title /\ c.at = x).attributes]
<1>0. /\ \A c \in F : c.at \in Instants
      /\ \A b, c \in F : b.title = c.title /\ b.at = c.at => b = c
  BY TitleDedupedIs
<1>1. \A c \in F : c.title = e.title => c.at \in A
  BY <1>0
<1>2. ASSUME NEW c \in F, c.title = e.title PROVE val[c.at] = c.attributes
  <2>1. (CHOOSE b \in F : b.title = e.title /\ b.at = c.at) = c
    BY <1>0, <1>2
  <2> QED  BY <1>1, <1>2, <2>1
<1>3. ASSUME NEW x \in A, d.at < x, x <= e.at
      PROVE  \E y \in A : /\ y < x /\ \A z \in A : z < x => z <= y
                          /\ val[y] = val[x]
  <2>1. PICK c \in F : c.title = e.title /\ c.at = x
    OBVIOUS
  <2>2. PICK b \in F : /\ b.title = c.title /\ b.at < c.at /\ b.attributes = c.attributes
                       /\ \A a \in F : a.title = c.title /\ a.at < c.at => a.at <= b.at
    BY <1>3, <2>1 DEF TitleVersions, Predecessor
  <2>3. b.at \in A /\ b.at < x /\ val[b.at] = val[x]
    BY <1>1, <1>2, <2>1, <2>2
  <2>4. \A z \in A : z < x => z <= b.at
    BY <2>1, <2>2
  <2> QED  BY <2>3, <2>4
<1> DEFINE a == d.at
           b == e.at
<1>4. A \in SUBSET Instants /\ a \in A /\ b \in A /\ a <= b
  BY <1>1
<1>5. \A x \in A : a < x /\ x <= b =>
         \E y \in A : /\ y < x /\ \A z \in A : z < x => z <= y
                      /\ val[y] = val[x]
  BY <1>3
<1> HIDE DEF A, val, a, b
<1>6. val[a] = val[b]
  <2>1. A \in SUBSET Instants /\ a \in A /\ b \in A /\ a <= b
    BY <1>4
  <2>2. \A x \in A : a < x /\ x <= b =>
           \E y \in A : /\ y < x /\ \A z \in A : z < x => z <= y
                       /\ val[y] = val[x]
    BY <1>5
  <2> QED  BY ONLY <2>1, <2>2, NoChange
<1>7. val[a] = d.attributes /\ val[b] = e.attributes
  BY <1>2 DEF a, b
<1> QED  BY <1>6, <1>7

LEMMA OfTitleIs ==
    ASSUME NEW T, NEW i, i # UnknownId
    PROVE  /\ OfTitle(TitleRows(T), i) = {TitleRowOf(T, v) : v \in TitleOpenings(T, i)}
           /\ \A v : LET r == TitleRowOf(T, v) IN
                r.title = v.title /\ r.from = v.at /\ r.attributes = v.attributes
                /\ r.sk = << v.title, v.at >>
<1>1. \A v : LET r == TitleRowOf(T, v) IN
                r.title = v.title /\ r.from = v.at /\ r.attributes = v.attributes
                /\ r.sk = << v.title, v.at >>
  BY DEF TitleRowOf, TitleRow
<1>2. TitleRows(T) = {TitleRowOf(T, v) : v \in TitleVersions(TitleDeduped(T))} \cup {UnknownTitle}
  BY DEF TitleRows, TitleHistory, TitleRowOf, TitleRow
<1>3. UnknownTitle.title = UnknownId
  BY DEF UnknownTitle, UnknownId
<1> QED  BY <1>1, <1>2, <1>3 DEF OfTitle, TitleOpenings

LEMMA TitleChained ==
    ASSUME NEW T, TitleEvents(T), NEW i, i # UnknownId
    PROVE  Chained(OfTitle(TitleRows(T), i))
<1> DEFINE O == TitleOpenings(T, i)
           D == OfTitle(TitleRows(T), i)
           V == TitleVersions(TitleDeduped(T))
<1>0. /\ D = {TitleRowOf(T, v) : v \in O}
      /\ \A v : TitleRowOf(T, v).from = v.at
  BY OfTitleIs
<1>1. \A v \in O : v.at \in Instants /\ \A w \in O : v.at = w.at => v = w
  BY TitleDedupedIs DEF TitleOpenings, TitleVersions
<1> HIDE DEF D
<1>2. /\ \A r \in D : r.from \in Instants
      /\ \A r, q \in D : r.from = q.from => r = q
  BY <1>0, <1>1
<1>3. ASSUME NEW r \in D
      PROVE  r.to = Min({HighDate} \cup {q.from : q \in {u \in D : u.from > r.from}})
  <2>1. PICK v \in O : r = TitleRowOf(T, v)
    BY <1>0
  <2>2. r.to = Min({HighDate} \cup {w.at : w \in Later(V, v)}) /\ r.from = v.at
    BY <2>1 DEF TitleRowOf, TitleRow
  <2>3. Later(V, v) = {w \in O : w.at > v.at}
    BY DEF Later, TitleOpenings
  <2>4. {q.from : q \in {u \in D : u.from > v.at}} = {w.at : w \in {u \in O : u.at > v.at}}
    BY <1>0
  <2> QED  BY <2>2, <2>3, <2>4
<1> QED  BY <1>2, <1>3 DEF Chained, D

(* The version of a title at an instant has the attributes of its last     *)
(* event by then.                                                          *)
LEMMA TitleVersionAt ==
    ASSUME NEW T, TitleEvents(T), NEW i, i # UnknownId, NEW t \in Instants,
           \E c \in T : c.title = i /\ c.at <= t
    PROVE  \E v \in TitleOpenings(T, i), h \in TitleDeduped(T) :
              /\ h.title = i /\ h.at <= t
              /\ \A g \in TitleDeduped(T) : g.title = i /\ g.at <= t => g.at <= h.at
              /\ Covering(OfTitle(TitleRows(T), i), t) = {TitleRowOf(T, v)}
              /\ v.attributes = h.attributes
<1> DEFINE F == TitleDeduped(T)
           O == TitleOpenings(T, i)
           D == OfTitle(TitleRows(T), i)
           A == {x \in Instants : \E g \in F : g.title = i /\ g.at = x}
<1>0. /\ Chained(D) /\ D = {TitleRowOf(T, v) : v \in O}
      /\ \A v : TitleRowOf(T, v).from = v.at
      /\ \A v : v \in O <=> v \in F /\ v.title = i /\ v \in TitleVersions(F)
  BY TitleChained, OfTitleIs DEF TitleOpenings, TitleVersions
<1>1. /\ \A e \in F : e.at \in Instants /\ e.at \in Nat
      /\ \A c \in T : \E e \in F : e.title = c.title /\ e.at = c.at
      /\ \A d, e \in F : d.title = e.title /\ d.at = e.at => d = e
      /\ t \in Int
  BY TitleDedupedIs, InstantsAre
<1>T. A \in SUBSET Instants /\ A \in SUBSET Nat /\ \A g \in F : g.title = i => g.at \in A
  BY <1>1
<1> HIDE DEF F, D, O
<1>2. \E x \in A : x <= t
  BY <1>1
<1>3. PICK h \in F : /\ h.title = i /\ h.at <= t
                     /\ \A g \in F : g.title = i /\ g.at <= t => g.at <= h.at
  <2>1. PICK x \in A : x <= t /\ \A y \in A : y <= t => y <= x
    BY <1>1, <1>2, LatestUpto
  <2> QED  BY <1>T, <2>1
<1>4. \E q \in D : q.from <= t
  <2>1. Min(A) \in A /\ \A x \in A : Min(A) <= x
    BY <1>T, <1>2, LeastOf
  <2>2. PICK v \in F : v.title = i /\ v.at = Min(A)
    BY <2>1
  <2>3. v.at <= t /\ \A g \in F : g.title = v.title => v.at <= g.at
    BY <1>1, <1>2, <1>T, <2>1, <2>2
  <2>4. v \in TitleVersions(F)
    BY <1>1, <2>2, <2>3 DEF TitleVersions, Predecessor
  <2>5. TitleRowOf(T, v) \in D
    BY <1>0, <2>2, <2>4
  <2> QED  BY <1>0, <2>3, <2>5
<1>5. PICK r \in D : /\ r.from <= t /\ \A q \in D : q.from <= t => q.from <= r.from
                     /\ Covering(D, t) = {r}
  BY <1>0, <1>4, ChainedExists
<1>6. PICK v \in O : r = TitleRowOf(T, v)
  BY <1>0
<1>7. v \in F /\ v.title = i /\ v.at <= t /\ v.at <= h.at
  BY <1>0, <1>3, <1>5, <1>6
<1>8. ASSUME NEW c \in F, c.title = i, v.at < c.at, c.at <= h.at PROVE c \notin TitleVersions(F)
  <2>1. SUFFICES ASSUME c \in TitleVersions(F) PROVE FALSE
    OBVIOUS
  <2>2. TitleRowOf(T, c) \in D /\ TitleRowOf(T, c).from = c.at
    BY <1>0, <1>8, <2>1
  <2>3. c.at <= t
    BY <1>1, <1>3, <1>8
  <2>4. c.at <= v.at
    BY <1>0, <1>5, <1>6, <2>2, <2>3
  <2> QED  BY <1>1, <1>7, <1>8, <2>4
<1>9. v.attributes = h.attributes
  BY <1>3, <1>7, <1>8, SteadyTitle DEF F
<1> QED  BY <1>3, <1>5, <1>6, <1>9 DEF F, D, O

LEMMA LastTitleChangeIs ==
    ASSUME TitleEvents(silver.titles), NEW i, NEW t \in Instants,
           NEW h \in TitleDeduped(silver.titles), h.title = i, h.at <= t,
           \A g \in TitleDeduped(silver.titles) : g.title = i /\ g.at <= t => g.at <= h.at
    PROVE  TitlePast(i, t) # {} /\ LastTitleChange(i, t) = h
<1> DEFINE T == silver.titles
           F == TitleDeduped(T)
           P(x) == \A d \in TitlePast(i, t) :
                      \/ d.at < x.at
                      \/ d.at = x.at /\ d.batch < x.batch
                      \/ d.at = x.at /\ d.batch = x.batch /\ d.id <= x.id
<1>0. /\ h \in T /\ h.at \in Int /\ \A c \in T : c.at \in Int
      /\ \A c \in T : \E e \in F : e.title = c.title /\ e.at = c.at
      /\ \A d \in T : d.title = h.title /\ d.at = h.at => After(h, d)
  BY TitleDedupedIs, InstantsAre DEF TitleEvents
<1>1. h \in TitlePast(i, t)
  BY <1>0 DEF TitlePast
<1> HIDE DEF F
<1>2. ASSUME NEW d \in TitlePast(i, t)
      PROVE  \/ d.at < h.at
             \/ d.at = h.at /\ d.batch < h.batch
             \/ d.at = h.at /\ d.batch = h.batch /\ d.id <= h.id
  <2>1. d \in T /\ d.title = i /\ d.at <= t
    BY DEF TitlePast
  <2>2. PICK g \in F : g.title = d.title /\ g.at = d.at
    BY <1>0, <2>1
  <2>3. d.at <= h.at
    BY <2>1, <2>2 DEF F
  <2> QED  BY <1>0, <2>1, <2>3 DEF After
<1>3. P(LastTitleChange(i, t)) /\ LastTitleChange(i, t) \in TitlePast(i, t)
  BY <1>1, <1>2 DEF LastTitleChange
<1>4. LastTitleChange(i, t) = h
  <2> DEFINE x == LastTitleChange(i, t)
  <2>1. x \in T /\ x.at \in Int
    BY <1>0, <1>3 DEF TitlePast
  <2>2. h.at < x.at \/ (h.at = x.at /\ After(x, h))
    BY <1>1, <1>3 DEF After
  <2>3. x.at < h.at \/ (x.at = h.at /\ After(h, x))
    BY <1>2, <1>3 DEF After
  <2> HIDE DEF x
  <2>4. After(x, h) /\ After(h, x)
    BY <1>0, <2>1, <2>2, <2>3
  <2>5. x = h
    BY <1>0, <2>1, <2>4, OneLastRow DEF TitleEvents
  <2> QED  BY <2>5 DEF x
<1> QED  BY <1>1, <1>4

(* Two versions of a title do not overlap, and adjacent ones differ.       *)
LEMMA TitleVersionsDiffer ==
    ASSUME NEW T, TitleEvents(T), NEW i, i # UnknownId,
           NEW r \in OfTitle(TitleRows(T), i), NEW q \in OfTitle(TitleRows(T), i), r.to = q.from
    PROVE  r.attributes # q.attributes
<1> DEFINE F == TitleDeduped(T)
           O == TitleOpenings(T, i)
           D == OfTitle(TitleRows(T), i)
           A == {x \in Instants : \E g \in F : g.title = i /\ g.at = x}
<1>0. /\ Chained(D) /\ D = {TitleRowOf(T, v) : v \in O}
      /\ \A v : TitleRowOf(T, v).from = v.at /\ TitleRowOf(T, v).attributes = v.attributes
      /\ \A v : v \in O <=> v \in F /\ v.title = i /\ v \in TitleVersions(F)
  BY TitleChained, OfTitleIs DEF TitleOpenings, TitleVersions
<1>1. /\ \A e \in F : e.at \in Instants /\ e.at \in Nat
      /\ \A d, e \in F : d.title = e.title /\ d.at = e.at => d = e
  BY TitleDedupedIs
<1>T. A \in SUBSET Instants /\ \A g \in F : g.title = i => g.at \in A
  BY <1>1
<1>2. PICK f \in O : r = TitleRowOf(T, f)
  BY <1>0
<1>3. PICK g \in O : q = TitleRowOf(T, g)
  BY <1>0
<1> HIDE DEF F, D, O
<1>4. r.from = f.at /\ q.from = g.at /\ f \in F /\ g \in F /\ f.title = i /\ g.title = i
  BY <1>0, <1>2, <1>3
<1>5. f.at < g.at
  BY <1>0, <1>4, ChainedTo DEF D
<1>6. PICK d \in F : /\ d.title = i /\ d.at < g.at
                     /\ \A e \in F : e.title = i /\ e.at < g.at => e.at <= d.at
  <2> DEFINE u == g.at - 1
  <2>1. /\ u \in Int /\ f.at \in A /\ f.at <= u
        /\ \A x \in Nat : x <= u <=> x < g.at
    BY <1>1, <1>T, <1>4, <1>5
  <2> HIDE DEF u, A
  <2>2. PICK x \in A : x <= u /\ \A y \in A : y <= u => y <= x
    BY <1>T, <2>1, LatestUpto
  <2> QED  BY <1>1, <1>T, <2>1, <2>2 DEF A
<1>7. d.attributes # g.attributes
  <2>1. g \in TitleVersions(F)
    BY <1>0
  <2> QED  BY <1>4, <1>6, <2>1 DEF TitleVersions, Predecessor
<1>8. f.at <= d.at
  BY <1>4, <1>5, <1>6
<1>9. ASSUME NEW c \in F, c.title = i, f.at < c.at, c.at <= d.at PROVE c \notin TitleVersions(F)
  <2>1. SUFFICES ASSUME c \in TitleVersions(F) PROVE FALSE
    OBVIOUS
  <2>2. TitleRowOf(T, c) \in D /\ TitleRowOf(T, c).from = c.at
    BY <1>0, <1>9, <2>1
  <2>3. r.to <= c.at
    BY <1>0, <1>4, <1>9, <2>2, ChainedTo DEF D
  <2> QED  BY <1>1, <1>4, <1>6, <1>9, <2>3
<1>10. f.attributes = d.attributes
  BY <1>4, <1>6, <1>8, <1>9, SteadyTitle DEF F
<1> QED  BY <1>0, <1>2, <1>3, <1>7, <1>10

(***************************************************************************)
(* The reachable states: what bronze holds comes from the feed, silver is  *)
(* one copy per id of some of it, and the dimensions are what the last     *)
(* build made of silver.                                                   *)
(***************************************************************************)
ChangesSent == {InBatch(e, b) : e \in feed.changes, b \in 1..batch}
ActivitySent == {ActivityInBatch(a, b) : a \in feed.activity, b \in 1..batch}
TitlesSent == {TitleInBatch(e, b) : e \in feed.titles, b \in 1..batch}

FeedInv == feed \in Feeds /\ batch \in 1..feed.batches
BronzeInv ==
    bronze \in [changes : SUBSET ChangesSent, activity : SUBSET ActivitySent,
                titles : SUBSET TitlesSent]
SilverInv ==
    /\ silver.changes \subseteq bronze.changes /\ OnePerId(silver.changes)
    /\ silver.activity \subseteq bronze.activity /\ OnePerId(silver.activity)
    /\ silver.titles \subseteq bronze.titles /\ OnePerId(silver.titles)
DimInv ==
    \/ silver = Empty /\ dim = {} /\ dimTitle = {}
    \/ /\ dim = DimRows(silver.changes, Subscribers(silver))
       /\ dimTitle = TitleRows(silver.titles)
MartsInv == FeedInv /\ BronzeInv /\ SilverInv /\ DimInv

LEMMA FeedFacts ==
    ASSUME NEW f \in Feeds
    PROVE  /\ f.batches \in Nat
           /\ OnePerId(f.changes) /\ OnePerId(f.activity) /\ OnePerId(f.titles)
           /\ \A e \in f.changes : e.at \in Instants /\ e.sub # UnknownId
           /\ \A e \in f.activity : e.at \in Instants /\ e.sub # UnknownId
           /\ \A e \in f.titles : e.at \in Instants /\ e.title # UnknownId
           /\ \E n \in Nat : \A e \in f.changes : e.id \in 1..n
           /\ \E n \in Nat : \A e \in f.activity : e.id \in 1..n
           /\ \E n \in Nat : \A e \in f.titles : e.id \in 1..n
<1>1. /\ Stream(f.changes) /\ Stream(f.activity) /\ Stream(f.titles)
      /\ f.batches \in Nat \ {0}
      /\ \A e \in f.changes \cup f.activity : e.sub # UnknownId
      /\ \A e \in f.titles : e.title # UnknownId
  BY FeedAssumption
<1>2. ASSUME NEW E, Stream(E)
      PROVE  /\ OnePerId(E) /\ \A e \in E : e.at \in Instants
             /\ \E n \in Nat : \A e \in E : e.id \in 1..n
  BY <1>2, FS_CardinalityType DEF Stream
<1> QED  BY <1>1, <1>2

(* Of the copies of an event the last delivered is kept, one per id.       *)
LEMMA OneCopy ==
    ASSUME NEW rows, \A r \in rows : r.batch \in Int,
           \A r, q \in rows : r.id = q.id /\ r.batch = q.batch => r = q
    PROVE  NewestCopies(rows) \subseteq rows /\ OnePerId(NewestCopies(rows))
<1>1. ASSUME NEW r \in NewestCopies(rows), NEW q \in NewestCopies(rows), r.id = q.id
      PROVE  r = q
  <2>1. r.batch <= q.batch /\ q.batch <= r.batch /\ r \in rows /\ q \in rows
    BY <1>1 DEF NewestCopies
  <2> QED  BY <1>1, <2>1
<1> QED  BY <1>1 DEF NewestCopies, OnePerId

LEMMA MartsInitially == MartsInit => MartsInv
<1> SUFFICES ASSUME MartsInit PROVE MartsInv
  OBVIOUS
<1>1. FeedInv
  BY FeedAssumption DEF MartsInit, FeedInv
<1>2. BronzeInv /\ SilverInv /\ DimInv
  BY DEF MartsInit, Empty, BronzeInv, SilverInv, DimInv, OnePerId
<1> QED  BY <1>1, <1>2 DEF MartsInv

(* A build leaves silver and the dimensions as the invariant says.         *)
LEMMA BuildStep == MartsInv /\ BuildDim => MartsInv'
<1> SUFFICES ASSUME MartsInv, BuildDim PROVE MartsInv'
  OBVIOUS
<1> USE DEF MartsInv
<1>1. FeedInv' /\ BronzeInv'
  BY DEF BuildDim, FeedInv, BronzeInv, ChangesSent, ActivitySent, TitlesSent
<1>2. /\ silver'.changes = NewestCopies(bronze.changes)
      /\ silver'.activity = NewestCopies(bronze.activity)
      /\ silver'.titles = NewestCopies(bronze.titles)
      /\ bronze' = bronze
  BY DEF BuildDim
<1>3. feed \in Feeds /\ batch \in Nat
  BY FeedFacts DEF FeedInv
<1>4. NewestCopies(bronze.changes) \subseteq bronze.changes /\ OnePerId(NewestCopies(bronze.changes))
  <2>1. OnePerId(feed.changes)
    BY <1>3, FeedFacts
  <2>2. \A r \in bronze.changes : \E e \in feed.changes, b \in 1..batch :
           r = InBatch(e, b) /\ r.id = e.id /\ r.batch = b
    BY DEF BronzeInv, ChangesSent, InBatch
  <2>3. \A r, q \in bronze.changes : r.id = q.id /\ r.batch = q.batch => r = q
    BY <2>1, <2>2 DEF OnePerId
  <2> QED  BY <1>3, <2>2, <2>3, OneCopy
<1>5. NewestCopies(bronze.activity) \subseteq bronze.activity /\ OnePerId(NewestCopies(bronze.activity))
  <2>1. OnePerId(feed.activity)
    BY <1>3, FeedFacts
  <2>2. \A r \in bronze.activity : \E e \in feed.activity, b \in 1..batch :
           r = ActivityInBatch(e, b) /\ r.id = e.id /\ r.batch = b
    BY DEF BronzeInv, ActivitySent, ActivityInBatch
  <2>3. \A r, q \in bronze.activity : r.id = q.id /\ r.batch = q.batch => r = q
    BY <2>1, <2>2 DEF OnePerId
  <2> QED  BY <1>3, <2>2, <2>3, OneCopy
<1>6. NewestCopies(bronze.titles) \subseteq bronze.titles /\ OnePerId(NewestCopies(bronze.titles))
  <2>1. OnePerId(feed.titles)
    BY <1>3, FeedFacts
  <2>2. \A r \in bronze.titles : \E e \in feed.titles, b \in 1..batch :
           r = TitleInBatch(e, b) /\ r.id = e.id /\ r.batch = b
    BY DEF BronzeInv, TitlesSent, TitleInBatch
  <2>3. \A r, q \in bronze.titles : r.id = q.id /\ r.batch = q.batch => r = q
    BY <2>1, <2>2 DEF OnePerId
  <2> QED  BY <1>3, <2>2, <2>3, OneCopy
<1>7. SilverInv'
  BY <1>2, <1>4, <1>5, <1>6 DEF SilverInv
<1>8. DimInv'
  BY DEF BuildDim, DimInv
<1> QED  BY <1>1, <1>7, <1>8

LEMMA MartsStep == MartsInv /\ [MartsNext]_vars => MartsInv'
<1> SUFFICES ASSUME MartsInv, [MartsNext]_vars PROVE MartsInv'
  OBVIOUS
<1> USE DEF MartsInv
<1>0. batch \in Nat /\ batch >= 1 /\ feed \in Feeds /\ feed.batches \in Nat
  BY FeedFacts DEF FeedInv
(* A step that only changes the facts and the snapshot.                    *)
<1>M. ASSUME UNCHANGED << feed, batch, bronze, silver, dim, dimTitle >> PROVE MartsInv'
  BY <1>M DEF FeedInv, BronzeInv, SilverInv, DimInv, ChangesSent, ActivitySent, TitlesSent
(* A delivery.                                                             *)
<1>D. ASSUME UNCHANGED << feed, batch, tables >>, BronzeInv',
             bronze.changes \subseteq bronze'.changes,
             bronze.activity \subseteq bronze'.activity,
             bronze.titles \subseteq bronze'.titles
      PROVE  MartsInv'
  <2>1. FeedInv' /\ DimInv'
    BY <1>D DEF FeedInv, DimInv, tables
  <2>2. SilverInv'
    BY <1>D DEF SilverInv, tables
  <2> QED  BY <1>D, <2>1, <2>2
<1>1. ASSUME NEW e \in feed.changes, DeliverChange(e) PROVE MartsInv'
  <2>1. InBatch(e, batch) \in ChangesSent
    BY <1>0 DEF ChangesSent
  <2>2. /\ bronze' = [bronze EXCEPT !.changes = bronze.changes \cup {InBatch(e, batch)}]
        /\ UNCHANGED << feed, batch, tables >>
    BY <1>1 DEF DeliverChange
  <2>3. BronzeInv'
    BY <2>1, <2>2 DEF BronzeInv, ChangesSent, ActivitySent, TitlesSent
  <2>4. /\ bronze.changes \subseteq bronze'.changes /\ bronze.activity \subseteq bronze'.activity
        /\ bronze.titles \subseteq bronze'.titles
    BY <2>2 DEF BronzeInv
  <2> QED  BY <1>D, <2>2, <2>3, <2>4
<1>2. ASSUME NEW a \in feed.activity, DeliverActivity(a) PROVE MartsInv'
  <2>1. ActivityInBatch(a, batch) \in ActivitySent
    BY <1>0 DEF ActivitySent
  <2>2. /\ bronze' = [bronze EXCEPT !.activity = bronze.activity \cup {ActivityInBatch(a, batch)}]
        /\ UNCHANGED << feed, batch, tables >>
    BY <1>2 DEF DeliverActivity
  <2>3. BronzeInv'
    BY <2>1, <2>2 DEF BronzeInv, ChangesSent, ActivitySent, TitlesSent
  <2>4. /\ bronze.changes \subseteq bronze'.changes /\ bronze.activity \subseteq bronze'.activity
        /\ bronze.titles \subseteq bronze'.titles
    BY <2>2 DEF BronzeInv
  <2> QED  BY <1>D, <2>2, <2>3, <2>4
<1>3. ASSUME NEW e \in feed.titles, DeliverTitle(e) PROVE MartsInv'
  <2>1. TitleInBatch(e, batch) \in TitlesSent
    BY <1>0 DEF TitlesSent
  <2>2. /\ bronze' = [bronze EXCEPT !.titles = bronze.titles \cup {TitleInBatch(e, batch)}]
        /\ UNCHANGED << feed, batch, tables >>
    BY <1>3 DEF DeliverTitle
  <2>3. BronzeInv'
    BY <2>1, <2>2 DEF BronzeInv, ChangesSent, ActivitySent, TitlesSent
  <2>4. /\ bronze.changes \subseteq bronze'.changes /\ bronze.activity \subseteq bronze'.activity
        /\ bronze.titles \subseteq bronze'.titles
    BY <2>2 DEF BronzeInv
  <2> QED  BY <1>D, <2>2, <2>3, <2>4
<1>4. CASE NextBatch
  <2>1. /\ batch' = batch + 1 /\ batch < feed.batches
        /\ UNCHANGED << feed, bronze, tables >>
    BY <1>4 DEF NextBatch
  <2>2. FeedInv'
    BY <1>0, <2>1 DEF FeedInv
  <2>3. 1..batch \subseteq 1..batch'
    BY <1>0, <2>1
  <2>4. /\ ChangesSent \subseteq ChangesSent' /\ ActivitySent \subseteq ActivitySent'
        /\ TitlesSent \subseteq TitlesSent'
    BY <2>1, <2>3 DEF ChangesSent, ActivitySent, TitlesSent
  <2>5. BronzeInv'
    BY <2>1, <2>4 DEF BronzeInv
  <2>6. SilverInv' /\ DimInv'
    BY <2>1 DEF SilverInv, DimInv, tables
  <2> QED  BY <2>2, <2>5, <2>6
<1>5. CASE BuildDim
  BY <1>5, BuildStep
<1>6. CASE MergeFact
  BY <1>6, <1>M DEF MergeFact
<1>7. CASE RefreshFact
  BY <1>7, <1>M DEF RefreshFact
<1>8. CASE BuildSnapshot
  BY <1>8, <1>M DEF BuildSnapshot, SnapshotBuilt
<1>9. ASSUME NEW first \in 0..Day(LastInstant), NEW last \in 0..Day(LastInstant),
             BackfillSnapshot(first, last)
      PROVE  MartsInv'
  BY <1>9, <1>M DEF BackfillSnapshot, SnapshotBuilt
<1>10. CASE RefreshSnapshot
  BY <1>10, <1>M DEF RefreshSnapshot, SnapshotBuilt
<1>11. CASE UNCHANGED vars
  BY <1>11, <1>M DEF vars
<1> QED
  BY <1>1, <1>2, <1>3, <1>4, <1>5, <1>6, <1>7, <1>8, <1>9, <1>10, <1>11 DEF MartsNext

(* The dimensions are always what the last build made of silver.           *)
THEOREM MartsInvariant == MartsSpec => []MartsInv
BY MartsInitially, MartsStep, PTL DEF MartsSpec

LEMMA SilverRows ==
    ASSUME MartsInv
    PROVE  /\ ChangeRows(silver.changes) /\ TitleEvents(silver.titles)
           /\ OnePerId(silver.activity) /\ Bounded(silver.activity)
           /\ \A a \in silver.activity : a.at \in Instants /\ a.sub # UnknownId
<1>0. /\ feed \in Feeds /\ batch \in Nat
      /\ silver.changes \subseteq bronze.changes /\ OnePerId(silver.changes)
      /\ silver.activity \subseteq bronze.activity /\ OnePerId(silver.activity)
      /\ silver.titles \subseteq bronze.titles /\ OnePerId(silver.titles)
  BY FeedFacts DEF MartsInv, FeedInv, SilverInv
<1>1. ASSUME NEW c \in silver.changes
      PROVE  \E e \in feed.changes : /\ DOMAIN c = ChangeFields
                                     /\ c.id = e.id /\ c.at = e.at /\ c.sub = e.sub
                                     /\ c.batch \in 1..batch
  BY <1>0 DEF MartsInv, BronzeInv, ChangesSent, InBatch, ChangeFields
<1>2. ASSUME NEW a \in silver.activity
      PROVE  \E e \in feed.activity : /\ a.id = e.id /\ a.at = e.at /\ a.sub = e.sub
                                      /\ a.batch \in 1..batch
  BY <1>0 DEF MartsInv, BronzeInv, ActivitySent, ActivityInBatch
<1>3. ASSUME NEW c \in silver.titles
      PROVE  \E e \in feed.titles : /\ c.id = e.id /\ c.at = e.at /\ c.title = e.title
                                    /\ c.batch \in 1..batch
  BY <1>0 DEF MartsInv, BronzeInv, TitlesSent, TitleInBatch
<1>4. ChangeRows(silver.changes)
  <2>1. PICK n \in Nat : \A e \in feed.changes : e.id \in 1..n
    BY <1>0, FeedFacts
  <2>2. Bounded(silver.changes)
    BY <1>0, <1>1, <2>1 DEF Bounded
  <2>3. \A e \in feed.changes : e.at \in Instants /\ e.sub # UnknownId
    BY <1>0, FeedFacts
  <2> QED  BY <1>0, <1>1, <2>2, <2>3 DEF ChangeRows
<1>5. TitleEvents(silver.titles)
  <2>1. PICK n \in Nat : \A e \in feed.titles : e.id \in 1..n
    BY <1>0, FeedFacts
  <2>2. Bounded(silver.titles)
    BY <1>0, <1>3, <2>1 DEF Bounded
  <2>3. \A e \in feed.titles : e.at \in Instants /\ e.title # UnknownId
    BY <1>0, FeedFacts
  <2> QED  BY <1>0, <1>3, <2>2, <2>3 DEF TitleEvents
<1>6. Bounded(silver.activity) /\ \A a \in silver.activity : a.at \in Instants /\ a.sub # UnknownId
  <2>1. PICK n \in Nat : \A e \in feed.activity : e.id \in 1..n
    BY <1>0, FeedFacts
  <2>2. Bounded(silver.activity)
    BY <1>0, <1>2, <2>1 DEF Bounded
  <2>3. \A e \in feed.activity : e.at \in Instants /\ e.sub # UnknownId
    BY <1>0, FeedFacts
  <2> QED  BY <1>2, <2>2, <2>3
<1> QED  BY <1>0, <1>4, <1>5, <1>6

(* Rows that are not versions of a known subscriber cover all of time.     *)
SelfHealed(s) == WholeTime(s, "unknown", << s, Sentinel >>, TRUE)

LEMMA WholeTimeRows ==
    ASSUME NEW C, ChangeRows(C), NEW ids, NEW r \in DimRows(C, ids), r.sub \notin KnownTo(C)
    PROVE  /\ r.from = Sentinel /\ r.to = HighDate /\ r.signup = NoDay
           /\ r = UnknownMember \/ (r.sub \in ids /\ r = SelfHealed(r.sub))
<1>1. \A f \in Opening(Events(C)) : RowOf(C, f).sub \in KnownTo(C)
  BY EventsOnePerInstant, RowFields DEF Opening, KnownTo
<1>2. r \in InferredRows(C, ids) \cup {UnknownMember}
  BY <1>1, RegularRowsAre DEF DimRows
<1>3. CASE r = UnknownMember
  BY <1>3 DEF UnknownMember, WholeTime
<1>4. CASE r \in InferredRows(C, ids)
  <2>1. PICK s \in ids : r = SelfHealed(s)
    BY <1>4 DEF InferredRows, SelfHealed
  <2>2. r.sub = s /\ r.from = Sentinel /\ r.to = HighDate /\ r.signup = NoDay
    BY <2>1 DEF SelfHealed, WholeTime
  <2> QED  BY <2>1, <2>2
<1> QED  BY <1>2, <1>3, <1>4

(* In a state with dimensions, a subscriber or title is as the last change *)
(* says.                                                                   *)
LEMMA AsOfSubscriber ==
    ASSUME MartsInv, dim = DimRows(silver.changes, Subscribers(silver)),
           NEW s \in SubscribersKnown, NEW t \in Instants
    PROVE  IF Past(s, t) = {} THEN Covering(Of(dim, s), t) = {}
           ELSE \E r \in dim : /\ Covering(Of(dim, s), t) = {r}
                               /\ r.plan = LastChange(s, t).plan
                               /\ r.status = StatusAt(s, t)
<1> DEFINE C == silver.changes
           D == Of(dim, s)
<1>0. ChangeRows(C) /\ s \in KnownTo(C)
  BY SilverRows DEF SubscribersKnown, KnownTo
<1>1. D = {RowOf(C, f) : f \in {g \in Opening(Events(C)) : g.sub = s}}
  BY <1>0, OfKnown
<1>2. ASSUME Past(s, t) = {} PROVE Covering(D, t) = {}
  <2>1. SUFFICES ASSUME NEW r \in Covering(D, t) PROVE FALSE
    OBVIOUS
  <2>2. PICK f \in Opening(Events(C)) : f.sub = s /\ r = RowOf(C, f)
    BY <1>1 DEF Covering
  <2>3. f.at <= t
    BY <2>2, RowFields DEF Covering
  <2>4. PICK c \in C : c.sub = s /\ c.at = f.at
    BY <1>0, <2>2, EventsOnePerInstant DEF Opening
  <2> QED  BY <1>2, <2>3, <2>4 DEF Past
<1>3. ASSUME Past(s, t) # {}
      PROVE  \E r \in dim : /\ Covering(D, t) = {r}
                            /\ r.plan = LastChange(s, t).plan
                            /\ r.status = StatusAt(s, t)
  <2>1. \E c \in C : c.sub = s /\ c.at <= t
    BY <1>3 DEF Past
  <2>2. PICK f \in Opening(Events(C)), h \in Events(C) :
              /\ f.sub = s /\ h.sub = s /\ f.at <= h.at /\ h.at <= t
              /\ \A g \in Events(C) : g.sub = s /\ g.at <= t => g.at <= h.at
              /\ \A g \in Opening(Events(C)) : g.sub = s /\ g.at <= t => g.at <= f.at
              /\ Covering(Of(DimRows(C, Subscribers(silver)), s), t) = {RowOf(C, f)}
              /\ f.plan = h.plan /\ f.status = h.status
    BY <1>0, <2>1, VersionAt
  <2>3. LastChange(s, t).plan = h.plan /\ StatusAt(s, t) = h.status
    BY <1>0, <2>2, LastChangeIs
  <2>4. RowOf(C, f).plan = f.plan /\ RowOf(C, f).status = f.status
    BY RowFields
  <2>5. Covering(D, t) = {RowOf(C, f)}
    BY <2>2
  <2>6. RowOf(C, f) \in dim
    BY <2>5 DEF Covering, Of
  <2> QED  BY <2>2, <2>3, <2>4, <2>5, <2>6
<1> QED  BY <1>2, <1>3

LEMMA AsOfTitle ==
    ASSUME MartsInv, dimTitle = TitleRows(silver.titles), NEW i \in TitlesKnown, NEW t \in Instants
    PROVE  {r.attributes : r \in Covering(OfTitle(dimTitle, i), t)} =
              IF TitlePast(i, t) = {} THEN {} ELSE {LastTitleChange(i, t).attributes}
<1> DEFINE T == silver.titles
           D == OfTitle(dimTitle, i)
<1>0. TitleEvents(T) /\ i # UnknownId
  BY SilverRows DEF TitlesKnown, TitleEvents
<1>1. /\ D = {TitleRowOf(T, v) : v \in TitleOpenings(T, i)}
      /\ \A v : TitleRowOf(T, v).from = v.at /\ TitleRowOf(T, v).attributes = v.attributes
  <2>1. OfTitle(TitleRows(T), i) = {TitleRowOf(T, v) : v \in TitleOpenings(T, i)}
    BY <1>0, OfTitleIs
  <2>2. \A v : TitleRowOf(T, v).from = v.at /\ TitleRowOf(T, v).attributes = v.attributes
    BY DEF TitleRowOf, TitleRow
  <2> QED  BY <2>1, <2>2
<1>2. ASSUME TitlePast(i, t) = {} PROVE Covering(D, t) = {}
  <2>1. SUFFICES ASSUME NEW r \in Covering(D, t) PROVE FALSE
    OBVIOUS
  <2>2. PICK v \in TitleOpenings(T, i) : r = TitleRowOf(T, v)
    BY <1>1 DEF Covering
  <2>3. v.at <= t /\ v.title = i /\ v \in T
    BY <1>0, <1>1, <2>2, TitleDedupedIs DEF Covering, TitleOpenings, TitleVersions
  <2> QED  BY <1>2, <2>3 DEF TitlePast
<1>3. ASSUME TitlePast(i, t) # {}
      PROVE  {r.attributes : r \in Covering(D, t)} = {LastTitleChange(i, t).attributes}
  <2>1. \E c \in T : c.title = i /\ c.at <= t
    BY <1>3 DEF TitlePast
  <2>2. PICK v \in TitleOpenings(T, i), h \in TitleDeduped(T) :
              /\ h.title = i /\ h.at <= t
              /\ \A g \in TitleDeduped(T) : g.title = i /\ g.at <= t => g.at <= h.at
              /\ Covering(OfTitle(TitleRows(T), i), t) = {TitleRowOf(T, v)}
              /\ v.attributes = h.attributes
    BY <1>0, <2>1, TitleVersionAt
  <2>3. LastTitleChange(i, t) = h
    BY <1>0, <2>2, LastTitleChangeIs
  <2>4. Covering(D, t) = {TitleRowOf(T, v)}
    BY <2>2
  <2> QED  BY <1>1, <2>2, <2>3, <2>4
<1> QED  BY <1>2, <1>3

(* Two versions of a subscriber that meet differ, and so do two of a       *)
(* title, which never overlap either.                                      *)
LEMMA SubscriberVersionsDiffer ==
    ASSUME MartsInv, dim = DimRows(silver.changes, Subscribers(silver)),
           NEW r \in dim, NEW q \in dim, r.sub = q.sub, r.to = q.from
    PROVE  RowHash(r) # RowHash(q)
<1>0. ChangeRows(silver.changes)
  BY SilverRows
<1>1. CASE r.sub \in KnownTo(silver.changes)
  BY <1>0, <1>1, VersionsDiffer DEF Of
<1>2. CASE r.sub \notin KnownTo(silver.changes)
  <2>1. r.to = HighDate /\ q.from = Sentinel
    BY <1>0, <1>2, WholeTimeRows
  <2>2. HighDate \in Nat /\ Sentinel \in Int /\ Sentinel < 0
    BY TimeAssumption DEF HighDate, Sentinel
  <2>3. HighDate # Sentinel
    BY <2>2
  <2> QED  BY <2>1, <2>3
<1> QED  BY <1>1, <1>2

LEMMA TitleRowsApart ==
    ASSUME MartsInv, dimTitle = TitleRows(silver.titles),
           NEW r \in dimTitle, NEW q \in dimTitle, r.title = q.title, r # q
    PROVE  /\ r.to <= q.from \/ q.to <= r.from
           /\ r.to = q.from => r.attributes # q.attributes
<1> DEFINE T == silver.titles
           i == r.title
<1>0. TitleEvents(T)
  BY SilverRows
<1>1. i # UnknownId
  <2>1. \A v \in TitleVersions(TitleDeduped(T)) : v.title # UnknownId
    BY <1>0, TitleDedupedIs DEF TitleVersions, TitleEvents
  <2>2. TitleRows(T) = {TitleRowOf(T, v) : v \in TitleVersions(TitleDeduped(T))} \cup {UnknownTitle}
    BY DEF TitleRows, TitleHistory, TitleRowOf, TitleRow
  <2>3. \A v : TitleRowOf(T, v).title = v.title
    BY DEF TitleRowOf, TitleRow
  <2> QED  BY <2>1, <2>2, <2>3
<1> HIDE DEF i
<1>2. r \in OfTitle(TitleRows(T), i) /\ q \in OfTitle(TitleRows(T), i)
  BY DEF OfTitle, i
<1>3. Chained(OfTitle(TitleRows(T), i))
  BY <1>0, <1>1, TitleChained
<1>4. r.from # q.from
  BY <1>2, <1>3 DEF Chained
<1>5. r.from \in Int /\ q.from \in Int
  BY <1>2, <1>3, ChainedTo
<1>6. r.to <= q.from \/ q.to <= r.from
  <2>1. CASE q.from > r.from
    BY <1>2, <1>3, <2>1, ChainedTo
  <2>2. CASE r.from > q.from
    BY <1>2, <1>3, <2>2, ChainedTo
  <2> QED  BY <1>4, <1>5, <2>1, <2>2
<1> QED  BY <1>0, <1>1, <1>2, <1>6, TitleVersionsDiffer

(* AsOfCorrect holds of every reachable state: exactly one version covers  *)
(* each instant of a known subscriber or title, and says what the last     *)
(* change by then says.                                                    *)
LEMMA AsOfCorrectState == MartsInv => AsOfCorrect
<1> SUFFICES ASSUME MartsInv PROVE AsOfCorrect
  OBVIOUS
<1>1. CASE silver = Empty /\ dim = {} /\ dimTitle = {}
  BY <1>1 DEF AsOfCorrect, Empty, SubscribersKnown, TitlesKnown
<1>2. CASE /\ dim = DimRows(silver.changes, Subscribers(silver))
           /\ dimTitle = TitleRows(silver.titles)
  BY <1>2, AsOfSubscriber, AsOfTitle, SubscriberVersionsDiffer, TitleRowsApart DEF AsOfCorrect
<1> QED  BY <1>1, <1>2 DEF MartsInv, DimInv

(* Whatever the order and the batches in which events arrive, the rebuilt  *)
(* dimensions answer every point-in-time question with what the last       *)
(* change by then says.                                                    *)
THEOREM DimensionsAsOf == MartsSpec => []AsOfCorrect
BY MartsInvariant, AsOfCorrectState, PTL

(***************************************************************************)
(* The joins of the facts.                                                 *)
(***************************************************************************)
LEMMA WholeSecondState == MartsInv => WholeSecondJoinExact
<1> SUFFICES ASSUME MartsInv PROVE WholeSecondJoinExact
  OBVIOUS
<1>1. CASE silver = Empty /\ dim = {} /\ dimTitle = {}
  <2>1. SubscribersKnown = {} /\ TitlesKnown = {}
    BY <1>1 DEF SubscribersKnown, TitlesKnown, Empty
  <2> QED  BY <2>1 DEF WholeSecondJoinExact
<1>2. CASE /\ dim = DimRows(silver.changes, Subscribers(silver))
           /\ dimTitle = TitleRows(silver.titles)
  <2>0. ChangeRows(silver.changes) /\ TitleEvents(silver.titles)
    BY SilverRows
  <2>1. ASSUME NEW s \in SubscribersKnown PROVE Chained(Of(dim, s))
    BY <1>2, <2>0, KnownChained DEF SubscribersKnown, KnownTo
  <2>2. ASSUME NEW i \in TitlesKnown PROVE Chained(OfTitle(dimTitle, i))
    <3>1. i # UnknownId
      BY <2>0 DEF TitlesKnown, TitleEvents
    <3> QED  BY <1>2, <2>0, <3>1, TitleChained
  <2>3. \A V \in {Of(dim, s) : s \in SubscribersKnown}
                  \cup {OfTitle(dimTitle, i) : i \in TitlesKnown} : Chained(V)
    BY <2>1, <2>2
  <2> QED  BY <2>3, ChainedWholeSecond DEF WholeSecondJoinExact
<1> QED  BY <1>1, <1>2 DEF MartsInv, DimInv

(* The join of whole seconds, in watchlist and funnel, is exact for any    *)
(* dimension a build makes, unless two versions begin within one second.   *)
THEOREM WholeSecondJoin == MartsSpec => []WholeSecondJoinExact
BY MartsInvariant, WholeSecondState, PTL

(* A subscriber's first version begins with the first known change.        *)
LEMMA KnownBegins ==
    ASSUME NEW C, ChangeRows(C), NEW ids, NEW s \in KnownTo(C), NEW u \in Int,
           \E c \in C : c.sub = s /\ c.at <= u
    PROVE  \E r \in Of(DimRows(C, ids), s) : r.from <= u
<1> DEFINE F == Events(C)
<1>0. OnePerInstant(F)
  BY EventsOnePerInstant
<1>1. PICK h \in F : h.sub = s /\ h.at <= u
  BY EventsOnePerInstant
<1>2. PICK f \in Opening(F) : f.sub = h.sub /\ f.at <= h.at
  BY <1>0, FirstOfGroup
<1>3. f.at \in Int /\ h.at \in Int
  BY <1>0, InstantsAre DEF OnePerInstant, Opening
<1>4. RowOf(C, f) \in Of(DimRows(C, ids), s)
  BY <1>1, <1>2, OfKnown
<1>5. RowOf(C, f).from = f.at
  BY RowFields
<1> QED  BY <1>1, <1>2, <1>3, <1>4, <1>5

(* The self-heal row of a subscriber nothing else is known of.             *)
LEMMA InferredOnly ==
    ASSUME NEW C, ChangeRows(C), NEW ids, NEW s \in ids, s \notin KnownTo(C), s # UnknownId
    PROVE  /\ Chained(Of(DimRows(C, ids), s))
           /\ \E r \in Of(DimRows(C, ids), s) : r.from = Sentinel
<1> DEFINE W == SelfHealed(s)
           D == Of(DimRows(C, ids), s)
<1>1. W \in D
  BY DEF Of, DimRows, InferredRows, KnownTo, SelfHealed, WholeTime
<1>2. UnknownMember.sub = UnknownId
  BY DEF UnknownMember, WholeTime
<1>3. D = {W}
  <2>1. ASSUME NEW r \in D PROVE r = W
    <3>1. r \in DimRows(C, ids) /\ r.sub = s
      BY DEF Of
    <3>2. r.sub \notin KnownTo(C)
      BY <3>1
    <3>3. r = UnknownMember \/ r = SelfHealed(r.sub)
      BY <3>1, <3>2, WholeTimeRows
    <3> QED  BY <1>2, <3>1, <3>3
  <2> QED  BY <1>1, <2>1
<1>4. W.from = Sentinel /\ W.to = HighDate
  BY DEF SelfHealed, WholeTime
<1> HIDE DEF W, D
<1>5. {q.from : q \in {u \in D : u.from > W.from}} = {}
  <2>1. ~ (Sentinel > Sentinel)
    BY TimeAssumption DEF Sentinel
  <2> QED  BY <1>3, <1>4, <2>1
<1>6. Min({HighDate} \cup {}) = HighDate
  BY TimeAssumption, LeastOf DEF HighDate
<1>7. Chained(D)
  <2>1. \A r \in D : r = W
    BY <1>3
  <2>2. {HighDate} \cup {q.from : q \in {u \in D : u.from > W.from}} = {HighDate} \cup {}
    BY <1>5
  <2>3. W.to = Min({HighDate} \cup {q.from : q \in {u \in D : u.from > W.from}})
    BY <1>4, <1>6, <2>2
  <2> QED  BY <1>4, <2>1, <2>3 DEF Chained
<1> QED  BY <1>1, <1>4, <1>7 DEF D

(* What the two joins find is the last version that began by the instant   *)
(* up to which they look.                                                  *)
LEMMA JoinedIs ==
    ASSUME NEW a, a.at \in Instants, Chained(Of(dim, a.sub)),
           \E q \in Of(dim, a.sub) : q.from <= JoinsUpto(a)
    PROVE  \E r \in Of(dim, a.sub) :
              /\ Joined(a) = {r} /\ r.from <= JoinsUpto(a)
              /\ \A q \in Of(dim, a.sub) : q.from <= JoinsUpto(a) => q.from <= r.from
<1> DEFINE V == Of(dim, a.sub)
           t == a.at
<1>1. CASE a.kind = "watchlist"
  <2>1. JoinsUpto(a) = t + PerSecond /\ Joined(a) = Closest(V, t)
    BY <1>1 DEF JoinsUpto, Joined
  <2>2. Chained(V) /\ t \in Instants /\ \E q \in V : q.from <= t + PerSecond
    BY <2>1
  <2> HIDE DEF V, t
  <2>3. \E r \in V : /\ r.from <= t + PerSecond
                     /\ \A q \in V : q.from <= t + PerSecond => q.from <= r.from
                     /\ Closest(V, t) = {r}
    BY <2>2, ChainedClosest
  <2> QED  BY <2>1, <2>3 DEF V, t
<1>2. CASE a.kind # "watchlist"
  <2>1. JoinsUpto(a) = t /\ Joined(a) = Covering(V, t)
    BY <1>2 DEF JoinsUpto, Joined
  <2>2. Chained(V) /\ t \in Instants /\ \E q \in V : q.from <= t
    BY <2>1
  <2> HIDE DEF V, t
  <2>3. \E r \in V : r.from <= t /\ (\A q \in V : q.from <= t => q.from <= r.from)
                     /\ Covering(V, t) = {r}
    BY <2>2, ChainedExists
  <2> QED  BY <2>1, <2>3 DEF V, t
<1> QED  BY <1>1, <1>2

LEMMA JoinsUptoInt ==
    ASSUME NEW a, a.at \in Instants
    PROVE  JoinsUpto(a) \in Nat /\ a.at <= JoinsUpto(a)
BY TimeAssumption DEF Instants, JoinsUpto

LEMMA ResolvesState == MartsInv => ResolvesUnlessEarly
<1> SUFFICES ASSUME MartsInv PROVE ResolvesUnlessEarly
  OBVIOUS
<1> DEFINE C == silver.changes
           ids == Subscribers(silver)
<1>0. ChangeRows(C) /\ \A a \in silver.activity : a.at \in Instants /\ a.sub # UnknownId
  BY SilverRows
<1>1. CASE silver = Empty /\ dim = {} /\ dimTitle = {}
  BY <1>1 DEF ResolvesUnlessEarly, Empty
<1>2. CASE dim = DimRows(C, ids)
  <2> SUFFICES ASSUME NEW a \in silver.activity
               PROVE  /\ \E r \in dim : r.sub = a.sub
                      /\ \/ Cardinality(Joined(a)) = 1
                         \/ a.sub \in SubscribersKnown /\ Past(a.sub, JoinsUpto(a)) = {}
    BY DEF ResolvesUnlessEarly
  <2>0. /\ a.at \in Instants /\ a.sub \in ids /\ a.sub # UnknownId
        /\ JoinsUpto(a) \in Int /\ Sentinel <= JoinsUpto(a)
    BY <1>0, JoinsUptoInt, TimeAssumption DEF Subscribers, Sentinel
  <2>1. ASSUME Chained(Of(dim, a.sub)), \E q \in Of(dim, a.sub) : q.from <= JoinsUpto(a)
        PROVE  Cardinality(Joined(a)) = 1
    <3>1. PICK r \in Of(dim, a.sub) : Joined(a) = {r}
      BY <2>0, <2>1, JoinedIs
    <3> QED  BY <3>1, FS_Singleton
  <2>2. CASE a.sub \in KnownTo(C)
    <3>1. Chained(Of(dim, a.sub))
      BY <1>0, <1>2, <2>2, KnownChained
    <3>2. \E r \in dim : r.sub = a.sub
      <4>1. PICK c \in C : c.sub = a.sub
        BY <2>2 DEF KnownTo
      <4>2. c.at \in Int /\ c.at <= c.at
        BY <1>0, InstantsAre DEF ChangeRows
      <4> DEFINE u == c.at
      <4>3. u \in Int /\ \E d \in C : d.sub = a.sub /\ d.at <= u
        BY <4>1, <4>2
      <4> HIDE DEF u
      <4>4. \E r \in Of(DimRows(C, ids), a.sub) : r.from <= u
        BY <1>0, <2>2, <4>3, KnownBegins
      <4> QED  BY <1>2, <4>4 DEF Of
    <3>3. ASSUME Past(a.sub, JoinsUpto(a)) # {} PROVE Cardinality(Joined(a)) = 1
      <4> DEFINE u == JoinsUpto(a)
      <4>1. u \in Int /\ \E c \in C : c.sub = a.sub /\ c.at <= u
        BY <2>0, <3>3 DEF Past
      <4> HIDE DEF u
      <4>2. \E r \in Of(DimRows(C, ids), a.sub) : r.from <= u
        BY <1>0, <2>2, <4>1, KnownBegins
      <4> QED  BY <1>2, <2>1, <3>1, <4>2 DEF u
    <3> QED  BY <2>2, <3>2, <3>3 DEF SubscribersKnown, KnownTo
  <2>3. CASE a.sub \notin KnownTo(C)
    <3>1. /\ Chained(Of(dim, a.sub))
          /\ \E r \in Of(dim, a.sub) : r.from = Sentinel
      BY <1>0, <1>2, <2>0, <2>3, InferredOnly
    <3>2. Cardinality(Joined(a)) = 1
      BY <2>0, <2>1, <3>1
    <3> QED  BY <3>1, <3>2 DEF Of
  <2> QED  BY <2>2, <2>3
<1> QED  BY <1>1, <1>2 DEF MartsInv, DimInv

(* The self-heal: whatever activity names a subscriber, known or not, its  *)
(* join finds exactly one version, or the row is older than anything known *)
(* of the subscriber.                                                      *)
THEOREM JoinsResolve == MartsSpec => []ResolvesUnlessEarly
BY MartsInvariant, ResolvesState, PTL

(***************************************************************************)
(* Stored keys.  The version an event joins is named by the subscriber and *)
(* the instant it began, and that instant is fixed by what was seen of the *)
(* subscriber: it is the last turn, an event whose values differ from      *)
(* those of its predecessor.                                               *)
(***************************************************************************)
Turn(E, x) ==
    \E e \in E : /\ e.at = x
                 /\ \A d \in E : d.at < x /\ (\A c \in E : c.at < x => c.at <= d.at)
                                    => RowHash(d) # RowHash(e)
LastTurn(E) == CHOOSE x : Turn(E, x) /\ \A y : Turn(E, y) => y <= x

(* A copy of an event without its batch: what Seen keeps of it.            *)
Unbatched(e) == [e EXCEPT !.batch = 0]

LEMMA SeenFields ==
    ASSUME NEW C, ChangeRows(C), NEW c \in C
    PROVE  LET e == Unbatched(Gold(c)) IN
           /\ e.sub = c.sub /\ e.at = c.at /\ e.plan = c.plan /\ e.status = GoldStatus(c.status)
<1>1. DOMAIN Gold(c) = ChangeFields
  BY GoldFields
<1> DEFINE g == Gold(c)
<1>2. /\ Unbatched(g)["sub"] = g["sub"] /\ Unbatched(g)["at"] = g["at"]
      /\ Unbatched(g)["plan"] = g["plan"] /\ Unbatched(g)["status"] = g["status"]
  BY <1>1 DEF Unbatched, ChangeFields
<1> QED  BY <1>2, GoldFields

(* What is seen of a subscriber and the events its versions are built on   *)
(* agree.                                                                  *)
LEMMA SeenIs ==
    ASSUME NEW S, ChangeRows(S.changes), NEW s, NEW u
    PROVE  /\ \A h \in Events(S.changes) : h.sub = s /\ h.at <= u =>
                 \E e \in Seen(S, s, u) : e.at = h.at /\ RowHash(e) = h["row_hash"]
           /\ \A e \in Seen(S, s, u) : /\ e.at <= u /\ e.sub = s
                 /\ \E h \in Events(S.changes) :
                       h.sub = s /\ h.at = e.at /\ RowHash(e) = h["row_hash"]
           /\ \A e \in Seen(S, s, u) : s \in KnownTo(S.changes)
<1> DEFINE C == S.changes
           L == {b \in C : Latest(C, b)}
<1>1. Seen(S, s, u) = {Unbatched(g) : g \in {f \in Filtered(C) : f.sub = s /\ f.at <= u}}
  BY DEF Seen, Unbatched
<1>2. Filtered(C) = {Gold(c) : c \in L}
  BY FilteredIs
<1>3. Events(C) = {WithHash(Gold(c)) : c \in L}
  BY EventsAre
<1>4. ASSUME NEW c \in L
      PROVE  /\ Gold(c).sub = c.sub /\ Gold(c).at = c.at
             /\ Unbatched(Gold(c)).sub = c.sub /\ Unbatched(Gold(c)).at = c.at
             /\ WithHash(Gold(c)).sub = c.sub /\ WithHash(Gold(c)).at = c.at
             /\ RowHash(Unbatched(Gold(c))) = << c.plan, GoldStatus(c.status) >>
             /\ WithHash(Gold(c))["row_hash"] = << c.plan, GoldStatus(c.status) >>
  <2>1. c \in C
    OBVIOUS
  <2>2. /\ Gold(c).sub = c.sub /\ Gold(c).at = c.at
    BY <2>1, GoldFields
  <2>3. /\ Unbatched(Gold(c)).sub = c.sub /\ Unbatched(Gold(c)).at = c.at
        /\ Unbatched(Gold(c)).plan = c.plan /\ Unbatched(Gold(c)).status = GoldStatus(c.status)
    BY <2>1, SeenFields
  <2>4. /\ WithHash(Gold(c)).sub = c.sub /\ WithHash(Gold(c)).at = c.at
        /\ WithHash(Gold(c)).plan = c.plan /\ WithHash(Gold(c)).status = GoldStatus(c.status)
        /\ WithHash(Gold(c))["row_hash"] = << WithHash(Gold(c)).plan, WithHash(Gold(c)).status >>
    BY <2>1, HashedFields
  <2>5. RowHash(Unbatched(Gold(c))) = << c.plan, GoldStatus(c.status) >>
    BY <2>3 DEF RowHash
  <2>6. WithHash(Gold(c))["row_hash"] = << c.plan, GoldStatus(c.status) >>
    BY <2>4
  <2> QED  BY <2>2, <2>3, <2>4, <2>5, <2>6
<1>5. \A c \in L : c \in C
  OBVIOUS
<1> HIDE DEF C, L
<1>6. ASSUME NEW h \in Events(C), h.sub = s, h.at <= u
      PROVE  \E e \in Seen(S, s, u) : e.at = h.at /\ RowHash(e) = h["row_hash"]
  <2>1. PICK c \in L : h = WithHash(Gold(c))
    BY <1>3
  <2>2. Gold(c) \in Filtered(C) /\ Gold(c).sub = s /\ Gold(c).at <= u
    BY <1>2, <1>4, <1>6, <2>1
  <2>3. Unbatched(Gold(c)) \in Seen(S, s, u)
    BY <1>1, <2>2
  <2> QED  BY <1>4, <2>1, <2>3
<1>7. ASSUME NEW e \in Seen(S, s, u)
      PROVE  /\ e.at <= u /\ e.sub = s /\ s \in KnownTo(C)
             /\ \E h \in Events(C) : h.sub = s /\ h.at = e.at /\ RowHash(e) = h["row_hash"]
  <2>1. PICK g \in Filtered(C) : g.sub = s /\ g.at <= u /\ e = Unbatched(g)
    BY <1>1
  <2>2. PICK c \in L : g = Gold(c)
    BY <1>2
  <2>3. WithHash(Gold(c)) \in Events(C)
    BY <1>3
  <2>4. c.sub = s /\ c \in C
    BY <1>4, <1>5, <2>1, <2>2
  <2> QED  BY <1>4, <2>1, <2>2, <2>3, <2>4 DEF KnownTo
<1> QED  BY <1>6, <1>7 DEF C

(* The turns seen are the instants versions open at.                       *)
LEMMA TurnsAreOpenings ==
    ASSUME NEW S, ChangeRows(S.changes), NEW s, NEW u \in Nat, NEW x
    PROVE  Turn(Seen(S, s, u), x) <=>
              \E f \in Opening(Events(S.changes)) : f.sub = s /\ f.at = x /\ f.at <= u
<1> DEFINE F == Events(S.changes)
           E == Seen(S, s, u)
<1>0. OnePerInstant(F) /\ \A h \in F : h.at \in Nat
  BY EventsOnePerInstant, InstantsAre DEF OnePerInstant
<1>1. /\ \A h \in F : h.sub = s /\ h.at <= u =>
            \E e \in E : e.at = h.at /\ RowHash(e) = h["row_hash"]
      /\ \A e \in E : /\ e.at <= u
                      /\ \E h \in F : h.sub = s /\ h.at = e.at /\ RowHash(e) = h["row_hash"]
  BY SeenIs
<1> HIDE DEF F, E
<1>2. \A e \in E : e.at \in Nat
  BY <1>0, <1>1
<1>3. ASSUME NEW f \in F, f.sub = s, f.at <= u,
             NEW e \in E, e.at = f.at, RowHash(e) = f["row_hash"]
      PROVE  (\A d \in E : d.at < f.at /\ (\A c \in E : c.at < f.at => c.at <= d.at)
                                    => RowHash(d) # RowHash(e))
             <=> Opens(F, f, "row_hash")
  <2>1. ASSUME NEW d \in E, NEW g \in F, g.sub = s, g.at = d.at, RowHash(d) = g["row_hash"]
        PROVE  (d.at < f.at /\ \A c \in E : c.at < f.at => c.at <= d.at) <=> g \in Lag(F, f)
    <3>1. (\A c \in E : c.at < f.at => c.at <= d.at) <=>
          (\A c \in F : c.sub = s /\ c.at < f.at => c.at <= g.at)
      BY <1>0, <1>1, <1>3, <2>1
    <3> QED  BY <1>3, <2>1, <3>1 DEF Lag
  <2>2. ASSUME NEW d \in E, d.at < f.at, \A c \in E : c.at < f.at => c.at <= d.at,
               RowHash(d) = RowHash(e), Opens(F, f, "row_hash")
        PROVE  FALSE
    <3>1. PICK g \in F : g.sub = s /\ g.at = d.at /\ RowHash(d) = g["row_hash"]
      BY <1>1
    <3>2. g \in Lag(F, f)
      BY <2>1, <2>2, <3>1
    <3> QED  BY <1>3, <2>2, <3>1, <3>2 DEF Opens
  <2>3. ASSUME NEW g \in Lag(F, f), g["row_hash"] = f["row_hash"],
               \A d \in E : d.at < f.at /\ (\A c \in E : c.at < f.at => c.at <= d.at)
                               => RowHash(d) # RowHash(e)
        PROVE  FALSE
    <3>1. g \in F /\ g.sub = s /\ g.at < f.at /\ g.at <= u
      BY <1>0, <1>3 DEF Lag
    <3>2. PICK d \in E : d.at = g.at /\ RowHash(d) = g["row_hash"]
      BY <1>1, <3>1
    <3>3. d.at < f.at /\ \A c \in E : c.at < f.at => c.at <= d.at
      BY <2>1, <3>1, <3>2
    <3> QED  BY <1>3, <2>3, <3>2, <3>3
  <2> QED  BY <2>2, <2>3 DEF Opens
<1>4. ASSUME Turn(E, x) PROVE \E f \in Opening(F) : f.sub = s /\ f.at = x /\ f.at <= u
  <2>1. PICK e \in E : /\ e.at = x
                       /\ \A d \in E : d.at < x /\ (\A c \in E : c.at < x => c.at <= d.at)
                                          => RowHash(d) # RowHash(e)
    BY <1>4 DEF Turn
  <2>2. PICK f \in F : f.sub = s /\ f.at = e.at /\ RowHash(e) = f["row_hash"] /\ f.at <= u
    BY <1>1
  <2>3. Opens(F, f, "row_hash")
    BY <1>3, <2>1, <2>2
  <2> QED  BY <2>1, <2>2, <2>3 DEF Opening
<1>5. ASSUME NEW f \in Opening(F), f.sub = s, f.at = x, f.at <= u PROVE Turn(E, x)
  <2>1. f \in F /\ Opens(F, f, "row_hash")
    BY DEF Opening
  <2>2. PICK e \in E : e.at = f.at /\ RowHash(e) = f["row_hash"]
    BY <1>1, <1>5, <2>1
  <2>3. \A d \in E : d.at < f.at /\ (\A c \in E : c.at < f.at => c.at <= d.at)
                                    => RowHash(d) # RowHash(e)
    BY <1>3, <1>5, <2>1, <2>2
  <2> QED  BY <1>5, <2>2, <2>3 DEF Turn
<1> QED  BY <1>4, <1>5 DEF E, F

(* The version in force at the end of what was seen is named by its last   *)
(* turn.                                                                   *)
LastBegun(V, r, u) == r \in V /\ r.from <= u /\ \A q \in V : q.from <= u => q.from <= r.from

LEMMA KeyFromSeen ==
    ASSUME NEW S, ChangeRows(S.changes), NEW ids, NEW s \in KnownTo(S.changes), NEW u \in Nat,
           NEW r, LastBegun(Of(DimRows(S.changes, ids), s), r, u)
    PROVE  r.sk = << s, LastTurn(Seen(S, s, u)) >>
<1> DEFINE C == S.changes
           E == Seen(S, s, u)
           O == Opening(Events(C))
<1>0. /\ r \in Of(DimRows(C, ids), s) /\ r.from <= u
      /\ \A q \in Of(DimRows(C, ids), s) : q.from <= u => q.from <= r.from
  BY DEF LastBegun
<1>1. PICK f \in O : f.sub = s /\ r = RowOf(C, f)
  BY <1>0, OfKnown
<1>2. r.sk = << s, f.at >> /\ r.from = f.at /\ f.at \in Nat
  BY <1>1, RowFields, EventsOnePerInstant, InstantsAre DEF Opening, OnePerInstant
<1>3. \A y : Turn(E, y) <=> \E g \in O : g.sub = s /\ g.at = y /\ g.at <= u
  BY TurnsAreOpenings
<1>4. \A g \in O : g.sub = s /\ g.at <= u => g.at <= f.at
  <2> TAKE g \in O
  <2> HAVE g.sub = s /\ g.at <= u
  <2>1. RowOf(C, g) \in Of(DimRows(C, ids), s) /\ RowOf(C, g).from = g.at
    BY OfKnown, RowFields
  <2> QED  BY <1>0, <1>2, <2>1
<1> HIDE DEF C, E, O
<1>5. Turn(E, f.at) /\ \A y : Turn(E, y) => y <= f.at
  BY <1>0, <1>1, <1>2, <1>3, <1>4
<1>6. ASSUME NEW x, Turn(E, x), \A y : Turn(E, y) => y <= x PROVE x = f.at
  <2>1. x \in Nat
    <3>1. PICK g \in O : g.at = x
      BY <1>3, <1>6
    <3> QED  BY <3>1, EventsOnePerInstant, InstantsAre DEF C, O, Opening, OnePerInstant
  <2>2. x <= f.at /\ f.at <= x
    BY <1>5, <1>6
  <2> QED  BY <1>2, <2>1, <2>2
<1>7. LastTurn(E) = f.at
  BY <1>5, <1>6 DEF LastTurn
<1> QED  BY <1>2, <1>7 DEF E

LEMMA JoinedSeen ==
    ASSUME MartsInv, NEW a, a.at \in Instants, Seen(silver, a.sub, JoinsUpto(a)) # {}
    PROVE  \E r \in dim : /\ Joined(a) = {r} /\ r.sub = a.sub
                          /\ r.sk = << a.sub, LastTurn(Seen(silver, a.sub, JoinsUpto(a))) >>
<1> DEFINE C == silver.changes
           ids == Subscribers(silver)
           s == a.sub
           u == JoinsUpto(a)
<1>0. ChangeRows(C) /\ u \in Nat
  BY SilverRows, JoinsUptoInt
<1>1. PICK e \in Seen(silver, s, u) : TRUE
  OBVIOUS
<1>2. s \in KnownTo(C) /\ e.at <= u /\ \E h \in Events(C) : h.sub = s /\ h.at = e.at
  BY <1>0, SeenIs
<1>3. dim = DimRows(C, ids)
  <2>1. C # {}
    BY <1>2 DEF KnownTo
  <2> QED  BY <2>1 DEF MartsInv, DimInv, Empty
<1>4. \E c \in C : c.sub = s /\ c.at <= u
  <2>1. PICK h \in Events(C) : h.sub = s /\ h.at <= u
    BY <1>2
  <2> QED  BY <1>0, <2>1, EventsOnePerInstant
<1>5. Chained(Of(dim, s))
  BY <1>0, <1>2, <1>3, KnownChained
<1>6. \E q \in Of(dim, s) : q.from <= u
  <2>1. u \in Int
    BY <1>0
  <2> HIDE DEF u
  <2>2. \E q \in Of(DimRows(C, ids), s) : q.from <= u
    BY <1>0, <1>2, <1>4, <2>1, KnownBegins
  <2> QED  BY <1>3, <2>2
<1>7. PICK r \in Of(dim, s) : /\ Joined(a) = {r} /\ r.from <= u
                              /\ \A q \in Of(dim, s) : q.from <= u => q.from <= r.from
  BY <1>5, <1>6, JoinedIs
<1> HIDE DEF u
<1>8. r.sk = << s, LastTurn(Seen(silver, s, u)) >>
  <2>1. /\ r \in Of(DimRows(C, ids), s) /\ r.from <= u
        /\ \A q \in Of(DimRows(C, ids), s) : q.from <= u => q.from <= r.from
    BY <1>3, <1>7
  <2>2. LastBegun(Of(DimRows(C, ids), s), r, u)
    BY <2>1 DEF LastBegun
  <2> HIDE DEF s, ids
  <2> QED  BY <1>0, <1>2, <2>2, KeyFromSeen
<1> QED  BY <1>7, <1>8 DEF Of, u

(* Keys name a subscriber of the feed; a stored key is the one its row's   *)
(* `seen` gives.                                                           *)
FactInv ==
    \A i \in DOMAIN fct :
        /\ fct[i].at \in Instants /\ fct[i].sk \in Key
        /\ fct[i].seen # {} => fct[i].sk = << fct[i].sub, LastTurn(fct[i].seen) >>

LEMMA DimKeys ==
    ASSUME MartsInv
    PROVE  /\ \A r \in dim : r.sk \in Key
           /\ \A r, q \in dim : r.sk = q.sk => r = q
<1> DEFINE C == silver.changes
           ids == Subscribers(silver)
<1>1. CASE dim = {}
  BY <1>1
<1>2. CASE dim = DimRows(C, ids)
  <2>0. ChangeRows(C)
    BY SilverRows
  <2>1. ASSUME NEW r \in dim, r.sub \in KnownTo(C)
        PROVE  \E f \in Opening(Events(C)) : r = RowOf(C, f) /\ r.sk = << r.sub, r.from >>
                                             /\ r.from \in Instants
    <3>1. r \in Of(DimRows(C, ids), r.sub)
      BY <1>2 DEF Of
    <3>2. PICK f \in Opening(Events(C)) : r = RowOf(C, f)
      BY <2>0, <2>1, <3>1, OfKnown
    <3>3. r.sk = << r.sub, r.from >> /\ r.from = f.at
      BY <3>2, RowFields
    <3>4. f.at \in Instants
      BY <2>0, EventsOnePerInstant DEF Opening, OnePerInstant
    <3> QED  BY <3>2, <3>3, <3>4
  <2>2. ASSUME NEW r \in dim, r.sub \notin KnownTo(C)
        PROVE  \/ r = UnknownMember /\ r.sk = UnknownKey
               \/ r.sub \in ids /\ r = SelfHealed(r.sub) /\ r.sk = << r.sub, Sentinel >>
    <3>1. r = UnknownMember \/ (r.sub \in ids /\ r = SelfHealed(r.sub))
      BY <1>2, <2>0, <2>2, WholeTimeRows
    <3>2. UnknownMember.sk = UnknownKey /\ \A s : SelfHealed(s).sk = << s, Sentinel >>
      BY DEF UnknownMember, SelfHealed, WholeTime
    <3> QED  BY <3>1, <3>2
  <2>3. KnownTo(C) \subseteq SubscribersSent /\ ids \subseteq SubscribersSent
    <3>1. silver.changes \subseteq ChangesSent /\ silver.activity \subseteq ActivitySent
      BY DEF MartsInv, BronzeInv, SilverInv
    <3> QED  BY <3>1 DEF KnownTo, Subscribers, SubscribersSent, ChangesSent, ActivitySent,
                         InBatch, ActivityInBatch
  <2>4. \A r \in dim : r.sk \in Key
    BY <2>1, <2>2, <2>3 DEF Key
  <2>5. ASSUME NEW r \in dim, NEW q \in dim, r.sk = q.sk, r.sub \in KnownTo(C) PROVE r = q
    <3>1. PICK f \in Opening(Events(C)) : r = RowOf(C, f) /\ r.sk = << r.sub, r.from >>
                                          /\ r.from \in Instants
      BY <2>1, <2>5
    <3>2. q.sub \in KnownTo(C)
      <4>1. SUFFICES ASSUME q.sub \notin KnownTo(C) PROVE FALSE
        OBVIOUS
      <4>2. Sentinel \notin Instants
        BY TimeAssumption DEF Sentinel, Instants
      <4>3. << r.sub, r.from >> # UnknownKey
        BY DEF UnknownKey
      <4> QED  BY <2>2, <2>5, <3>1, <4>1, <4>2, <4>3
    <3>3. q.sk = << q.sub, q.from >>
      BY <2>1, <3>2
    <3>4. r.sub = q.sub /\ r.from = q.from
      BY <2>5, <3>1, <3>3
    <3>5. Chained(Of(dim, r.sub))
      BY <1>2, <2>0, <2>5, KnownChained
    <3> QED  BY <3>4, <3>5 DEF Chained, Of
  <2>6. ASSUME NEW r \in dim, NEW q \in dim, r.sk = q.sk, r.sub \notin KnownTo(C),
               q.sub \notin KnownTo(C)
        PROVE  r = q
    <3>1. \A s : << s, Sentinel >> # UnknownKey
      BY DEF UnknownKey
    <3>2. CASE r = UnknownMember
      BY <2>2, <2>6, <3>1, <3>2
    <3>3. CASE r = SelfHealed(r.sub) /\ r.sk = << r.sub, Sentinel >>
      <4>1. q = SelfHealed(q.sub) /\ q.sk = << q.sub, Sentinel >>
        BY <2>2, <2>6, <3>1, <3>3
      <4>2. << r.sub, Sentinel >> = << q.sub, Sentinel >>
        BY <2>6, <3>3, <4>1
      <4>3. r.sub = q.sub
        BY <4>2
      <4>4. SelfHealed(r.sub) = SelfHealed(q.sub)
        BY <4>3
      <4> QED  BY <3>3, <4>1, <4>4
    <3> QED  BY <2>2, <2>6, <3>2, <3>3
  <2> QED  BY <2>4, <2>5, <2>6
<1> QED  BY <1>1, <1>2 DEF MartsInv, DimInv

LEMMA FeedFixed == [MartsNext]_vars => feed' = feed
BY DEF MartsNext, DeliverChange, DeliverActivity, DeliverTitle, NextBatch, BuildDim, MergeFact,
       RefreshFact, BuildSnapshot, BackfillSnapshot, RefreshSnapshot, SnapshotBuilt, vars

LEMMA MergedKeys ==
    ASSUME MartsInv, FactInv, NEW rows \in SUBSET silver.activity, fct' = Merged(rows), feed' = feed
    PROVE  FactInv'
<1>K. Key' = Key /\ UnknownKey \in Key
  BY DEF Key, SubscribersSent
<1> SUFFICES ASSUME NEW i \in DOMAIN fct'
             PROVE  /\ fct'[i].at \in Instants /\ fct'[i].sk \in Key
                    /\ fct'[i].seen # {} => fct'[i].sk = << fct'[i].sub, LastTurn(fct'[i].seen) >>
  BY <1>K DEF FactInv
<1>1. CASE \E a \in rows : a.id = i
  <2> DEFINE a == CHOOSE b \in rows : b.id = i
  <2>1. a \in silver.activity
    BY <1>1
  <2>2. fct'[i] = [sk |-> KeyOf(a), sub |-> a.sub, at |-> a.at, kind |-> a.kind,
                   seen |-> Seen(silver, a.sub, JoinsUpto(a))]
    BY <1>1 DEF Merged
  <2> HIDE DEF a
  <2>3. a.at \in Instants
    BY <2>1, SilverRows
  <2>4. ASSUME Seen(silver, a.sub, JoinsUpto(a)) # {}
        PROVE  KeyOf(a) = << a.sub, LastTurn(Seen(silver, a.sub, JoinsUpto(a))) >>
    <3>1. PICK r \in dim : /\ Joined(a) = {r}
                           /\ r.sk = << a.sub, LastTurn(Seen(silver, a.sub, JoinsUpto(a))) >>
      BY <2>3, <2>4, JoinedSeen
    <3>2. KeyOf(a) = r.sk
      BY <3>1 DEF KeyOf
    <3> QED  BY <3>1, <3>2
  <2>5. KeyOf(a) \in Key
    <3>1. Joined(a) \subseteq dim
      BY DEF Joined, Closest, Candidates, Covering, Of
    <3>2. \A r \in Joined(a) : r.sk \in Key
      BY <3>1, DimKeys
    <3> QED  BY <1>K, <3>2 DEF KeyOf
  <2> QED  BY <2>2, <2>3, <2>4, <2>5
<1>2. CASE ~ \E a \in rows : a.id = i
  <2>1. i \in DOMAIN fct /\ fct'[i] = fct[i]
    BY <1>2 DEF Merged
  <2> QED  BY <2>1 DEF FactInv
<1> QED  BY <1>1, <1>2

LEMMA FactStep == MartsInv /\ FactInv /\ [MartsNext]_vars => FactInv'
<1> SUFFICES ASSUME MartsInv, FactInv, [MartsNext]_vars PROVE FactInv'
  OBVIOUS
<1>F. feed' = feed
  BY FeedFixed
<1>U. ASSUME fct' = fct PROVE FactInv'
  BY <1>F, <1>U DEF FactInv, Key, SubscribersSent
<1>1. ASSUME NEW e \in feed.changes, DeliverChange(e) PROVE FactInv'
  BY <1>1, <1>U DEF DeliverChange, tables
<1>2. ASSUME NEW a \in feed.activity, DeliverActivity(a) PROVE FactInv'
  BY <1>2, <1>U DEF DeliverActivity, tables
<1>3. ASSUME NEW e \in feed.titles, DeliverTitle(e) PROVE FactInv'
  BY <1>3, <1>U DEF DeliverTitle, tables
<1>4. CASE NextBatch
  BY <1>4, <1>U DEF NextBatch, tables
<1>5. CASE BuildDim
  BY <1>5, <1>U DEF BuildDim
<1>6. CASE MergeFact
  <2> DEFINE rows == {a \in silver.activity : a.id \notin DOMAIN fct}
  <2>1. rows \in SUBSET silver.activity /\ fct' = Merged(rows)
    BY <1>6 DEF MergeFact
  <2> HIDE DEF rows
  <2> QED  BY <1>F, <2>1, MergedKeys
<1>7. CASE RefreshFact
  <2>1. fct' = Merged(silver.activity)
    BY <1>7 DEF RefreshFact
  <2> QED  BY <1>F, <2>1, MergedKeys
<1>8. CASE BuildSnapshot
  BY <1>8, <1>U DEF BuildSnapshot, SnapshotBuilt
<1>9. ASSUME NEW first \in 0..Day(LastInstant), NEW last \in 0..Day(LastInstant),
             BackfillSnapshot(first, last)
      PROVE  FactInv'
  BY <1>9, <1>U DEF BackfillSnapshot, SnapshotBuilt
<1>10. CASE RefreshSnapshot
  BY <1>10, <1>U DEF RefreshSnapshot, SnapshotBuilt
<1>11. CASE UNCHANGED vars
  BY <1>11, <1>U DEF vars
<1> QED
  BY <1>1, <1>2, <1>3, <1>4, <1>5, <1>6, <1>7, <1>8, <1>9, <1>10, <1>11 DEF MartsNext

LEMMA FactInitially == MartsInit => FactInv
<1>1. ASSUME MartsInit PROVE DOMAIN fct = {}
  BY <1>1 DEF MartsInit
<1> QED  BY <1>1 DEF FactInv

LEMMA KeyStableState == MartsInv /\ FactInv => KeyStableUnlessCorrected
<1> SUFFICES ASSUME MartsInv, FactInv, NEW i \in DOMAIN fct,
                    fct[i].seen # {}, fct[i].seen = Seen(silver, fct[i].sub, JoinsUpto(fct[i]))
             PROVE  \E r \in Joined(fct[i]) : r.sk = fct[i].sk
  BY DEF KeyStableUnlessCorrected
<1> DEFINE f == fct[i]
<1>1. f.at \in Instants /\ f.sk = << f.sub, LastTurn(f.seen) >>
  BY DEF FactInv
<1>2. Seen(silver, f.sub, JoinsUpto(f)) # {}
  OBVIOUS
<1> HIDE DEF f
<1>3. PICK r \in dim : /\ Joined(f) = {r}
                       /\ r.sk = << f.sub, LastTurn(Seen(silver, f.sub, JoinsUpto(f))) >>
  BY <1>1, <1>2, JoinedSeen
<1>4. f.seen = Seen(silver, f.sub, JoinsUpto(f))
  BY DEF f
<1>5. r \in Joined(f) /\ r.sk = f.sk
  BY <1>1, <1>3, <1>4
<1> QED  BY <1>5 DEF f

(* A key stored long ago names the version the event would join today, as  *)
(* long as nothing known up to the event has been corrected, however many  *)
(* builds, late batches and later changes came between.                    *)
THEOREM StoredKeysStable == MartsSpec => []KeyStableUnlessCorrected
<1>1. MartsSpec => [](MartsInv /\ FactInv)
  BY MartsInitially, FactInitially, MartsStep, FactStep, PTL DEF MartsSpec
<1> QED  BY <1>1, KeyStableState, PTL

(***************************************************************************)
(* The columns laid over the versions.                                     *)
(***************************************************************************)
(* Of two events of a subscriber the later one has a predecessor not       *)
(* before the other.                                                       *)
LEMMA LagExists ==
    ASSUME NEW F, OnePerInstant(F), NEW g \in F, NEW x \in F, g.sub = x.sub, g.at < x.at
    PROVE  \E y \in Lag(F, x) : y \in F /\ y.sub = x.sub /\ g.at <= y.at /\ y.at < x.at
<1> DEFINE T == {k \in Instants : \E e \in F : e.sub = x.sub /\ e.at = k}
           u == x.at - 1
<1>0. \A e \in F : e.at \in Instants /\ e.at \in Nat
  BY InstantsAre DEF OnePerInstant
<1>1. /\ u \in Int /\ g.at \in T /\ g.at <= u /\ T \in SUBSET Instants
      /\ \A k \in Nat : k <= u <=> k < x.at
  BY <1>0
<1> HIDE DEF u, T
<1>2. PICK k \in T : k <= u /\ \A j \in T : j <= u => j <= k
  BY <1>1, LatestUpto
<1> USE DEF T
<1>3. PICK y \in F : y.sub = x.sub /\ y.at = k
  BY <1>2
<1>4. y.at < x.at /\ g.at <= y.at
  BY <1>0, <1>1, <1>2, <1>3
<1>5. ASSUME NEW e \in F, e.sub = x.sub, e.at < x.at PROVE e.at <= y.at
  <2>1. e.at \in T /\ e.at <= u
    BY <1>0, <1>1, <1>5
  <2> QED  BY <1>2, <1>3, <2>1
<1>6. y \in Lag(F, x)
  BY <1>3, <1>4, <1>5 DEF Lag
<1> QED  BY <1>3, <1>4, <1>6

(* Events that follow one another with one value are of one segment.       *)
LEMMA OneValue ==
    ASSUME NEW F, OnePerInstant(F), NEW g \in F, NEW f \in F, NEW column,
           g.sub = f.sub, g.at <= f.at,
           \A e \in F : e.sub = f.sub /\ g.at <= e.at /\ e.at <= f.at => e[column] = f[column]
    PROVE  Segment(F, g, column) = Segment(F, f, column)
<1>0. \A e \in F : e.at \in Nat
  BY InstantsAre DEF OnePerInstant
<1>1. ASSUME NEW c \in F, c.sub = f.sub, g.at < c.at, c.at <= f.at PROVE ~ Opens(F, c, column)
  <2>1. PICK y \in Lag(F, c) : y \in F /\ y.sub = c.sub /\ g.at <= y.at /\ y.at < c.at
    BY <1>1, LagExists
  <2>2. y.at <= f.at /\ g.at <= c.at
    BY <1>0, <1>1, <2>1
  <2>3. y[column] = f[column] /\ c[column] = f[column]
    BY <1>1, <2>1, <2>2
  <2> QED  BY <2>1, <2>3 DEF Opens
<1> QED  BY <1>1, SegmentOrder

(* A later segment begins later.                                           *)
LEMMA SegmentsApart ==
    ASSUME NEW F, OnePerInstant(F), NEW g \in F, NEW f \in F, NEW column,
           g.sub = f.sub, Segment(F, g, column) < Segment(F, f, column)
    PROVE  g.at < f.at
<1>1. g.at \in Nat /\ f.at \in Nat
  BY InstantsAre DEF OnePerInstant
<1>2. SUFFICES ASSUME f.at <= g.at PROVE FALSE
  BY <1>1
<1>3. /\ Segment(F, f, column) <= Segment(F, g, column)
      /\ Segment(F, f, column) \in Nat /\ Segment(F, g, column) \in Nat
  BY <1>2, SegmentOrder
<1> QED  BY <1>3

(* The version an event belongs to has its plan and status segments.       *)
LEMMA VersionSegments ==
    ASSUME NEW F, OnePerInstant(F), NEW e \in F
    PROVE  \E g \in Opening(F) : /\ g \in F /\ g.sub = e.sub /\ g.at <= e.at
                                 /\ Segment(F, g, "plan") = Segment(F, e, "plan")
                                 /\ Segment(F, g, "status") = Segment(F, e, "status")
<1>1. PICK g \in Opening(F) : /\ g.sub = e.sub /\ g.at <= e.at
                              /\ Segment(F, g, "row_hash") = Segment(F, e, "row_hash")
  BY FirstOfGroup
<1>2. g \in F
  BY DEF Opening
<1>3. \A c \in F : c.sub = e.sub /\ g.at < c.at /\ c.at <= e.at => ~ Opens(F, c, "row_hash")
  BY <1>1, <1>2, SegmentOrder
<1> QED  BY <1>1, <1>2, <1>3, VersionOpens, SegmentOrder

LEMMA VersionFields ==
    ASSUME NEW F, NEW f
    PROVE  LET v == VersionOf(F, f) IN
           /\ v.sub = f.sub /\ v.plan = f.plan /\ v.status = f.status /\ v.from = f.at
           /\ v.planSegment = Segment(F, f, "plan") /\ v.statusSegment = Segment(F, f, "status")
BY DEF VersionOf

(* previous_plan_tier of a version that began at f: null if no event       *)
(* before had another plan, else the plan of the last that had.            *)
LEMMA NoPreviousPlan ==
    ASSUME NEW F, OnePerInstant(F), NEW f \in Opening(F),
           \A h \in F : h.sub = f.sub /\ h.at <= f.at => h.plan = f.plan
    PROVE  PreviousPlan(Versions(F), VersionOf(F, f)) = None
<1>1. Versions(F) = {VersionOf(F, g) : g \in Opening(F)} /\ f \in F
  BY VersionsAreOpenings DEF Opening
<1>2. ASSUME NEW g \in Opening(F), g.sub = f.sub, Segment(F, g, "plan") < Segment(F, f, "plan")
      PROVE  FALSE
  <2>1. g \in F
    BY DEF Opening
  <2>2. g.at < f.at /\ g.at \in Nat /\ f.at \in Nat
    BY <1>1, <1>2, <2>1, SegmentsApart, InstantsAre DEF OnePerInstant
  <2>3. \A e \in F : e.sub = f.sub /\ g.at <= e.at /\ e.at <= f.at => e["plan"] = f["plan"]
    OBVIOUS
  <2>4. Segment(F, g, "plan") = Segment(F, f, "plan")
    BY <1>1, <1>2, <2>1, <2>2, <2>3, OneValue
  <2>5. Segment(F, f, "plan") \in Nat
    BY <1>1, <2>1, <1>2, <2>2, SegmentOrder
  <2> QED  BY <1>2, <2>4, <2>5
<1>3. {w \in Of(Versions(F), f.sub) : w.planSegment < Segment(F, f, "plan")} = {}
  BY <1>1, <1>2, VersionFields DEF Of
<1> QED  BY <1>3, VersionFields DEF PreviousPlan

LEMMA PreviousPlanIs ==
    ASSUME NEW F, OnePerInstant(F), NEW f \in Opening(F), NEW d \in F,
           d.sub = f.sub, d.at <= f.at, d.plan # f.plan,
           \A h \in F : h.sub = f.sub /\ d.at < h.at /\ h.at <= f.at => h.plan = f.plan
    PROVE  PreviousPlan(Versions(F), VersionOf(F, f)) = d.plan
<1> DEFINE p(e) == Segment(F, e, "plan")
           Prior == {w \in Of(Versions(F), f.sub) : w.planSegment < p(f)}
<1>0. /\ Versions(F) = {VersionOf(F, g) : g \in Opening(F)} /\ f \in F
      /\ \A e \in F : e.at \in Nat
  BY VersionsAreOpenings, InstantsAre DEF Opening, OnePerInstant
<1>1. p(d) <= p(f) /\ p(d) \in Nat /\ p(f) \in Nat
  BY <1>0, SegmentOrder
<1>2. p(d) # p(f)
  <2>1. d["plan"] # f["plan"]
    OBVIOUS
  <2> QED  BY <1>0, <2>1, SameSegment
<1>3. ASSUME NEW g \in F, g.sub = f.sub, p(g) < p(f) PROVE p(g) <= p(d) /\ p(g) \in Nat
  <2>1. g.at < f.at
    BY <1>0, <1>3, SegmentsApart
  <2>2. g.at <= d.at
    <3>1. SUFFICES ASSUME d.at < g.at PROVE FALSE
      BY <1>0
    <3>2. \A e \in F : e.sub = f.sub /\ g.at <= e.at /\ e.at <= f.at => e["plan"] = f["plan"]
      BY <1>0, <3>1
    <3>3. g.at <= f.at
      BY <1>0, <2>1
    <3>4. p(g) = p(f)
      BY <1>0, <1>3, <3>2, <3>3, OneValue
    <3> QED  BY <1>1, <1>3, <3>4
  <2> QED  BY <1>3, <2>2, SegmentOrder
<1>4. PICK e \in Opening(F) : e.sub = f.sub /\ p(e) = p(d)
  BY VersionSegments
<1>5. \A w : w \in Prior <=> \E g \in Opening(F) : w = VersionOf(F, g) /\ g.sub = f.sub /\ p(g) < p(f)
  BY <1>0, VersionFields DEF Of
<1>6. \A g : VersionOf(F, g).planSegment = p(g) /\ VersionOf(F, g).plan = g.plan
             /\ VersionOf(F, g).sub = g.sub
  BY VersionFields
<1>7. Opening(F) \subseteq F
  BY DEF Opening
<1> HIDE DEF p
<1>8. VersionOf(F, e) \in Prior
  BY <1>1, <1>2, <1>4, <1>5
<1>9. \A u \in Prior : u.planSegment <= VersionOf(F, e).planSegment
  BY <1>3, <1>4, <1>5, <1>6, <1>7
<1>10. ASSUME NEW w \in Prior, \A u \in Prior : u.planSegment <= w.planSegment
       PROVE  w.plan = d.plan
  <2>1. PICK g \in Opening(F) : w = VersionOf(F, g) /\ g.sub = f.sub /\ p(g) < p(f)
    BY <1>5
  <2>2. p(e) <= p(g)
    BY <1>6, <1>8, <1>10, <2>1
  <2>3. p(g) = p(d)
    BY <1>1, <1>3, <1>4, <1>7, <2>1, <2>2
  <2>4. g["plan"] = d["plan"]
    BY <1>7, <2>1, <2>3, SameSegment DEF p
  <2> QED  BY <1>6, <2>1, <2>4
<1> DEFINE W == CHOOSE w \in Prior : \A u \in Prior : u.planSegment <= w.planSegment
<1>11. W \in Prior /\ \A u \in Prior : u.planSegment <= W.planSegment
  BY <1>8, <1>9
<1> HIDE DEF Prior
<1>12. PreviousPlan(Versions(F), VersionOf(F, f)) = W.plan
  BY <1>6, <1>8 DEF PreviousPlan, Prior
<1> HIDE DEF W
<1> QED  BY <1>10, <1>11, <1>12

(* churn_date_key: null unless the last event z of the subscriber is in a  *)
(* churned segment, else the day the segment began.                        *)
LEMMA ChurnDayIs ==
    ASSUME NEW F, OnePerInstant(F), NEW s, NEW z \in F, z.sub = s,
           \A e \in F : e.sub = s => e.at <= z.at
    PROVE  /\ z.status # "churned" => ChurnDay(Versions(F), s) = NoDay
           /\ z.status = "churned" =>
                 \E m \in Opening(F) :
                    /\ m \in F /\ m.sub = s
                    /\ Segment(F, m, "status") = Segment(F, z, "status")
                    /\ \A g \in Opening(F) :
                          g.sub = s /\ Segment(F, g, "status") = Segment(F, z, "status")
                             => m.at <= g.at
                    /\ ChurnDay(Versions(F), s) = Day(m.at)
<1> DEFINE q(e) == Segment(F, e, "status")
           V == Of(Versions(F), s)
           Final == {v \in V : \A w \in V : w.statusSegment <= v.statusSegment}
           O == {g \in Opening(F) : g.sub = s /\ q(g) = q(z)}
<1>0. Versions(F) = {VersionOf(F, g) : g \in Opening(F)} /\ \A e \in F : e.at \in Nat
  BY VersionsAreOpenings, InstantsAre DEF OnePerInstant
<1>1. \A g : /\ VersionOf(F, g).statusSegment = q(g) /\ VersionOf(F, g).status = g.status
             /\ VersionOf(F, g).sub = g.sub /\ VersionOf(F, g).from = g.at
  BY VersionFields
<1>2. \A v : v \in V <=> \E g \in Opening(F) : v = VersionOf(F, g) /\ g.sub = s
  BY <1>0, <1>1 DEF Of
<1>3. PICK e \in Opening(F) : e.sub = s /\ q(e) = q(z)
  BY VersionSegments
<1>4. \A g \in Opening(F) : g \in F
  BY DEF Opening
<1>5. ASSUME NEW g \in Opening(F), g.sub = s PROVE q(g) <= q(z) /\ q(g) \in Nat /\ q(z) \in Nat
  BY <1>4, <1>5, SegmentOrder
<1>6. ASSUME NEW g \in O PROVE g.status = z.status
  <2>1. g["status"] = z["status"]
    BY <1>4, SameSegment
  <2> QED  BY <2>1
<1> HIDE DEF q, V
<1>7. \A v : v \in Final <=> \E g \in O : v = VersionOf(F, g)
  BY <1>1, <1>2, <1>3, <1>5
<1>8. Final # {} /\ \A v \in Final : v.status = z.status
  BY <1>1, <1>3, <1>6, <1>7
<1>9. ChurnDay(Versions(F), s) =
        IF \E v \in Final : v.status = "churned" THEN Day(Min({v.from : v \in Final})) ELSE NoDay
  BY DEF ChurnDay, V
<1> HIDE DEF Final
<1>10. ASSUME z.status # "churned" PROVE ChurnDay(Versions(F), s) = NoDay
  BY <1>8, <1>9, <1>10
<1>11. ASSUME z.status = "churned"
       PROVE  \E m \in O : /\ \A g \in O : m.at <= g.at
                           /\ ChurnDay(Versions(F), s) = Day(m.at)
  <2> DEFINE T == {v.from : v \in Final}
  <2>1. T = {g.at : g \in O}
    BY <1>1, <1>7
  <2>2. T \in SUBSET Nat /\ T # {}
    BY <1>0, <1>3, <1>4, <2>1
  <2>3. ChurnDay(Versions(F), s) = Day(Min(T))
    BY <1>8, <1>9, <1>11
  <2> HIDE DEF T
  <2>4. Min(T) \in T /\ \A x \in T : Min(T) <= x
    BY <2>2, LeastOf
  <2>5. PICK m \in O : m.at = Min(T)
    BY <2>1, <2>4
  <2>6. \A g \in O : m.at <= g.at
    BY <2>1, <2>4, <2>5
  <2> QED  BY <2>3, <2>5, <2>6
<1> QED  BY <1>4, <1>10, <1>11 DEF q

(* The reference, event by event.                                          *)
LEMMA StateAt ==
    ASSUME ChangeRows(silver.changes), NEW s, NEW t \in Instants, Past(s, t) # {}
    PROVE  \E h \in Events(silver.changes) :
              /\ h.sub = s /\ h.at <= t
              /\ \A g \in Events(silver.changes) : g.sub = s /\ g.at <= t => g.at <= h.at
              /\ LastChange(s, t) \in Past(s, t) /\ LastChange(s, t).at = h.at
              /\ LastChange(s, t).plan = h.plan /\ StatusAt(s, t) = h.status
<1> DEFINE C == silver.changes
           F == Events(C)
           T == {x \in Instants : \E g \in F : g.sub = s /\ g.at = x}
<1>0. t \in Int /\ \A g \in F : g.at \in Instants /\ g.at \in Nat
  BY InstantsAre, EventsOnePerInstant DEF OnePerInstant
<1>1. PICK c \in C : c.sub = s /\ c.at <= t
  BY DEF Past
<1>2. PICK g \in F : g.sub = s /\ g.at = c.at
  BY <1>1, EventsOnePerInstant
<1>3. T \in SUBSET Instants /\ \E x \in T : x <= t
  BY <1>0, <1>1, <1>2
<1> HIDE DEF T
<1>4. PICK x \in T : x <= t /\ \A y \in T : y <= t => y <= x
  BY <1>0, <1>3, LatestUpto
<1> USE DEF T
<1>5. PICK h \in F : h.sub = s /\ h.at = x
  BY <1>4
<1>6. h.at <= t /\ \A e \in F : e.sub = s /\ e.at <= t => e.at <= h.at
  BY <1>0, <1>4, <1>5
<1>7. /\ LastChange(s, t) \in Past(s, t) /\ LastChange(s, t).at = h.at
      /\ LastChange(s, t).plan = h.plan /\ StatusAt(s, t) = h.status
  BY <1>5, <1>6, LastChangeIs
<1> QED  BY <1>5, <1>6, <1>7

(* At an event's own instant the reference says what the event says.       *)
LEMMA StateAtEvent ==
    ASSUME ChangeRows(silver.changes), NEW h \in Events(silver.changes)
    PROVE  /\ h.at \in Instants /\ Past(h.sub, h.at) # {}
           /\ LastChange(h.sub, h.at).at = h.at
           /\ LastChange(h.sub, h.at).plan = h.plan /\ StatusAt(h.sub, h.at) = h.status
<1> DEFINE s == h.sub
           t == h.at
<1>1. t \in Instants /\ t \in Nat
  BY InstantsAre, EventsOnePerInstant DEF OnePerInstant
<1>2. h.sub = s /\ h.at <= t
      /\ \A g \in Events(silver.changes) : g.sub = s /\ g.at <= t => g.at <= h.at
  BY <1>1
<1> HIDE DEF s, t
<1>3. LastChange(s, t) \in Past(s, t) /\ LastChange(s, t).at = h.at
      /\ LastChange(s, t).plan = h.plan /\ StatusAt(s, t) = h.status
  BY <1>1, <1>2, LastChangeIs
<1> QED  BY <1>1, <1>3 DEF s, t

(* previous_plan_tier, against the reference.                              *)
LEMMA PreviousPlanReference ==
    ASSUME ChangeRows(silver.changes), NEW f \in Opening(Events(silver.changes)),
           NEW r, r.sub = f.sub, r.from = f.at, r.plan = f.plan
    PROVE  LastOtherPlan(r) = PreviousPlan(Versions(Events(silver.changes)),
                                           VersionOf(Events(silver.changes), f))
<1> DEFINE F == Events(silver.changes)
           s == f.sub
           Times == {u \in Instants : u <= f.at /\ Past(s, u) # {}}
           Others == {c \in {LastChange(s, t) : t \in Times} : c.plan # f.plan}
           H == {h \in F : h.sub = s /\ h.at <= f.at /\ h.plan # f.plan}
<1>0. OnePerInstant(F) /\ f \in F /\ \A e \in F : e.at \in Instants /\ e.at \in Nat
  BY EventsOnePerInstant, InstantsAre DEF OnePerInstant, Opening
<1>1. LastOtherPlan(r) = IF Others = {} THEN None
                         ELSE (CHOOSE c \in Others : \A d \in Others : d.at <= c.at).plan
  BY DEF LastOtherPlan
<1>2. ASSUME NEW c \in Others PROVE \E h \in H : h.at = c.at /\ h.plan = c.plan
  <2>1. PICK t \in Times : c = LastChange(s, t)
    OBVIOUS
  <2>2. t \in Instants /\ t \in Nat /\ t <= f.at /\ Past(s, t) # {}
    BY InstantsAre
  <2>3. PICK h \in F : /\ h.sub = s /\ h.at <= t
                       /\ LastChange(s, t).at = h.at /\ LastChange(s, t).plan = h.plan
    BY <2>2, StateAt
  <2>4. h.at <= f.at
    BY <1>0, <2>2, <2>3
  <2> QED  BY <2>1, <2>3, <2>4
<1>3. ASSUME NEW h \in H PROVE \E c \in Others : c.at = h.at /\ c.plan = h.plan
  <2>1. /\ h.at \in Instants /\ Past(h.sub, h.at) # {}
        /\ LastChange(h.sub, h.at).at = h.at /\ LastChange(h.sub, h.at).plan = h.plan
    BY StateAtEvent
  <2>2. h.at \in Times
    BY <2>1
  <2> QED  BY <2>1, <2>2
<1> HIDE DEF Others
<1>4. CASE H = {}
  <2>1. Others = {}
    BY <1>2, <1>4
  <2>2. \A h \in F : h.sub = f.sub /\ h.at <= f.at => h.plan = f.plan
    BY <1>4
  <2>3. PreviousPlan(Versions(F), VersionOf(F, f)) = None
    BY <1>0, <2>2, NoPreviousPlan
  <2> QED  BY <1>1, <2>1, <2>3
<1>5. CASE H # {}
  <2> DEFINE T == {x \in Instants : \E h \in H : h.at = x}
             u == f.at
  <2>1. T \in SUBSET Instants /\ u \in Int /\ \E x \in T : x <= u
    BY <1>0, <1>5
  <2> HIDE DEF T, u
  <2>2. PICK x \in T : x <= u /\ \A y \in T : y <= u => y <= x
    BY <2>1, LatestUpto
  <2> USE DEF T, u
  <2>3. PICK d \in H : d.at = x
    BY <2>2
  <2>4. \A h \in H : h.at <= d.at
    BY <1>0, <2>2, <2>3
  <2>5. \A h \in F : h.sub = f.sub /\ d.at < h.at /\ h.at <= f.at => h.plan = f.plan
    BY <1>0, <2>4
  <2>6. d \in F /\ d.sub = f.sub /\ d.at <= f.at /\ d.plan # f.plan
    OBVIOUS
  <2> HIDE DEF F, H
  <2>7. PreviousPlan(Versions(F), VersionOf(F, f)) = d.plan
    BY <1>0, <2>5, <2>6, PreviousPlanIs DEF F
  <2> DEFINE best == CHOOSE c \in Others : \A e \in Others : e.at <= c.at
  <2>8. best \in Others /\ \A e \in Others : e.at <= best.at
    <3>1. PICK c \in Others : c.at = d.at
      BY <1>3
    <3>2. \A e \in Others : e.at <= c.at
      BY <1>2, <2>4, <3>1
    <3> QED  BY <3>2
  <2>9. Others # {}
    BY <2>8
  <2> HIDE DEF best
  <2>10. PICK h \in H : h.at = best.at /\ h.plan = best.plan
    BY <1>2, <2>8
  <2>11. PICK c \in Others : c.at = d.at
    BY <1>3
  <2>12. h.at = d.at /\ h \in F /\ h.sub = s
    <3>1. h \in F /\ h.sub = s
      BY DEF H
    <3>2. d.at <= h.at /\ h.at <= d.at
      BY <2>4, <2>8, <2>10, <2>11
    <3> QED  BY <1>0, <2>6, <3>1, <3>2
  <2>13. h = d
    BY <1>0, <2>6, <2>12 DEF OnePerInstant
  <2> QED  BY <1>1, <2>7, <2>9, <2>10, <2>13 DEF F, best
<1> QED  BY <1>4, <1>5

(* churn_date_key, against the reference.                                  *)
LEMMA ChurnReference ==
    ASSUME ChangeRows(silver.changes), NEW s \in KnownTo(silver.changes)
    PROVE  ChurnDay(Versions(Events(silver.changes)), s) =
              IF IsChurned(s) THEN Day(ChurnedSince(s)) ELSE NoDay
<1> DEFINE F == Events(silver.changes)
           q(e) == Segment(F, e, "status")
           T == {t \in Instants : /\ Past(s, t) # {}
                                  /\ \A u \in t..LastInstant : StatusAt(s, u) = "churned"}
<1>0. OnePerInstant(F) /\ \A e \in F : e.at \in Instants /\ e.at \in Nat /\ e.at <= LastInstant
  BY EventsOnePerInstant, InstantsAre DEF OnePerInstant
<1>1. LastInstant \in Instants /\ LastInstant \in Nat /\ Instants = 0..LastInstant
  BY InstantsAre
<1>2. Past(s, LastInstant) # {}
  <2>1. PICK c \in silver.changes : c.sub = s
    BY DEF KnownTo
  <2>2. c.at <= LastInstant
    BY <1>1 DEF ChangeRows
  <2> QED  BY <2>1, <2>2 DEF Past
<1>3. PICK z \in F : /\ z.sub = s /\ StatusAt(s, LastInstant) = z.status
                     /\ \A g \in F : g.sub = s /\ g.at <= LastInstant => g.at <= z.at
  BY <1>1, <1>2, StateAt
<1>4. \A g \in F : g.sub = s => g.at <= z.at
  BY <1>0, <1>3
<1>5. CASE z.status # "churned"
  <2>1. ~ IsChurned(s)
    BY <1>3, <1>5 DEF IsChurned
  <2>2. ChurnDay(Versions(F), s) = NoDay
    BY <1>0, <1>3, <1>4, <1>5, ChurnDayIs
  <2> QED  BY <2>1, <2>2
<1>6. CASE z.status = "churned"
  <2>1. IsChurned(s)
    BY <1>3, <1>6 DEF IsChurned
  <2>2. PICK m \in Opening(F) :
                    /\ m \in F /\ m.sub = s
                    /\ q(m) = q(z)
                    /\ \A g \in Opening(F) : g.sub = s /\ q(g) = q(z) => m.at <= g.at
                    /\ ChurnDay(Versions(F), s) = Day(m.at)
    BY <1>0, <1>3, <1>4, <1>6, ChurnDayIs
  (* From there on the status is churned.                                  *)
  <2>3. m.at \in T
    <3>1. m.at \in Instants /\ Past(s, m.at) # {}
      BY <2>2, StateAtEvent
    <3>2. ASSUME NEW u \in m.at..LastInstant PROVE StatusAt(s, u) = "churned"
      <4>1. u \in Instants /\ m.at <= u /\ u \in Nat
        BY <1>0, <1>1, <2>2
      <4>2. Past(s, u) # {}
        <5>1. PICK c \in Past(s, m.at) : TRUE
          BY <3>1
        <5>2. c \in silver.changes /\ c.sub = s /\ c.at <= m.at /\ c.at \in Nat
          BY InstantsAre DEF Past, ChangeRows
        <5>3. c.at <= u
          BY <1>0, <2>2, <4>1, <5>2
        <5> QED  BY <5>2, <5>3 DEF Past
      <4>3. PICK h \in F : /\ h.sub = s /\ StatusAt(s, u) = h.status
                           /\ \A g \in F : g.sub = s /\ g.at <= u => g.at <= h.at
        BY <4>1, <4>2, StateAt
      <4>4. m.at <= h.at /\ h.at <= z.at
        BY <1>4, <2>2, <4>1, <4>3
      <4>5. q(m) <= q(h) /\ q(h) <= q(z) /\ q(m) \in Nat /\ q(h) \in Nat /\ q(z) \in Nat
        BY <1>0, <1>3, <2>2, <4>3, <4>4, SegmentOrder
      <4>6. q(h) = q(z)
        BY <2>2, <4>5
      <4>7. h["status"] = z["status"]
        BY <1>0, <1>3, <4>3, <4>6, SameSegment
      <4> QED  BY <1>6, <4>3, <4>7
    <3> QED  BY <3>1, <3>2
  (* And not from any earlier instant on.                                  *)
  <2>4. ASSUME NEW t \in T PROVE m.at <= t
    <3>1. SUFFICES ASSUME t < m.at PROVE FALSE
      BY <1>0, <1>1, <2>2
    <3>2. t \in Nat /\ t \in Instants /\ Past(s, t) # {}
          /\ \A u \in t..LastInstant : StatusAt(s, u) = "churned"
      BY <1>1
    <3>3. PICK h \in F : /\ h.sub = s /\ h.at <= t /\ StatusAt(s, t) = h.status
                         /\ \A g \in F : g.sub = s /\ g.at <= t => g.at <= h.at
      BY <3>2, StateAt
    <3>4. h.status = "churned"
      <4>1. t \in t..LastInstant
        BY <1>1, <3>2
      <4> QED  BY <3>2, <3>3, <4>1
    <3>5. ASSUME NEW e \in F, e.sub = s, h.at <= e.at PROVE e["status"] = z["status"]
      <4>1. CASE e.at <= t
        <5>1. e.at = h.at
          BY <1>0, <3>3, <3>5, <4>1
        <5>2. e = h
          BY <1>0, <3>3, <3>5, <5>1 DEF OnePerInstant
        <5> QED  BY <1>6, <3>4, <5>2
      <4>2. CASE t < e.at
        <5>1. e.at \in t..LastInstant
          BY <1>0, <1>1, <3>2, <4>2
        <5>2. StatusAt(s, e.at) = "churned"
          BY <3>2, <5>1
        <5>3. StatusAt(e.sub, e.at) = e.status
          BY StateAtEvent
        <5> QED  BY <1>6, <3>5, <5>2, <5>3
      <4> QED  BY <1>0, <3>2, <4>1, <4>2
    <3>6. h.at <= z.at
      BY <1>4, <3>3
    <3>7. q(h) = q(z)
      BY <1>0, <1>3, <3>3, <3>5, <3>6, OneValue
    <3>8. PICK g \in Opening(F) : g \in F /\ g.sub = s /\ g.at <= h.at /\ q(g) = q(h)
      BY <1>0, <3>3, VersionSegments
    <3>9. m.at <= g.at
      BY <2>2, <3>7, <3>8
    <3> QED  BY <1>0, <2>2, <3>1, <3>2, <3>3, <3>8, <3>9
  <2>5. ChurnedSince(s) = Min(T)
    BY DEF ChurnedSince
  <2>6. T \in SUBSET Nat
    BY <1>1
  <2>7. m.at \in Nat
    BY <1>0, <2>2
  <2> HIDE DEF T, F
  <2>8. Min(T) \in T /\ \A x \in T : Min(T) <= x
    BY <2>3, <2>6, LeastOf
  <2>9. Min(T) = m.at
    <3>1. Min(T) <= m.at /\ m.at <= Min(T) /\ Min(T) \in Nat
      BY <2>3, <2>4, <2>6, <2>8
    <3> QED  BY <2>7, <3>1
  <2> QED  BY <2>1, <2>2, <2>5, <2>9 DEF F
<1> QED  BY <1>5, <1>6

LEMMA OverlaidState == MartsInv => OverlaidColumnsCorrect
<1> SUFFICES ASSUME MartsInv, NEW r \in dim, r.sub \in SubscribersKnown
             PROVE  /\ r.previousPlan = LastOtherPlan(r)
                    /\ r.churn = IF IsChurned(r.sub) THEN Day(ChurnedSince(r.sub)) ELSE NoDay
  BY DEF OverlaidColumnsCorrect
<1> DEFINE C == silver.changes
<1>1. ChangeRows(C) /\ r.sub \in KnownTo(C)
  BY SilverRows DEF SubscribersKnown, KnownTo
<1>2. dim = DimRows(C, Subscribers(silver))
  BY DEF MartsInv, DimInv
<1>3. r \in Of(DimRows(C, Subscribers(silver)), r.sub)
  BY <1>2 DEF Of
<1>4. PICK f \in Opening(Events(C)) : f.sub = r.sub /\ r = RowOf(C, f)
  BY <1>1, <1>3, OfKnown
<1>5. /\ r.from = f.at /\ r.plan = f.plan
      /\ r.previousPlan = PreviousPlan(Versions(Events(C)), VersionOf(Events(C), f))
      /\ r.churn = ChurnDay(Versions(Events(C)), r.sub)
  BY <1>4, RowFields
<1>6. r.previousPlan = LastOtherPlan(r)
  BY <1>1, <1>4, <1>5, PreviousPlanReference
<1>7. r.churn = IF IsChurned(r.sub) THEN Day(ChurnedSince(r.sub)) ELSE NoDay
  BY <1>1, <1>5, ChurnReference
<1> QED  BY <1>6, <1>7

(* previous_plan_tier is the plan held before the current one through any  *)
(* number of changes of status alone, and churn_date_key the day the       *)
(* present spell of being churned began, whatever was corrected.           *)
THEOREM OverlaidColumns == MartsSpec => []OverlaidColumnsCorrect
BY MartsInvariant, OverlaidState, PTL

(***************************************************************************)
(* Days.                                                                   *)
(***************************************************************************)
LEMMA ProductOrder ==
    ASSUME NEW p \in Nat \ {0}, NEW a \in Int, NEW b \in Int, a < b
    PROVE  a * p + p <= b * p
BY SMT

LEMMA DayBounds ==
    ASSUME NEW t \in Int
    PROVE  Day(t) \in Int /\ Day(t) * PerDay <= t /\ t < Day(t) * PerDay + PerDay
BY TimeAssumption, SMT DEF Day

LEMMA DayOrder ==
    ASSUME NEW t \in Int, NEW u \in Int, t <= u
    PROVE  Day(t) <= Day(u)
<1>1. /\ Day(t) \in Int /\ Day(t) * PerDay <= t /\ Day(t) * PerDay \in Int
      /\ Day(u) \in Int /\ u < Day(u) * PerDay + PerDay /\ Day(u) * PerDay \in Int
  BY DayBounds, TimeAssumption
<1>2. SUFFICES ASSUME Day(u) < Day(t) PROVE FALSE
  BY <1>1
<1> DEFINE a == Day(t)
           b == Day(u)
<1>3. a \in Int /\ b \in Int /\ b < a
  BY <1>1, <1>2
<1> HIDE DEF a, b
<1>4. b * PerDay + PerDay <= a * PerDay
  BY <1>3, TimeAssumption, ProductOrder
<1> QED  BY <1>1, <1>4, TimeAssumption DEF a, b

Days == 0..Day(LastInstant)

LEMMA DaysAre ==
    /\ Day(LastInstant) \in Nat
    /\ \A t \in Instants : Day(t) \in Days /\ t <= EndOfDay(Day(t))
    /\ \A d \in Days : EndOfDay(d) \in Instants
    /\ \A d, e \in Int : d <= e => EndOfDay(d) <= EndOfDay(e)
    /\ Day(Sentinel) <= Day(LastInstant)
<1>0. LastInstant \in Nat /\ PerDay \in Nat \ {0} /\ Instants = 0..LastInstant
      /\ Sentinel \in Int /\ Sentinel <= LastInstant
  BY TimeAssumption DEF Instants, Sentinel
<1>1. ASSUME NEW t \in Nat PROVE Day(t) \in Nat /\ t <= EndOfDay(Day(t))
  <2>1. Day(t) \in Int /\ t < Day(t) * PerDay + PerDay
    BY DayBounds
  <2>2. EndOfDay(Day(t)) = Day(t) * PerDay + PerDay - 1
    BY <1>0, <2>1, SMT DEF EndOfDay
  <2>3. Day(0) <= Day(t) /\ Day(0) = 0
    <3>1. Day(0) \in Int /\ Day(0) * PerDay <= 0 /\ 0 < Day(0) * PerDay + PerDay
      BY DayBounds
    <3>2. Day(0) = 0
      BY <1>0, SMT DEF Day
    <3> QED  BY <3>2, DayOrder
  <2> HIDE DEF Day
  <2>4. Day(t) * PerDay \in Int
    BY <1>0, <2>1
  <2> QED  BY <1>0, <2>1, <2>2, <2>3, <2>4
<1>2. ASSUME NEW d \in Int, NEW e \in Int, d <= e PROVE EndOfDay(d) <= EndOfDay(e)
  <2>1. CASE d = e
    BY <1>0, <2>1, SMT DEF EndOfDay
  <2>2. CASE d < e
    <3>1. d * PerDay + PerDay <= e * PerDay /\ d * PerDay \in Int /\ e * PerDay \in Int
      BY <1>0, <2>2, ProductOrder
    <3>2. EndOfDay(d) = d * PerDay + PerDay - 1 /\ EndOfDay(e) = e * PerDay + PerDay - 1
      BY <1>0, SMT DEF EndOfDay
    <3> QED  BY <1>0, <3>1, <3>2
  <2> QED  BY <1>2, <2>1, <2>2
<1>3. ASSUME NEW d \in Days PROVE EndOfDay(d) \in Instants
  <2>1. d \in Nat /\ d <= Day(LastInstant) /\ Day(LastInstant) \in Nat
    BY <1>0, <1>1 DEF Days
  <2>2. EndOfDay(d) <= LastInstant
    BY <1>2, <2>1, MartsBounds
  <2>3. EndOfDay(0) <= EndOfDay(d) /\ EndOfDay(0) = PerDay - 1
    <3>1. EndOfDay(0) = PerDay - 1
      BY <1>0, SMT DEF EndOfDay
    <3> QED  BY <1>2, <2>1, <3>1
  <2>4. EndOfDay(d) \in Int
    BY <1>0, <2>1 DEF EndOfDay
  <2> QED  BY <1>0, <2>2, <2>3, <2>4
<1>4. ASSUME NEW t \in Instants PROVE Day(t) \in Days /\ t <= EndOfDay(Day(t))
  <2>1. t \in Nat /\ t <= LastInstant
    BY <1>0
  <2>2. Day(t) \in Nat /\ Day(LastInstant) \in Nat /\ t <= EndOfDay(Day(t))
    BY <1>0, <1>1, <2>1
  <2>3. Day(t) <= Day(LastInstant)
    BY <1>0, <2>1, DayOrder
  <2> QED  BY <2>2, <2>3 DEF Days
<1>5. Day(Sentinel) <= Day(LastInstant)
  BY <1>0, DayOrder
<1>6. Day(LastInstant) \in Nat
  BY <1>0, <1>1
<1> QED  BY <1>2, <1>3, <1>4, <1>5, <1>6

LEMMA GreatestUpto ==
    ASSUME NEW n \in Int, NEW S \in SUBSET Int, S # {}, \A x \in S : x <= n
    PROVE  Max(S) \in S /\ \A x \in S : x <= Max(S)
<1> DEFINE T == {k \in Nat : n - k \in S}
<1>1. PICK e \in S : TRUE
  OBVIOUS
<1>2. n - e \in T /\ T \in SUBSET Nat
  BY <1>1
<1>3. Min(T) \in T /\ \A y \in T : Min(T) <= y
  BY <1>2, LeastOf
<1>4. n - Min(T) \in S
  BY <1>3
<1>5. ASSUME NEW j \in S PROVE n - Min(T) >= j
  <2>1. n - j \in T /\ j \in Int /\ Min(T) \in Nat
    BY <1>3
  <2> HIDE DEF T
  <2> QED  BY <1>3, <2>1
<1>6. Max(S) \in S /\ \A x \in S : Max(S) >= x
  BY <1>4, <1>5, Zenon DEF Max
<1> QED  BY <1>6

LEMMA OfTwo ==
    ASSUME NEW a \in Int, NEW b \in Int
    PROVE  /\ Max({a, b}) = IF b <= a THEN a ELSE b
           /\ Min({a, b}) = IF a <= b THEN a ELSE b
<1>1. \E x \in {a, b} : \A y \in {a, b} : x >= y
  OBVIOUS
<1>2. Max({a, b}) \in {a, b} /\ \A y \in {a, b} : Max({a, b}) >= y
  BY <1>1, Zenon DEF Max
<1>3. \E x \in {a, b} : \A y \in {a, b} : x <= y
  OBVIOUS
<1>4. Min({a, b}) \in {a, b} /\ \A y \in {a, b} : Min({a, b}) <= y
  BY <1>3, Zenon DEF Min
<1> QED  BY <1>2, <1>4

(* A day lies between bounds of two kinds.                                 *)
LEMMA BetweenTwo ==
    ASSUME NEW a \in Int, NEW b \in Int, NEW c \in Int, NEW e \in Int, NEW d
    PROVE  d \in Max({a, b})..Min({c, e}) <=>
              d \in Int /\ a <= d /\ b <= d /\ d <= c /\ d <= e
BY OfTwo

(***************************************************************************)
(* The rows a run of the snapshot generates.                               *)
(***************************************************************************)
(* Silver holds of a signup what the feed sent.                            *)
LEMMA SilverSignups ==
    ASSUME MartsInv
    PROVE  /\ \A c \in SignupEvents(silver.changes) : c.signup = Day(c.at) /\ c.signup \in Days
           /\ \A c, d \in SignupEvents(silver.changes) : c.sub = d.sub => c = d
<1>0. /\ feed \in Feeds /\ silver.changes \subseteq ChangesSent /\ OnePerId(silver.changes)
      /\ ChangeRows(silver.changes)
  BY SilverRows DEF MartsInv, FeedInv, BronzeInv, SilverInv
<1>1. /\ \A e \in SignupEvents(feed.changes) : e.signup = Day(e.at)
      /\ \A e, d \in SignupEvents(feed.changes) : e.sub = d.sub => e = d
  BY <1>0, FeedAssumption
<1>2. ASSUME NEW c \in SignupEvents(silver.changes)
      PROVE  \E e \in SignupEvents(feed.changes) :
                c.id = e.id /\ c.sub = e.sub /\ c.at = e.at /\ c.signup = e.signup
  BY <1>0 DEF SignupEvents, ChangesSent, InBatch
<1>3. \A c \in SignupEvents(silver.changes) : c.signup = Day(c.at) /\ c.at \in Instants
  BY <1>0, <1>1, <1>2 DEF ChangeRows, SignupEvents
<1>4. \A c \in SignupEvents(silver.changes) : c.signup = Day(c.at) /\ c.signup \in Days
  BY <1>3, DaysAre
<1>5. \A c, d \in SignupEvents(silver.changes) : c.sub = d.sub => c.id = d.id
  BY <1>1, <1>2
<1>6. \A c, d \in SignupEvents(silver.changes) : c.sub = d.sub => c = d
  BY <1>0, <1>5 DEF OnePerId, SignupEvents
<1> QED  BY <1>4, <1>6

(* The signup date of a row is that of a signup left by the tie-break.     *)
LEMMA SignupDayIs ==
    ASSUME NEW C, ChangeRows(C), NEW s
    PROVE  LET L == {c \in SignupEvents(C) : c.sub = s /\ Latest(C, c)} IN
           /\ L = {} => SignupDay(Events(C), s) = NoDay
           /\ L # {} => \E c \in L : SignupDay(Events(C), s) = c.signup
<1> DEFINE F == Events(C)
           L == {c \in SignupEvents(C) : c.sub = s /\ Latest(C, c)}
           E == {e \in Of(F, s) : e.type = "signup"}
<1>1. F = {WithHash(Gold(c)) : c \in {b \in C : Latest(C, b)}}
  BY EventsAre
<1>2. \A c \in C : LET h == WithHash(Gold(c)) IN
         h.sub = c.sub /\ h.at = c.at /\ h.type = c.type /\ h.signup = c.signup
  BY HashedFields
<1>3. \A e \in E : \E c \in L : e = WithHash(Gold(c)) /\ e.signup = c.signup /\ e.at = c.at
  BY <1>1, <1>2 DEF Of, SignupEvents
<1>4. \A c \in L : WithHash(Gold(c)) \in E
  BY <1>1, <1>2 DEF Of, SignupEvents
<1>5. \A c \in L : c.at \in Nat
  BY InstantsAre DEF SignupEvents, ChangeRows
<1>6. SignupDay(F, s) = IF E = {} THEN NoDay
                        ELSE (CHOOSE e \in E : \A d \in E : e.at <= d.at).signup
  BY DEF SignupDay
<1> HIDE DEF F, L, E
<1>7. CASE L = {}
  <2>1. E = {}
    BY <1>3, <1>7
  <2> QED  BY <1>6, <1>7, <2>1 DEF F, L
<1>8. CASE L # {}
  <2>1. E # {}
    BY <1>4, <1>8
  <2> DEFINE T == {e.at : e \in E}
  <2>2. T \in SUBSET Nat /\ T # {}
    BY <1>3, <1>5, <2>1
  <2> HIDE DEF T
  <2>3. Min(T) \in T /\ \A x \in T : Min(T) <= x
    BY <2>2, LeastOf
  <2>4. \E e \in E : \A d \in E : e.at <= d.at
    BY <2>3 DEF T
  <2> DEFINE first == CHOOSE e \in E : \A d \in E : e.at <= d.at
  <2>5. first \in E
    BY <2>4
  <2>6. SignupDay(F, s) = first.signup
    BY <1>6, <2>1
  <2> HIDE DEF first
  <2>7. PICK c \in L : first.signup = c.signup
    BY <1>3, <2>5
  <2> QED  BY <1>8, <2>6, <2>7 DEF F, L
<1> QED  BY <1>7, <1>8

LEMMA ChurnTyped ==
    ASSUME MartsInv, NEW s \in SubscribersKnown, IsChurned(s)
    PROVE  Day(ChurnedSince(s)) \in Days
<1> DEFINE F == Events(silver.changes)
<1>0. ChangeRows(silver.changes) /\ s \in KnownTo(silver.changes)
  BY SilverRows DEF SubscribersKnown, KnownTo
<1>1. LastInstant \in Instants /\ Past(s, LastInstant) # {}
  <2>1. PICK c \in silver.changes : c.sub = s
    BY <1>0 DEF KnownTo
  <2>2. LastInstant \in Instants /\ c.at <= LastInstant
    BY <1>0, InstantsAre DEF ChangeRows
  <2> QED  BY <2>1, <2>2 DEF Past
<1>2. ChurnDay(Versions(F), s) = Day(ChurnedSince(s))
  BY <1>0, ChurnReference
<1>3. OnePerInstant(F) /\ \A e \in F : e.at \in Instants /\ e.at <= LastInstant
  BY <1>0, EventsOnePerInstant, InstantsAre DEF OnePerInstant
<1>4. PICK z \in F : /\ z.sub = s /\ StatusAt(s, LastInstant) = z.status
                     /\ \A g \in F : g.sub = s /\ g.at <= LastInstant => g.at <= z.at
  BY <1>0, <1>1, StateAt
<1>5. z.status = "churned" /\ \A g \in F : g.sub = s => g.at <= z.at
  BY <1>3, <1>4 DEF IsChurned
<1>6. PICK m \in Opening(F) : m \in F /\ ChurnDay(Versions(F), s) = Day(m.at)
  BY <1>3, <1>4, <1>5, ChurnDayIs
<1> QED  BY <1>2, <1>3, <1>6, DaysAre

(* A subscriber on the roster.                                             *)
LEMMA RosterIs ==
    ASSUME MartsInv, dim = DimRows(silver.changes, Subscribers(silver)), NEW r \in Roster(dim)
    PROVE  /\ r.sub \in SubscribersKnown /\ r.to = HighDate
           /\ r.status = "churned" <=> IsChurned(r.sub)
           /\ r.churn = IF IsChurned(r.sub) THEN Day(ChurnedSince(r.sub)) ELSE NoDay
           /\ \E c \in SignupEvents(silver.changes) :
                 Latest(silver.changes, c) /\ c.sub = r.sub /\ r.signup = c.signup
<1> DEFINE C == silver.changes
           s == r.sub
<1>0. ChangeRows(C) /\ r \in dim /\ r.signup # NoDay
  BY SilverRows DEF Roster
<1>1. s \in KnownTo(C)
  BY <1>0, WholeTimeRows
<1>2. r \in Of(dim, s)
  BY <1>0 DEF Of
<1>3. PICK f \in Opening(Events(C)) : r = RowOf(C, f) /\ f.sub = s
  BY <1>0, <1>1, <1>2, OfKnown
<1>4. r.signup = SignupDay(Events(C), s)
  BY <1>3 DEF RowOf, RegularRow, VersionOf
<1>5. \E c \in SignupEvents(C) : Latest(C, c) /\ c.sub = s /\ r.signup = c.signup
  BY <1>0, <1>4, SignupDayIs
<1>6. r.to = HighDate
  <2>1. RowOf(C, f).current = (RowOf(C, f).to = HighDate)
    BY DEF RowOf, RegularRow
  <2>2. r.current
    BY DEF Roster
  <2> QED  BY <1>3, <2>1, <2>2
<1>7. r.status = StatusAt(s, LastInstant)
  <2>1. LastInstant \in Instants /\ LastInstant < HighDate
    BY InstantsAre DEF HighDate
  <2>2. Chained(Of(dim, s))
    BY <1>0, <1>1, KnownChained
  <2>3. r.from \in Instants /\ r.from <= LastInstant
    BY <1>0, <1>3, RowFields, EventsOnePerInstant, InstantsAre DEF Opening, OnePerInstant
  <2>4. r \in Covering(Of(dim, s), LastInstant)
    BY <1>2, <1>6, <2>1, <2>3 DEF Covering
  <2>5. s \in SubscribersKnown
    BY <1>1 DEF KnownTo, SubscribersKnown
  <2> QED  BY <2>1, <2>4, <2>5, AsOfSubscriber
<1>8. r.churn = IF IsChurned(s) THEN Day(ChurnedSince(s)) ELSE NoDay
  BY <1>0, <1>1, OverlaidState DEF OverlaidColumnsCorrect, KnownTo, SubscribersKnown
<1> QED  BY <1>1, <1>5, <1>6, <1>7, <1>8 DEF KnownTo, SubscribersKnown, IsChurned

LEMMA RowFroms ==
    ASSUME MartsInv, NEW r \in dim
    PROVE  r.from \in Instants \cup {Sentinel} /\ Day(r.from) \in Int /\ Day(r.from) <= Day(LastInstant)
<1> DEFINE C == silver.changes
           ids == Subscribers(silver)
<1>0. ChangeRows(C) /\ dim = DimRows(C, ids)
  BY SilverRows DEF MartsInv, DimInv
<1>1. r.from \in Instants \cup {Sentinel}
  <2>1. CASE r.sub \in KnownTo(C)
    <3>1. Chained(Of(dim, r.sub)) /\ r \in Of(dim, r.sub)
      BY <1>0, <2>1, KnownChained DEF Of
    <3> QED  BY <3>1 DEF Chained
  <2>2. CASE r.sub \notin KnownTo(C)
    BY <1>0, <2>2, WholeTimeRows
  <2> QED  BY <2>1, <2>2
<1>2. Instants \subseteq Int /\ Sentinel \in Int
  BY TimeAssumption DEF Instants, Sentinel
<1>3. Day(r.from) \in Int
  BY <1>1, <1>2, DayBounds
<1>4. Day(r.from) <= Day(LastInstant)
  BY <1>1, DaysAre DEF Days
<1> QED  BY <1>1, <1>3, <1>4

(* The last day of a run is a day of the calendar, or null.                *)
LEMMA HorizonTyped ==
    ASSUME MartsInv
    PROVE  Horizon \in Int /\ Horizon <= Day(LastInstant)
<1> DEFINE B == Billing(silver)
           S == {Day(r.from) : r \in Known(dim)} \cup {Day(b.at) : b \in B}
<1>1. CASE Known(dim) = {} \/ B = {}
  <2>1. Horizon = NoDay /\ NoDay \in Int /\ NoDay < 0
    BY <1>1 DEF Horizon, HorizonDay, NoDay
  <2> QED  BY <2>1, DaysAre
<1>2. CASE ~ (Known(dim) = {} \/ B = {})
  <2>1. Horizon = Max(S)
    BY <1>2 DEF Horizon, HorizonDay
  <2>2. \A r \in Known(dim) : Day(r.from) \in Int /\ Day(r.from) <= Day(LastInstant)
    BY RowFroms DEF Known
  <2>3. \A b \in B : Day(b.at) \in Int /\ Day(b.at) <= Day(LastInstant)
    BY SilverRows, DaysAre DEF Billing, Days
  <2>4. S \in SUBSET Int /\ S # {} /\ \A x \in S : x <= Day(LastInstant)
    BY <1>2, <2>2, <2>3
  <2>5. Day(LastInstant) \in Int
    BY DaysAre
  <2> HIDE DEF S
  <2> QED  BY <2>1, <2>4, <2>5, GreatestUpto
<1> QED  BY <1>1, <1>2

(* The day a subscriber's rows end with, as the reference has it.          *)
LastDay(s) == IF IsChurned(s) THEN Day(ChurnedSince(s)) ELSE Horizon

LEMMA RosterDays ==
    ASSUME MartsInv, dim = DimRows(silver.changes, Subscribers(silver)), NEW r \in Roster(dim),
           NEW first \in Int, NEW last \in Int, NEW d
    PROVE  /\ d \in Max({r.signup, first})..Min({EndDay(r, Horizon), last}) <=>
                 d \in Int /\ r.signup <= d /\ first <= d /\ d <= Min({Horizon, LastDay(r.sub)})
                 /\ d <= last
           /\ r.signup \in Days /\ Min({Horizon, LastDay(r.sub)}) \in Int
<1> DEFINE s == r.sub
           k == Day(ChurnedSince(s))
<1>0. Horizon \in Int /\ r.signup \in Days /\ s \in SubscribersKnown
  BY HorizonTyped, RosterIs, SilverSignups
<1>1. r.signup \in Int
  BY <1>0, DaysAre DEF Days
<1>2. EndDay(r, Horizon) = Min({Horizon, LastDay(s)}) /\ EndDay(r, Horizon) \in Int
  <2>1. CASE IsChurned(s)
    <3>1. k \in Int /\ k # NoDay
      <4>1. k \in Days
        BY <1>0, <2>1, ChurnTyped
      <4> HIDE DEF k
      <4> QED  BY <4>1, DaysAre DEF Days, NoDay
    <3>2. r.status = "churned" /\ r.churn = k
      BY <2>1, RosterIs
    <3>3. EndDay(r, Horizon) = Min({k, Horizon})
      BY <3>1, <3>2 DEF EndDay
    <3>4. {k, Horizon} = {Horizon, k} /\ LastDay(s) = k
      BY <2>1 DEF LastDay
    <3>5. Min({k, Horizon}) \in Int
      BY <1>0, <3>1, OfTwo
    <3> QED  BY <3>3, <3>4, <3>5
  <2>2. CASE ~ IsChurned(s)
    <3>1. r.status # "churned"
      BY <2>2, RosterIs
    <3>2. EndDay(r, Horizon) = Horizon /\ LastDay(s) = Horizon
      BY <2>2, <3>1 DEF EndDay, LastDay
    <3>3. Min({Horizon, Horizon}) = Horizon
      BY <1>0, OfTwo
    <3> QED  BY <1>0, <3>2, <3>3
  <2> QED  BY <2>1, <2>2
<1> DEFINE e == EndDay(r, Horizon)
           a == r.signup
<1>3. a \in Int /\ e \in Int
  BY <1>1, <1>2
<1> HIDE DEF a, e
<1>4. d \in Max({a, first})..Min({e, last}) <=>
         d \in Int /\ a <= d /\ first <= d /\ d <= e /\ d <= last
  BY <1>3, BetweenTwo
<1> QED  BY <1>0, <1>2, <1>4 DEF a, e

(* The row of a subscriber and a day: the key of the version at the end of *)
(* the day, the status and plan then in force.                             *)
LEMMA RowIs ==
    ASSUME MartsInv, dim = DimRows(silver.changes, Subscribers(silver)), NEW r \in Roster(dim),
           NEW d \in Days, r.signup <= d, NEW B
    PROVE  LET t == EndOfDay(d)
               row == SnapshotRow(dim, B, r.sub, d) IN
           /\ t \in Instants /\ Past(r.sub, t) # {}
           /\ row.day = d /\ row.sk = << r.sub, LastTurn(Seen(silver, r.sub, t)) >>
           /\ row.sk \in Key
           /\ row.status = StatusAt(r.sub, t) /\ row.plan = PlanAt(B, r.sub, t)
<1> DEFINE C == silver.changes
           s == r.sub
           t == EndOfDay(d)
           row == SnapshotRow(dim, B, r.sub, d)
<1>0. ChangeRows(C) /\ s \in KnownTo(C) /\ s \in SubscribersKnown
  BY SilverRows, RosterIs DEF KnownTo, SubscribersKnown
<1>1. t \in Instants /\ t \in Nat
  BY DaysAre, InstantsAre
<1>2. PICK c \in SignupEvents(C) : c.sub = s /\ r.signup = Day(c.at)
  BY RosterIs, SilverSignups
<1>3. c \in C /\ c.at <= t
  <2>1. c \in C /\ c.at \in Instants /\ c.at \in Nat
    BY <1>0, InstantsAre DEF SignupEvents, ChangeRows
  <2>2. c.at <= EndOfDay(Day(c.at)) /\ Day(c.at) \in Days
    BY <2>1, DaysAre
  <2>3. Days \subseteq Int /\ \A x \in Days : EndOfDay(x) \in Int
    BY DaysAre, InstantsAre DEF Days
  <2> DEFINE b == Day(c.at)
  <2>4. b \in Int /\ b <= d /\ d \in Int
    BY <1>2, <2>2, <2>3
  <2> HIDE DEF b
  <2>5. EndOfDay(b) <= EndOfDay(d)
    BY <2>4, DaysAre
  <2>6. EndOfDay(b) \in Int /\ EndOfDay(d) \in Int
    BY <2>2, <2>3 DEF b
  <2>7. c.at <= EndOfDay(b)
    BY <2>2 DEF b
  <2> QED  BY <2>1, <2>5, <2>6, <2>7
<1>4. Past(s, t) # {}
  BY <1>2, <1>3 DEF Past
<1> HIDE DEF t
<1>5. PICK q \in dim : /\ Covering(Of(dim, s), t) = {q} /\ q.status = StatusAt(s, t)
  BY <1>0, <1>1, <1>4, AsOfSubscriber
<1>6. Chained(Of(dim, s))
  BY <1>0, KnownChained
<1>7. LastBegun(Of(DimRows(C, Subscribers(silver)), s), q, t)
  <2>1. q \in Covering(Of(dim, s), t)
    BY <1>5
  <2>2. /\ q \in Of(dim, s) /\ q.from <= t
        /\ \A p \in Of(dim, s) : p.from <= t => p.from <= q.from
    BY <1>1, <1>6, <2>1, CoveredByLast
  <2> QED  BY <2>2 DEF LastBegun
<1>8. q.sk = << s, LastTurn(Seen(silver, s, t)) >> /\ q.sk \in Key
  <2>1. q.sk = << s, LastTurn(Seen(silver, s, t)) >>
    BY <1>0, <1>1, <1>7, KeyFromSeen
  <2>2. q.sk \in Key
    BY <1>5, <1>6, DimKeys DEF Covering, Of
  <2> QED  BY <2>1, <2>2
<1>9. row.day = d /\ row.sk = q.sk /\ row.status = q.status /\ row.plan = PlanAt(B, s, t)
  BY <1>5 DEF SnapshotRow, t
<1> QED  BY <1>1, <1>4, <1>5, <1>8, <1>9 DEF t

(* The row of a subscriber and a day, as the reference has it.             *)
DayRow(s, d) ==
    [day |-> d, sk |-> << s, LastTurn(Seen(silver, s, EndOfDay(d))) >>,
     status |-> StatusAt(s, EndOfDay(d)), plan |-> PlanAt(Billing(silver), s, EndOfDay(d)),
     seen |-> Seen(silver, s, EndOfDay(d))]

(* A day of a subscriber that a run over first..last generates.            *)
InRange(r, d, first, last) ==
    r.signup <= d /\ d <= Min({Horizon, LastDay(r.sub)}) /\ first <= d /\ d <= last

(* A run generates one row for each subscriber on the roster and each day  *)
(* of its range, and nothing else.                                         *)
LEMMA GeneratedIs ==
    ASSUME MartsInv, dim = DimRows(silver.changes, Subscribers(silver)),
           NEW first \in Int, NEW last \in Int, last <= Day(LastInstant)
    PROVE  /\ \A row \in Generated(first, last) :
                 \E r \in Roster(dim), d \in Days : InRange(r, d, first, last) /\ row = DayRow(r.sub, d)
           /\ \A r \in Roster(dim), d \in Int : InRange(r, d, first, last) =>
                 d \in Days /\ DayRow(r.sub, d).sk \in Key /\ DayRow(r.sub, d) \in Generated(first, last)
<1> DEFINE B == Billing(silver)
           X == SubscriberDays(dim, B, first, last)
           Base(x) == SnapshotRow(dim, B, x[1], x[2])
           Full(b) == [day |-> b.day, sk |-> b.sk, status |-> b.status, plan |-> b.plan,
                       seen |-> Seen(silver, b.sk[1], EndOfDay(b.day))]
<1>1. Generated(first, last) = {Full(Base(x)) : x \in X}
  BY DEF Generated, WithSeen, SnapshotRows
<1>2. ASSUME NEW x
      PROVE  x \in X <=> \E r \in Roster(dim) : \E d \in Int :
                            InRange(r, d, first, last) /\ x = << r.sub, d >>
  <2> DEFINE From(r) == Max({r.signup, first})
             Until(r) == Min({EndDay(r, Horizon), last})
  <2>0. X = UNION {{<< r.sub, d >> : d \in From(r)..Until(r)} : r \in Roster(dim)}
    BY DEF SubscriberDays, Horizon
  <2>1. x \in X <=> \E r \in Roster(dim) : \E d \in From(r)..Until(r) : x = << r.sub, d >>
    <3> HIDE DEF From, Until, X
    <3> QED  BY <2>0
  <2>2. ASSUME NEW r \in Roster(dim), NEW d
        PROVE  d \in Max({r.signup, first})..Min({EndDay(r, Horizon), last}) <=>
                  d \in Int /\ InRange(r, d, first, last)
    BY RosterDays DEF InRange
  <2> QED  BY <2>1, <2>2
<1>3. ASSUME NEW r \in Roster(dim), NEW d \in Int, InRange(r, d, first, last)
      PROVE  /\ d \in Days /\ DayRow(r.sub, d).sk \in Key
             /\ Full(Base(<< r.sub, d >>)) = DayRow(r.sub, d)
  <2>1. r.signup <= d /\ d <= last /\ r.signup \in Days
    BY <1>3, RosterDays DEF InRange
  <2>2. d \in Days
    BY <2>1, DaysAre DEF Days
  <2> DEFINE base == Base(<< r.sub, d >>)
             t == EndOfDay(d)
  <2>3. /\ base.day = d /\ base.sk = << r.sub, LastTurn(Seen(silver, r.sub, t)) >> /\ base.sk \in Key
        /\ base.status = StatusAt(r.sub, t) /\ base.plan = PlanAt(B, r.sub, t)
    BY <2>1, <2>2, RowIs
  <2> HIDE DEF base
  <2>4. base.sk[1] = r.sub
    BY <2>3
  <2>5. Full(base) = DayRow(r.sub, d)
    BY <2>3, <2>4 DEF DayRow
  <2>6. DayRow(r.sub, d).sk = base.sk
    BY <2>3 DEF DayRow
  <2> QED  BY <2>2, <2>3, <2>5, <2>6 DEF base
<1> HIDE DEF X, Full, Base
<1>4. ASSUME NEW row \in Generated(first, last)
      PROVE  \E r \in Roster(dim), d \in Days : InRange(r, d, first, last) /\ row = DayRow(r.sub, d)
  <2>1. PICK x \in X : row = Full(Base(x))
    BY <1>1, <1>4
  <2>2. PICK r \in Roster(dim) : \E d \in Int : InRange(r, d, first, last) /\ x = << r.sub, d >>
    BY <1>2, <2>1
  <2>3. PICK d \in Int : InRange(r, d, first, last) /\ x = << r.sub, d >>
    BY <2>2
  <2> QED  BY <1>3, <2>1, <2>3
<1>5. ASSUME NEW r \in Roster(dim), NEW d \in Int, InRange(r, d, first, last)
      PROVE  DayRow(r.sub, d) \in Generated(first, last)
  <2>1. << r.sub, d >> \in X
    BY <1>2, <1>5
  <2> QED  BY <1>1, <1>3, <1>5, <2>1
<1> QED  BY <1>3, <1>4, <1>5

(***************************************************************************)
(* The snapshot: a row's key is fixed by what was seen of its subscriber   *)
(* up to the end of its day, and no two rows share day and key.            *)
(***************************************************************************)
DatedRows(T) ==
    \A r \in T : r.day \in Days /\ r.sk \in Key /\ r.sk = << r.sk[1], LastTurn(r.seen) >>
UniqueRows(T) == \A r, q \in T : SameKey(r, q) => r = q
SnapInv ==
    /\ DatedRows(snap) /\ UniqueRows(snap)
    /\ snapExists \in BOOLEAN /\ manual \in 0..MaxManual
    /\ ~ snapExists => snap = {}

(* A merge of generated rows keeps the unique key.                         *)
LEMMA MergeKeeps ==
    ASSUME NEW T, NEW rows, DatedRows(T), UniqueRows(T), DatedRows(rows), UniqueRows(rows)
    PROVE  DatedRows(MergeRows(T, rows)) /\ UniqueRows(MergeRows(T, rows))
<1>1. DatedRows(MergeRows(T, rows))
  BY DEF DatedRows, MergeRows
<1>2. ASSUME NEW r \in MergeRows(T, rows), NEW q \in MergeRows(T, rows), SameKey(r, q)
      PROVE  r = q
  <2>1. SameKey(q, r)
    BY <1>2 DEF SameKey
  <2>2. (r \in rows /\ q \in rows) \/ (r \in T /\ q \in T)
    BY <1>2, <2>1 DEF MergeRows
  <2> QED  BY <1>2, <2>2 DEF UniqueRows
<1> QED  BY <1>1, <1>2 DEF UniqueRows

LEMMA GeneratedKeys ==
    ASSUME MartsInv, dim # {}, NEW first \in Int, NEW last \in Int, last <= Day(LastInstant)
    PROVE  DatedRows(Generated(first, last)) /\ UniqueRows(Generated(first, last))
<1> DEFINE G == Generated(first, last)
<1>0. dim = DimRows(silver.changes, Subscribers(silver))
  BY DEF MartsInv, DimInv
<1>1. ASSUME NEW row \in G
      PROVE  /\ row.day \in Days /\ row.sk \in Key /\ row.sk = << row.sk[1], LastTurn(row.seen) >>
             /\ row = DayRow(row.sk[1], row.day)
  <2>1. PICK r \in Roster(dim), d \in Days : InRange(r, d, first, last) /\ row = DayRow(r.sub, d)
    BY <1>0, <1>1, GeneratedIs
  <2>2. d \in Int
    BY DaysAre DEF Days
  <2>3. row.sk \in Key
    BY <1>0, <2>1, <2>2, GeneratedIs
  <2>4. row.day = d /\ row.sk = << r.sub, LastTurn(Seen(silver, r.sub, EndOfDay(d))) >>
        /\ row.seen = Seen(silver, r.sub, EndOfDay(d))
    BY <2>1 DEF DayRow
  <2>5. row.sk[1] = r.sub
    BY <2>4
  <2> QED  BY <2>1, <2>3, <2>4, <2>5
<1> HIDE DEF G
<1>2. DatedRows(G)
  BY <1>1 DEF DatedRows
<1>3. ASSUME NEW r \in G, NEW q \in G, SameKey(r, q) PROVE r = q
  <2>1. r.day = q.day /\ r.sk = q.sk
    BY <1>3 DEF SameKey
  <2>2. DayRow(r.sk[1], r.day) = DayRow(q.sk[1], q.day)
    BY <2>1
  <2> QED  BY <1>1, <2>2
<1> QED  BY <1>2, <1>3 DEF UniqueRows, G

(* The days a run may start from.                                          *)
LEMMA StartTyped ==
    ASSUME SnapInv
    PROVE  /\ RangeStart(Written) \in Int /\ NoDay \in Int
           /\ Written # {} => /\ Max(Written) \in Written /\ Max(Written) \in Days
                              /\ \A d \in Written : d \in Days /\ d <= Max(Written)
<1>0. Written \subseteq Days /\ Days \subseteq Int /\ \A d \in Days : d <= Day(LastInstant)
      /\ Day(LastInstant) \in Int
  BY DaysAre DEF SnapInv, DatedRows, Written, Days
<1>1. CASE Written = {}
  BY <1>1 DEF RangeStart, NoDay
<1>2. CASE Written # {}
  <2>1. Max(Written) \in Written /\ \A x \in Written : x <= Max(Written)
    BY <1>0, <1>2, GreatestUpto
  <2>2. RangeStart(Written) = Max(Written) - (ReprocessWindowDays - 1)
    BY <1>2 DEF RangeStart
  <2>3. Max(Written) \in Int
    BY <1>0, <2>1
  <2> QED  BY <1>0, <2>1, <2>2, <2>3, WindowAssumption DEF NoDay
<1> QED  BY <1>1, <1>2

LEMMA SnapInitially == MartsInit => SnapInv
<1>1. ASSUME MartsInit PROVE snap = {} /\ snapExists = FALSE /\ manual = 0
  BY <1>1 DEF MartsInit
<1> QED  BY <1>1, MartsBounds DEF SnapInv, DatedRows, UniqueRows

LEMMA SnapStep == MartsInv /\ SnapInv /\ [MartsNext]_vars => SnapInv'
<1> SUFFICES ASSUME MartsInv, SnapInv, [MartsNext]_vars PROVE SnapInv'
  OBVIOUS
<1>F. feed' = feed
  BY FeedFixed
<1>U. ASSUME UNCHANGED << snap, snapExists >>, manual' \in 0..MaxManual PROVE SnapInv'
  BY <1>F, <1>U DEF SnapInv, DatedRows, UniqueRows, SameKey, Key, SubscribersSent
<1>V. UNCHANGED << snap, snapExists, manual >> => SnapInv'
  BY <1>U DEF SnapInv
<1>M. Manual => manual' \in 0..MaxManual
  BY MartsBounds DEF SnapInv, Manual
<1>S. ASSUME NEW rows, SnapshotBuilt(rows), DatedRows(rows), UniqueRows(rows),
             manual' \in 0..MaxManual
      PROVE  SnapInv'
  <2>1. snap' = rows /\ snapExists' = TRUE
    BY <1>S DEF SnapshotBuilt
  <2>2. DatedRows(rows)'
    BY <1>F, <1>S DEF DatedRows, Key, SubscribersSent
  <2> QED  BY <1>S, <2>1, <2>2 DEF SnapInv, DatedRows, UniqueRows, SameKey
<1>1. ASSUME NEW e \in feed.changes, DeliverChange(e) PROVE SnapInv'
  BY <1>1, <1>V DEF DeliverChange, tables
<1>2. ASSUME NEW a \in feed.activity, DeliverActivity(a) PROVE SnapInv'
  BY <1>2, <1>V DEF DeliverActivity, tables
<1>3. ASSUME NEW e \in feed.titles, DeliverTitle(e) PROVE SnapInv'
  BY <1>3, <1>V DEF DeliverTitle, tables
<1>4. CASE NextBatch
  BY <1>4, <1>V DEF NextBatch, tables
<1>5. CASE BuildDim
  BY <1>5, <1>V DEF BuildDim
<1>6. CASE MergeFact
  BY <1>6, <1>V DEF MergeFact
<1>7. CASE RefreshFact
  BY <1>7, <1>U, <1>M DEF RefreshFact
<1>8. CASE BuildSnapshot
  <2>0. Horizon \in Int /\ Horizon <= Day(LastInstant) /\ dim # {}
    BY <1>8, HorizonTyped DEF BuildSnapshot, SnapshotBuilt
  <2>1. CASE snapExists
    <3> DEFINE G == Generated(RangeStart(Written), Horizon)
    <3>1. SnapshotBuilt(MergeRows(snap, G)) /\ manual' = manual
      BY <1>8, <2>1 DEF BuildSnapshot
    <3>2. DatedRows(G) /\ UniqueRows(G)
      BY <2>0, StartTyped, GeneratedKeys
    <3> HIDE DEF G
    <3>3. DatedRows(MergeRows(snap, G)) /\ UniqueRows(MergeRows(snap, G))
      BY <3>2, MergeKeeps DEF SnapInv
    <3> QED  BY <1>S, <3>1, <3>3 DEF SnapInv
  <2>2. CASE ~ snapExists
    <3> DEFINE G == Generated(NoDay, Horizon)
    <3>1. SnapshotBuilt(G) /\ manual' = manual
      BY <1>8, <2>2 DEF BuildSnapshot
    <3>2. DatedRows(G) /\ UniqueRows(G)
      BY <2>0, StartTyped, GeneratedKeys
    <3> HIDE DEF G
    <3> QED  BY <1>S, <3>1, <3>2 DEF SnapInv
  <2> QED  BY <2>1, <2>2
<1>9. ASSUME NEW first \in 0..Day(LastInstant), NEW last \in 0..Day(LastInstant),
             BackfillSnapshot(first, last)
      PROVE  SnapInv'
  <2> DEFINE G == Generated(first, last)
  <2>1. SnapshotBuilt(MergeRows(snap, G)) /\ Manual /\ dim # {}
    BY <1>9 DEF BackfillSnapshot, SnapshotBuilt
  <2>2. first \in Int /\ last \in Int /\ last <= Day(LastInstant)
    BY DaysAre
  <2>3. DatedRows(G) /\ UniqueRows(G)
    BY <2>1, <2>2, GeneratedKeys
  <2> HIDE DEF G
  <2>4. DatedRows(MergeRows(snap, G)) /\ UniqueRows(MergeRows(snap, G))
    BY <2>3, MergeKeeps DEF SnapInv
  <2> QED  BY <1>S, <1>M, <2>1, <2>4
<1>10. CASE RefreshSnapshot
  <2> DEFINE G == Generated(NoDay, Horizon)
  <2>1. SnapshotBuilt(G) /\ Manual /\ dim # {}
    BY <1>10 DEF RefreshSnapshot, SnapshotBuilt
  <2>2. DatedRows(G) /\ UniqueRows(G)
    BY <2>1, StartTyped, HorizonTyped, GeneratedKeys
  <2> HIDE DEF G
  <2> QED  BY <1>S, <1>M, <2>1, <2>2
<1>11. CASE UNCHANGED vars
  BY <1>11, <1>V DEF vars
<1> QED
  BY <1>1, <1>2, <1>3, <1>4, <1>5, <1>6, <1>7, <1>8, <1>9, <1>10, <1>11 DEF MartsNext

(* All that is known of every reachable state.                             *)
StoredInv == MartsInv /\ FactInv /\ SnapInv

LEMMA StoredInvariant == MartsSpec => []StoredInv
<1>1. MartsInit => StoredInv
  BY MartsInitially, FactInitially, SnapInitially DEF StoredInv
<1>2. StoredInv /\ [MartsNext]_vars => StoredInv'
  BY MartsStep, FactStep, SnapStep DEF StoredInv
<1> QED  BY <1>1, <1>2, PTL DEF MartsSpec

(* Titles keep the keys of their versions apart.                           *)
LEMMA TitleKeys ==
    ASSUME MartsInv, NEW r \in dimTitle, NEW q \in dimTitle, r.sk = q.sk
    PROVE  r = q
<1> DEFINE T == silver.titles
           V == TitleVersions(TitleDeduped(T))
<1>1. TitleEvents(T) /\ dimTitle = TitleRows(T)
  BY SilverRows DEF MartsInv, DimInv
<1>2. TitleRows(T) = {TitleRowOf(T, v) : v \in V} \cup {UnknownTitle}
  BY DEF TitleRows, TitleHistory, TitleRowOf, TitleRow
<1>3. \A v \in V : /\ TitleRowOf(T, v).sk = << v.title, v.at >>
                   /\ v \in TitleDeduped(T)
  BY DEF TitleRowOf, TitleRow, TitleVersions
<1>4. \A v, w \in V : v.title = w.title /\ v.at = w.at => v = w
  BY <1>1, <1>3, TitleDedupedIs
<1>5. \A v \in V : << v.title, v.at >> # UnknownTitle.sk
  BY DEF UnknownTitle, UnknownKey
<1> HIDE DEF V, T
<1> QED  BY <1>1, <1>2, <1>3, <1>4, <1>5

(* MartsTypeOK: whatever is delivered, rebuilt, merged or refreshed, the   *)
(* tables hold what their schemas say and the dimensions' keys are unique. *)
THEOREM MartsTypeCorrect == MartsSpec => []MartsTypeOK
<1>1. ASSUME StoredInv PROVE MartsTypeOK
  <2>0. MartsInv /\ FactInv /\ SnapInv
    BY <1>1 DEF StoredInv
  <2>1. /\ feed \in Feeds
        /\ batch \in 1..feed.batches
        /\ bronze.changes \subseteq {InBatch(e, b) : e \in feed.changes, b \in 1..batch}
        /\ bronze.activity \subseteq {ActivityInBatch(a, b) : a \in feed.activity, b \in 1..batch}
        /\ bronze.titles \subseteq {TitleInBatch(e, b) : e \in feed.titles, b \in 1..batch}
    BY <2>0 DEF MartsInv, FeedInv, BronzeInv, ChangesSent, ActivitySent, TitlesSent
  <2>2. /\ silver.changes \subseteq bronze.changes /\ OnePerId(silver.changes)
        /\ silver.activity \subseteq bronze.activity /\ OnePerId(silver.activity)
        /\ silver.titles \subseteq bronze.titles /\ OnePerId(silver.titles)
    BY <2>0 DEF MartsInv, SilverInv
  <2>3. \A r, q \in dimTitle : r.sk = q.sk => r = q
    BY <2>0, TitleKeys
  <2>4. {r.sk : r \in dim} \subseteq Key /\ \A r, q \in dim : r.sk = q.sk => r = q
    BY <2>0, DimKeys
  <2>5. \A i \in DOMAIN fct : fct[i].sk \in Key
    BY <2>0 DEF FactInv
  <2>6. /\ \A r \in snap : r.sk \in Key /\ r.day \in 0..Day(LastInstant)
        /\ snapExists \in BOOLEAN /\ manual \in 0..MaxManual
    BY <2>0 DEF SnapInv, DatedRows, Days
  <2> QED  BY <2>1, <2>2, <2>3, <2>4, <2>5, <2>6 DEF MartsTypeOK
<1> QED  BY <1>1, StoredInvariant, PTL

(***************************************************************************)
(* What a run generates, against what the change events say.  Where no     *)
(* other change is tied with a signup, the roster is all that signed up.   *)
(***************************************************************************)
LEMMA SignupSurvives ==
    ASSUME MartsInv, SignupsUntied, NEW c \in SignupEvents(silver.changes)
    PROVE  Latest(silver.changes, c)
<1> DEFINE C == silver.changes
<1>0. feed \in Feeds /\ C \subseteq ChangesSent /\ ChangeRows(C) /\ c \in C /\ c.type = "signup"
  BY SilverRows DEF MartsInv, FeedInv, BronzeInv, SilverInv, SignupEvents
<1>1. \A d \in C : \E e \in feed.changes :
         d.id = e.id /\ d.sub = e.sub /\ d.at = e.at /\ d.type = e.type
  BY <1>0 DEF ChangesSent, InBatch
<1>2. ASSUME NEW d \in C, SameInstant(d, c) PROVE d = c
  <2>1. PICK e \in feed.changes : c.id = e.id /\ c.sub = e.sub /\ c.at = e.at /\ c.type = e.type
    BY <1>0, <1>1
  <2>2. PICK h \in feed.changes : d.id = h.id /\ d.sub = h.sub /\ d.at = h.at
    BY <1>1
  <2>3. e \in SignupEvents(feed.changes) /\ SameInstant(h, e)
    BY <1>0, <1>2, <2>1, <2>2 DEF SignupEvents, SameInstant
  <2>4. h = e
    BY <1>0, <2>3 DEF SignupsUntied
  <2> QED  BY <1>0, <2>1, <2>2, <2>4 DEF ChangeRows, OnePerId
<1>3. After(c, c)
  <2>1. PICK n \in Nat, m \in Nat : \A d \in C : d.id \in 1..n /\ d.batch \in 1..m
    BY <1>0 DEF ChangeRows, Bounded
  <2> QED  BY <1>0, <2>1 DEF After
<1> QED  BY <1>2, <1>3 DEF Latest

LEMMA RosterHas ==
    ASSUME MartsInv, SignupsUntied, dim = DimRows(silver.changes, Subscribers(silver)),
           NEW c \in SignupEvents(silver.changes)
    PROVE  \E r \in Roster(dim) : r.sub = c.sub /\ r.signup = c.signup
<1> DEFINE C == silver.changes
           s == c.sub
           V == Of(dim, s)
<1>0. ChangeRows(C) /\ c \in C /\ s \in KnownTo(C) /\ c.at \in Nat
  BY SilverRows, InstantsAre DEF SignupEvents, KnownTo, ChangeRows
<1>1. Chained(V) /\ \E q \in V : q.from <= c.at
  BY <1>0, KnownChained, KnownBegins
<1>2. LastInstant \in Nat /\ HighDate = LastInstant + 1 /\ c.at <= LastInstant
  BY <1>0, InstantsAre DEF HighDate, ChangeRows
<1>3. PICK r \in V : \A q \in V : q.from <= LastInstant => q.from <= r.from
  <2>1. \E q \in V : q.from <= LastInstant
    BY <1>0, <1>1, <1>2, ChainedTo
  <2> HIDE DEF V
  <2> QED  BY <1>1, <1>2, <2>1, ChainedLast
<1>4. r.to = HighDate
  <2>1. SUFFICES ASSUME NEW q \in V, q.from > r.from PROVE FALSE
    BY <1>1, ChainedTo
  <2>2. q.from \in Int /\ q.from < HighDate /\ r.from \in Int
    <3>1. q.from < q.to /\ q.to <= HighDate /\ q.from \in Int /\ q.to \in Nat /\ r.from \in Int
      BY <1>1, <2>1, ChainedTo
    <3> QED  BY <1>2, <3>1
  <2> QED  BY <1>2, <1>3, <2>1, <2>2
<1>5. PICK f \in Opening(Events(C)) : r = RowOf(C, f) /\ f.sub = s
  BY <1>0, <1>3, OfKnown
<1>6. /\ r.signup = SignupDay(Events(C), s) /\ r.sub = s
      /\ r.current = (r.to = HighDate)
  BY <1>5 DEF RowOf, RegularRow, VersionOf
<1>7. SignupDay(Events(C), s) = c.signup
  <2>1. c \in {b \in SignupEvents(C) : b.sub = s /\ Latest(C, b)}
    BY SignupSurvives
  <2>2. PICK b \in SignupEvents(C) : b.sub = s /\ SignupDay(Events(C), s) = b.signup
    BY <1>0, <2>1, SignupDayIs
  <2>3. b = c
    BY <2>2, SilverSignups
  <2> QED  BY <2>2, <2>3
<1>8. c.signup # NoDay
  <2>1. c.signup \in Nat
    BY SilverSignups, DaysAre DEF Days
  <2> QED  BY <2>1 DEF NoDay
<1>9. r \in Roster(dim)
  BY <1>3, <1>4, <1>6, <1>7, <1>8 DEF Roster, Of
<1> QED  BY <1>6, <1>7, <1>9

(* The reference's row of a subscriber and a day.                          *)
DayFact(s, d) ==
    [day |-> d, sub |-> s, status |-> StatusAt(s, EndOfDay(d)),
     plan |-> PlanAt(Billing(silver), s, EndOfDay(d))]

LEMMA ExpectedIs ==
    ASSUME MartsInv, NEW x
    PROVE  x \in Expected <=>
              \E c \in SignupEvents(silver.changes), d \in Int :
                 c.signup <= d /\ d <= Min({Horizon, LastDay(c.sub)}) /\ x = DayFact(c.sub, d)
<1> DEFINE Ends(s) == Min({Horizon, LastDay(s)})
           Lives(s) == {c \in silver.changes : c.sub = s /\ c.type = "signup"}
<1>1. \A s : ExpectedDays(s) = UNION {c.signup..Ends(s) : c \in Lives(s)}
  BY DEF ExpectedDays, LastDay
<1>2. Expected = UNION {{DayFact(s, d) : d \in ExpectedDays(s)} : s \in SubscribersKnown}
  BY DEF Expected, DayFact
<1>3. \A s, c : c \in Lives(s) <=> c \in SignupEvents(silver.changes) /\ c.sub = s
  BY DEF SignupEvents
<1>4. ASSUME NEW c \in SignupEvents(silver.changes)
      PROVE  c.sub \in SubscribersKnown /\ c.signup \in Int /\ Ends(c.sub) \in Int
  <2>1. c \in silver.changes
    BY DEF SignupEvents
  <2>2. c.sub \in SubscribersKnown
    BY <2>1 DEF SubscribersKnown
  <2>3. Horizon \in Int /\ LastDay(c.sub) \in Int
    BY <2>2, HorizonTyped, ChurnTyped, DaysAre DEF LastDay, Days
  <2>4. c.signup \in Int
    BY SilverSignups, DaysAre DEF Days
  <2> QED  BY <2>2, <2>3, <2>4, OfTwo
<1> HIDE DEF Ends, Lives
<1>5. ASSUME NEW s, NEW d
      PROVE  d \in ExpectedDays(s) <=> \E c \in SignupEvents(silver.changes) :
                c.sub = s /\ d \in Int /\ c.signup <= d /\ d <= Ends(s)
  <2>1. d \in ExpectedDays(s) <=> \E c \in Lives(s) : d \in c.signup..Ends(s)
    BY <1>1
  <2> QED  BY <1>3, <1>4, <2>1
<1>6. x \in Expected <=> \E s \in SubscribersKnown : \E d \in ExpectedDays(s) : x = DayFact(s, d)
  BY <1>2
<1> QED  BY <1>4, <1>5, <1>6 DEF Ends

(* A run writes exactly what the reference has of the days of its range.   *)
LEMMA GeneratedExact ==
    ASSUME MartsInv, SignupsUntied, dim # {},
           NEW first \in Int, NEW last \in Int, last <= Day(LastInstant), NEW x
    PROVE  x \in BySubscriber(Generated(first, last)) <=>
              x \in Expected /\ first <= x.day /\ x.day <= last
<1> DEFINE By(row) == [day |-> row.day, sub |-> row.sk[1], status |-> row.status, plan |-> row.plan]
<1>0. dim = DimRows(silver.changes, Subscribers(silver))
  BY DEF MartsInv, DimInv
<1>1. \A s, d : By(DayRow(s, d)) = DayFact(s, d) /\ DayFact(s, d).day = d
  BY DEF DayRow, DayFact
<1>2. x \in BySubscriber(Generated(first, last)) <=> \E row \in Generated(first, last) : x = By(row)
  BY DEF BySubscriber
<1> HIDE DEF By
<1>3. ASSUME x \in BySubscriber(Generated(first, last))
      PROVE  x \in Expected /\ first <= x.day /\ x.day <= last
  <2>1. PICK row \in Generated(first, last) : x = By(row)
    BY <1>2, <1>3
  <2>2. PICK r \in Roster(dim), d \in Days : InRange(r, d, first, last) /\ row = DayRow(r.sub, d)
    BY <1>0, <2>1, GeneratedIs
  <2>3. PICK c \in SignupEvents(silver.changes) : c.sub = r.sub /\ r.signup = c.signup
    BY <1>0, RosterIs
  <2>4. x = DayFact(c.sub, d) /\ x.day = d /\ d \in Int
    BY <1>1, <2>1, <2>2, <2>3, DaysAre DEF Days
  <2>5. c.signup <= d /\ d <= Min({Horizon, LastDay(c.sub)}) /\ first <= d /\ d <= last
    BY <2>2, <2>3 DEF InRange
  <2> QED  BY <2>4, <2>5, ExpectedIs
<1>4. ASSUME x \in Expected, first <= x.day, x.day <= last
      PROVE  x \in BySubscriber(Generated(first, last))
  <2>1. PICK c \in SignupEvents(silver.changes), d \in Int :
           c.signup <= d /\ d <= Min({Horizon, LastDay(c.sub)}) /\ x = DayFact(c.sub, d)
    BY <1>4, ExpectedIs
  <2>2. PICK r \in Roster(dim) : r.sub = c.sub /\ r.signup = c.signup
    BY <1>0, RosterHas
  <2>3. InRange(r, d, first, last)
    BY <1>1, <1>4, <2>1, <2>2 DEF InRange
  <2>4. DayRow(r.sub, d) \in Generated(first, last)
    BY <1>0, <2>3, GeneratedIs
  <2>5. x = By(DayRow(r.sub, d))
    BY <1>1, <2>1, <2>2
  <2> QED  BY <1>2, <2>4, <2>5
<1> QED  BY <1>3, <1>4

LEMMA ExpectedDaysTyped ==
    ASSUME MartsInv, NEW x \in Expected
    PROVE  x.day \in Nat /\ x.day <= Horizon
<1>1. PICK c \in SignupEvents(silver.changes), d \in Int :
         c.signup <= d /\ d <= Min({Horizon, LastDay(c.sub)}) /\ x = DayFact(c.sub, d)
  BY ExpectedIs
<1>2. x.day = d
  BY <1>1 DEF DayFact
<1>3. c.signup \in Nat
  BY SilverSignups, DaysAre DEF Days
<1>4. c.sub \in SubscribersKnown
  BY DEF SubscribersKnown, SignupEvents
<1>5. Horizon \in Int /\ LastDay(c.sub) \in Int
  BY <1>4, HorizonTyped, ChurnTyped, DaysAre DEF LastDay, Days
<1>6. Min({Horizon, LastDay(c.sub)}) \in Int /\ Min({Horizon, LastDay(c.sub)}) <= Horizon
  <2> DEFINE h == Horizon
             k == LastDay(c.sub)
  <2>1. h \in Int /\ k \in Int
    BY <1>5
  <2> HIDE DEF h, k
  <2>2. Min({h, k}) = IF h <= k THEN h ELSE k
    BY <2>1, OfTwo
  <2>3. Min({h, k}) \in Int /\ Min({h, k}) <= h
    BY <2>1, <2>2
  <2> QED  BY <2>3 DEF h, k
<1> QED  BY <1>1, <1>2, <1>3, <1>5, <1>6

(* A full refresh yields exactly the days of each subscriber's life with   *)
(* the status and plan then in force, whatever the table held before.      *)
THEOREM RefreshIsExact ==
    ASSUME SignupsUntied
    PROVE  MartsSpec => RefreshExact
<1>1. ASSUME MartsInv, RefreshSnapshot PROVE BySubscriber(snap') = Expected
  <2> DEFINE G == Generated(NoDay, Horizon)
  <2>1. snap' = G /\ dim # {}
    BY <1>1 DEF RefreshSnapshot, SnapshotBuilt
  <2>2. NoDay \in Int /\ NoDay < 0 /\ Horizon \in Int /\ Horizon <= Day(LastInstant)
    BY <1>1, HorizonTyped DEF NoDay
  <2>3. ASSUME NEW x PROVE x \in BySubscriber(G) <=> x \in Expected
    <3>1. x \in BySubscriber(G) <=> x \in Expected /\ NoDay <= x.day /\ x.day <= Horizon
      BY <1>1, <2>1, <2>2, GeneratedExact
    <3>2. x \in Expected => x.day \in Nat /\ x.day <= Horizon
      BY <1>1, ExpectedDaysTyped
    <3> QED  BY <2>2, <3>1, <3>2
  <2> HIDE DEF G
  <2>4. BySubscriber(G) = Expected
    BY <2>3, Zenon
  <2> QED  BY <2>1, <2>4
<1>2. MartsInv /\ [MartsNext]_vars => [RefreshSnapshot => BySubscriber(snap') = Expected]_vars
  BY <1>1
<1> QED  BY <1>2, MartsInvariant, PTL DEF MartsSpec, RefreshExact

(* After a normal run the days of the reprocess window and all later ones  *)
(* hold the true status and plan of every subscriber, whatever corrections *)
(* arrived since the days were first written.                              *)
THEOREM RecentDaysTrue ==
    ASSUME SignupsUntied
    PROVE  MartsSpec => RecentDaysCorrect
<1>1. ASSUME MartsInv, SnapInv, BuildSnapshot, NEW x \in Expected,
             \A d \in Written : d - x.day < ReprocessWindowDays
      PROVE  x \in BySubscriber(snap')
  <2>1. x.day \in Nat /\ x.day <= Horizon /\ dim # {}
    BY <1>1, ExpectedDaysTyped DEF BuildSnapshot, SnapshotBuilt
  <2>2. NoDay \in Int /\ NoDay < 0 /\ Horizon \in Int /\ Horizon <= Day(LastInstant)
    BY <1>1, HorizonTyped DEF NoDay
  <2>3. RangeStart(Written) \in Int /\ RangeStart(Written) <= x.day
    <3>1. CASE Written = {}
      BY <2>1, <2>2, <3>1 DEF RangeStart
    <3>2. CASE Written # {}
      <4>1. Max(Written) \in Written /\ Max(Written) \in Int
        BY <1>1, <3>2, StartTyped, DaysAre DEF Days
      <4>2. Max(Written) - x.day < ReprocessWindowDays
        BY <1>1, <4>1
      <4>3. RangeStart(Written) = Max(Written) - (ReprocessWindowDays - 1)
        BY <3>2 DEF RangeStart
      <4> QED  BY <2>1, <4>1, <4>2, <4>3, WindowAssumption
    <3> QED  BY <3>1, <3>2
  <2>4. PICK first \in Int : first <= x.day /\ Generated(first, Horizon) \subseteq snap'
    <3>1. CASE snapExists
      <4>1. snap' = MergeRows(snap, Generated(RangeStart(Written), Horizon))
        BY <1>1, <3>1 DEF BuildSnapshot, SnapshotBuilt
      <4> QED  BY <2>3, <4>1 DEF MergeRows
    <3>2. CASE ~ snapExists
      <4>1. snap' = Generated(NoDay, Horizon)
        BY <1>1, <3>2 DEF BuildSnapshot, SnapshotBuilt
      <4> QED  BY <2>1, <2>2, <4>1
    <3> QED  BY <3>1, <3>2
  <2>5. x \in BySubscriber(Generated(first, Horizon))
    BY <1>1, <2>1, <2>2, <2>4, GeneratedExact
  <2> QED  BY <2>4, <2>5 DEF BySubscriber
<1>2. StoredInv /\ [MartsNext]_vars =>
         [BuildSnapshot => \A x \in Expected :
             (\A d \in Written : d - x.day < ReprocessWindowDays) => x \in BySubscriber(snap')]_vars
  BY <1>1 DEF StoredInv
<1> QED  BY <1>2, StoredInvariant, PTL DEF MartsSpec, RecentDaysCorrect

(***************************************************************************)
(* No day left out.  The days of a subscriber that never churned form an   *)
(* interval that reaches the day before the next run starts from, so the   *)
(* next run joins on to it, however far the horizon moved, and even when   *)
(* a correction moved it back.                                             *)
(***************************************************************************)
Interval(D) == \A d1, d2 \in D : d1..d2 \subseteq D

(* D2 is D with the days up to h since both g and b.                       *)
Extends(D2, D, g, b, h) ==
    /\ D \in SUBSET Int /\ D2 # {} /\ \A d \in D : g <= d
    /\ \A d : d \in D2 <=> d \in D \/ (d \in Int /\ g <= d /\ b <= d /\ d <= h)

(* The days D of one that signed up on day g join on to a run that starts  *)
(* on day b.                                                               *)
JoinsOn(D, g, b) ==
    Interval(D) /\ (\E d \in D : b - 1 <= d) /\ \E d \in D : d <= g \/ d <= b

(* The next start, b2, moves with the days written.                        *)
StartMoves(D, g, b, h, b2) ==
    /\ b <= b2 \/ (b <= g /\ D = {})
    /\ b2 <= b \/ (b2 - 1 <= h /\ b <= h /\ \A d \in D : d <= h)

LEMMA NoGap ==
    ASSUME NEW D, NEW D2, NEW g \in Int, NEW b \in Int, NEW h \in Int, NEW b2 \in Int,
           Extends(D2, D, g, b, h), D = {} \/ JoinsOn(D, g, b), StartMoves(D, g, b, h, b2)
    PROVE  JoinsOn(D2, g, b2)
<1> USE DEF Extends, JoinsOn, StartMoves
<1>0. D2 \in SUBSET Int
  OBVIOUS
<1>1. ASSUME NEW d1 \in D2, NEW d2 \in D2, NEW k \in d1..d2 PROVE k \in D2
  <2>0. d1 \in Int /\ d2 \in Int /\ k \in Int /\ d1 <= k /\ k <= d2
    BY <1>0
  <2>1. CASE d1 \in D /\ d2 \in D
    <3>1. k \in D
      BY <2>1 DEF Interval
    <3> QED  BY <3>1
  <2>2. CASE d1 \notin D /\ d2 \notin D
    BY <2>0, <2>2
  <2>3. CASE d1 \in D /\ d2 \notin D
    <3>1. g <= k /\ k <= h
      BY <2>0, <2>3
    <3>2. CASE b <= k
      BY <2>0, <3>1, <3>2
    <3>3. CASE k < b
      <4>1. PICK d \in D : b - 1 <= d
        BY <2>3
      <4>2. k \in d1..d
        BY <2>0, <3>3, <4>1
      <4>3. k \in D
        BY <2>3, <4>1, <4>2 DEF Interval
      <4> QED  BY <4>3
    <3> QED  BY <2>0, <3>2, <3>3
  <2>4. CASE d1 \notin D /\ d2 \in D
    <3>1. g <= k /\ b <= k
      BY <2>0, <2>4
    <3>2. PICK d \in D : d <= g \/ d <= b
      BY <2>4
    <3>3. k \in d..d2
      BY <2>0, <3>1, <3>2
    <3>4. k \in D
      BY <2>4, <3>2, <3>3 DEF Interval
    <3> QED  BY <3>4
  <2> QED  BY <2>1, <2>2, <2>3, <2>4
<1>2. PICK e \in D2 : TRUE
  OBVIOUS
<1>3. CASE D = {}
  <2>1. g <= h /\ b <= h /\ h \in D2 /\ (g <= b => b \in D2) /\ (b <= g => g \in D2)
    BY <1>2, <1>3
  <2>2. b2 - 1 <= h
    BY <2>1
  <2> QED  BY <1>1, <1>3, <2>1, <2>2 DEF Interval
<1>4. CASE D # {}
  <2>1. PICK u \in D : b - 1 <= u
    BY <1>4
  <2>2. PICK a \in D : a <= g \/ a <= b
    BY <1>4
  <2>3. \E d \in D2 : b2 - 1 <= d
    <3>1. CASE b2 <= b
      BY <2>1, <3>1
    <3>2. CASE b2 - 1 <= h /\ b <= h /\ \A d \in D : d <= h
      <4>1. g <= u /\ u <= h /\ g \in Int /\ u \in Int
        BY <2>1, <3>2
      <4>2. h \in D2
        BY <3>2, <4>1
      <4> QED  BY <3>2, <4>2
    <3> QED  BY <3>1, <3>2
  <2>4. a \in D2 /\ (a <= g \/ a <= b2)
    BY <1>4, <2>2
  <2> QED  BY <1>1, <2>3, <2>4 DEF Interval
<1> QED  BY <1>3, <1>4

(* Silver forgets nothing: of each event it keeps a copy.                  *)
SameChange(c, d) ==
    d.sub = c.sub /\ d.type = c.type /\ d.signup = c.signup /\ d.status = c.status

LEMMA SilverGrows ==
    ASSUME MartsInv, [MartsNext]_vars, NEW c \in silver.changes
    PROVE  \E d \in silver'.changes : SameChange(c, d)
<1>1. CASE UNCHANGED silver
  BY <1>1 DEF SameChange
<1>2. CASE BuildDim
  <2>0. /\ feed \in Feeds /\ batch \in Nat /\ c \in bronze.changes /\ bronze.changes \subseteq ChangesSent
        /\ OnePerId(feed.changes)
    BY FeedFacts DEF MartsInv, FeedInv, BronzeInv, SilverInv
  <2>1. \A r \in bronze.changes : \E e \in feed.changes :
           /\ r.id = e.id /\ r.sub = e.sub /\ r.type = e.type /\ r.signup = e.signup
           /\ r.status = e.status /\ r.batch \in 1..batch
    BY <2>0 DEF ChangesSent, InBatch
  <2> DEFINE T == {r.batch : r \in {q \in bronze.changes : q.id = c.id}}
  <2>2. T \in SUBSET Int /\ T # {} /\ \A x \in T : x <= batch
    BY <2>0, <2>1
  <2> HIDE DEF T
  <2>3. Max(T) \in T /\ \A x \in T : x <= Max(T)
    BY <2>0, <2>2, GreatestUpto
  <2> USE DEF T
  <2>4. PICK d \in bronze.changes : d.id = c.id /\ \A q \in bronze.changes : q.id = c.id => q.batch <= d.batch
    BY <2>3
  <2>5. d \in silver'.changes
    BY <1>2, <2>4 DEF BuildDim, NewestCopies
  <2>6. PICK e \in feed.changes : /\ c.id = e.id /\ c.sub = e.sub /\ c.type = e.type
                                  /\ c.signup = e.signup /\ c.status = e.status
    BY <2>0, <2>1
  <2>7. PICK h \in feed.changes : /\ d.id = h.id /\ d.sub = h.sub /\ d.type = h.type
                                  /\ d.signup = h.signup /\ d.status = h.status
    BY <2>1, <2>4
  <2>8. e = h
    BY <2>0, <2>4, <2>6, <2>7 DEF OnePerId
  <2> QED  BY <2>5, <2>6, <2>7, <2>8 DEF SameChange
<1> QED
  BY <1>1, <1>2 DEF MartsNext, DeliverChange, DeliverActivity, DeliverTitle, NextBatch, MergeFact,
     RefreshFact, BuildSnapshot, BackfillSnapshot, RefreshSnapshot, SnapshotBuilt, vars, tables

(* What holds of the days of each subscriber that never churned, as long   *)
(* as nothing was backfilled or refreshed.                                 *)
SignedUp(s, g) == \E c \in SignupEvents(silver.changes) : c.sub = s /\ c.signup = g
Unbroken(s, g) ==
    /\ SignedUp(s, g) /\ \A d \in DaysOf(s) : g <= d
    /\ JoinsOn(DaysOf(s), g, RangeStart(Written))
GapInv ==
    manual = 0 =>
        \A s : NeverChurned(s) /\ DaysOf(s) # {} => \E g \in Days : Unbroken(s, g)

LEMMA NeverChurnedLasts ==
    ASSUME MartsInv, NEW s, NeverChurned(s)
    PROVE  LastDay(s) = Horizon \/ s \notin SubscribersKnown
<1>1. ASSUME s \in SubscribersKnown PROVE ~ IsChurned(s)
  <2>1. PICK c \in silver.changes : c.sub = s
    BY <1>1 DEF SubscribersKnown
  <2>2. ChangeRows(silver.changes) /\ LastInstant \in Instants /\ c.at <= LastInstant
    BY <2>1, SilverRows, InstantsAre DEF ChangeRows
  <2>3. Past(s, LastInstant) # {}
    BY <2>1, <2>2 DEF Past
  <2>4. LastChange(s, LastInstant) \in Past(s, LastInstant)
    BY <2>2, <2>3, StateAt
  <2>5. GoldStatus(LastChange(s, LastInstant).status) # "churned"
    BY <2>4 DEF Past, NeverChurned
  <2> QED  BY <2>5 DEF IsChurned, StatusAt
<1> QED  BY <1>1 DEF LastDay

(* The days a run generates for such a subscriber.                         *)
LEMMA DaysGenerated ==
    ASSUME MartsInv, SignupsUntied, dim # {}, NEW s, NeverChurned(s), NEW first \in Int
    PROVE  \A d : (\E row \in Generated(first, Horizon) : row.sk[1] = s /\ row.day = d) <=>
                  \E g \in Days : SignedUp(s, g) /\ d \in Int /\ g <= d /\ first <= d /\ d <= Horizon
<1>0. dim = DimRows(silver.changes, Subscribers(silver))
  BY DEF MartsInv, DimInv
<1>1. Horizon \in Int /\ Horizon <= Day(LastInstant)
  BY HorizonTyped
<1>2. \A g : SignedUp(s, g) => g \in Days /\ s \in SubscribersKnown
  BY SilverSignups DEF SignedUp, SignupEvents, SubscribersKnown
<1>3. ASSUME s \in SubscribersKnown PROVE Min({Horizon, LastDay(s)}) = Horizon
  <2> DEFINE h == Horizon
  <2>1. LastDay(s) = h
    BY <1>3, NeverChurnedLasts
  <2>2. h \in Int
    BY <1>1
  <2> HIDE DEF h
  <2>3. Min({h, h}) = h
    BY <2>2, OfTwo
  <2> QED  BY <2>1, <2>3 DEF h
<1>4. ASSUME NEW row \in Generated(first, Horizon), row.sk[1] = s
      PROVE  \E g \in Days : SignedUp(s, g) /\ row.day \in Int /\ g <= row.day /\ first <= row.day
                             /\ row.day <= Horizon
  <2>1. PICK r \in Roster(dim), d \in Days : InRange(r, d, first, Horizon) /\ row = DayRow(r.sub, d)
    BY <1>0, <1>1, GeneratedIs
  <2>2. row.day = d /\ r.sub = s /\ d \in Int
    BY <1>4, <2>1, DaysAre DEF DayRow, Days
  <2>3. SignedUp(s, r.signup)
    BY <1>0, <2>2, RosterIs DEF SignedUp
  <2> QED  BY <1>2, <2>1, <2>2, <2>3 DEF InRange
<1>5. ASSUME NEW g \in Days, SignedUp(s, g), NEW d \in Int, g <= d, first <= d, d <= Horizon
      PROVE  \E row \in Generated(first, Horizon) : row.sk[1] = s /\ row.day = d
  <2>1. PICK c \in SignupEvents(silver.changes) : c.sub = s /\ c.signup = g
    BY <1>5 DEF SignedUp
  <2>2. PICK r \in Roster(dim) : r.sub = s /\ r.signup = g
    BY <1>0, <2>1, RosterHas
  <2>3. InRange(r, d, first, Horizon)
    BY <1>2, <1>3, <1>5, <2>2 DEF InRange
  <2>4. DayRow(r.sub, d) \in Generated(first, Horizon)
    BY <1>0, <1>1, <2>3, GeneratedIs
  <2>5. DayRow(r.sub, d).sk[1] = s /\ DayRow(r.sub, d).day = d
    BY <2>2 DEF DayRow
  <2> QED  BY <2>4, <2>5
<1> QED  BY <1>4, <1>5

LEMMA GapBuild ==
    ASSUME MartsInv, SnapInv, GapInv, SignupsUntied, BuildSnapshot, manual = 0,
           NEW s, NeverChurned(s), DaysOf(s)' # {}
    PROVE  \E g \in Days : Unbroken(s, g)'
<1> DEFINE b == RangeStart(Written)
           h == Horizon
           G == Generated(b, h)
           D == DaysOf(s)
           D2 == DaysOf(s)'
           W2 == Written'
           b2 == RangeStart(W2)
<1>0. dim # {} /\ silver' = silver /\ snap' = MergeRows(snap, G)
  <2>1. CASE snapExists
    BY <2>1 DEF BuildSnapshot, SnapshotBuilt
  <2>2. CASE ~ snapExists
    <3>1. snap = {} /\ Written = {} /\ b = NoDay
      BY <2>2 DEF SnapInv, Written, RangeStart
    <3>2. snap' = Generated(NoDay, Horizon) /\ dim # {} /\ silver' = silver
      BY <2>2 DEF BuildSnapshot, SnapshotBuilt
    <3>3. snap' = G
      BY <3>1, <3>2
    <3> HIDE DEF G
    <3> QED  BY <3>1, <3>2, <3>3 DEF MergeRows
  <2> QED  BY <2>1, <2>2
<1>1. b \in Int /\ h \in Int /\ h <= Day(LastInstant)
  BY StartTyped, HorizonTyped
<1>2. \A row \in G : row.day \in Days /\ b <= row.day /\ row.day <= h
  <2>1. dim = DimRows(silver.changes, Subscribers(silver))
    BY <1>0 DEF MartsInv, DimInv
  <2> SUFFICES ASSUME NEW row \in G PROVE row.day \in Days /\ b <= row.day /\ row.day <= h
    OBVIOUS
  <2>2. PICK r \in Roster(dim), d \in Days : InRange(r, d, b, h) /\ row = DayRow(r.sub, d)
    BY <1>1, <2>1, GeneratedIs
  <2> QED  BY <2>2 DEF InRange, DayRow
<1>3. \A d : (\E row \in G : row.sk[1] = s /\ row.day = d) <=>
             \E g \in Days : SignedUp(s, g) /\ d \in Int /\ g <= d /\ b <= d /\ d <= h
  BY <1>0, <1>1, DaysGenerated
<1> HIDE DEF G
<1>4. ASSUME NEW d PROVE d \in D2 <=> d \in D \/ \E row \in G : row.sk[1] = s /\ row.day = d
  <2>1. D2 = {r.day : r \in {q \in MergeRows(snap, G) : q.sk[1] = s}}
    BY <1>0 DEF DaysOf
  <2>2. D = {r.day : r \in {q \in snap : q.sk[1] = s}}
    BY DEF DaysOf
  <2> HIDE DEF D, D2
  <2> QED  BY <2>1, <2>2 DEF MergeRows, SameKey
<1>5. ASSUME NEW d PROVE d \in W2 <=> d \in Written \/ \E row \in G : row.day = d
  <2>1. W2 = {r.day : r \in MergeRows(snap, G)}
    BY <1>0 DEF Written
  <2>2. Written = {r.day : r \in snap}
    BY DEF Written
  <2> HIDE DEF W2
  <2> QED  BY <2>1, <2>2 DEF MergeRows, SameKey
<1>6. D \subseteq Written /\ D2 \subseteq W2 /\ D2 # {} /\ Written \subseteq Days
      /\ \A d \in Days : d \in Nat /\ d \in Int /\ d <= Day(LastInstant)
  <2>1. D \subseteq Written /\ D2 \subseteq W2
    BY DEF DaysOf, Written
  <2>2. Written \subseteq Days
    BY DEF SnapInv, DatedRows, Written
  <2> QED  BY <2>1, <2>2, DaysAre DEF Days
<1> HIDE DEF D2, W2
<1>7. W2 \subseteq Days /\ W2 \in SUBSET Int
  <2>1. ASSUME NEW d \in W2 PROVE d \in Days
    BY <1>2, <1>5, <1>6
  <2> QED  BY <1>6, <2>1
<1>8. Max(W2) \in W2 /\ \A x \in W2 : x <= Max(W2)
  <2>1. W2 # {}
    BY <1>6
  <2>2. Day(LastInstant) \in Int
    BY DaysAre
  <2>3. ASSUME NEW x \in W2 PROVE x <= Day(LastInstant)
    BY <1>6, <1>7
  <2> QED  BY <1>7, <2>1, <2>2, <2>3, GreatestUpto
<1>9. b2 = Max(W2) - (ReprocessWindowDays - 1) /\ Max(W2) \in Int /\ b2 \in Int
  <2>1. W2 # {}
    BY <1>6
  <2>2. b2 = Max(W2) - (ReprocessWindowDays - 1)
    BY <2>1 DEF RangeStart
  <2>3. Max(W2) \in Int
    BY <1>7, <1>8
  <2> HIDE DEF b2
  <2> QED  BY <2>2, <2>3, WindowAssumption
<1>10. PICK g \in Days : SignedUp(s, g) /\ (D = {} \/ Unbroken(s, g))
  <2>1. CASE D = {}
    BY <1>3, <1>4, <1>6, <2>1
  <2>2. CASE D # {}
    BY <2>2 DEF GapInv, Unbroken
  <2> QED  BY <2>1, <2>2
<1>11. \A x : SignedUp(s, x) => x = g
  BY <1>10, SilverSignups DEF SignedUp
<1>12. \A d : d \in D2 <=> d \in D \/ (d \in Int /\ g <= d /\ b <= d /\ d <= h)
  BY <1>3, <1>4, <1>10, <1>11
<1>13. (\A d \in D : g <= d) /\ (D = {} \/ JoinsOn(D, g, b))
  BY <1>10 DEF Unbroken
<1>14. /\ b <= b2 \/ (b <= g /\ D = {})
       /\ b2 <= b \/ (b2 - 1 <= h /\ b <= h /\ \A d \in D : d <= h)
  <2>1. Max(W2) \notin Written => b <= Max(W2) /\ Max(W2) <= h
    BY <1>2, <1>5, <1>8
  <2>2. CASE Written = {}
    <3>1. b = NoDay /\ NoDay \in Int /\ NoDay < 0 /\ g \in Nat
      BY <1>6, <2>2 DEF RangeStart, NoDay
    <3>2. D = {}
      BY <1>6, <2>2
    <3>3. b <= Max(W2) /\ Max(W2) <= h
      BY <2>1, <2>2
    <3> HIDE DEF b, b2, h, D
    <3>4. b2 - 1 <= h
      BY <1>1, <1>9, <3>3, WindowAssumption
    <3>5. b <= g /\ b <= h
      BY <1>1, <1>9, <3>1, <3>3
    <3>6. \A d \in D : d <= h
      BY <3>2
    <3> QED  BY <3>2, <3>4, <3>5, <3>6
  <2>3. CASE Written # {}
    <3> DEFINE m == Max(Written)
               n == Max(W2)
    <3>0. b = m - (ReprocessWindowDays - 1)
      BY <2>3 DEF RangeStart
    <3>A. m \in Written /\ m \in Int /\ \A d \in Written : d <= m
      <4> HIDE DEF b
      <4> QED  BY <2>3, <1>6, StartTyped
    <3>1. m \in Written /\ m \in Int /\ b = m - (ReprocessWindowDays - 1) /\ \A d \in Written : d <= m
      BY <3>0, <3>A
    <3>2. m <= n /\ n \in Int
      BY <1>5, <1>8, <1>9, <3>1
    <3>3. n \in Written => n <= m
      BY <3>1
    <3>4. n \notin Written => b <= n /\ n <= h
      BY <2>1
    <3>5. b2 = n - (ReprocessWindowDays - 1)
      BY <1>9
    <3>6. \A d \in D : d <= m /\ d \in Int
      <4> HIDE DEF D, b, m
      <4> QED  BY <1>6, <3>1
    <3> HIDE DEF b, b2, h, D, m, n
    <3>7. b <= b2
      BY <3>1, <3>2, <3>5, WindowAssumption
    <3>8. CASE n \in Written
      <4>1. b2 <= b
        BY <3>1, <3>2, <3>3, <3>5, <3>8, WindowAssumption
      <4> QED  BY <3>7, <4>1
    <3>9. CASE n \notin Written
      <4>1. b2 - 1 <= h /\ b <= h
        BY <1>1, <3>2, <3>4, <3>5, <3>9, WindowAssumption
      <4>2. \A d \in D : d <= h
        BY <1>1, <3>1, <3>2, <3>4, <3>6, <3>9
      <4> QED  BY <3>7, <4>1, <4>2
    <3> QED  BY <3>8, <3>9
  <2> QED  BY <2>2, <2>3
<1>15. D \in SUBSET Int /\ g \in Int
  <2> HIDE DEF D
  <2>1. ASSUME NEW d \in D PROVE d \in Int
    BY <1>6
  <2> QED  BY <1>6, <2>1
<1> HIDE DEF b, h, D, b2
<1>16. JoinsOn(D2, g, b2)
  <2>1. Extends(D2, D, g, b, h)
    BY <1>6, <1>12, <1>13, <1>15 DEF Extends
  <2>2. StartMoves(D, g, b, h, b2)
    BY <1>14 DEF StartMoves
  <2> QED  BY <1>1, <1>9, <1>13, <1>15, <2>1, <2>2, NoGap
<1>17. \A d \in D2 : g <= d
  BY <1>12, <1>13
<1>18. SignedUp(s, g)'
  BY <1>0, <1>10 DEF SignedUp
<1>19. Unbroken(s, g)'
  BY <1>16, <1>17, <1>18 DEF Unbroken, JoinsOn, D2, b2, W2, Interval, RangeStart
<1> QED  BY <1>19

LEMMA GapStep ==
    ASSUME SignupsUntied
    PROVE  MartsInv /\ SnapInv /\ GapInv /\ [MartsNext]_vars => GapInv'
<1> SUFFICES ASSUME MartsInv, SnapInv, GapInv, [MartsNext]_vars, manual' = 0, NEW s,
                    NeverChurned(s)', DaysOf(s)' # {}
             PROVE  \E g \in Days : Unbroken(s, g)'
  BY DEF GapInv
<1>1. manual = 0
  <2>1. manual' = manual \/ manual' = manual + 1
    BY DEF MartsNext, DeliverChange, DeliverActivity, DeliverTitle, NextBatch, BuildDim, MergeFact,
       RefreshFact, BuildSnapshot, BackfillSnapshot, RefreshSnapshot, SnapshotBuilt, Manual, vars, tables
  <2> QED  BY <2>1, MartsBounds DEF SnapInv
<1>2. NeverChurned(s)
  BY SilverGrows DEF NeverChurned, SameChange
<1>3. CASE UNCHANGED snap
  <2>1. DaysOf(s)' = DaysOf(s) /\ RangeStart(Written)' = RangeStart(Written)
    BY <1>3 DEF DaysOf, Written, RangeStart
  <2>2. PICK g \in Days : Unbroken(s, g)
    BY <1>1, <1>2, <2>1 DEF GapInv
  <2>3. SignedUp(s, g)'
    BY <2>2, SilverGrows DEF Unbroken, SignedUp, SignupEvents, SameChange
  <2>4. Unbroken(s, g)'
    BY <2>1, <2>2, <2>3 DEF Unbroken
  <2> QED  BY <2>4
<1>4. CASE BuildSnapshot
  BY <1>1, <1>2, <1>4, GapBuild
<1>5. CASE Manual
  BY <1>1, <1>5 DEF Manual
<1> QED
  BY <1>3, <1>4, <1>5 DEF MartsNext, DeliverChange, DeliverActivity, DeliverTitle, NextBatch, BuildDim,
     MergeFact, RefreshFact, BackfillSnapshot, RefreshSnapshot, vars, tables

(* A second row for a subscriber's day only comes from a correction of     *)
(* what was known of that day, and normal runs leave no day out between    *)
(* two of a subscriber that never churned.                                 *)
THEOREM SnapshotGrain ==
    ASSUME SignupsUntied
    PROVE  MartsSpec => []SnapshotGrainKept
<1>1. MartsInit => GapInv
  <2>1. ASSUME MartsInit, NEW s PROVE DaysOf(s) = {}
    BY <2>1 DEF MartsInit, DaysOf
  <2> QED  BY <2>1 DEF GapInv
<1>2. StoredInv /\ GapInv /\ [MartsNext]_vars => StoredInv' /\ GapInv'
  BY MartsStep, FactStep, SnapStep, GapStep DEF StoredInv
<1>3. MartsInit => StoredInv
  BY MartsInitially, FactInitially, SnapInitially DEF StoredInv
<1>4. ASSUME StoredInv, GapInv PROVE SnapshotGrainKept
  <2>1. ASSUME NEW r \in snap, NEW q \in snap, r.day = q.day, r.sk[1] = q.sk[1], r.seen = q.seen
        PROVE  r = q
    <3>1. r.sk = << r.sk[1], LastTurn(r.seen) >> /\ q.sk = << q.sk[1], LastTurn(q.seen) >>
      BY <1>4 DEF StoredInv, SnapInv, DatedRows
    <3>2. r.sk = q.sk
      BY <2>1, <3>1
    <3> QED  BY <1>4, <2>1, <3>2 DEF StoredInv, SnapInv, UniqueRows, SameKey
  <2>2. ASSUME manual = 0, NEW s, NeverChurned(s), NEW d1 \in DaysOf(s), NEW d2 \in DaysOf(s)
        PROVE  d1..d2 \subseteq DaysOf(s)
    <3>1. PICK g \in Days : Unbroken(s, g)
      BY <1>4, <2>2 DEF GapInv
    <3> QED  BY <3>1 DEF Unbroken, JoinsOn, Interval
  <2> QED  BY <2>1, <2>2 DEF SnapshotGrainKept
<1> QED  BY <1>1, <1>2, <1>3, <1>4, PTL DEF MartsSpec
=============================================================================
