----------------------- MODULE IncrementalFacts_proofs -----------------------
(***************************************************************************)
(* The safety of the incremental facts and of the ingestion below them,    *)
(* for every set of entities, files and rows, every scenario, and any      *)
(* interleaving of ingestion, failures, builds, backfills and refreshes.   *)
(***************************************************************************)
EXTENDS IncrementalFacts, Ingestion_proofs, FiniteSetTheorems

(***************************************************************************)
(* The quality gate.                                                       *)
(***************************************************************************)
Session == [started : Int, ended : Int, duration : Int]

(* The predicate and its three parts split the sessions: a malformed one   *)
(* is rejected for exactly one reason, a sane one for none.                *)
LEMMA GatePartition ==
    ASSUME NEW s \in Session, NEW t \in Int
    PROVE  /\ Malformed(s, t) <=> \E reason \in RejectionReasons : RejectedFor(reason, s, t)
           /\ \A x, y \in RejectionReasons :
                RejectedFor(x, s, t) /\ RejectedFor(y, s, t) => x = y
BY DEF Session, Malformed, RejectionReasons, RejectedFor, NegativeDuration,
       EndedBeforeStarted, FutureTimestamp

(***************************************************************************)
(* Bronze rows.                                                            *)
(***************************************************************************)
LEMMA BronzeRow ==
    ASSUME TypeOK, NEW e, NEW r \in BronzeRows(e)
    PROVE  /\ r \in Row /\ r.file \in FilesOf(e) /\ r.id \in IdsIn[r.file]
           /\ r.copy \in 1..Len(bronze[r.file])
           /\ IngestedAt(r) \in Nat
           /\ IngestedAt(r) \in Stamps(r.file)
<1>1. PICK f \in FilesOf(e) :
          r \in [id : IdsIn[f], file : {f}, copy : 1..Len(bronze[f])]
  BY DEF BronzeRows
<1>2. f \in Files /\ IdsIn[f] \subseteq Ids /\ bronze[f] \in Seq(Nat)
  BY IdsInAssumption DEF FilesOf, TypeOK
<1>3. r.file = f /\ r.id \in IdsIn[f] /\ r.copy \in 1..Len(bronze[f])
  BY <1>1
<1>4. Len(bronze[f]) \in Nat /\ bronze[f][r.copy] \in Nat
  BY <1>2, <1>3, ElementOfSeq, LenProperties
<1>5. r \in Row
  BY <1>1, <1>2, <1>4 DEF Row
<1> QED  BY <1>2, <1>3, <1>4, <1>5 DEF IngestedAt, Stamps

(* The gate can judge every row.                                           *)
LEMMA JudgedRow ==
    ASSUME TypeOK, NEW e, NEW r \in BronzeRows(e)
    PROVE  SessionOf[r.id] \in Session /\ IngestedAt(r) \in Int
BY BronzeRow, PolicyAssumption DEF Session, Row

(* A batch delivers finitely many rows.                                    *)
LEMMA FiniteImage ==
    ASSUME NEW S, NEW T, IsFiniteSet(S), NEW f \in [S -> T], \A t \in T : \E x \in S : f[x] = t
    PROVE  IsFiniteSet(T)
<1>1. f \in Surjection(S, T)
  BY DEF Surjection
<1> QED  BY <1>1, FS_Surjection

LEMMA BronzeFinite ==
    ASSUME TypeOK, NEW e
    PROVE  IsFiniteSet(BronzeRows(e))
<1> DEFINE RowsOf(f) == [id : IdsIn[f], file : {f}, copy : 1..Len(bronze[f])]
           All == {RowsOf(f) : f \in FilesOf(e)}
<1>1. ASSUME NEW f \in FilesOf(e) PROVE IsFiniteSet(RowsOf(f))
  <2> DEFINE Pairs == IdsIn[f] \X (1..Len(bronze[f]))
             row == [p \in Pairs |-> [id |-> p[1], file |-> f, copy |-> p[2]]]
  <2>1. IdsIn[f] \in SUBSET Ids /\ IsFiniteSet(Ids) /\ Len(bronze[f]) \in Nat
    BY IdsInAssumption, LoadedLen DEF FilesOf
  <2>2. IsFiniteSet(IdsIn[f])
    BY <2>1, FS_Subset
  <2>3. IsFiniteSet(1..Len(bronze[f]))
    BY <2>1, FS_Interval
  <2>4. IsFiniteSet(Pairs)
    BY <2>2, <2>3, FS_Product
  <2>5. row \in [Pairs -> RowsOf(f)]
    OBVIOUS
  <2>6. ASSUME NEW r \in RowsOf(f) PROVE \E p \in Pairs : row[p] = r
    <3>1. << r.id, r.copy >> \in Pairs
      OBVIOUS
    <3>2. row[<< r.id, r.copy >>] = r
      BY <3>1
    <3> QED  BY <3>1, <3>2
  <2> HIDE DEF Pairs, row, RowsOf
  <2> QED  BY <2>4, <2>5, <2>6, FiniteImage
<1>2. IsFiniteSet(FilesOf(e))
  BY IdsInAssumption, FS_Subset DEF FilesOf
<1>3. IsFiniteSet(All)
  <2> DEFINE g == [f \in FilesOf(e) |-> RowsOf(f)]
  <2>1. g \in [FilesOf(e) -> All] /\ \A t \in All : \E f \in FilesOf(e) : g[f] = t
    OBVIOUS
  <2> HIDE DEF g, All
  <2> QED  BY <1>2, <2>1, FiniteImage
<1>4. \A t \in All : IsFiniteSet(t)
  BY <1>1
<1>5. BronzeRows(e) = UNION All
  BY DEF BronzeRows
<1> HIDE DEF All
<1> QED  BY <1>3, <1>4, <1>5, FS_UNION

(* A row once delivered stays, with its stamp.                             *)
LEMMA RowsStay ==
    ASSUME TypeOK, Next \/ UNCHANGED bronze, NEW e, NEW r \in BronzeRows(e)
    PROVE  r \in BronzeRows(e)' /\ IngestedAt(r)' = IngestedAt(r)
<1>1. ASSUME NEW f \in Files
      PROVE  /\ Len(bronze[f]) \in Nat /\ Len(bronze'[f]) \in Nat
             /\ Len(bronze[f]) <= Len(bronze'[f])
             /\ \A i \in 1..Len(bronze[f]) : bronze'[f][i] = bronze[f][i]
  <2>1. Len(bronze[f]) \in Nat
    BY LoadedLen
  <2>2. CASE UNCHANGED bronze
    BY <2>1, <2>2
  <2>3. ASSUME NEW d \in Entities, LoadJob(d) \/ MidCommit(d)
        PROVE  /\ Len(bronze'[f]) \in Nat /\ Len(bronze[f]) <= Len(bronze'[f])
               /\ \A i \in 1..Len(bronze[f]) : bronze'[f][i] = bronze[f][i]
    <3>1. bronze' = Appended(d)
      BY <2>3, JobStep
    <3> QED  BY <2>1, <3>1, AppendedIs
  <2>4. CASE Next
    <3>1. UNCHANGED bronze \/ \E d \in Entities : LoadJob(d) \/ MidCommit(d)
      BY <2>4 DEF Next, RunStep, Failure, DropFile, Start, Extract, EndExtract, EndLoad,
                  Crash, LoseDir
    <3> QED  BY <2>1, <2>2, <2>3, <3>1
  <2> QED  BY <2>1, <2>2, <2>4
<1>2. PICK f \in FilesOf(e) :
          r \in [id : IdsIn[f], file : {f}, copy : 1..Len(bronze[f])]
  BY DEF BronzeRows
<1>3. f \in Files /\ r.file = f /\ r.copy \in 1..Len(bronze[f])
  BY <1>2 DEF FilesOf
<1>4. r \in [id : IdsIn[f], file : {f}, copy : 1..Len(bronze'[f])]
  BY <1>1, <1>2, <1>3
<1> QED  BY <1>1, <1>2, <1>3, <1>4 DEF BronzeRows, IngestedAt, FilesOf

(* Bounded naturals have a largest one.                                    *)
LEMMA LargestStamp ==
    ASSUME NEW n \in Nat, NEW S \in SUBSET (0..n), S # {}
    PROVE  \E m \in S : \A k \in S : k <= m
<1> DEFINE T == {k \in Nat : n - k \in S}
<1>1. PICK x \in S : TRUE
  OBVIOUS
<1>2. T \subseteq Nat /\ n - x \in T
  BY <1>1
<1>3. PICK m \in T : \A y \in T : ~ (<< y, m >> \in OpToRel(<, Nat))
  BY <1>2, NatLessThanWellFounded, WFMin
<1>4. \A y \in T : ~ (y < m)
  BY <1>3 DEF OpToRel
<1>5. n - m \in S /\ m \in Nat
  OBVIOUS
<1>6. ASSUME NEW k \in S PROVE k <= n - m
  <2>1. n - k \in T /\ k \in Int
    OBVIOUS
  <2> HIDE DEF T
  <2>2. ~ (n - k < m)
    BY <2>1, <1>4
  <2> QED  BY <1>5, <2>1, <2>2
<1> QED  BY <1>5, <1>6

(* Of the deliveries of a key one is the newest.                           *)
LEMMA NewestDelivery ==
    ASSUME IngestInv, NEW e, NEW q \in BronzeRows(e)
    PROVE  \E r \in BronzeRows(e) :
              /\ r.id = q.id
              /\ \A s \in BronzeRows(e) : s.id = q.id => IngestedAt(s) <= IngestedAt(r)
<1> DEFINE Deliveries == {s \in BronzeRows(e) : s.id = q.id}
           Times == {IngestedAt(s) : s \in Deliveries}
<1>1. TypeOK /\ ClockInv /\ clock \in Nat
  BY DEF IngestInv, TypeOK
<1>2. ASSUME NEW s \in BronzeRows(e) PROVE IngestedAt(s) \in 0..clock
  <2>1. IngestedAt(s) \in Nat /\ IngestedAt(s) \in Stamps(s.file) /\ s.file \in Files
    BY <1>1, BronzeRow DEF FilesOf
  <2>2. IngestedAt(s) < clock
    BY <1>1, <2>1 DEF ClockInv
  <2> QED  BY <1>1, <2>1, <2>2
<1>3. Times \in SUBSET (0..clock) /\ Times # {}
  BY <1>2
<1>4. PICK m \in Times : \A k \in Times : k <= m
  <2> HIDE DEF Times
  <2> QED  BY <1>1, <1>3, LargestStamp
<1>5. PICK r \in Deliveries : m = IngestedAt(r)
  BY <1>4
<1> QED  BY <1>4, <1>5

(***************************************************************************)
(* Silver.                                                                 *)
(***************************************************************************)
(* The row a deduplicated model keeps of a key.                            *)
Kept(e, i) ==
    CHOOSE r \in BronzeRows(e) :
        /\ r.id = i
        /\ \A s \in BronzeRows(e) : s.id = i => IngestedAt(s) <= IngestedAt(r)

LEMMA KeptIs ==
    ASSUME IngestInv, NEW e, NEW q \in BronzeRows(e)
    PROVE  /\ Kept(e, q.id) \in BronzeRows(e) /\ Kept(e, q.id).id = q.id
           /\ \A s \in BronzeRows(e) : s.id = q.id => IngestedAt(s) <= IngestedAt(Kept(e, q.id))
BY NewestDelivery DEF Kept

(* What a rebuild puts into a silver model: admitted rows, in a dedupli-   *)
(* cated one a single row per key, and of every admitted key one that is   *)
(* no older.                                                               *)
LEMMA SilverRowsAre ==
    ASSUME IngestInv, NEW e \in Entities
    PROVE  /\ \A r \in SilverRows(e) : Admitted(e, r)
           /\ e \in Deduplicated => \A r, s \in SilverRows(e) : r.id = s.id => r = s
           /\ \A r : Admitted(e, r) =>
                \E s \in SilverRows(e) : s.id = r.id /\ IngestedAt(r) <= IngestedAt(s)
<1>0. \A r : Admitted(e, r) => IngestedAt(r) <= IngestedAt(r)
  BY BronzeRow DEF IngestInv, Admitted
<1>1. CASE e = Gated
  BY <1>0, <1>1, PolicyAssumption DEF SilverRows, Admitted
<1>2. CASE e # Gated /\ e \notin Deduplicated
  BY <1>0, <1>2 DEF SilverRows, Admitted
<1>3. CASE e # Gated /\ e \in Deduplicated
  <2>1. SilverRows(e) = {Kept(e, i) : i \in {r.id : r \in BronzeRows(e)}}
    BY <1>3 DEF SilverRows, Kept
  <2>2. SilverRows(e) = {Kept(e, q.id) : q \in BronzeRows(e)}
    BY <2>1
  <2>3. \A q \in BronzeRows(e) :
           /\ Kept(e, q.id) \in BronzeRows(e) /\ Kept(e, q.id).id = q.id
           /\ IngestedAt(q) <= IngestedAt(Kept(e, q.id))
    BY KeptIs
  <2>4. \A r, s \in SilverRows(e) : r.id = s.id => r = s
    BY <2>2, <2>3
  <2> QED  BY <1>3, <2>2, <2>3, <2>4 DEF Admitted
<1> QED  BY <1>1, <1>2, <1>3

(* Being admitted and stamps do not change while ingestion goes on.        *)
LEMMA AdmittedStays ==
    ASSUME TypeOK, Next \/ UNCHANGED bronze, NEW e, NEW r, Admitted(e, r)
    PROVE  Admitted(e, r)' /\ IngestedAt(r)' = IngestedAt(r)
BY RowsStay DEF Admitted

LEMMA SilverInvStays ==
    ASSUME TypeOK, Next \/ UNCHANGED bronze, SilverInv, UNCHANGED silver
    PROVE  SilverInv'
<1>1. \A e \in DOMAIN silver : \A r \in silver[e] : Admitted(e, r)'
  BY AdmittedStays DEF SilverInv
<1> QED  BY <1>1 DEF SilverInv

LEMMA RejectsInvStays ==
    ASSUME TypeOK, Next \/ UNCHANGED bronze, RejectsInv, UNCHANGED rejects
    PROVE  RejectsInv'
<1>1. \A r \in BronzeRows(Gated) : r \in BronzeRows(Gated)' /\ IngestedAt(r)' = IngestedAt(r)
  BY RowsStay
<1> QED  BY <1>1 DEF RejectsInv

(* A fact stays right while silver, in which every key stays and its row   *)
(* only gets newer, is rebuilt, and while ingestion goes on.               *)
LEMMA FactInvStays ==
    ASSUME TypeOK, TypeOK', Next \/ UNCHANGED bronze, FactInv, SilverInv, UNCHANGED fact,
           DOMAIN silver \subseteq DOMAIN silver',
           \A e \in DOMAIN silver : \A r \in silver[e] :
              \E s \in silver'[e] :
                 s.id = r.id /\ (e \in Deduplicated => IngestedAt(r) <= IngestedAt(s)'),
           \A e \in DOMAIN silver' : \A s \in silver'[e] : Admitted(e, s)'
    PROVE  FactInv'
<1>1. ASSUME NEW e \in Entities, NEW a \in DOMAIN fact[e]
      PROVE  /\ a \in BronzeRows(e)' /\ Admitted(e, fact[e][a])' /\ fact[e][a].id = a.id
             /\ e \in DOMAIN silver'
             /\ \E s \in silver'[e] :
                   s.id = a.id
                   /\ (e \in Deduplicated => IngestedAt(fact[e][a])' <= IngestedAt(s)')
  <2>1. /\ a \in BronzeRows(e) /\ Admitted(e, fact[e][a]) /\ fact[e][a].id = a.id
        /\ e \in DOMAIN silver
    BY <1>1 DEF FactInv, FactOK
  <2>2. PICK r \in silver[e] :
          /\ r.id = a.id
          /\ e \in Deduplicated => IngestedAt(fact[e][a]) <= IngestedAt(r)
    BY <1>1 DEF FactInv, FactOK
  <2>3. PICK s \in silver'[e] :
           s.id = r.id /\ (e \in Deduplicated => IngestedAt(r) <= IngestedAt(s)')
    BY <2>1
  <2>4. Admitted(e, fact[e][a])' /\ IngestedAt(fact[e][a])' = IngestedAt(fact[e][a])
    BY <2>1, AdmittedStays
  <2>5. IngestedAt(fact[e][a]) \in Nat /\ IngestedAt(r) \in Nat /\ IngestedAt(s)' \in Nat
    <3>1. r \in BronzeRows(e) /\ fact[e][a] \in BronzeRows(e)
      BY <2>1 DEF SilverInv, Admitted
    <3>2. IngestedAt(fact[e][a]) \in Nat /\ IngestedAt(r) \in Nat
      BY <3>1, BronzeRow
    <3>3. s \in BronzeRows(e)'
      BY <2>1 DEF Admitted
    <3>4. ASSUME TypeOK', s \in BronzeRows(e)' PROVE IngestedAt(s)' \in Nat
      <4>1. PICK f \in FilesOf(e) :
              s \in [id : IdsIn[f], file : {f}, copy : 1..Len(bronze'[f])]
        BY <3>4 DEF BronzeRows, FilesOf
      <4>2. f \in Files /\ bronze'[f] \in Seq(Nat)
        BY <3>4, <4>1 DEF FilesOf, TypeOK
      <4>3. s.file = f /\ s.copy \in 1..Len(bronze'[f])
        BY <4>1
      <4> QED  BY <4>2, <4>3, ElementOfSeq DEF IngestedAt
    <3> QED  BY <3>2, <3>3, <3>4
  <2>6. a \in BronzeRows(e)'
    BY <2>1, RowsStay
  <2>7. /\ s.id = a.id
        /\ e \in Deduplicated => IngestedAt(fact[e][a])' <= IngestedAt(s)'
    BY <2>2, <2>3, <2>4, <2>5
  <2> QED  BY <2>1, <2>3, <2>4, <2>6, <2>7
<1> QED  BY <1>1 DEF FactInv, FactOK

(***************************************************************************)
(* Facts.                                                                  *)
(***************************************************************************)
Created(e) == [r \in silver[e] |-> r]

LEMMA CreatedOK ==
    ASSUME TypeOK, SilverInv, NEW e \in DOMAIN silver
    PROVE  FactOK(e, Created(e)) /\ Created(e) \in [DOMAIN Created(e) -> Row]
           /\ DOMAIN Created(e) \subseteq Row
<1>1. DOMAIN Created(e) = silver[e] /\ \A r \in silver[e] : Created(e)[r] = r
  BY DEF Created
<1>2. \A r \in silver[e] : Admitted(e, r) /\ r \in BronzeRows(e)
  BY DEF SilverInv, Admitted
<1>3. \A r \in silver[e] : r \in Row /\ IngestedAt(r) \in Nat
  BY <1>2, BronzeRow
<1>4. e \in Deduplicated => \A r, s \in silver[e] : r.id = s.id => r = s
  BY DEF SilverInv
<1>5. \A r \in silver[e] : IngestedAt(r) <= IngestedAt(r)
  BY <1>3
<1>6. FactOK(e, Created(e))
  BY <1>1, <1>2, <1>4, <1>5 DEF FactOK
<1> QED  BY <1>1, <1>3, <1>6 DEF Created

(* A merge updates the rows it has, to one of the rows merged with their   *)
(* key, and adds those it has not.                                         *)
UpsertOf(f, rows, g) ==
    /\ DOMAIN g = DOMAIN f \cup {r \in rows : ~ Holds(f, r.id)}
    /\ \A a \in DOMAIN g :
          \/ a \notin DOMAIN f /\ g[a] = a
          \/ /\ a \in DOMAIN f
             /\ \/ g[a] \in rows /\ g[a].id = a.id
                \/ g[a] = f[a] /\ \A r \in rows : r.id # a.id
    /\ g = [a \in DOMAIN g |-> g[a]]

LEMMA UpsertIs ==
    ASSUME NEW f, NEW rows
    PROVE  UpsertOf(f, rows, Upsert(f, rows))
BY DEF Upsert, UpsertOf

LEMMA UpsertOK ==
    ASSUME TypeOK, SilverInv, NEW e \in DOMAIN silver, NEW f, FactOK(e, f),
           NEW rows \in SUBSET silver[e]
    PROVE  FactOK(e, Upsert(f, rows)) /\ Upsert(f, rows) \in [DOMAIN Upsert(f, rows) -> Row]
           /\ DOMAIN Upsert(f, rows) \subseteq Row
<1> DEFINE g == Upsert(f, rows)
<1>0. UpsertOf(f, rows, g)
  BY UpsertIs
<1> HIDE DEF g
<1>1. \A r \in silver[e] : Admitted(e, r) /\ r \in BronzeRows(e)
  BY DEF SilverInv, Admitted
<1>2. \A r \in BronzeRows(e) : r \in Row /\ IngestedAt(r) \in Nat
  BY BronzeRow
<1>3. e \in Deduplicated => \A r, s \in silver[e] : r.id = s.id => r = s
  BY DEF SilverInv
<1>4. ASSUME NEW a \in DOMAIN g
      PROVE  /\ a \in BronzeRows(e) /\ Admitted(e, g[a]) /\ g[a].id = a.id
             /\ \E s \in silver[e] :
                  s.id = a.id /\ (e \in Deduplicated => IngestedAt(g[a]) <= IngestedAt(s))
  <2>1. CASE a \notin DOMAIN f
    <3>1. a \in rows /\ g[a] = a
      BY <1>0, <2>1 DEF UpsertOf
    <3>2. IngestedAt(a) <= IngestedAt(a)
      BY <1>1, <1>2, <3>1
    <3> QED  BY <1>1, <3>1, <3>2
  <2>2. CASE a \in DOMAIN f /\ g[a] \in rows /\ g[a].id = a.id
    <3>1. a \in BronzeRows(e)
      BY <2>2 DEF FactOK
    <3>2. IngestedAt(g[a]) <= IngestedAt(g[a])
      BY <1>1, <1>2, <2>2
    <3> QED  BY <1>1, <2>2, <3>1, <3>2
  <2>3. CASE a \in DOMAIN f /\ g[a] = f[a]
    BY <2>3 DEF FactOK
  <2> QED  BY <1>0, <2>1, <2>2, <2>3 DEF UpsertOf
<1>5. ASSUME e \in Deduplicated, NEW a \in DOMAIN g, NEW b \in DOMAIN g, a.id = b.id
      PROVE  a = b
  <2>1. DOMAIN g = DOMAIN f \cup {r \in rows : ~ Holds(f, r.id)}
    BY <1>0 DEF UpsertOf
  <2>2. CASE a \in DOMAIN f /\ b \in DOMAIN f
    BY <1>5, <2>2 DEF FactOK
  <2>3. CASE a \in DOMAIN f /\ b \notin DOMAIN f
    BY <1>5, <2>1, <2>3 DEF Holds
  <2>4. CASE a \notin DOMAIN f /\ b \in DOMAIN f
    BY <1>5, <2>1, <2>4 DEF Holds
  <2>5. CASE a \notin DOMAIN f /\ b \notin DOMAIN f
    BY <1>3, <1>5, <2>1, <2>5
  <2> QED  BY <2>2, <2>3, <2>4, <2>5
<1>6. FactOK(e, g)
  BY <1>4, <1>5 DEF FactOK
<1>7. \A a \in DOMAIN g : a \in Row /\ g[a] \in Row
  BY <1>2, <1>4 DEF Admitted
<1>8. g \in [DOMAIN g -> Row] /\ DOMAIN g \subseteq Row
  BY <1>0, <1>7 DEF UpsertOf
<1> QED  BY <1>6, <1>8 DEF g

(* Neither puts an older delivery back or drops a key.                     *)
NoneOlder(e, f, g) ==
    /\ e \in Deduplicated => \A a \in DOMAIN f, b \in DOMAIN g :
          a.id = b.id => IngestedAt(f[a]) <= IngestedAt(g[b])
    /\ \A a \in DOMAIN f : Holds(g, a.id)

LEMMA CreatedNotOlder ==
    ASSUME SilverInv, NEW e \in DOMAIN silver, NEW f, FactOK(e, f)
    PROVE  NoneOlder(e, f, Created(e))
BY DEF NoneOlder, FactOK, SilverInv, Created, Holds

LEMMA UpsertNotOlder ==
    ASSUME TypeOK, SilverInv, NEW e \in DOMAIN silver, NEW f, FactOK(e, f),
           NEW rows \in SUBSET silver[e]
    PROVE  NoneOlder(e, f, Upsert(f, rows))
<1> DEFINE g == Upsert(f, rows)
<1>0. UpsertOf(f, rows, g)
  BY UpsertIs
<1> HIDE DEF g
<1>1. \A a \in DOMAIN f : a \in DOMAIN g
  BY <1>0 DEF UpsertOf
<1>2. ASSUME e \in Deduplicated, NEW a \in DOMAIN f, NEW b \in DOMAIN g, a.id = b.id
      PROVE  IngestedAt(f[a]) <= IngestedAt(g[b])
  <2>1. a = b
    <3>1. b \in DOMAIN f \/ ~ Holds(f, b.id)
      BY <1>0 DEF UpsertOf
    <3> QED  BY <1>2, <3>1 DEF Holds, FactOK
  <2>2. f[a] \in BronzeRows(e)
    BY DEF FactOK, Admitted
  <2>3. CASE g[b] = f[a]
    BY <2>2, <2>3, BronzeRow
  <2>4. CASE g[b] \in rows /\ g[b].id = a.id
    <3>1. PICK s \in silver[e] : s.id = a.id /\ IngestedAt(f[a]) <= IngestedAt(s)
      BY <1>2 DEF FactOK
    <3>2. s = g[b]
      BY <1>2, <2>4, <3>1 DEF SilverInv
    <3> QED  BY <3>1, <3>2
  <2> QED  BY <1>0, <2>1, <2>3, <2>4 DEF UpsertOf
<1> QED  BY <1>1, <1>2 DEF NoneOlder, Holds, g

LEMMA SameNotOlder ==
    ASSUME TypeOK, NEW e, NEW f, FactOK(e, f)
    PROVE  NoneOlder(e, f, f)
<1>1. \A a \in DOMAIN f : f[a] \in BronzeRows(e)
  BY DEF FactOK, Admitted
<1>2. \A a \in DOMAIN f : IngestedAt(f[a]) <= IngestedAt(f[a])
  BY <1>1, BronzeRow
<1> QED  BY <1>2 DEF NoneOlder, FactOK, Holds

(***************************************************************************)
(* Steps.                                                                  *)
(***************************************************************************)
(* A build leaves ingestion alone but for the time it takes.               *)
LEMMA FactStepIngest == FactStep => IngestStep /\ UNCHANGED bronze
<1> SUFFICES ASSUME FactStep PROVE IngestStep /\ UNCHANGED bronze
  OBVIOUS
<1> USE DEF ingestVars, processVars
<1>1. ASSUME NEW e, BuildSilver(e) PROVE IngestStep /\ UNCHANGED bronze
  BY <1>1 DEF BuildSilver, IngestStep
<1>2. ASSUME NEW table, BuildRejects(table) PROVE IngestStep /\ UNCHANGED bronze
  BY <1>2 DEF BuildRejects, IngestStep
<1>3. ASSUME NEW e, BuildFact(e) PROVE IngestStep /\ UNCHANGED bronze
  BY <1>3 DEF BuildFact, AtFactBuild, Create, Merge, IngestStep
<1>4. ASSUME NEW e, FullRefresh(e) PROVE IngestStep /\ UNCHANGED bronze
  BY <1>4 DEF FullRefresh, AtFactBuild, Create, IngestStep
<1>5. ASSUME NEW e, NEW lo, NEW hi, Backfill(e, lo, hi) PROVE IngestStep /\ UNCHANGED bronze
  BY <1>5 DEF Backfill, AtFactBuild, Merge, IngestStep
<1> QED  BY <1>1, <1>2, <1>3, <1>4, <1>5 DEF FactStep

(* A fact is only ever created anew or merged with rows of silver.         *)
FactBuilt(e) ==
    /\ e \in Entities /\ e \in DOMAIN silver
    /\ UNCHANGED << scenario, silver, rejects >>
    /\ \/ fact' = [fact EXCEPT ![e] = Created(e)]
       \/ \E rows \in SUBSET silver[e] : fact' = [fact EXCEPT ![e] = Upsert(fact[e], rows)]
    /\ committed' \in [Entities -> Nat]
    /\ manual' \in 0..scenario.manual
    /\ gaps' \subseteq Entities

LEMMA FactBuilds ==
    ASSUME FactTypeOK, NEW e \in Entities,
           \/ BuildFact(e)
           \/ FullRefresh(e)
           \/ \E lo, hi \in Omitted..clock : Backfill(e, lo, hi)
    PROVE  FactBuilt(e)
<1>1. /\ clock \in Nat /\ committed \in [Entities -> Nat] /\ scenario.manual \in Nat
      /\ manual \in 0..scenario.manual /\ gaps \subseteq Entities /\ DOMAIN fact = Entities
  BY ScenariosAssumption DEF FactTypeOK, TypeOK
<1>2. ASSUME AtFactBuild(e)
      PROVE  e \in DOMAIN silver /\ UNCHANGED << scenario, silver, rejects >>
  BY <1>2 DEF AtFactBuild
<1>3. ASSUME Create(e)
      PROVE  fact' = [fact EXCEPT ![e] = Created(e)] /\ committed' \in [Entities -> Nat]
  BY <1>1, <1>3 DEF Create, Created
<1>4. ASSUME NEW rows, Merge(e, rows)
      PROVE  /\ fact' = [fact EXCEPT ![e] = Upsert(fact[e], rows)]
             /\ committed' \in [Entities -> Nat]
  BY <1>1, <1>4 DEF Merge
<1>5. ASSUME Manual PROVE manual' \in 0..scenario.manual
  BY <1>1, <1>5 DEF Manual
<1>6. CASE BuildFact(e)
  <2>1. AtFactBuild(e) /\ UNCHANGED << manual, gaps >>
    BY <1>6 DEF BuildFact
  <2>2. CASE Create(e)
    BY <1>1, <1>2, <1>3, <2>1, <2>2 DEF FactBuilt
  <2>3. CASE Merge(e, {r \in silver[e] : IngestedAt(r) > Watermark(e)})
    BY <1>1, <1>2, <1>4, <2>1, <2>3 DEF FactBuilt
  <2> QED  BY <1>6, <2>2, <2>3 DEF BuildFact
<1>7. CASE FullRefresh(e)
  <2>1. AtFactBuild(e) /\ Manual /\ Create(e) /\ gaps' \subseteq Entities
    BY <1>1, <1>7 DEF FullRefresh
  <2> QED  BY <1>2, <1>3, <1>5, <2>1 DEF FactBuilt
<1>8. ASSUME NEW lo \in Omitted..clock, NEW hi \in Omitted..clock, Backfill(e, lo, hi)
      PROVE  FactBuilt(e)
  <2> DEFINE rows == {r \in silver[e] : IngestedAt(r) \in Window(lo, hi)}
  <2>1. AtFactBuild(e) /\ Manual /\ Merge(e, rows) /\ gaps' \subseteq Entities
    BY <1>1, <1>8 DEF Backfill
  <2>2. rows \in SUBSET silver[e]
    OBVIOUS
  <2> HIDE DEF rows
  <2> QED  BY <1>2, <1>4, <1>5, <2>1, <2>2 DEF FactBuilt
<1> QED  BY <1>6, <1>7, <1>8

(* So every fact is right after a build, and none went back.               *)
LEMMA BuiltFacts ==
    ASSUME FactTypeOK, SilverInv, FactInv, NEW e \in Entities, FactBuilt(e)
    PROVE  /\ DOMAIN fact' = Entities
           /\ \A d \in Entities :
                /\ FactOK(d, fact'[d])
                /\ fact'[d] \in [DOMAIN fact'[d] -> Row] /\ DOMAIN fact'[d] \subseteq Row
                /\ NoneOlder(d, fact[d], fact'[d])
<1>1. TypeOK /\ e \in DOMAIN silver /\ DOMAIN fact = Entities
  BY DEF FactTypeOK, FactBuilt
<1>2. /\ FactOK(e, fact'[e])
      /\ fact'[e] \in [DOMAIN fact'[e] -> Row] /\ DOMAIN fact'[e] \subseteq Row
      /\ NoneOlder(e, fact[e], fact'[e])
  <2>0. FactOK(e, fact[e])
    BY DEF FactInv
  <2>1. CASE fact' = [fact EXCEPT ![e] = Created(e)]
    <3>1. fact'[e] = Created(e)
      BY <1>1, <2>1
    <3> QED  BY <1>1, <2>0, <3>1, CreatedOK, CreatedNotOlder
  <2>2. ASSUME NEW rows \in SUBSET silver[e],
               fact' = [fact EXCEPT ![e] = Upsert(fact[e], rows)]
        PROVE  /\ FactOK(e, fact'[e])
               /\ fact'[e] \in [DOMAIN fact'[e] -> Row] /\ DOMAIN fact'[e] \subseteq Row
               /\ NoneOlder(e, fact[e], fact'[e])
    <3>1. fact'[e] = Upsert(fact[e], rows)
      BY <1>1, <2>2
    <3> QED  BY <1>1, <2>0, <3>1, UpsertOK, UpsertNotOlder
  <2> QED  BY <2>1, <2>2 DEF FactBuilt
<1>3. ASSUME NEW d \in Entities, d # e
      PROVE  /\ FactOK(d, fact'[d])
             /\ fact'[d] \in [DOMAIN fact'[d] -> Row] /\ DOMAIN fact'[d] \subseteq Row
             /\ NoneOlder(d, fact[d], fact'[d])
  <2>1. fact'[d] = fact[d]
    BY <1>1, <1>3 DEF FactBuilt
  <2>2. FactOK(d, fact[d])
    BY DEF FactInv
  <2> QED  BY <1>1, <2>1, <2>2, SameNotOlder DEF FactTypeOK
<1>4. DOMAIN fact' = Entities
  BY <1>1 DEF FactBuilt
<1> QED  BY <1>2, <1>3, <1>4

LEMMA FactBuiltInv ==
    ASSUME FactsInv, FactStep, NEW e \in Entities, FactBuilt(e)
    PROVE  FactsInv'
<1>1. /\ FactTypeOK /\ TypeOK /\ IngestInv /\ SilverInv /\ RejectsInv /\ FactInv
  BY DEF FactsInv, FactTypeOK
<1>2. UNCHANGED bronze /\ IngestInv' /\ TypeOK'
  BY <1>1, FactStepIngest, StepIngestInv DEF IngestInv
<1>3. SilverInv'
  BY <1>1, <1>2, SilverInvStays DEF FactBuilt
<1>4. RejectsInv'
  BY <1>1, <1>2, RejectsInvStays DEF FactBuilt
<1>5. \A d \in Entities : /\ FactOK(d, fact'[d])
                          /\ fact'[d] \in [DOMAIN fact'[d] -> Row]
                          /\ DOMAIN fact'[d] \subseteq Row
  BY <1>1, BuiltFacts
<1>6. FactInv'
  BY <1>2, <1>5 DEF FactInv, FactOK, Admitted, BronzeRows, IngestedAt, FilesOf, FactBuilt
<1>7. DOMAIN fact' = Entities
  BY <1>1, BuiltFacts
<1>8. FactTypeOK'
  BY <1>1, <1>2, <1>5, <1>7 DEF FactTypeOK, FactBuilt
<1> QED  BY <1>2, <1>3, <1>4, <1>6, <1>8 DEF FactsInv

LEMMA BuildSilverInv ==
    ASSUME FactsInv, NEW e \in Entities, BuildSilver(e)
    PROVE  FactsInv'
<1>1. /\ FactTypeOK /\ TypeOK /\ IngestInv /\ SilverInv /\ RejectsInv /\ FactInv
  BY DEF FactsInv, FactTypeOK
<1>2. UNCHANGED << bronze, scenario, rejects, fact, committed, manual, gaps >> /\ IngestStep
  BY DEF BuildSilver, ingestVars, processVars, IngestStep
<1>3. IngestInv' /\ TypeOK'
  BY <1>1, <1>2, StepIngestInv DEF IngestInv
<1>4. /\ DOMAIN silver' = DOMAIN silver \cup {e}
      /\ silver'[e] = SilverRows(e)
      /\ \A d \in DOMAIN silver : d # e => silver'[d] = silver[d]
  BY DEF BuildSilver
<1>5. \A d : \A r : /\ (r \in BronzeRows(d))' <=> r \in BronzeRows(d)
                    /\ Admitted(d, r)' <=> Admitted(d, r)
                    /\ IngestedAt(r)' = IngestedAt(r)
  BY <1>2 DEF Admitted, BronzeRows, IngestedAt, FilesOf
<1>6. /\ \A r \in SilverRows(e) : Admitted(e, r)
      /\ e \in Deduplicated => \A r, s \in SilverRows(e) : r.id = s.id => r = s
      /\ \A r : Admitted(e, r) =>
            \E s \in SilverRows(e) : s.id = r.id /\ IngestedAt(r) <= IngestedAt(s)
  BY <1>1, SilverRowsAre
<1>7. SilverInv'
  BY <1>1, <1>4, <1>5, <1>6 DEF SilverInv
<1>8. RejectsInv'
  BY <1>1, <1>2, RejectsInvStays
<1>9. ASSUME NEW d \in DOMAIN silver, NEW r \in silver[d]
      PROVE  \E s \in silver'[d] :
                s.id = r.id /\ (d \in Deduplicated => IngestedAt(r) <= IngestedAt(s)')
  <2>1. Admitted(d, r)
    BY <1>1 DEF SilverInv
  <2>2. CASE d = e
    BY <1>4, <1>5, <1>6, <2>1, <2>2
  <2>3. CASE d # e
    <3>1. r \in BronzeRows(d)
      BY <2>1 DEF Admitted
    <3>2. IngestedAt(r) <= IngestedAt(r)
      BY <1>1, <3>1, BronzeRow
    <3> QED  BY <1>4, <1>5, <2>3, <3>2
  <2> QED  BY <2>2, <2>3
<1>10. FactInv'
  <2>1. \A d \in DOMAIN silver' : \A s \in silver'[d] : Admitted(d, s)'
    BY <1>7 DEF SilverInv
  <2>2. DOMAIN silver \subseteq DOMAIN silver' /\ UNCHANGED fact /\ UNCHANGED bronze
    BY <1>2, <1>4
  <2> QED  BY <1>1, <1>3, <1>9, <2>1, <2>2, FactInvStays
<1>11. FactTypeOK'
  <2>1. SilverRows(e) \subseteq Row
    BY <1>1, <1>6, BronzeRow DEF Admitted
  <2>2. DOMAIN silver' \subseteq Entities /\ \A d \in DOMAIN silver' : silver'[d] \subseteq Row
    BY <1>1, <1>4, <2>1 DEF FactTypeOK
  <2> QED  BY <1>1, <1>2, <1>3, <2>2 DEF FactTypeOK
<1> QED  BY <1>3, <1>7, <1>8, <1>10, <1>11 DEF FactsInv

LEMMA BuildRejectsInv ==
    ASSUME FactsInv, NEW table \in RejectionReasons \cup {"all"}, BuildRejects(table)
    PROVE  FactsInv'
<1>1. /\ FactTypeOK /\ TypeOK /\ IngestInv /\ SilverInv /\ RejectsInv /\ FactInv
  BY DEF FactsInv, FactTypeOK
<1>2. UNCHANGED << bronze, scenario, silver, fact, committed, manual, gaps >> /\ IngestStep
  BY DEF BuildRejects, ingestVars, processVars, IngestStep
<1>3. IngestInv' /\ TypeOK'
  BY <1>1, <1>2, StepIngestInv DEF IngestInv
<1>4. /\ DOMAIN rejects' = DOMAIN rejects \cup {table}
      /\ rejects'[table] = RejectRows(table)
      /\ \A t \in DOMAIN rejects : t # table => rejects'[t] = rejects[t]
  BY DEF BuildRejects
<1>5. \A r : /\ (r \in BronzeRows(Gated))' <=> r \in BronzeRows(Gated)
            /\ IngestedAt(r)' = IngestedAt(r)
  BY <1>2 DEF BronzeRows, IngestedAt, FilesOf
<1>6. "all" \notin RejectionReasons
  BY DEF RejectionReasons
<1>7. ASSUME NEW r \in RejectRows(table)
      PROVE  /\ r \in BronzeRows(Gated)
             /\ IF table = "all" THEN Malformed(SessionOf[r.id], IngestedAt(r))
                                 ELSE RejectedFor(table, SessionOf[r.id], IngestedAt(r))
  <2>1. CASE table # "all"
    BY <2>1 DEF RejectRows
  <2>2. CASE table = "all"
    <3>1. RejectionReasons \subseteq DOMAIN rejects
      BY <2>2 DEF BuildRejects
    <3>2. PICK reason \in RejectionReasons : r \in rejects[reason]
      BY <2>2 DEF RejectRows
    <3>3. r \in BronzeRows(Gated) /\ RejectedFor(reason, SessionOf[r.id], IngestedAt(r))
      BY <1>1, <1>6, <3>1, <3>2 DEF RejectsInv
    <3> QED  BY <1>1, <2>2, <3>3, JudgedRow, GatePartition
  <2> QED  BY <2>1, <2>2
<1>8. RejectsInv'
  <2>1. "all" \in DOMAIN rejects' => RejectionReasons \subseteq DOMAIN rejects'
    BY <1>1, <1>4 DEF RejectsInv, BuildRejects
  <2>2. \A t \in DOMAIN rejects' : \A r \in rejects'[t] :
           /\ r \in BronzeRows(Gated)
           /\ IF t = "all" THEN Malformed(SessionOf[r.id], IngestedAt(r))
                           ELSE RejectedFor(t, SessionOf[r.id], IngestedAt(r))
    BY <1>1, <1>4, <1>7 DEF RejectsInv
  <2> QED  BY <1>5, <2>1, <2>2 DEF RejectsInv
<1>9. SilverInv'
  BY <1>1, <1>2, SilverInvStays
<1>10. FactInv'
  BY <1>1, <1>2 DEF FactInv, FactOK, Admitted, BronzeRows, IngestedAt, FilesOf
<1>11. FactTypeOK'
  <2>1. RejectRows(table) \subseteq Row
    BY <1>1, <1>7, BronzeRow
  <2> QED  BY <1>1, <1>2, <1>3, <1>4, <2>1 DEF FactTypeOK
<1> QED  BY <1>3, <1>8, <1>9, <1>10, <1>11 DEF FactsInv

LEMMA IngestionInv ==
    ASSUME FactsInv, Next \/ UNCHANGED ingestVars, UNCHANGED factVars
    PROVE  FactsInv'
<1>1. /\ FactTypeOK /\ TypeOK /\ IngestInv /\ SilverInv /\ RejectsInv /\ FactInv
  BY DEF FactsInv, FactTypeOK
<1>2. UNCHANGED << scenario, silver, rejects, fact, committed, manual, gaps >>
  BY DEF factVars
<1>3. IngestStep /\ (Next \/ UNCHANGED bronze)
  <2>1. CASE UNCHANGED ingestVars
    BY <2>1 DEF ingestVars, processVars, IngestStep
  <2> QED  BY <2>1 DEF IngestStep
<1>4. IngestInv' /\ TypeOK'
  BY <1>1, <1>3, StepIngestInv DEF IngestInv
<1>5. SilverInv' /\ RejectsInv'
  BY <1>1, <1>2, <1>3, SilverInvStays, RejectsInvStays
<1>6. FactInv'
  <2>1. ASSUME NEW e \in DOMAIN silver, NEW r \in silver[e]
        PROVE  Admitted(e, r)' /\ IngestedAt(r)' = IngestedAt(r) /\ IngestedAt(r) \in Nat
    <3>1. Admitted(e, r)
      BY <1>1 DEF SilverInv
    <3> QED  BY <1>1, <1>3, <3>1, AdmittedStays, BronzeRow DEF Admitted
  <2>2. \A e \in DOMAIN silver : \A r \in silver[e] :
           \E s \in silver'[e] :
              s.id = r.id /\ (e \in Deduplicated => IngestedAt(r) <= IngestedAt(s)')
    BY <1>2, <2>1
  <2>3. \A e \in DOMAIN silver' : \A s \in silver'[e] : Admitted(e, s)'
    BY <1>2, <2>1
  <2>4. DOMAIN silver \subseteq DOMAIN silver'
    BY <1>2
  <2> QED  BY <1>1, <1>2, <1>3, <1>4, <2>2, <2>3, <2>4, FactInvStays
<1>7. FactTypeOK'
  BY <1>1, <1>2, <1>4 DEF FactTypeOK
<1> QED  BY <1>4, <1>5, <1>6, <1>7 DEF FactsInv

LEMMA InitFactsInv == FactInit => FactsInv
<1> SUFFICES ASSUME FactInit PROVE FactsInv
  OBVIOUS
<1>1. IngestInv /\ TypeOK
  BY InitIngestInv DEF FactInit, IngestInv
<1>2. /\ DOMAIN silver = {} /\ DOMAIN rejects = {} /\ DOMAIN fact = Entities
      /\ \A e \in Entities : fact[e] = [r \in {} |-> r] /\ DOMAIN fact[e] = {}
  BY DEF FactInit
<1>3. SilverInv /\ RejectsInv
  BY <1>2 DEF SilverInv, RejectsInv
<1>4. FactInv
  BY <1>2 DEF FactInv, FactOK
<1>5. manual \in 0..scenario.manual
  BY ScenariosAssumption DEF FactInit
<1>6. \A e \in Entities : fact[e] \in [DOMAIN fact[e] -> Row]
  BY <1>2
<1>7. committed \in [Entities -> Nat] /\ gaps \subseteq Entities /\ scenario \in Scenarios
  BY DEF FactInit
<1>8. FactTypeOK
  BY <1>1, <1>2, <1>5, <1>6, <1>7 DEF FactTypeOK
<1> QED  BY <1>1, <1>3, <1>4, <1>8 DEF FactsInv

LEMMA NextFactsInv == FactsInv /\ [FactNext]_allVars => FactsInv'
<1> SUFFICES ASSUME FactsInv, [FactNext]_allVars PROVE FactsInv'
  OBVIOUS
<1>0. FactTypeOK /\ scenario.builds \subseteq Entities
  BY ScenariosAssumption DEF FactsInv, FactTypeOK
<1>1. CASE Next /\ UNCHANGED factVars
  BY <1>1, IngestionInv
<1>2. CASE FactStep
  <2>1. ASSUME NEW e \in scenario.builds, BuildSilver(e) PROVE FactsInv'
    BY <1>0, <2>1, BuildSilverInv
  <2>2. ASSUME NEW e \in scenario.builds,
               \/ BuildFact(e)
               \/ FullRefresh(e)
               \/ \E lo, hi \in Omitted..clock : Backfill(e, lo, hi)
        PROVE  FactsInv'
    BY <1>0, <1>2, <2>2, FactBuilds, FactBuiltInv
  <2>3. ASSUME NEW table \in RejectionReasons \cup {"all"}, BuildRejects(table)
        PROVE  FactsInv'
    BY <2>3, BuildRejectsInv
  <2> QED  BY <1>2, <2>1, <2>2, <2>3 DEF FactStep
<1>3. CASE UNCHANGED allVars
  BY <1>3, IngestionInv DEF allVars
<1> QED  BY <1>1, <1>2, <1>3 DEF FactNext

(***************************************************************************)
(* Theorems.                                                               *)
(***************************************************************************)
(* The inductive invariant holds in every reachable state.                 *)
THEOREM FactsInvariant == FactSpec => []FactsInv
BY InitFactsInv, NextFactsInv, PTL DEF FactSpec

(* Silver and the facts hold rows of bronze and nothing else, and every    *)
(* history variable stays in its bounds.                                   *)
THEOREM TypeSafety == FactSpec => []FactTypeOK
BY FactsInvariant, PTL DEF FactsInv

(* Every step of a behaviour starts from the invariant, and is one of      *)
(* ingestion or leaves it alone.                                           *)
LEMMA StepsAreIngestSteps == FactsInv /\ [FactNext]_allVars => IngestStep /\ IngestInv
<1> SUFFICES ASSUME FactsInv, [FactNext]_allVars PROVE IngestStep /\ IngestInv
  OBVIOUS
<1>1. FactTypeOK /\ IngestInv /\ clock \in Nat
  BY DEF FactsInv, FactTypeOK, TypeOK
<1>2. CASE UNCHANGED allVars
  BY <1>1, <1>2 DEF allVars, ingestVars, processVars, IngestStep
<1> QED  BY <1>1, <1>2, FactStepIngest DEF FactNext, IngestStep

(* No file is appended twice as long as every failure is one a run can     *)
(* resume from: pipeline.py's "re-running ... is a no-op".                 *)
THEOREM NoFileLoadedTwice == FactSpec => []LoadedOnce
<1>1. FactsInv => LoadedOnce
  BY IngestInvImplies DEF FactsInv
<1> QED  BY <1>1, FactsInvariant, PTL

(* No run, resumed or from a fresh clone, skips a file whose rows are      *)
(* nowhere, whatever fails; and the state in the destination is in step    *)
(* with the tables once a run that failed was resumed.                     *)
THEOREM StateIsSound == FactSpec => []ProcessedStateSound
<1>1. FactsInv => ProcessedStateSound
  BY IngestInvImplies DEF FactsInv, IngestInv, ProcessedStateSound
<1> QED  BY <1>1, FactsInvariant, PTL

(* The batches of a table become visible in the order of their stamps.     *)
THEOREM BatchesInOrder == FactSpec => VisibleInOrder
<1>1. FactsInv /\ [FactNext]_allVars =>
         (Resumable => \A f, g \in Files :
             EntityOf[f] = EntityOf[g] /\ Len(bronze'[f]) > Len(bronze[f])
               => \A s \in Stamps(g) : s < bronze'[f][Len(bronze'[f])])
  BY StepsAreIngestSteps, AppendsInOrder
<1> QED  BY <1>1, FactsInvariant, PTL DEF FactSpec, VisibleInOrder

(* A key has one row in a fact over a deduplicated silver model, whatever  *)
(* is delivered, merged, backfilled or refreshed how often, and its MERGE  *)
(* is always well defined; in any other fact while rows come only once.    *)
LEMMA OneRowPerIdHolds == FactsInv => OneRowPerId
<1> SUFFICES ASSUME FactsInv, NEW e \in Entities, e \in Deduplicated \/ DeliveredOnce(e)
             PROVE  /\ \A a, b \in DOMAIN fact[e] : a.id = b.id => a = b
                    /\ e \in DOMAIN silver => WellDefined(fact[e], silver[e])
  BY DEF OneRowPerId
<1>1. SilverInv /\ FactOK(e, fact[e])
  BY DEF FactsInv, FactInv
<1>2. \A a, b \in DOMAIN fact[e] : a.id = b.id => a = b
  BY <1>1 DEF FactOK, DeliveredOnce
<1>3. ASSUME e \in DOMAIN silver, NEW r \in silver[e], NEW s \in silver[e], r.id = s.id
      PROVE  r = s
  BY <1>1, <1>3 DEF SilverInv, Admitted, DeliveredOnce
<1> QED  BY <1>2, <1>3 DEF WellDefined

THEOREM FactsKeepOneRow == FactSpec => []OneRowPerId
BY FactsInvariant, OneRowPerIdHolds, PTL

(* No merge, backfill or refresh puts an older delivery of a row back or   *)
(* loses one.                                                              *)
LEMMA NoFactGoesBack ==
    ASSUME FactsInv, [FactNext]_allVars
    PROVE  /\ \A e \in Deduplicated : \A a \in DOMAIN fact[e], b \in DOMAIN fact'[e] :
                a.id = b.id => IngestedAt(fact[e][a]) <= IngestedAt(fact'[e][b])
           /\ \A e \in Entities : \A a \in DOMAIN fact[e] : Holds(fact'[e], a.id)
<1>1. /\ FactTypeOK /\ TypeOK /\ SilverInv /\ FactInv /\ scenario.builds \subseteq Entities
  BY ScenariosAssumption DEF FactsInv, FactTypeOK
<1>2. Deduplicated \subseteq Entities
  BY PolicyAssumption
<1>3. \A e \in Entities : NoneOlder(e, fact[e], fact'[e])
  <2>1. CASE UNCHANGED fact
    BY <1>1, <2>1, SameNotOlder DEF FactInv
  <2>2. ASSUME NEW d \in Entities,
               \/ BuildFact(d)
               \/ FullRefresh(d)
               \/ \E lo, hi \in Omitted..clock : Backfill(d, lo, hi)
        PROVE  \A e \in Entities : NoneOlder(e, fact[e], fact'[e])
    BY <1>1, <2>2, FactBuilds, BuiltFacts
  <2>3. CASE FactStep
    <3>1. \/ UNCHANGED fact
          \/ \E d \in Entities : \/ BuildFact(d)
                                \/ FullRefresh(d)
                                \/ \E lo, hi \in Omitted..clock : Backfill(d, lo, hi)
      BY <1>1, <2>3 DEF FactStep, BuildSilver, BuildRejects
    <3> QED  BY <2>1, <2>2, <3>1
  <2> QED  BY <2>1, <2>3 DEF FactNext, factVars, allVars
<1> QED  BY <1>2, <1>3 DEF NoneOlder

(* A stamp once given stays, so to compare two stamps of today is to       *)
(* compare what the fact showed with what it shows.                        *)
THEOREM NothingGoesBack == FactSpec => FactNeverGoesBack
<1>1. FactsInv /\ [FactNext]_allVars =>
         /\ \A e \in Deduplicated : \A a \in DOMAIN fact[e], b \in DOMAIN fact'[e] :
                a.id = b.id => IngestedAt(fact[e][a]) <= IngestedAt(fact'[e][b])
         /\ \A e \in Entities : \A a \in DOMAIN fact[e] : Holds(fact'[e], a.id)
  BY NoFactGoesBack
<1> QED  BY <1>1, FactsInvariant, PTL DEF FactSpec, FactNeverGoesBack

(* The gate neither loses nor doubles a row: whatever was built when, no   *)
(* row is in two of its tables and no malformed one is in the fact; when   *)
(* all are as new as bronze, their rows add up to the rows staged.         *)
LEMMA GateSplits ==
    ASSUME FactsInv, GateFresh
    PROVE  Cardinality(BronzeRows(Gated))
              = Cardinality(silver[Gated]) + Cardinality(rejects["all"])
<1> DEFINE B == BronzeRows(Gated)
           C == silver[Gated]
           R == rejects["all"]
<1>1. TypeOK /\ IsFiniteSet(B) /\ RejectsInv
  BY BronzeFinite DEF FactsInv, FactTypeOK
<1>2. C = {r \in B : ~ Malformed(SessionOf[r.id], IngestedAt(r))}
  BY DEF GateFresh, SilverRows
<1>3. R = {r \in B : Malformed(SessionOf[r.id], IngestedAt(r))}
  <2>1. RejectionReasons \subseteq DOMAIN rejects
    BY <1>1 DEF GateFresh, RejectsInv
  <2>2. \A reason \in RejectionReasons :
           rejects[reason] = {r \in B : RejectedFor(reason, SessionOf[r.id], IngestedAt(r))}
    BY <2>1 DEF GateFresh, RejectRows, RejectionReasons
  <2>3. R = UNION {rejects[reason] : reason \in RejectionReasons}
    BY DEF GateFresh, RejectRows
  <2>4. \A r \in B : Malformed(SessionOf[r.id], IngestedAt(r))
                    <=> \E reason \in RejectionReasons :
                          RejectedFor(reason, SessionOf[r.id], IngestedAt(r))
    BY <1>1, JudgedRow, GatePartition
  <2> QED  BY <2>2, <2>3, <2>4
<1>4. C \cup R = B /\ C \cap R = {} /\ C \in SUBSET B /\ R \in SUBSET B
  BY <1>2, <1>3
<1> HIDE DEF B, C, R
<1>5. IsFiniteSet(C) /\ IsFiniteSet(R)
  BY <1>1, <1>4, FS_Subset
<1>6. /\ Cardinality(C \cup R) = Cardinality(C) + Cardinality(R) - Cardinality(C \cap R)
      /\ Cardinality(C \cap R) = 0
  BY <1>4, <1>5, FS_Union, FS_EmptySet
<1>7. Cardinality(C) \in Nat /\ Cardinality(R) \in Nat
  BY <1>5, FS_CardinalityType
<1>8. Cardinality(B) = Cardinality(C) + Cardinality(R)
  <2>1. Cardinality(B) = Cardinality(C) + Cardinality(R) - 0
    BY <1>4, <1>6, Zenon
  <2> QED  BY <1>7, <2>1
<1> QED  BY <1>8 DEF B, C, R

LEMMA RowsJudgedOnceHolds == FactsInv => RowsJudgedOnce
<1> SUFFICES ASSUME FactsInv PROVE RowsJudgedOnce
  OBVIOUS
<1>1. /\ FactTypeOK /\ TypeOK /\ SilverInv /\ RejectsInv /\ FactInv
      /\ DOMAIN rejects \subseteq RejectionReasons \cup {"all"} /\ Gated \in Entities
  BY PolicyAssumption DEF FactsInv, FactTypeOK
<1>2. ASSUME NEW t \in DOMAIN rejects \ {"all"}, NEW u \in DOMAIN rejects \ {"all"}, t # u
      PROVE  rejects[t] \cap rejects[u] = {}
  <2>1. ASSUME NEW r, r \in rejects[t], r \in rejects[u] PROVE FALSE
    <3>1. /\ r \in BronzeRows(Gated)
          /\ RejectedFor(t, SessionOf[r.id], IngestedAt(r))
          /\ RejectedFor(u, SessionOf[r.id], IngestedAt(r))
      BY <1>1, <2>1 DEF RejectsInv
    <3> QED  BY <1>1, <1>2, <3>1, JudgedRow, GatePartition
  <2> QED  BY <2>1
<1>3. ASSUME Gated \in DOMAIN silver, NEW t \in DOMAIN rejects
      PROVE  silver[Gated] \cap rejects[t] = {}
  <2>1. ASSUME NEW r, r \in silver[Gated], r \in rejects[t] PROVE FALSE
    <3>1. r \in BronzeRows(Gated) /\ ~ Malformed(SessionOf[r.id], IngestedAt(r))
      BY <1>1, <1>3, <2>1 DEF SilverInv, Admitted
    <3>2. t = "all" \/ (t \in RejectionReasons /\ RejectedFor(t, SessionOf[r.id], IngestedAt(r)))
      BY <1>1, <2>1 DEF RejectsInv
    <3>3. t # "all"
      BY <1>1, <2>1, <3>1 DEF RejectsInv
    <3> QED  BY <1>1, <3>1, <3>2, <3>3, JudgedRow, GatePartition
  <2> QED  BY <2>1
<1>4. ASSUME NEW a \in DOMAIN fact[Gated]
      PROVE  ~ Malformed(SessionOf[fact[Gated][a].id], IngestedAt(fact[Gated][a]))
  BY <1>1, <1>4 DEF FactInv, FactOK, Admitted
<1> QED  BY <1>2, <1>3, <1>4, GateSplits DEF RowsJudgedOnce

THEOREM GateJudgesOnce == FactSpec => []RowsJudgedOnce
BY FactsInvariant, RowsJudgedOnceHolds, PTL

(***************************************************************************)
(* The watermarks of the incremental facts skip nothing, for every set of  *)
(* entities, files and rows, every scenario and every interleaving, as     *)
(* long as no backfill passed over rows, and                               *)
(*   - for the commit-time watermark: in the serial regime;                *)
(*   - for the join-recovered one: while no row was delivered twice.       *)
(*                                                                         *)
(* A batch is later than all there is, so it cannot come below a commit    *)
(* that saw a complete bronze table, nor below a row silver has; what is   *)
(* below the watermark therefore was in silver when the watermark rose.    *)
(***************************************************************************)

(***************************************************************************)
(* The latest stamp of a set of rows.                                      *)
(***************************************************************************)
LEMMA LatestOfIs ==
    ASSUME IngestInv, NEW e, NEW rows \in SUBSET BronzeRows(e)
    PROVE  /\ LatestOf(rows) \in Nat
           /\ \A r \in rows : IngestedAt(r) <= LatestOf(rows)
           /\ LatestOf(rows) = 0 \/ \E r \in rows : IngestedAt(r) = LatestOf(rows)
<1> DEFINE Times == {0} \cup {IngestedAt(r) : r \in rows}
<1>1. TypeOK /\ ClockInv /\ clock \in Nat
  BY DEF IngestInv, TypeOK
<1>2. ASSUME NEW r \in rows PROVE IngestedAt(r) \in 0..clock
  <2>1. IngestedAt(r) \in Nat /\ IngestedAt(r) \in Stamps(r.file) /\ r.file \in Files
    BY <1>1, BronzeRow DEF FilesOf
  <2>2. IngestedAt(r) < clock
    BY <1>1, <2>1 DEF ClockInv
  <2> QED  BY <1>1, <2>1, <2>2
<1>3. Times \in SUBSET (0..clock) /\ Times # {}
  BY <1>1, <1>2
<1>4. \E m \in Times : \A k \in Times : m >= k
  <2>1. \E m \in Times : \A k \in Times : k <= m
    <3> HIDE DEF Times
    <3> QED  BY <1>1, <1>3, LargestStamp
  <2> QED  BY <1>1, <1>3, <2>1
<1>5. LatestOf(rows) = Max(Times)
  BY DEF LatestOf
<1>6. Max(Times) \in Times /\ \A k \in Times : Max(Times) >= k
  <2> HIDE DEF Times
  <2> QED  BY <1>4 DEF Max
<1>7. LatestOf(rows) \in Times /\ \A k \in Times : k <= LatestOf(rows)
  <2> HIDE DEF Times
  <2>1. Times \subseteq Int
    BY <1>1, <1>3
  <2> QED  BY <1>5, <1>6, <2>1
<1>8. LatestOf(rows) \in Nat
  <2> HIDE DEF Times
  <2>1. LatestOf(rows) \in 0..clock
    BY <1>3, <1>7, Zenon
  <2> QED  BY <1>1, <2>1
<1>9. LatestOf(rows) = 0 \/ \E r \in rows : IngestedAt(r) = LatestOf(rows)
  BY <1>7
<1>10. \A r \in rows : IngestedAt(r) \in Times
  OBVIOUS
<1> QED  BY <1>7, <1>8, <1>9, <1>10

LEMMA StampsPositive ==
    ASSUME IngestInv, NEW e, NEW r \in BronzeRows(e)
    PROVE  IngestedAt(r) \in Nat /\ 1 <= IngestedAt(r) /\ IngestedAt(r) < clock
<1>1. IngestedAt(r) \in Nat /\ IngestedAt(r) \in Stamps(r.file) /\ r.file \in Files
  BY BronzeRow DEF IngestInv, FilesOf
<1> QED  BY <1>1 DEF IngestInv, StampInv, ClockInv

(***************************************************************************)
(* New rows.                                                               *)
(***************************************************************************)
(* They are of the batch being loaded.                                     *)
LEMMA NewRow ==
    ASSUME IngestInv, Next, NEW e \in Entities, NEW r \in BronzeRows(e)', r \notin BronzeRows(e)
    PROVE  /\ IngestedAt(r)' = package.stamp
           /\ package # NoPackage
           /\ bronze' = Appended(e)
           /\ e \in package.jobs
<1>1. TypeOK /\ PackageInv
  BY DEF IngestInv
<1>2. PICK f \in FilesOf(e) :
          r \in [id : IdsIn[f], file : {f}, copy : 1..Len(bronze'[f])]
  BY DEF BronzeRows, FilesOf
<1>3. f \in Files /\ EntityOf[f] = e /\ Len(bronze[f]) \in Nat /\ r.file = f
  BY <1>1, <1>2, LoadedLen DEF FilesOf
<1>4. bronze'[f] # bronze[f]
  BY <1>2 DEF BronzeRows
<1>5. PICK d \in Entities : LoadJob(d) \/ MidCommit(d)
  BY <1>4 DEF Next, RunStep, Failure, DropFile, Start, Extract, EndExtract, EndLoad, Crash,
              LoseDir
<1>6. bronze' = Appended(d) /\ d \in package.jobs /\ process = "loading"
  BY <1>1, <1>5, JobStep
<1>7. /\ f \in package.files /\ d = e
      /\ Len(bronze'[f]) = Len(bronze[f]) + 1
      /\ bronze'[f][Len(bronze[f]) + 1] = package.stamp
  BY <1>1, <1>3, <1>4, <1>6, AppendedIs
<1>8. r.copy \in 1..Len(bronze[f]) + 1 /\ r.copy \notin 1..Len(bronze[f])
  BY <1>2, <1>7 DEF BronzeRows
<1>9. r.copy = Len(bronze[f]) + 1
  BY <1>3, <1>8
<1> QED  BY <1>1, <1>3, <1>6, <1>7, <1>9 DEF IngestedAt, PackageInv

(* Unless a row came twice they are later than everything in their table.  *)
LEMMA NewRowsLast ==
    ASSUME IngestInv, Next, NEW e \in Entities, DeliveredOnce(e)',
           NEW r \in BronzeRows(e)', r \notin BronzeRows(e), NEW s \in BronzeRows(e)
    PROVE  IngestedAt(s) < IngestedAt(r)'
<1>1. TypeOK /\ StampInv
  BY DEF IngestInv
<1>2. IngestedAt(r)' = package.stamp /\ bronze' = Appended(e) /\ e \in package.jobs
  BY NewRow
<1>3. s.file \in Files /\ EntityOf[s.file] = e /\ IngestedAt(s) \in Stamps(s.file)
  BY <1>1, BronzeRow DEF FilesOf
<1>4. IngestedAt(s) < package.stamp \/ s.file \in package.files
  BY <1>1, <1>2, <1>3 DEF StampInv
<1>5. ASSUME s.file \in package.files PROVE FALSE
  <2> DEFINE t == [id |-> s.id, file |-> s.file, copy |-> Len(bronze[s.file]) + 1]
  <2>1. Len(bronze'[s.file]) = Len(bronze[s.file]) + 1 /\ Len(bronze[s.file]) \in Nat
    BY <1>1, <1>2, <1>3, <1>5, AppendedIs, LoadedLen
  <2>2. s.id \in IdsIn[s.file] /\ s.copy \in 1..Len(bronze[s.file])
    BY <1>1, BronzeRow
  <2>3. t \in [id : IdsIn[s.file], file : {s.file}, copy : 1..Len(bronze'[s.file])]
    BY <2>1, <2>2
  <2>4. t \in BronzeRows(e)'
    BY <1>3, <2>3 DEF BronzeRows, FilesOf
  <2>5. s \in BronzeRows(e)'
    BY <1>1, RowsStay
  <2>6. t.id = s.id /\ t.copy # s.copy
    BY <2>1, <2>2
  <2> QED  BY <2>4, <2>5, <2>6 DEF DeliveredOnce
<1> QED  BY <1>2, <1>4, <1>5

LEMMA OnceBefore ==
    ASSUME TypeOK, Next \/ UNCHANGED bronze, NEW e, DeliveredOnce(e)'
    PROVE  DeliveredOnce(e)
BY RowsStay DEF DeliveredOnce

(* A batch that is later than some moment when it is stamped stays so.     *)
LEMMA BatchLater ==
    ASSUME IngestInv, Next, NEW c \in Nat, c < clock,
           process = "extracting" => c < stamp,
           package # NoPackage => c < package.stamp
    PROVE  /\ c < clock'
           /\ process' = "extracting" => c < stamp'
           /\ package' # NoPackage => c < package'.stamp
<1> USE DEF processVars
<1>1. TypeOK /\ PackageInv /\ clock \in Nat
  BY DEF IngestInv, TypeOK
<1>2. ASSUME NEW e \in Entities, LoadJob(e) \/ MidCommit(e)
      PROVE  /\ c < clock' /\ process' # "extracting" /\ c < package'.stamp
  BY <1>1, <1>2, JobStep DEF PackageInv
<1>3. ASSUME NEW f \in Files, DropFile(f)
      PROVE  UNCHANGED << clock, process, stamp, package >>
  BY <1>3 DEF DropFile
<1>4. ASSUME NEW E, Start(E)
      PROVE  UNCHANGED << clock, package >> /\ stamp' = clock
  BY <1>4 DEF Start
<1>5. ASSUME NEW e, Extract(e)
      PROVE  UNCHANGED << clock, process, stamp, package >>
  BY <1>5 DEF Extract
<1>6. ASSUME EndExtract
      PROVE  /\ c < clock' /\ process' # "extracting" /\ (package' # NoPackage => c < package'.stamp)
  <2>1. process = "extracting" /\ package = NoPackage
    BY <1>1, <1>6 DEF EndExtract, PackageInv
  <2> QED  BY <1>1, <1>6, <2>1 DEF EndExtract
<1>7. ASSUME EndLoad \/ Crash \/ LoseDir
      PROVE  /\ UNCHANGED clock /\ process' # "extracting"
             /\ package' = package \/ package' = NoPackage
  BY <1>7 DEF EndLoad, Crash, LoseDir
<1> QED  BY <1>2, <1>3, <1>4, <1>5, <1>6, <1>7 DEF Next, RunStep, Failure

(***************************************************************************)
(* What the invariant says of the watermark.                               *)
(***************************************************************************)
(* A fact whose rows leave no holes, and one that has all up to a moment.  *)
Unbroken(e, f) ==
    \A s, r \in BronzeRows(e) :
        Admitted(e, r) /\ Holds(f, s.id) /\ IngestedAt(r) <= IngestedAt(s) => Holds(f, r.id)
HasUpTo(e, f, t) ==
    \A r \in BronzeRows(e) : Admitted(e, r) /\ IngestedAt(r) <= t => Holds(f, r.id)

LEMMA BelowJoinWatermark ==
    ASSUME IngestInv, SilverInv, NEW e \in DOMAIN silver, e \notin CommitTime,
           Unbroken(e, fact[e]), NEW r \in silver[e], IngestedAt(r) <= Watermark(e)
    PROVE  Holds(fact[e], r.id)
<1> DEFINE held == {s \in silver[e] : Holds(fact[e], s.id)}
<1>1. \A s \in silver[e] : Admitted(e, s) /\ s \in BronzeRows(e)
  BY DEF SilverInv, Admitted
<1>2. Watermark(e) = LatestOf(held)
  BY DEF Watermark
<1>3. held \in SUBSET BronzeRows(e)
  BY <1>1
<1>4. IngestedAt(r) \in Nat /\ 1 <= IngestedAt(r)
  BY <1>1, StampsPositive
<1>5. PICK s \in held : IngestedAt(s) = LatestOf(held)
  <2> HIDE DEF held
  <2>1. LatestOf(held) # 0
    BY <1>2, <1>4
  <2> QED  BY <1>3, <2>1, LatestOfIs
<1> QED  BY <1>1, <1>2, <1>5 DEF Unbroken

LEMMA InvSkipsNothing == FactsInv /\ WatermarkInv => WatermarkSkipsNothing
<1> SUFFICES ASSUME FactsInv, WatermarkInv, NEW e \in Entities \ gaps, committed[e] # 0,
                    IF e \in CommitTime THEN scenario.serial ELSE DeliveredOnce(e),
                    NEW r \in silver[e], IngestedAt(r) <= Watermark(e)
             PROVE  Holds(fact[e], r.id)
  BY DEF WatermarkSkipsNothing
<1>1. IngestInv /\ SilverInv /\ e \in DOMAIN silver
  BY DEF FactsInv, WatermarkInv, CommitInv
<1>2. CASE e \in CommitTime
  <2>1. Admitted(e, r) /\ r \in BronzeRows(e)
    BY <1>1 DEF SilverInv, Admitted
  <2> QED  BY <1>2, <2>1 DEF WatermarkInv, CommitInv, Watermark
<1>3. CASE e \notin CommitTime
  <2>1. Unbroken(e, fact[e])
    BY <1>3 DEF WatermarkInv, JoinInv, Unbroken
  <2> QED  BY <1>1, <1>3, <2>1, BelowJoinWatermark
<1> QED  BY <1>2, <1>3

(***************************************************************************)
(* Builds.                                                                 *)
(***************************************************************************)
LEMMA UpsertHolds ==
    ASSUME NEW f, NEW rows, \A a \in DOMAIN f : TRUE
    PROVE  \A i : Holds(Upsert(f, rows), i)
                     <=> Holds(f, i) \/ \E r \in rows : r.id = i
<1>1. DOMAIN Upsert(f, rows) = DOMAIN f \cup {r \in rows : ~ Holds(f, r.id)}
  BY DEF Upsert
<1> QED  BY <1>1 DEF Holds

(* A merge, and the watermark it leaves.                                   *)
MergedWith(e, rows) ==
    /\ rows \in SUBSET silver[e]
    /\ fact'[e] = Upsert(fact[e], rows)
    /\ \/ rows = {} /\ committed'[e] = committed[e] /\ clock' = clock
       \/ rows # {} /\ committed'[e] = clock /\ clock' = clock + 1
(* Of the silver rows above the watermark it takes all that are up to t.   *)
LeavesNone(e, rows, t) ==
    \A r \in silver[e] :
        Watermark(e) < IngestedAt(r) /\ IngestedAt(r) <= t => r \in rows

LEMMA BuildIs ==
    ASSUME FactsInv, NEW e \in Entities,
           \/ BuildFact(e)
           \/ FullRefresh(e)
           \/ \E lo, hi \in Omitted..clock : Backfill(e, lo, hi)
    PROVE  /\ AtFactBuild(e) /\ e \in DOMAIN silver
           /\ DOMAIN committed' = Entities
           /\ \A d \in Entities : d # e =>
                 fact'[d] = fact[d] /\ committed'[d] = committed[d] /\ (d \in gaps' <=> d \in gaps)
           /\ \/ fact'[e] = Created(e) /\ committed'[e] = clock /\ clock' = clock + 1
              \/ \E rows \in SUBSET silver[e] :
                    /\ MergedWith(e, rows)
                    /\ e \notin gaps' =>
                          /\ e \notin gaps
                          /\ LeavesNone(e, rows, IF e \in CommitTime /\ rows # {}
                                                THEN clock - 1 ELSE LatestOf(rows))
<1>1. /\ clock \in Nat /\ committed \in [Entities -> Nat] /\ DOMAIN fact = Entities
      /\ IngestInv /\ SilverInv
  BY DEF FactsInv, FactTypeOK, TypeOK
<1>2. ASSUME Create(e)
      PROVE  /\ DOMAIN committed' = Entities
             /\ fact'[e] = Created(e) /\ committed'[e] = clock /\ clock' = clock + 1
             /\ \A d \in Entities : d # e => fact'[d] = fact[d] /\ committed'[d] = committed[d]
  BY <1>1, <1>2 DEF Create, Created
<1>3. ASSUME NEW rows \in SUBSET silver[e], Merge(e, rows)
      PROVE  /\ MergedWith(e, rows) /\ DOMAIN committed' = Entities
             /\ \A d \in Entities : d # e => fact'[d] = fact[d] /\ committed'[d] = committed[d]
  BY <1>1, <1>3 DEF Merge, MergedWith
<1>4. CASE BuildFact(e)
  <2>1. AtFactBuild(e) /\ e \in DOMAIN silver /\ gaps' = gaps
    BY <1>4 DEF BuildFact, AtFactBuild
  <2>2. CASE Create(e)
    BY <1>2, <2>1, <2>2
  <2>3. CASE Merge(e, {r \in silver[e] : IngestedAt(r) > Watermark(e)})
    <3> DEFINE rows == {r \in silver[e] : IngestedAt(r) > Watermark(e)}
    <3>1. \A t : LeavesNone(e, rows, t)
      <4>1. \A r \in silver[e] : r \in BronzeRows(e)
        BY <1>1, <2>1 DEF SilverInv, Admitted
      <4>2. \A r \in silver[e] : IngestedAt(r) \in Nat
        BY <1>1, <4>1, StampsPositive
      <4>3. Watermark(e) \in Nat
        <5>1. {s \in silver[e] : Holds(fact[e], s.id)} \in SUBSET BronzeRows(e)
          BY <4>1
        <5> QED  BY <1>1, <5>1, LatestOfIs DEF Watermark
      <4> QED  BY <4>2, <4>3 DEF LeavesNone
    <3>2. rows \in SUBSET silver[e] /\ Merge(e, rows)
      BY <2>3
    <3> HIDE DEF rows
    <3> QED  BY <1>3, <2>1, <3>1, <3>2
  <2> QED  BY <1>4, <2>2, <2>3 DEF BuildFact
<1>5. CASE FullRefresh(e)
  BY <1>2, <1>5 DEF FullRefresh, AtFactBuild
<1>6. ASSUME NEW lo \in Omitted..clock, NEW hi \in Omitted..clock, Backfill(e, lo, hi)
      PROVE  /\ AtFactBuild(e) /\ e \in DOMAIN silver
             /\ DOMAIN committed' = Entities
             /\ \A d \in Entities : d # e =>
                   fact'[d] = fact[d] /\ committed'[d] = committed[d] /\ (d \in gaps' <=> d \in gaps)
             /\ \E rows \in SUBSET silver[e] :
                   /\ MergedWith(e, rows)
                   /\ e \notin gaps' =>
                         /\ e \notin gaps
                         /\ LeavesNone(e, rows, IF e \in CommitTime /\ rows # {}
                                               THEN clock - 1 ELSE LatestOf(rows))
  <2> DEFINE rows == {r \in silver[e] : IngestedAt(r) \in Window(lo, hi)}
             next == IF e \in CommitTime /\ rows # {} THEN clock ELSE LatestOf(rows)
             below == {t \in Watermark(e) + 1..next : t \notin Window(lo, hi)}
  <2>1. /\ AtFactBuild(e) /\ e \in DOMAIN silver /\ Merge(e, rows)
        /\ gaps' = IF \E r \in silver[e] : IngestedAt(r) \in below THEN gaps \cup {e} ELSE gaps
    BY <1>6 DEF Backfill, AtFactBuild
  <2>2. rows \in SUBSET silver[e]
    OBVIOUS
  <2>3. \A r \in silver[e] : r \in BronzeRows(e)
    BY <1>1, <2>1 DEF SilverInv, Admitted
  <2>4. \A r \in silver[e] : IngestedAt(r) \in Nat /\ 1 <= IngestedAt(r)
    BY <1>1, <2>3, StampsPositive
  <2>5. Watermark(e) \in Nat /\ LatestOf(rows) \in Nat
    <3>1. /\ {s \in silver[e] : Holds(fact[e], s.id)} \in SUBSET BronzeRows(e)
          /\ rows \in SUBSET BronzeRows(e)
      BY <2>3
    <3> QED  BY <1>1, <3>1, LatestOfIs DEF Watermark
  <2>6. ASSUME e \notin gaps'
        PROVE  /\ e \notin gaps
               /\ LeavesNone(e, rows, IF e \in CommitTime /\ rows # {}
                                     THEN clock - 1 ELSE LatestOf(rows))
    <3>1. e \notin gaps /\ \A r \in silver[e] : IngestedAt(r) \notin below
      BY <2>1, <2>6
    <3>2. ASSUME NEW r \in silver[e], Watermark(e) < IngestedAt(r), IngestedAt(r) <= next
          PROVE  r \in rows
      <4>1. IngestedAt(r) \in Watermark(e) + 1..next
        BY <1>1, <2>4, <2>5, <3>2
      <4> QED  BY <3>1, <4>1
    <3>3. \A r \in silver[e] :
            IngestedAt(r) <= (IF e \in CommitTime /\ rows # {} THEN clock - 1 ELSE LatestOf(rows))
              => IngestedAt(r) <= next
      BY <1>1, <2>4, <2>5
    <3> HIDE DEF rows, next, below
    <3> QED  BY <3>1, <3>2, <3>3 DEF LeavesNone
  <2> HIDE DEF rows
  <2>7. \A d \in Entities : d # e => (d \in gaps' <=> d \in gaps)
    BY <2>1
  <2> QED  BY <1>3, <2>1, <2>2, <2>6, <2>7
<1> QED  BY <1>4, <1>5, <1>6

(* Holes: whatever a merge takes, it takes with all that is below it.      *)
LEMMA JoinBuilt ==
    ASSUME FactsInv, SilverWhole, NEW e \in DOMAIN silver, e \notin CommitTime,
           DeliveredOnce(e), NEW rows \in SUBSET silver[e],
           LeavesNone(e, rows, LatestOf(rows)), Unbroken(e, fact[e])
    PROVE  Unbroken(e, Upsert(fact[e], rows))
<1> SUFFICES ASSUME NEW s \in BronzeRows(e), NEW r \in BronzeRows(e), Admitted(e, r),
                    Holds(Upsert(fact[e], rows), s.id), IngestedAt(r) <= IngestedAt(s)
             PROVE  Holds(Upsert(fact[e], rows), r.id)
  BY DEF Unbroken
<1>1. IngestInv /\ SilverInv
  BY DEF FactsInv
<1>2. \A q \in silver[e] : q \in BronzeRows(e)
  BY <1>1 DEF SilverInv, Admitted
<1>3. CASE Holds(fact[e], s.id)
  <2>1. Holds(fact[e], r.id)
    BY <1>3 DEF Unbroken
  <2> QED  BY <2>1, UpsertHolds
<1>4. CASE \E q \in rows : q.id = s.id
  <2>1. s \in rows
    BY <1>2, <1>4 DEF DeliveredOnce
  <2>2. r \in silver[e]
    BY <2>1 DEF SilverWhole
  <2>3. CASE IngestedAt(r) <= Watermark(e)
    <3>1. Holds(fact[e], r.id)
      BY <1>1, <2>2, <2>3, BelowJoinWatermark
    <3> QED  BY <3>1, UpsertHolds
  <2>4. CASE ~ (IngestedAt(r) <= Watermark(e))
    <3>1. /\ IngestedAt(r) \in Nat /\ IngestedAt(s) \in Nat
          /\ IngestedAt(s) <= LatestOf(rows) /\ LatestOf(rows) \in Nat
      <4>1. rows \in SUBSET BronzeRows(e)
        BY <1>2
      <4> QED  BY <1>1, <2>1, <4>1, LatestOfIs, StampsPositive
    <3>2. Watermark(e) \in Nat
      <4>1. {q \in silver[e] : Holds(fact[e], q.id)} \in SUBSET BronzeRows(e)
        BY <1>2
      <4> QED  BY <1>1, <4>1, LatestOfIs DEF Watermark
    <3>3. Watermark(e) < IngestedAt(r) /\ IngestedAt(r) <= LatestOf(rows)
      BY <2>4, <3>1, <3>2
    <3>4. r \in rows
      BY <2>2, <3>3 DEF LeavesNone
    <3> QED  BY <3>4, UpsertHolds
  <2> QED  BY <2>3, <2>4
<1> QED  BY <1>3, <1>4, UpsertHolds

LEMMA JoinCreated ==
    ASSUME SilverInv, SilverWhole, NEW e \in DOMAIN silver, DeliveredOnce(e)
    PROVE  Unbroken(e, Created(e))
<1> SUFFICES ASSUME NEW s \in BronzeRows(e), NEW r \in BronzeRows(e), Admitted(e, r),
                    Holds(Created(e), s.id), IngestedAt(r) <= IngestedAt(s)
             PROVE  Holds(Created(e), r.id)
  BY DEF Unbroken
<1>1. PICK q \in silver[e] : q.id = s.id
  BY DEF Holds, Created
<1>2. q = s
  BY <1>1 DEF SilverInv, Admitted, DeliveredOnce
<1>3. r \in silver[e]
  BY <1>2 DEF SilverWhole
<1> QED  BY <1>3 DEF Holds, Created

(* A commit over fresh silver that leaves out nothing newer than the last. *)
LEMMA CommitBuilt ==
    ASSUME FactsInv, NEW e \in CommitTime, e \in DOMAIN silver, silver[e] = SilverRows(e),
           NEW rows \in SUBSET silver[e], LeavesNone(e, rows, clock - 1),
           HasUpTo(e, fact[e], committed[e])
    PROVE  \A r \in BronzeRows(e) : Admitted(e, r) => Holds(Upsert(fact[e], rows), r.id)
<1> SUFFICES ASSUME NEW r \in BronzeRows(e), Admitted(e, r)
             PROVE  Holds(Upsert(fact[e], rows), r.id)
  OBVIOUS
<1>1. IngestInv /\ SilverInv /\ clock \in Nat /\ committed[e] \in Nat /\ e \in Entities
  BY PolicyAssumption DEF FactsInv, FactTypeOK, TypeOK
<1>2. PICK s \in silver[e] : s.id = r.id /\ IngestedAt(r) <= IngestedAt(s)
  BY <1>1, SilverRowsAre
<1>3. s \in BronzeRows(e)
  BY <1>1 DEF SilverInv, Admitted
<1>4. IngestedAt(s) \in Nat /\ IngestedAt(r) \in Nat /\ IngestedAt(s) < clock
  BY <1>1, <1>3, StampsPositive
<1>5. CASE IngestedAt(r) <= committed[e]
  <2>1. Holds(fact[e], r.id)
    BY <1>5 DEF HasUpTo
  <2> QED  BY <2>1, UpsertHolds
<1>6. CASE ~ (IngestedAt(r) <= committed[e])
  <2>1. committed[e] < IngestedAt(s) /\ IngestedAt(s) <= clock - 1
    BY <1>1, <1>2, <1>4, <1>6
  <2>2. s \in rows
    BY <2>1 DEF LeavesNone, Watermark
  <2> QED  BY <1>2, <2>2, UpsertHolds
<1> QED  BY <1>5, <1>6

LEMMA CommitCreated ==
    ASSUME FactsInv, NEW e \in CommitTime, e \in DOMAIN silver, silver[e] = SilverRows(e)
    PROVE  \A r \in BronzeRows(e) : Admitted(e, r) => Holds(Created(e), r.id)
<1>1. e \in Entities /\ IngestInv
  BY PolicyAssumption DEF FactsInv
<1>2. \A r : Admitted(e, r) => \E s \in silver[e] : s.id = r.id
  BY <1>1, SilverRowsAre
<1> QED  BY <1>2 DEF Holds, Created

LEMMA BuildWatermark ==
    ASSUME FactsInv, WatermarkInv, FactStep, NEW e \in Entities,
           \/ BuildFact(e)
           \/ FullRefresh(e)
           \/ \E lo, hi \in Omitted..clock : Backfill(e, lo, hi)
    PROVE  WatermarkInv'
<1>1. /\ SilverInv /\ IngestInv /\ SilverWhole /\ JoinInv /\ CommitInv
      /\ clock \in Nat /\ committed \in [Entities -> Nat]
      /\ CommitTime \subseteq Entities
  BY PolicyAssumption DEF FactsInv, WatermarkInv, FactTypeOK, TypeOK
<1>2. /\ AtFactBuild(e) /\ e \in DOMAIN silver
      /\ \A d \in Entities : d # e =>
            fact'[d] = fact[d] /\ committed'[d] = committed[d] /\ (d \in gaps' <=> d \in gaps)
      /\ \/ fact'[e] = Created(e) /\ committed'[e] = clock /\ clock' = clock + 1
         \/ \E rows \in SUBSET silver[e] :
               /\ MergedWith(e, rows)
               /\ e \notin gaps' =>
                     /\ e \notin gaps
                     /\ LeavesNone(e, rows, IF e \in CommitTime /\ rows # {}
                                           THEN clock - 1 ELSE LatestOf(rows))
  BY BuildIs
<1>3. UNCHANGED << bronze, silver, scenario, process, stamp, package >>
  BY <1>2 DEF AtFactBuild, processVars
<1>4. /\ \A d : BronzeRows(d)' = BronzeRows(d)
      /\ \A d, r : (Admitted(d, r)' <=> Admitted(d, r)) /\ IngestedAt(r)' = IngestedAt(r)
      /\ \A d : DeliveredOnce(d)' <=> DeliveredOnce(d)
  BY <1>3 DEF BronzeRows, Admitted, IngestedAt, FilesOf, DeliveredOnce
<1>5. SilverWhole'
  BY <1>1, <1>3, <1>4 DEF SilverWhole
<1>6. ASSUME NEW d \in Entities, d \notin CommitTime, DeliveredOnce(d), d \notin gaps'
      PROVE  Unbroken(d, fact'[d])
  <2>1. CASE d # e
    BY <1>1, <1>2, <1>6, <2>1 DEF JoinInv, Unbroken
  <2>2. CASE d = e /\ fact'[e] = Created(e)
    BY <1>1, <1>2, <1>6, <2>2, JoinCreated
  <2>3. ASSUME d = e, NEW rows \in SUBSET silver[e], MergedWith(e, rows),
               e \notin gaps, LeavesNone(e, rows, LatestOf(rows))
        PROVE  Unbroken(d, fact'[d])
    <3>1. Unbroken(e, fact[e])
      BY <1>1, <1>6, <2>3 DEF JoinInv, Unbroken
    <3>2. fact'[e] = Upsert(fact[e], rows)
      BY <2>3 DEF MergedWith
    <3> QED  BY <1>1, <1>2, <1>6, <2>3, <3>1, <3>2, JoinBuilt
  <2> QED  BY <1>2, <1>6, <2>1, <2>2, <2>3
<1>7. JoinInv'
  BY <1>4, <1>6 DEF JoinInv, Unbroken
<1>8. \A d \in Entities : committed'[d] < clock' /\ (committed'[d] # 0 => d \in DOMAIN silver')
  <2>1. ASSUME NEW d \in Entities
        PROVE  committed[d] \in Nat /\ committed[d] < clock
    BY <1>1 DEF CommitInv
  <2>2. committed'[e] \in {committed[e], clock} /\ clock' \in {clock, clock + 1}
        /\ (committed'[e] = clock => clock' = clock + 1)
    <3>1. committed[e] \in Nat /\ committed[e] < clock
      BY <2>1
    <3> QED  BY <1>1, <1>2, <3>1 DEF MergedWith
  <2> QED  BY <1>1, <1>2, <1>3, <2>1, <2>2 DEF CommitInv
<1>9. ASSUME scenario.serial, NEW d \in CommitTime
      PROVE  /\ process' # "extracting" /\ package' = NoPackage
             /\ d \notin gaps' => HasUpTo(d, fact'[d], committed'[d])
  <2>1. AtRest /\ silver[e] = SilverRows(e)
    BY <1>2, <1>9 DEF AtFactBuild
  <2>2. process' # "extracting" /\ package' = NoPackage
    BY <1>3, <2>1 DEF AtRest
  <2>3. d \notin gaps => HasUpTo(d, fact[d], committed[d])
    BY <1>1, <1>9 DEF CommitInv, HasUpTo
  <2>4. CASE d # e
    BY <1>1, <1>2, <2>2, <2>3, <2>4
  <2>5. CASE d = e /\ fact'[e] = Created(e)
    <3>1. HasUpTo(d, fact'[d], committed'[d])
      BY <1>2, <1>9, <2>1, <2>5, CommitCreated DEF HasUpTo
    <3> QED  BY <2>2, <3>1
  <2>6. ASSUME d = e, d \notin gaps', NEW rows \in SUBSET silver[e], MergedWith(e, rows),
               e \notin gaps, LeavesNone(e, rows, IF e \in CommitTime /\ rows # {}
                                                THEN clock - 1 ELSE LatestOf(rows))
        PROVE  HasUpTo(d, fact'[d], committed'[d])
    <3>1. fact'[e] = Upsert(fact[e], rows)
      BY <2>6 DEF MergedWith
    <3>2. CASE rows = {}
      <4>1. committed'[e] = committed[e]
        BY <1>1, <1>2, <2>6, <3>2 DEF MergedWith
      <4> QED  BY <2>3, <2>6, <3>1, <4>1, UpsertHolds DEF HasUpTo
    <3>3. CASE rows # {}
      <4>1. LeavesNone(e, rows, clock - 1)
        BY <1>9, <2>6, <3>3
      <4>2. \A r \in BronzeRows(e) : Admitted(e, r) => Holds(fact'[e], r.id)
        BY <1>2, <1>9, <2>1, <2>3, <2>6, <3>1, <4>1, CommitBuilt
      <4> QED  BY <2>6, <4>2 DEF HasUpTo
    <3> QED  BY <3>2, <3>3
  <2>7. d = e /\ d \notin gaps' => HasUpTo(d, fact'[d], committed'[d])
    BY <1>2, <2>5, <2>6
  <2> QED  BY <2>2, <2>4, <2>7
<1>10. CommitInv'
  BY <1>3, <1>4, <1>8, <1>9 DEF CommitInv, HasUpTo
<1> QED  BY <1>5, <1>7, <1>10 DEF WatermarkInv

(***************************************************************************)
(* The other steps.                                                        *)
(***************************************************************************)
LEMMA SilverWatermark ==
    ASSUME FactsInv, WatermarkInv, NEW e \in Entities, BuildSilver(e)
    PROVE  WatermarkInv'
<1>1. /\ SilverInv /\ IngestInv /\ SilverWhole /\ JoinInv /\ CommitInv
  BY DEF FactsInv, WatermarkInv
<1>2. UNCHANGED << bronze, scenario, process, stamp, package, clock, fact, committed, gaps >>
  BY DEF BuildSilver, ingestVars, processVars
<1>3. /\ \A d : BronzeRows(d)' = BronzeRows(d)
      /\ \A d, r : (Admitted(d, r)' <=> Admitted(d, r)) /\ IngestedAt(r)' = IngestedAt(r)
      /\ \A d : DeliveredOnce(d)' <=> DeliveredOnce(d)
  BY <1>2 DEF BronzeRows, Admitted, IngestedAt, FilesOf, DeliveredOnce
<1>4. /\ DOMAIN silver' = DOMAIN silver \cup {e}
      /\ silver'[e] = SilverRows(e)
      /\ \A d \in DOMAIN silver : d # e => silver'[d] = silver[d]
  BY DEF BuildSilver
<1>5. ASSUME DeliveredOnce(e), NEW r \in BronzeRows(e), Admitted(e, r)
      PROVE  r \in SilverRows(e)
  <2>1. PICK s \in SilverRows(e) : s.id = r.id
    BY <1>1, <1>5, SilverRowsAre
  <2>2. s \in BronzeRows(e)
    BY <1>1, SilverRowsAre DEF Admitted
  <2> QED  BY <1>5, <2>1, <2>2 DEF DeliveredOnce
<1>6. SilverWhole'
  BY <1>1, <1>3, <1>4, <1>5 DEF SilverWhole
<1>7. JoinInv'
  BY <1>1, <1>2, <1>3 DEF JoinInv
<1>8. CommitInv'
  BY <1>1, <1>2, <1>3, <1>4 DEF CommitInv
<1> QED  BY <1>6, <1>7, <1>8 DEF WatermarkInv

LEMMA UnchangedWatermark ==
    ASSUME WatermarkInv, UNCHANGED << bronze, scenario, silver, process, stamp, package, clock,
                                      fact, committed, gaps >>
    PROVE  WatermarkInv'
<1>1. /\ \A d : BronzeRows(d)' = BronzeRows(d)
      /\ \A d, r : (Admitted(d, r)' <=> Admitted(d, r)) /\ IngestedAt(r)' = IngestedAt(r)
      /\ \A d : DeliveredOnce(d)' <=> DeliveredOnce(d)
  BY DEF BronzeRows, Admitted, IngestedAt, FilesOf, DeliveredOnce
<1>2. SilverWhole' /\ JoinInv' /\ CommitInv'
  BY <1>1 DEF WatermarkInv, SilverWhole, JoinInv, CommitInv
<1> QED  BY <1>2 DEF WatermarkInv

LEMMA IngestionWatermark ==
    ASSUME FactsInv, WatermarkInv, Next, UNCHANGED factVars
    PROVE  WatermarkInv'
<1>1. /\ FactTypeOK /\ TypeOK /\ SilverInv /\ IngestInv /\ FactInv
      /\ SilverWhole /\ JoinInv /\ CommitInv /\ CommitTime \subseteq Entities
      /\ DOMAIN silver \subseteq Entities /\ committed \in [Entities -> Nat]
  BY PolicyAssumption DEF FactsInv, WatermarkInv, FactTypeOK
<1>2. UNCHANGED << scenario, silver, fact, committed, gaps >>
  BY DEF factVars
<1>3. ASSUME NEW e, NEW r \in BronzeRows(e)
      PROVE  /\ r \in BronzeRows(e)' /\ IngestedAt(r)' = IngestedAt(r)
             /\ (Admitted(e, r)' => Admitted(e, r))
  BY <1>1, <1>3, RowsStay DEF Admitted
<1>4. ASSUME NEW e, DeliveredOnce(e)' PROVE DeliveredOnce(e)
  BY <1>1, <1>4, OnceBefore
<1>5. ASSUME NEW e \in Entities, DeliveredOnce(e)', NEW s \in BronzeRows(e),
             NEW r \in BronzeRows(e)', Admitted(e, r)', IngestedAt(r)' <= IngestedAt(s)'
      PROVE  r \in BronzeRows(e) /\ Admitted(e, r) /\ IngestedAt(r) <= IngestedAt(s)
  <2>1. IngestedAt(s)' = IngestedAt(s) /\ IngestedAt(s) \in Nat
    BY <1>1, <1>3, StampsPositive
  <2>2. ASSUME r \notin BronzeRows(e) PROVE FALSE
    <3>1. IngestedAt(s) < IngestedAt(r)'
      BY <1>1, <1>5, <2>2, NewRowsLast
    <3>2. IngestedAt(r)' = package.stamp /\ package.stamp \in Nat
      BY <1>1, <1>5, <2>2, NewRow DEF TypeOK
    <3> QED  BY <1>5, <2>1, <3>1, <3>2
  <2>3. r \in BronzeRows(e)
    BY <2>2
  <2> QED  BY <1>3, <1>5, <2>1, <2>3
<1>6. SilverWhole'
  <2>1. \A e \in DOMAIN silver : \A s \in silver[e] : s \in BronzeRows(e)
    BY <1>1 DEF SilverInv, Admitted
  <2>2. ASSUME NEW e \in DOMAIN silver, DeliveredOnce(e)', NEW s \in silver[e],
               NEW r \in BronzeRows(e)', Admitted(e, r)', IngestedAt(r)' <= IngestedAt(s)'
        PROVE  r \in silver[e]
    <3>1. r \in BronzeRows(e) /\ Admitted(e, r) /\ IngestedAt(r) <= IngestedAt(s)
      BY <1>1, <1>5, <2>1, <2>2
    <3> QED  BY <1>1, <1>4, <2>2, <3>1 DEF SilverWhole
  <2> QED  BY <1>2, <2>2 DEF SilverWhole
<1>7. JoinInv'
  <2>1. ASSUME NEW e \in Entities \ CommitTime, DeliveredOnce(e)', e \notin gaps,
               NEW s \in BronzeRows(e)', NEW r \in BronzeRows(e)', Admitted(e, r)',
               Holds(fact[e], s.id), IngestedAt(r)' <= IngestedAt(s)'
        PROVE  Holds(fact[e], r.id)
    <3>1. PICK a \in DOMAIN fact[e] : a.id = s.id
      BY <2>1 DEF Holds
    <3>2. a \in BronzeRows(e)
      BY <1>1, <3>1 DEF FactInv, FactOK
    <3>3. a = s
      BY <1>3, <2>1, <3>1, <3>2 DEF DeliveredOnce
    <3>4. r \in BronzeRows(e) /\ Admitted(e, r) /\ IngestedAt(r) <= IngestedAt(s)
      BY <1>5, <2>1, <3>2, <3>3
    <3> QED  BY <1>1, <1>4, <2>1, <3>2, <3>3, <3>4 DEF JoinInv
  <2> QED  BY <1>2, <2>1 DEF JoinInv
<1>8. ASSUME NEW e \in Entities
      PROVE  /\ committed[e] < clock'
             /\ scenario.serial /\ e \in CommitTime =>
                   /\ process' = "extracting" => committed[e] < stamp'
                   /\ package' # NoPackage => committed[e] < package'.stamp
  <2>1. committed[e] \in Nat /\ committed[e] < clock
    BY <1>1 DEF CommitInv
  <2>2. ASSUME scenario.serial, e \in CommitTime
        PROVE  /\ process' = "extracting" => committed[e] < stamp'
               /\ package' # NoPackage => committed[e] < package'.stamp
    <3>1. /\ process = "extracting" => committed[e] < stamp
          /\ package # NoPackage => committed[e] < package.stamp
      BY <1>1, <2>2 DEF CommitInv
    <3> QED  BY <1>1, <2>1, <3>1, BatchLater
  <2>3. committed[e] < clock'
    <3>1. clock \in Nat /\ clock' \in {clock, clock + 1}
      BY <1>1 DEF TypeOK, Next, RunStep, Failure, DropFile, Start, Extract, EndExtract,
                  LoadJob, EndLoad, Crash, MidCommit, LoseDir
    <3> QED  BY <2>1, <3>1
  <2> QED  BY <2>2, <2>3
<1>9. ASSUME scenario.serial, NEW e \in CommitTime, e \notin gaps, NEW r \in BronzeRows(e)',
             Admitted(e, r)', IngestedAt(r)' <= committed[e]
      PROVE  Holds(fact[e], r.id)
  <2>1. CASE r \in BronzeRows(e)
    BY <1>1, <1>3, <1>9, <2>1 DEF CommitInv
  <2>2. CASE r \notin BronzeRows(e)
    <3>1. IngestedAt(r)' = package.stamp /\ package # NoPackage /\ package.stamp \in Nat
      BY <1>1, <1>9, <2>2, NewRow DEF TypeOK
    <3>2. committed[e] < package.stamp /\ committed[e] \in Nat
      BY <1>1, <1>9, <3>1 DEF CommitInv
    <3> QED  BY <1>9, <3>1, <3>2
  <2> QED  BY <2>1, <2>2
<1>10. CommitInv'
  <2>1. \A e \in Entities : committed[e] # 0 => e \in DOMAIN silver
    BY <1>1 DEF CommitInv
  <2> QED  BY <1>1, <1>2, <1>8, <1>9, <2>1 DEF CommitInv
<1> QED  BY <1>6, <1>7, <1>10 DEF WatermarkInv

LEMMA InitWatermark == FactInit => WatermarkInv
<1> SUFFICES ASSUME FactInit PROVE WatermarkInv
  OBVIOUS
<1>1. /\ DOMAIN silver = {} /\ \A e \in Entities : DOMAIN fact[e] = {} /\ committed[e] = 0
      /\ clock = 1 /\ CommitTime \subseteq Entities
      /\ process = "idle" /\ package = NoPackage
  BY PolicyAssumption DEF FactInit, Init
<1>2. IngestInv
  BY InitIngestInv DEF FactInit
<1>3. SilverWhole
  BY <1>1 DEF SilverWhole
<1>4. JoinInv
  BY <1>1 DEF JoinInv, Holds
<1>5. CommitInv
  <2>1. ASSUME NEW e, NEW r \in BronzeRows(e) PROVE ~ (IngestedAt(r) <= 0)
    BY <1>2, StampsPositive
  <2> QED  BY <1>1, <2>1 DEF CommitInv
<1> QED  BY <1>3, <1>4, <1>5 DEF WatermarkInv

LEMMA NextWatermark == FactsInv /\ WatermarkInv /\ [FactNext]_allVars => WatermarkInv'
<1> SUFFICES ASSUME FactsInv, WatermarkInv, [FactNext]_allVars PROVE WatermarkInv'
  OBVIOUS
<1>0. scenario.builds \subseteq Entities
  BY ScenariosAssumption DEF FactsInv, FactTypeOK
<1>1. CASE Next /\ UNCHANGED factVars
  BY <1>1, IngestionWatermark
<1>2. CASE FactStep
  <2>1. ASSUME NEW e \in scenario.builds, BuildSilver(e) PROVE WatermarkInv'
    BY <1>0, <2>1, SilverWatermark
  <2>2. ASSUME NEW e \in scenario.builds,
               \/ BuildFact(e)
               \/ FullRefresh(e)
               \/ \E lo, hi \in Omitted..clock : Backfill(e, lo, hi)
        PROVE  WatermarkInv'
    BY <1>0, <1>2, <2>2, BuildWatermark
  <2>3. ASSUME NEW table, BuildRejects(table) PROVE WatermarkInv'
    BY <2>3, UnchangedWatermark DEF BuildRejects, ingestVars, processVars
  <2> QED  BY <1>2, <2>1, <2>2, <2>3 DEF FactStep
<1>3. CASE UNCHANGED allVars
  BY <1>3, UnchangedWatermark DEF allVars, ingestVars, processVars, factVars
<1> QED  BY <1>1, <1>2, <1>3 DEF FactNext

(***************************************************************************)
(* Theorem.                                                                *)
(***************************************************************************)
(* "The watermark must never skip a row that is genuinely new": a normal   *)
(* run of a fact no backfill punched a hole into leaves out nothing the    *)
(* fact has not, in the regime its kind of watermark is made for.          *)
THEOREM WatermarkIsSafe == FactSpec => []WatermarkSkipsNothing
<1>1. FactInit => FactsInv /\ WatermarkInv
  BY InitFactsInv, InitWatermark
<1>2. FactsInv /\ WatermarkInv /\ [FactNext]_allVars => FactsInv' /\ WatermarkInv'
  BY NextFactsInv, NextWatermark
<1> QED  BY <1>1, <1>2, InvSkipsNothing, PTL DEF FactSpec
=============================================================================
