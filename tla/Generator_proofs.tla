-------------------------- MODULE Generator_proofs --------------------------
(***************************************************************************)
(* The generator for every run configuration: each of its invariants, from *)
(* what a run keeps true between any two files.                            *)
(***************************************************************************)
EXTENDS Generator, ChangeStreams_proofs

(***************************************************************************)
(* How many times something is in a sequence.                              *)
(***************************************************************************)
Times(s, v) == Cardinality({k \in DOMAIN s : s[k] = v})

LEMMA SameSize ==
    ASSUME NEW S, NEW T, IsFiniteSet(S), NEW f \in [S -> T],
           \A a, b \in S : f[a] = f[b] => a = b,
           \A t \in T : \E a \in S : f[a] = t
    PROVE  IsFiniteSet(T) /\ Cardinality(T) = Cardinality(S)
<1>1. f \in Bijection(S, T)
  BY DEF Bijection, Injection, Surjection, IsInjective
<1>2. ExistsBijection(S, T)
  BY <1>1 DEF ExistsBijection
<1> QED  BY <1>2, FS_Bijection

LEMMA SumOfParts ==
    ASSUME NEW A, NEW B, IsFiniteSet(A), IsFiniteSet(B), A \cap B = {}
    PROVE  /\ IsFiniteSet(A \cup B) /\ Cardinality(A) \in Nat /\ Cardinality(B) \in Nat
           /\ Cardinality(A \cup B) = Cardinality(A) + Cardinality(B)
<1>1. Cardinality(A \cap B) = 0
  BY FS_EmptySet
<1>2. Cardinality(A) \in Nat /\ Cardinality(B) \in Nat
  BY FS_CardinalityType
<1>3. IsFiniteSet(A \cup B) /\ Cardinality(A \cup B) = Cardinality(A) + Cardinality(B) - Cardinality(A \cap B)
  BY FS_Union
<1> QED  BY <1>1, <1>2, <1>3

LEMMA SomePlaces ==
    ASSUME NEW T, NEW s \in Seq(T), NEW A, A \subseteq DOMAIN s
    PROVE  IsFiniteSet(A) /\ Cardinality(A) \in Nat
<1>1. Len(s) \in Nat /\ DOMAIN s = 1..Len(s)
  OBVIOUS
<1>2. IsFiniteSet(1..Len(s))
  BY <1>1, FS_Interval
<1>3. A \in SUBSET (1..Len(s))
  BY <1>1
<1> QED  BY <1>2, <1>3, FS_Subset, FS_CardinalityType

LEMMA TimesOf ==
    ASSUME NEW T, NEW s \in Seq(T), NEW v
    PROVE  /\ Times(s, v) \in Nat
           /\ Times(s, v) = 0 <=> \A k \in DOMAIN s : s[k] # v
<1> DEFINE A == {k \in DOMAIN s : s[k] = v}
<1>1. IsFiniteSet(A) /\ Cardinality(A) \in Nat
  <2>1. A \subseteq DOMAIN s
    OBVIOUS
  <2> HIDE DEF A
  <2> QED  BY <2>1, SomePlaces
<1>2. Cardinality(A) = 0 <=> A = {}
  <2> HIDE DEF A
  <2> QED  BY <1>1, FS_EmptySet
<1> QED  BY <1>1, <1>2 DEF Times

LEMMA TimesConcat ==
    ASSUME NEW T, NEW s \in Seq(T), NEW t \in Seq(T), NEW v
    PROVE  Times(s \o t, v) = Times(s, v) + Times(t, v)
<1> DEFINE n == Len(s)
           m == Len(t)
           p == s \o t
           A == {k \in DOMAIN s : s[k] = v}
           B == {k \in DOMAIN t : t[k] = v}
           C == {k \in DOMAIN p : p[k] = v}
           D == {k \in n + 1..n + m : p[k] = v}
           f == [k \in B |-> n + k]
<1>1. /\ n \in Nat /\ m \in Nat /\ DOMAIN s = 1..n /\ DOMAIN t = 1..m
  OBVIOUS
<1>2. DOMAIN p = 1..n + m /\ \A i \in 1..n + m : p[i] = IF i <= n THEN s[i] ELSE t[i - n]
  <2>1. p \in Seq(T) /\ Len(p) = n + m /\ \A i \in 1..n + m : p[i] = IF i <= n THEN s[i] ELSE t[i - n]
    BY ConcatProperties
  <2> HIDE DEF p
  <2> QED  BY <2>1
<1>3. IsFiniteSet(A) /\ IsFiniteSet(B)
  <2>1. A \subseteq DOMAIN s /\ B \subseteq DOMAIN t
    OBVIOUS
  <2> HIDE DEF A, B
  <2> QED  BY <2>1, SomePlaces
<1> HIDE DEF n, m, p
<1>4. /\ \A k \in 1..n : k \in 1..n + m /\ p[k] = s[k]
      /\ \A k \in 1..m : n + k \in n + 1..n + m /\ n + k \in 1..n + m /\ p[n + k] = t[k]
      /\ \A k \in n + 1..n + m : k - n \in 1..m /\ n + (k - n) = k /\ k \in 1..n + m /\ k \notin 1..n
      /\ \A k \in 1..n + m : k \in 1..n \/ k \in n + 1..n + m
  <2>1. \A k \in 1..n : k \in 1..n + m /\ k <= n
    BY <1>1
  <2>2. \A k \in 1..m : n + k \in n + 1..n + m /\ n + k \in 1..n + m /\ ~ (n + k <= n) /\ (n + k) - n = k
    BY <1>1
  <2>3. \A k \in n + 1..n + m : k - n \in 1..m /\ n + (k - n) = k /\ k \in 1..n + m /\ k \notin 1..n
    BY <1>1
  <2>4. \A k \in 1..n + m : k \in 1..n \/ k \in n + 1..n + m
    BY <1>1
  <2>5. \A k \in 1..n : p[k] = s[k]
    BY <1>2, <2>1
  <2>6. ASSUME NEW k \in 1..m PROVE p[n + k] = t[k]
    <3>1. p[n + k] = t[(n + k) - n]
      BY <1>2, <2>2
    <3>2. (n + k) - n = k
      BY <2>2
    <3> QED  BY <3>1, <3>2
  <2> QED  BY <2>1, <2>2, <2>3, <2>4, <2>5, <2>6
<1>5. C = A \cup D /\ A \cap D = {}
  BY <1>1, <1>2, <1>4
<1>6. f \in [B -> D] /\ (\A a, b \in B : f[a] = f[b] => a = b) /\ \A d \in D : \E a \in B : f[a] = d
  <2>1. \A a \in B : a \in 1..m /\ t[a] = v
    BY <1>1
  <2>2. f \in [B -> D]
    BY <1>4, <2>1
  <2>3. \A a, b \in B : f[a] = f[b] => a = b
    <3>1. \A a \in B : a \in Int
      BY <2>1
    <3> QED  BY <1>1, <3>1
  <2>4. ASSUME NEW d \in D PROVE \E a \in B : f[a] = d
    <3>1. d - n \in 1..m /\ n + (d - n) = d /\ p[d] = v
      BY <1>4
    <3>2. p[n + (d - n)] = t[d - n]
      BY <1>4, <3>1
    <3>3. d - n \in B
      BY <1>1, <3>1, <3>2
    <3>4. f[d - n] = d
      BY <3>1, <3>3
    <3> QED  BY <3>3, <3>4
  <2> QED  BY <2>2, <2>3, <2>4
<1> HIDE DEF A, B, C, D, f
<1>7. IsFiniteSet(D) /\ Cardinality(D) = Cardinality(B)
  BY <1>3, <1>6, SameSize
<1>8. Cardinality(C) = Cardinality(A) + Cardinality(D)
  BY <1>3, <1>5, <1>7, SumOfParts
<1> QED  BY <1>7, <1>8 DEF Times, A, B, C, p

LEMMA TimesPicked ==
    ASSUME NEW T, NEW s \in Seq(T), NEW S \in SUBSET DOMAIN s, NEW v
    PROVE  Times(Picked(s, S), v) = Cardinality({k \in S : s[k] = v})
<1> DEFINE m == Cardinality(S)
           p == Picked(s, S)
<1>1. PICK from \in [1..Cardinality(S) -> S] :
                /\ Picked(s, S) = [k \in 1..Cardinality(S) |-> s[from[k]]]
                /\ \A k, l \in 1..Cardinality(S) : k < l => from[k] < from[l]
                /\ \A k, l \in 1..Cardinality(S) : k # l => from[k] # from[l]
                /\ \A i \in S : \E k \in 1..Cardinality(S) : from[k] = i
  BY PickedIs
<1>2. /\ DOMAIN p = 1..m
      /\ \A k \in 1..m : from[k] \in S /\ p[k] = s[from[k]]
  BY <1>1
<1>3. /\ \A k, l \in 1..m : k # l => from[k] # from[l]
      /\ \A i \in S : \E k \in 1..m : from[k] = i
  BY <1>1
<1>4. m \in Nat
  BY PickedIs
<1> HIDE DEF p, m
<1> DEFINE A == {k \in 1..m : p[k] = v}
           B == {k \in S : s[k] = v}
           f == [k \in A |-> from[k]]
<1>5. IsFiniteSet(A)
  <2>1. IsFiniteSet(1..m)
    BY <1>4, FS_Interval
  <2> QED  BY <2>1, FS_Subset
<1>6. f \in [A -> B]
  BY <1>2
<1>7. \A a, b \in A : f[a] = f[b] => a = b
  BY <1>3
<1>8. \A b \in B : \E a \in A : f[a] = b
  <2> SUFFICES ASSUME NEW b \in B PROVE \E a \in A : f[a] = b
    OBVIOUS
  <2>1. PICK k \in 1..m : from[k] = b
    BY <1>3
  <2>2. p[k] = s[b]
    BY <1>2, <2>1
  <2>3. k \in A
    BY <2>2
  <2> QED  BY <2>1, <2>3
<1> HIDE DEF A, B, f
<1>9. Cardinality(B) = Cardinality(A)
  BY <1>5, <1>6, <1>7, <1>8, SameSize
<1> QED  BY <1>2, <1>9 DEF Times, A, B, p

(* A sequence taken apart.                                                 *)
Split(D, S, R) == S \subseteq D /\ R \subseteq D /\ S \cap R = {} /\ S \cup R = D

LEMMA TimesApart ==
    ASSUME NEW T, NEW s \in Seq(T), NEW S, NEW R, Split(DOMAIN s, S, R), NEW v
    PROVE  Times(Picked(s, S), v) + Times(Picked(s, R), v) = Times(s, v)
<1> DEFINE A == {k \in S : s[k] = v}
           B == {k \in R : s[k] = v}
           C == {k \in DOMAIN s : s[k] = v}
<1>1. IsFiniteSet(A) /\ IsFiniteSet(B)
  <2>1. A \subseteq DOMAIN s /\ B \subseteq DOMAIN s
    BY DEF Split
  <2> HIDE DEF A, B
  <2> QED  BY <2>1, SomePlaces
<1>2. A \cap B = {} /\ A \cup B = C
  BY DEF Split
<1>3. Times(Picked(s, S), v) = Cardinality(A) /\ Times(Picked(s, R), v) = Cardinality(B)
  <2>1. S \in SUBSET DOMAIN s /\ R \in SUBSET DOMAIN s
    BY DEF Split
  <2> QED  BY <2>1, TimesPicked
<1> HIDE DEF A, B, C
<1>4. Cardinality(C) = Cardinality(A) + Cardinality(B)
  BY <1>1, <1>2, SumOfParts
<1> QED  BY <1>3, <1>4 DEF Times, C

(* Numbers given out one after the other.                                  *)
LEMMA TimesNumbered ==
    ASSUME NEW n \in Nat, NEW first \in Nat, NEW s \in Seq(Nat), DOMAIN s = 1..n,
           \A k \in 1..n : s[k] = first + k - 1, NEW v \in Nat
    PROVE  Times(s, v) = IF v \in first..first + n - 1 THEN 1 ELSE 0
<1> DEFINE A == {k \in DOMAIN s : s[k] = v}
<1>1. CASE v \in first..first + n - 1
  <2> DEFINE k == v - first + 1
  <2>1. k \in 1..n /\ first + k - 1 = v
    BY <1>1
  <2>2. \A j \in 1..n : first + j - 1 = v => j = k
    BY <1>1
  <2> HIDE DEF k
  <2>3. A = {k}
    BY <2>1, <2>2
  <2> HIDE DEF A
  <2>4. Cardinality(A) = 1
    BY <2>3, FS_Singleton
  <2> QED  BY <1>1, <2>4 DEF Times, A
<1>2. CASE v \notin first..first + n - 1
  <2>1. \A j \in 1..n : first + j - 1 # v
    BY <1>2
  <2>2. A = {}
    BY <2>1
  <2> HIDE DEF A
  <2>3. Cardinality(A) = 0
    BY <2>2, FS_EmptySet
  <2> QED  BY <1>2, <2>3 DEF Times, A
<1> QED  BY <1>1, <1>2

(***************************************************************************)
(* The rows of a fact, and how many of them carry an id.                   *)
(***************************************************************************)
FilesIn(fs, fact) == {name \in DOMAIN fs : name[1] = fact}
PlacesIn(fs, fact) == UNION {{name} \X DOMAIN fs[name] : name \in FilesIn(fs, fact)}
RowIn(fs, place) == fs[place[1]][place[2]]
RowsIn(fs, fact) == {RowIn(fs, place) : place \in PlacesIn(fs, fact)}
IdAt(fs, fact, id) == {place \in PlacesIn(fs, fact) : RowIn(fs, place).id = id}

LEMMA PlacesAre ==
    ASSUME NEW fs, NEW fact
    PROVE  /\ \A name, k : << name, k >> \in PlacesIn(fs, fact)
                               <=> name \in FilesIn(fs, fact) /\ k \in DOMAIN fs[name]
           /\ \A p \in PlacesIn(fs, fact) : \E name \in FilesIn(fs, fact) : \E k \in DOMAIN fs[name] :
                  p = << name, k >>
BY DEF PlacesIn

LEMMA RowsAre ==
    ASSUME NEW fs, NEW fact
    PROVE  /\ \A name \in FilesIn(fs, fact) : \A k \in DOMAIN fs[name] :
                  fs[name][k] \in RowsIn(fs, fact)
           /\ \A r \in RowsIn(fs, fact) : \E name \in FilesIn(fs, fact) :
                  \E k \in DOMAIN fs[name] : r = fs[name][k]
<1>1. ASSUME NEW name \in FilesIn(fs, fact), NEW k \in DOMAIN fs[name]
      PROVE  fs[name][k] \in RowsIn(fs, fact)
  <2>1. << name, k >> \in PlacesIn(fs, fact)
    BY PlacesAre
  <2>2. RowIn(fs, << name, k >>) = fs[name][k]
    BY DEF RowIn
  <2> QED  BY <2>1, <2>2 DEF RowsIn
<1>2. ASSUME NEW r \in RowsIn(fs, fact)
      PROVE  \E name \in FilesIn(fs, fact) : \E k \in DOMAIN fs[name] : r = fs[name][k]
  <2>1. PICK p \in PlacesIn(fs, fact) : r = RowIn(fs, p)
    BY DEF RowsIn
  <2>2. PICK name \in FilesIn(fs, fact) : \E k \in DOMAIN fs[name] : p = << name, k >>
    BY PlacesAre
  <2>2a. PICK k \in DOMAIN fs[name] : p = << name, k >>
    BY <2>2
  <2> QED  BY <2>1, <2>2a DEF RowIn
<1> QED  BY <1>1, <1>2

(* What a new file adds: nothing but its rows.                             *)
Adds(fs, fact, new, rows, gs) ==
    /\ new \notin DOMAIN fs /\ DOMAIN gs = DOMAIN fs \cup {new}
    /\ gs[new] = rows
    /\ \A name \in DOMAIN fs : gs[name] = fs[name]
    /\ new \notin FilesIn(fs, fact) /\ FilesIn(gs, fact) = FilesIn(fs, fact) \cup {new}
    /\ \A other : other # fact => FilesIn(gs, other) = FilesIn(fs, other)
    /\ \A other : \A name \in FilesIn(fs, other) : gs[name] = fs[name]

LEMMA FileAdded ==
    ASSUME NEW fs, NEW fact, NEW prefix, NEW part, NEW rows,
           << fact, prefix, part >> \notin DOMAIN fs
    PROVE  Adds(fs, fact, << fact, prefix, part >>, rows, WithFile(fs, fact, prefix, part, rows))
BY DEF Adds, WithFile, FilesIn

LEMMA RowsAdded ==
    ASSUME NEW fs, NEW fact, NEW new, NEW rows, NEW gs, Adds(fs, fact, new, rows, gs)
    PROVE  RowsIn(gs, fact) = RowsIn(fs, fact) \cup {rows[k] : k \in DOMAIN rows}
<1>1. /\ gs[new] = rows /\ FilesIn(gs, fact) = FilesIn(fs, fact) \cup {new}
      /\ \A name \in FilesIn(fs, fact) : gs[name] = fs[name]
  BY DEF Adds
<1>2. ASSUME NEW r \in RowsIn(gs, fact)
      PROVE  r \in RowsIn(fs, fact) \/ \E k \in DOMAIN rows : r = rows[k]
  <2>1. PICK name \in FilesIn(gs, fact) : \E k \in DOMAIN gs[name] : r = gs[name][k]
    BY RowsAre
  <2>2. CASE name = new
    BY <1>1, <2>1, <2>2
  <2>3. CASE name # new
    <3>1. name \in FilesIn(fs, fact) /\ gs[name] = fs[name]
      BY <1>1, <2>3
    <3> QED  BY <2>1, <3>1, RowsAre
  <2> QED  BY <2>2, <2>3
<1>3. ASSUME NEW r \in RowsIn(fs, fact) PROVE r \in RowsIn(gs, fact)
  <2>1. PICK name \in FilesIn(fs, fact) : \E k \in DOMAIN fs[name] : r = fs[name][k]
    BY RowsAre
  <2>2. name \in FilesIn(gs, fact) /\ gs[name] = fs[name]
    BY <1>1
  <2> QED  BY <2>1, <2>2, RowsAre
<1>4. ASSUME NEW k \in DOMAIN rows PROVE rows[k] \in RowsIn(gs, fact)
  <2>1. new \in FilesIn(gs, fact) /\ gs[new] = rows
    BY <1>1
  <2> QED  BY <2>1, RowsAre
<1>5. RowsIn(gs, fact) = RowsIn(fs, fact) \cup {rows[k] : k \in DOMAIN rows}
  BY <1>2, <1>3, <1>4
<1> QED  BY <1>5

LEMMA OthersKept ==
    ASSUME NEW fs, NEW fact, NEW new, NEW rows, NEW gs, Adds(fs, fact, new, rows, gs),
           NEW other, other # fact
    PROVE  /\ RowsIn(gs, other) = RowsIn(fs, other)
           /\ \A id : IdAt(gs, other, id) = IdAt(fs, other, id)
<1>1. /\ FilesIn(gs, other) = FilesIn(fs, other)
      /\ \A name \in FilesIn(fs, other) : gs[name] = fs[name]
  BY DEF Adds
<1>2. PlacesIn(gs, other) = PlacesIn(fs, other)
  <2>1. {{name} \X DOMAIN gs[name] : name \in FilesIn(gs, other)}
          = {{name} \X DOMAIN fs[name] : name \in FilesIn(fs, other)}
    BY <1>1
  <2> QED  BY <2>1 DEF PlacesIn
<1>3. ASSUME NEW p \in PlacesIn(fs, other) PROVE RowIn(gs, p) = RowIn(fs, p)
  <2>1. PICK name \in FilesIn(fs, other) : \E k \in DOMAIN fs[name] : p = << name, k >>
    BY PlacesAre
  <2>1a. PICK k \in DOMAIN fs[name] : p = << name, k >>
    BY <2>1
  <2> QED  BY <1>1, <2>1a DEF RowIn
<1>4. RowsIn(gs, other) = RowsIn(fs, other)
  BY <1>2, <1>3 DEF RowsIn
<1>5. \A id : IdAt(gs, other, id) = IdAt(fs, other, id)
  BY <1>2, <1>3 DEF IdAt
<1> QED  BY <1>4, <1>5

LEMMA IdsAdded ==
    ASSUME NEW fs, NEW fact, NEW new, NEW rows, NEW gs, Adds(fs, fact, new, rows, gs),
           NEW T, Ids(rows) \in Seq(T), NEW id, IsFiniteSet(IdAt(fs, fact, id))
    PROVE  /\ IsFiniteSet(IdAt(gs, fact, id))
           /\ Cardinality(IdAt(fs, fact, id)) \in Nat
           /\ Cardinality(IdAt(gs, fact, id)) = Cardinality(IdAt(fs, fact, id)) + Times(Ids(rows), id)
<1> DEFINE A == IdAt(fs, fact, id)
           K == {k \in DOMAIN Ids(rows) : Ids(rows)[k] = id}
           B == {<< new, k >> : k \in K}
           f == [k \in K |-> << new, k >>]
<1>1. /\ gs[new] = rows /\ FilesIn(gs, fact) = FilesIn(fs, fact) \cup {new}
      /\ \A name \in FilesIn(fs, fact) : gs[name] = fs[name]
      /\ new \notin FilesIn(fs, fact)
  BY DEF Adds
<1>2. IsFiniteSet(K)
  <2>1. K \subseteq DOMAIN Ids(rows)
    OBVIOUS
  <2> HIDE DEF K
  <2> QED  BY <2>1, SomePlaces
<1>3. f \in [K -> B] /\ (\A k, l \in K : f[k] = f[l] => k = l) /\ \A b \in B : \E k \in K : f[k] = b
  OBVIOUS
<1>4. IsFiniteSet(B) /\ Cardinality(B) = Cardinality(K)
  <2> HIDE DEF K, B, f
  <2> QED  BY <1>2, <1>3, SameSize
<1>5. K = {k \in DOMAIN rows : rows[k].id = id}
  BY DEF Ids
<1>6. ASSUME NEW p \in IdAt(gs, fact, id) PROVE p \in A \cup B
  <2>1. p \in PlacesIn(gs, fact) /\ RowIn(gs, p).id = id
    BY DEF IdAt
  <2> HIDE DEF K
  <2>2. PICK name \in FilesIn(gs, fact) : \E k \in DOMAIN gs[name] : p = << name, k >>
    BY <2>1, PlacesAre
  <2>2a. PICK k \in DOMAIN gs[name] : p = << name, k >>
    BY <2>2
  <2>3. CASE name = new
    <3>1. k \in K
      BY <1>1, <1>5, <2>1, <2>2a, <2>3 DEF RowIn
    <3> QED  BY <2>2a, <2>3, <3>1
  <2>4. CASE name # new
    <3>1. name \in FilesIn(fs, fact) /\ gs[name] = fs[name]
      BY <1>1, <2>4
    <3>2. p \in PlacesIn(fs, fact)
      BY <2>2a, <3>1, PlacesAre
    <3>3. RowIn(fs, p).id = id
      BY <2>1, <2>2a, <3>1 DEF RowIn
    <3> QED  BY <3>2, <3>3 DEF IdAt
  <2> QED  BY <2>3, <2>4
<1>7. ASSUME NEW p \in A PROVE p \in IdAt(gs, fact, id) /\ p \notin B
  <2>1. p \in PlacesIn(fs, fact) /\ RowIn(fs, p).id = id
    BY DEF IdAt
  <2>2. PICK name \in FilesIn(fs, fact) : \E k \in DOMAIN fs[name] : p = << name, k >>
    BY <2>1, PlacesAre
  <2>2a. PICK k \in DOMAIN fs[name] : p = << name, k >>
    BY <2>2
  <2> HIDE DEF K
  <2>3. name \in FilesIn(gs, fact) /\ gs[name] = fs[name] /\ name # new
    BY <1>1
  <2>4. p \in PlacesIn(gs, fact)
    BY <2>2a, <2>3, PlacesAre
  <2>5. RowIn(gs, p).id = id
    BY <2>1, <2>2a, <2>3 DEF RowIn
  <2>6. p \notin B
    BY <2>2a, <2>3
  <2> QED  BY <2>4, <2>5, <2>6 DEF IdAt
<1>8. ASSUME NEW k \in K PROVE << new, k >> \in IdAt(gs, fact, id)
  <2>1. k \in DOMAIN rows /\ rows[k].id = id
    BY <1>5
  <2> HIDE DEF K
  <2>2. << new, k >> \in PlacesIn(gs, fact)
    BY <1>1, <2>1, PlacesAre
  <2>3. RowIn(gs, << new, k >>).id = id
    BY <1>1, <2>1 DEF RowIn
  <2> QED  BY <2>2, <2>3 DEF IdAt
<1>9. IdAt(gs, fact, id) = A \cup B /\ A \cap B = {}
  <2> HIDE DEF A, K
  <2> QED  BY <1>6, <1>7, <1>8
<1>10. Cardinality(K) = Times(Ids(rows), id)
  BY DEF Times
<1>11. /\ IsFiniteSet(IdAt(gs, fact, id)) /\ Cardinality(A) \in Nat
       /\ Cardinality(IdAt(gs, fact, id)) = Cardinality(A) + Cardinality(B)
  <2>1. IsFiniteSet(A)
    OBVIOUS
  <2> HIDE DEF A, B
  <2> QED  BY <1>4, <1>9, <2>1, SumOfParts
<1> QED  BY <1>4, <1>10, <1>11

(* Each of the first n ids is in the rows or held back, once and as often  *)
(* again as it is repeated.                                                *)
Counted(fs, fact, n, held, again) ==
    /\ n \in Nat /\ held \in Seq(Nat) /\ again \in Seq(Nat)
    /\ \A r \in RowsIn(fs, fact) : r.id \in Nat
    /\ \A k \in DOMAIN again : again[k] < n
    /\ \A id \in Nat :
          /\ IsFiniteSet(IdAt(fs, fact, id))
          /\ Cardinality(IdAt(fs, fact, id)) + Times(held, id)
                 = Times(again, id) + (IF id < n THEN 1 ELSE 0)

(* From n ids to n + m: rows with these ids, and what is held back and     *)
(* repeated before and now.                                                *)
Even(ids, held, held_now, again, again_now, n, m) ==
    \A id \in Nat : Times(ids, id) + Times(held_now, id) + Times(again, id)
        = Times(held, id) + Times(again_now, id) + (IF id \in n..n + m - 1 THEN 1 ELSE 0)

LEMMA CountedMore ==
    ASSUME NEW fs, NEW fact, NEW new, NEW rows, NEW gs, Adds(fs, fact, new, rows, gs),
           NEW n, NEW held, NEW again, Counted(fs, fact, n, held, again),
           NEW m \in Nat, NEW held_now \in Seq(Nat), NEW again_now \in Seq(Nat),
           Ids(rows) \in Seq(Nat), \A k \in DOMAIN again_now : again_now[k] < n + m,
           Even(Ids(rows), held, held_now, again, again_now, n, m)
    PROVE  Counted(gs, fact, n + m, held_now, again_now)
<1>1. /\ n \in Nat /\ held \in Seq(Nat) /\ again \in Seq(Nat)
      /\ \A r \in RowsIn(fs, fact) : r.id \in Nat
  BY DEF Counted
<1>2. \A r \in RowsIn(gs, fact) : r.id \in Nat
  <2>1. \A k \in DOMAIN rows : rows[k].id \in Nat
    BY DEF Ids
  <2>2. RowsIn(gs, fact) = RowsIn(fs, fact) \cup {rows[k] : k \in DOMAIN rows}
    BY RowsAdded
  <2> QED  BY <1>1, <2>1, <2>2
<1>3. ASSUME NEW id \in Nat
      PROVE  /\ IsFiniteSet(IdAt(gs, fact, id))
             /\ Cardinality(IdAt(gs, fact, id)) + Times(held_now, id)
                    = Times(again_now, id) + (IF id < n + m THEN 1 ELSE 0)
  <2> DEFINE old == Cardinality(IdAt(fs, fact, id))
             now == Cardinality(IdAt(gs, fact, id))
             h == Times(held, id)
             i == Times(held_now, id)
             a == Times(again, id)
             b == Times(again_now, id)
             r == Times(Ids(rows), id)
  <2>1. IsFiniteSet(IdAt(fs, fact, id)) /\ old + h = a + (IF id < n THEN 1 ELSE 0)
    BY DEF Counted
  <2>2. IsFiniteSet(IdAt(gs, fact, id)) /\ old \in Nat /\ now = old + r
    BY <2>1, IdsAdded
  <2>3. h \in Nat /\ i \in Nat /\ a \in Nat /\ b \in Nat /\ r \in Nat
    BY <1>1, TimesOf
  <2>4. r + i + a = h + b + (IF id \in n..n + m - 1 THEN 1 ELSE 0)
    BY DEF Even
  <2> HIDE DEF old, now, h, i, a, b, r
  <2>5. now + i = b + (IF id < n + m THEN 1 ELSE 0)
    BY <1>1, <2>1, <2>2, <2>3, <2>4
  <2> QED  BY <2>2, <2>5 DEF now, i, b
<1> QED  BY <1>1, <1>2, <1>3 DEF Counted

LEMMA CountedOther ==
    ASSUME NEW fs, NEW fact, NEW new, NEW rows, NEW gs, Adds(fs, fact, new, rows, gs),
           NEW other, other # fact, NEW n, NEW held, NEW again,
           Counted(fs, other, n, held, again)
    PROVE  Counted(gs, other, n, held, again)
<1>1. /\ RowsIn(gs, other) = RowsIn(fs, other)
      /\ \A id : IdAt(gs, other, id) = IdAt(fs, other, id)
  BY OthersKept
<1> QED  BY <1>1 DEF Counted

LEMMA CountedNone ==
    ASSUME NEW fs, NEW fact, FilesIn(fs, fact) = {}
    PROVE  Counted(fs, fact, 0, << >>, << >>)
<1>1. PlacesIn(fs, fact) = {}
  BY DEF PlacesIn
<1>2. RowsIn(fs, fact) = {} /\ \A id : IdAt(fs, fact, id) = {}
  BY <1>1 DEF RowsIn, IdAt
<1>3. ASSUME NEW id \in Nat
      PROVE  /\ IsFiniteSet(IdAt(fs, fact, id)) /\ Cardinality(IdAt(fs, fact, id)) = 0
             /\ Times(<< >>, id) = 0
  <2>1. << >> \in Seq(Nat) /\ \A k \in DOMAIN << >> : FALSE
    OBVIOUS
  <2>2. Times(<< >>, id) = 0
    BY <2>1, TimesOf
  <2> QED  BY <1>2, <2>2, FS_EmptySet
<1> QED  BY <1>2, <1>3 DEF Counted

(* What RowsConserved says of a fact.                                      *)
LEMMA CountedSays ==
    ASSUME NEW fs, NEW fact, NEW n, NEW held, NEW again, Counted(fs, fact, n, held, again)
    PROVE  /\ \A r \in RowsIn(fs, fact) : r.id \in 0..n - 1
           /\ \A k \in DOMAIN held : held[k] \in 0..n - 1
           /\ \A k \in DOMAIN again : again[k] \in 0..n - 1
           /\ \A id \in 0..n - 1 :
                 /\ IsFiniteSet(IdAt(fs, fact, id)) /\ Cardinality(IdAt(fs, fact, id)) \in Nat
                 /\ Times(again, id) \in Nat
                 /\ Cardinality(IdAt(fs, fact, id)) + Times(held, id) = 1 + Times(again, id)
<1>1. /\ n \in Nat /\ held \in Seq(Nat) /\ again \in Seq(Nat)
      /\ \A r \in RowsIn(fs, fact) : r.id \in Nat
      /\ \A k \in DOMAIN again : again[k] < n
  BY DEF Counted
<1>2. ASSUME NEW id \in Nat, id \notin 0..n - 1
      PROVE  IdAt(fs, fact, id) = {} /\ \A k \in DOMAIN held : held[k] # id
  <2> DEFINE c == Cardinality(IdAt(fs, fact, id))
             h == Times(held, id)
             a == Times(again, id)
  <2>1. IsFiniteSet(IdAt(fs, fact, id)) /\ c + h = a + (IF id < n THEN 1 ELSE 0)
    BY DEF Counted
  <2>2. ~ (id < n)
    BY <1>1, <1>2
  <2>3. \A k \in DOMAIN again : again[k] # id
    BY <1>1, <2>2
  <2>4. c \in Nat /\ h \in Nat /\ a = 0
    BY <1>1, <2>1, <2>3, TimesOf, FS_CardinalityType
  <2>5. c = 0 /\ h = 0
    <3> HIDE DEF c, h, a
    <3> QED  BY <2>1, <2>2, <2>4
  <2>6. IdAt(fs, fact, id) = {}
    BY <2>1, <2>5, FS_EmptySet
  <2>7. \A k \in DOMAIN held : held[k] # id
    BY <1>1, <2>5, TimesOf
  <2> QED  BY <2>6, <2>7
<1>3. ASSUME NEW r \in RowsIn(fs, fact) PROVE r.id \in 0..n - 1
  <2>1. PICK p \in PlacesIn(fs, fact) : r = RowIn(fs, p)
    BY DEF RowsIn
  <2>2. p \in IdAt(fs, fact, r.id)
    BY <2>1 DEF IdAt
  <2>3. r.id \in Nat
    BY <1>1
  <2> QED  BY <1>2, <2>2, <2>3
<1>4. ASSUME NEW k \in DOMAIN held PROVE held[k] \in 0..n - 1
  <2>1. held[k] \in Nat
    BY <1>1
  <2> QED  BY <1>2, <2>1
<1>5. ASSUME NEW k \in DOMAIN again PROVE again[k] \in 0..n - 1
  <2>1. again[k] \in Nat /\ again[k] < n
    BY <1>1
  <2> QED  BY <1>1, <2>1
<1>6. ASSUME NEW id \in 0..n - 1
      PROVE  /\ IsFiniteSet(IdAt(fs, fact, id)) /\ Cardinality(IdAt(fs, fact, id)) \in Nat
             /\ Times(again, id) \in Nat
             /\ Cardinality(IdAt(fs, fact, id)) + Times(held, id) = 1 + Times(again, id)
  <2> DEFINE c == Cardinality(IdAt(fs, fact, id))
             h == Times(held, id)
             a == Times(again, id)
  <2>1. id \in Nat /\ id < n
    BY <1>1
  <2>2. IsFiniteSet(IdAt(fs, fact, id)) /\ c + h = a + 1
    BY <2>1 DEF Counted
  <2>3. c \in Nat /\ a \in Nat
    BY <1>1, <2>2, TimesOf, FS_CardinalityType
  <2>4. c + h = 1 + a
    <3> HIDE DEF c, h, a
    <3> QED  BY <2>2, <2>3
  <2> QED  BY <2>2, <2>3, <2>4
<1> QED  BY <1>3, <1>4, <1>5, <1>6

(***************************************************************************)
(* The ids of rows that are put together and taken apart.                  *)
(***************************************************************************)
LEMMA IdsConcat ==
    ASSUME NEW T, NEW U, NEW a \in Seq(T), NEW b \in Seq(U), Ids(a) \in Seq(Nat), Ids(b) \in Seq(Nat)
    PROVE  Ids(a \o b) = Ids(a) \o Ids(b) /\ Ids(a \o b) \in Seq(Nat)
<1> DEFINE m == Len(a)
           n == Len(b)
<1>1. /\ m \in Nat /\ n \in Nat
      /\ DOMAIN (a \o b) = 1..m + n
      /\ \A k \in 1..m + n : (a \o b)[k] = IF k <= m THEN a[k] ELSE b[k - m]
  OBVIOUS
<1>2. DOMAIN Ids(a) = 1..m /\ DOMAIN Ids(b) = 1..n
  BY DEF Ids
<1>3. Len(Ids(a)) = m /\ Len(Ids(b)) = n
  BY <1>1, <1>2
<1>4. /\ DOMAIN (Ids(a) \o Ids(b)) = 1..m + n
      /\ \A k \in 1..m + n : (Ids(a) \o Ids(b))[k] = IF k <= m THEN Ids(a)[k] ELSE Ids(b)[k - m]
  <2> DEFINE x == Ids(a)
             y == Ids(b)
  <2>1. x \in Seq(Nat) /\ y \in Seq(Nat) /\ Len(x) = m /\ Len(y) = n
    BY <1>3
  <2> HIDE DEF x, y, m, n
  <2>2. /\ DOMAIN (x \o y) = 1..m + n
        /\ \A k \in 1..m + n : (x \o y)[k] = IF k <= m THEN x[k] ELSE y[k - m]
    <3> DEFINE p == x \o y
    <3>1. /\ p \in Seq(Nat) /\ Len(p) = m + n
          /\ \A k \in 1..m + n : p[k] = IF k <= m THEN x[k] ELSE y[k - m]
      BY <2>1, ConcatProperties
    <3> HIDE DEF p
    <3>2. DOMAIN p = 1..m + n
      BY <3>1
    <3> QED  BY <3>1, <3>2 DEF p
  <2> QED  BY <2>2 DEF x, y
<1>5. /\ \A k \in 1..m : Ids(a)[k] = a[k].id
      /\ \A k \in 1..n : Ids(b)[k] = b[k].id
  BY DEF Ids
<1> HIDE DEF m, n
<1>6. ASSUME NEW k \in 1..m + n PROVE (Ids(a) \o Ids(b))[k] = (a \o b)[k].id
  <2>1. CASE k <= m
    <3>1. k \in 1..m
      BY <1>1, <2>1
    <3>2. (Ids(a) \o Ids(b))[k] = Ids(a)[k] /\ (a \o b)[k] = a[k]
      BY <1>1, <1>4, <2>1
    <3> QED  BY <1>5, <3>1, <3>2
  <2>2. CASE ~ (k <= m)
    <3>1. k - m \in 1..n
      BY <1>1, <2>2
    <3>2. (Ids(a) \o Ids(b))[k] = Ids(b)[k - m] /\ (a \o b)[k] = b[k - m]
      BY <1>1, <1>4, <2>2
    <3> QED  BY <1>5, <3>1, <3>2
  <2> QED  BY <2>1, <2>2
<1>7. Ids(a) \o Ids(b) \in Seq(Nat)
  OBVIOUS
<1>8. Ids(a) \o Ids(b) = [k \in 1..m + n |-> (Ids(a) \o Ids(b))[k]]
  <2> DEFINE p == Ids(a) \o Ids(b)
  <2>1. p \in Seq(Nat) /\ DOMAIN p = 1..m + n
    BY <1>4, <1>7
  <2> HIDE DEF p
  <2>2. p = [k \in 1..m + n |-> p[k]]
    BY <2>1
  <2> QED  BY <2>2 DEF p
<1>9. Ids(a \o b) = [k \in 1..m + n |-> (a \o b)[k].id]
  BY <1>1 DEF Ids
<1> QED  BY <1>6, <1>7, <1>8, <1>9

LEMMA IdsPicked ==
    ASSUME NEW T, NEW s \in Seq(T), NEW S \in SUBSET DOMAIN s, Ids(s) \in Seq(Nat)
    PROVE  /\ Ids(Picked(s, S)) = Picked(Ids(s), S) /\ Ids(Picked(s, S)) \in Seq(Nat)
           /\ \A k \in DOMAIN Picked(s, S) : \E i \in S : Ids(Picked(s, S))[k] = Ids(s)[i]
<1> DEFINE o == InOrder(S)
<1>1. Len(s) \in Nat /\ DOMAIN s = 1..Len(s)
  OBVIOUS
<1>2. \A k \in DOMAIN o : o[k] \in S /\ o[k] \in DOMAIN s
  <2>1. S \in SUBSET (1..Len(s))
    BY <1>1
  <2>2. DOMAIN o = 1..Cardinality(S) /\ \A k \in 1..Cardinality(S) : o[k] \in S
    BY <1>1, <2>1, InOrderIs
  <2> QED  BY <2>2
<1>3. /\ Picked(s, S) = [k \in DOMAIN o |-> s[o[k]]]
      /\ Picked(Ids(s), S) = [k \in DOMAIN o |-> Ids(s)[o[k]]]
  BY DEF Picked
<1>4. \A k \in DOMAIN s : Ids(s)[k] = s[k].id
  BY DEF Ids
<1>5. Ids(Picked(s, S)) = [k \in DOMAIN o |-> s[o[k]].id]
  BY <1>3 DEF Ids
<1> HIDE DEF o
<1>6. \A k \in DOMAIN o : s[o[k]].id = Ids(s)[o[k]]
  BY <1>2, <1>4
<1>7. Ids(Picked(s, S)) = Picked(Ids(s), S)
  BY <1>3, <1>5, <1>6
<1>8. Picked(Ids(s), S) \in Seq(Nat)
  <2>1. S \in SUBSET DOMAIN Ids(s)
    BY DEF Ids
  <2> QED  BY <2>1, PickedSeq
<1>9. \A k \in DOMAIN Picked(s, S) : \E i \in S : Ids(Picked(s, S))[k] = Ids(s)[i]
  <2>1. DOMAIN Picked(s, S) = DOMAIN o
    BY <1>3
  <2>2. \A k \in DOMAIN o : Ids(Picked(s, S))[k] = Ids(s)[o[k]]
    BY <1>3, <1>7
  <2> QED  BY <1>2, <2>1, <2>2
<1> QED  BY <1>7, <1>8, <1>9

(***************************************************************************)
(* The invariant of a run.                                                 *)
(***************************************************************************)
Qualities == {"no column", "null", "drawn"}
SessionRows ==
    [id : Nat, sub : Nat, started : Int, ended : Int, duration : Int, quality : Qualities, batch : Nat]
EventRows == [id : Nat, sub : Nat, at : Int]
PoolRows == [row : SessionRows, target : Int]
Gaps == [sub : Nat, from : Int, to : Int, newer : Int]
TargetRows == [fact : Facts, id : Nat, sub : Nat, at : Int, gap : Gaps]
MalformedRows == [id : Nat, kind : RejectionReasons]
JudgedRows == [id : Nat, kind : {"sane"} \cup RejectionReasons]
FoundRows ==
    [malformed : Seq(MalformedRows), midstream : Seq(TargetRows), billing : Seq(Nat), signup : Seq(Nat)]

Stages == {"absent", "titles", "subscribers", "playback", "billing", "watchlist", "manifests", "done"}
(* The stages of a run that has its subscribers, its playback, and so on.  *)
Lived == {"playback", "billing", "watchlist", "manifests", "done"}
Played == {"billing", "watchlist", "manifests", "done"}
Billed == {"watchlist", "manifests", "done"}
Signed == {"manifests", "done"}

Progress ==
    /\ config \in RunConfigs /\ stage \in Stages /\ batch \in Nat
    /\ issued \in [Facts -> Nat] /\ found \in FoundRows
    /\ delayed \in Seq(PoolRows) /\ (stage # "playback" => delayed = << >>)
    /\ stage \notin Signed => issued["signup_funnel"] = 0 /\ found.signup = << >>

Streams ==
    /\ \E n \in Nat : DOMAIN lives = 1..n
    /\ \A i \in DOMAIN lives : LifeIs(config, lives[i])
    /\ \A i \in DOMAIN titles : /\ Head(titles[i]) \in Int
                                /\ Head(titles[i]) <= Ticks(config.launch - config.catalog_seed_buffer)

Pathologies == {"late", "same_day", "soft", "hard"}
Listings ==
    /\ stage \notin Lived => DOMAIN manifests = {}
    /\ stage \in Lived =>
          /\ DOMAIN manifests = Pathologies \cup (IF stage = "done" THEN DOMAIN found ELSE {})
          /\ \A role \in Pathologies : manifests[role] = Having(lives, role)
    /\ stage = "done" => \A key \in DOMAIN found : manifests[key] = found[key]

(* The last file of a fact is the one of the batch before, as long as its  *)
(* batches are produced; none of its files is there before.                *)
FilesUpTo(fact, now, since) ==
    \A name \in FilesIn(files, fact) :
        /\ stage \in since
        /\ name[3] \in Nat /\ (stage = now => name[2] = "part" /\ name[3] < batch)
Named ==
    /\ FilesUpTo("playback_sessions", "playback", Lived)
    /\ FilesUpTo("billing_ledger", "billing", Played)
    /\ FilesUpTo("watchlist_adds", "watchlist", Billed)
    /\ \A name \in FilesIn(files, "signup_funnel") : stage \in Signed

(* A row that is held back has the columns of its own batch and lands in a *)
(* later one, within its delay.                                            *)
QualityOf(cutoff, i) == IF i >= cutoff THEN "drawn" ELSE "no column"
Waits(c, cutoff, last, i, d) ==
    /\ d.row.quality = QualityOf(cutoff, d.row.batch)
    /\ i <= d.target /\ d.target <= last
    /\ d.target - d.row.batch <= c.delay_batches_max
    /\ d.target - d.row.batch >= c.delay_batches_min \/ d.target = last
Held == \A k \in DOMAIN delayed : Waits(config, CutoffBatch, LastPlayback, batch, delayed[k])

(* A row that has landed.                                                  *)
Landed(c, cutoff, last, prefix, part, r) ==
    /\ r.quality = IF part < cutoff THEN "no column" ELSE IF r.batch < cutoff THEN "null" ELSE "drawn"
    /\ prefix = "part" =>
          LET behind == part - r.batch
          IN  /\ part <= last
              /\ behind = 0 \/ behind >= c.delay_batches_min \/ part = last
              /\ behind <= c.delay_batches_max
FilesFit ==
    \A name \in FilesIn(files, "playback_sessions") : \A k \in DOMAIN files[name] :
        Landed(config, CutoffBatch, LastPlayback, name[2], name[3], files[name][k])

InsideLife(c, life, second) ==
    /\ Lower(life) <= second /\ second <= c.now
    /\ life.role = "hard" => Ticks(second) <= HardDeleteAt(life)

(* The gate's reasons for a session are the ones the manifest gives.       *)
Kinds(malformed, id) == {m.kind : m \in {x \in ToSet(malformed) : x.id = id}}
Rejected(s, now) == {reason \in RejectionReasons : RejectedFor(reason, s, now)}
SessionFine(c, ls, n, malformed, s) ==
    /\ s \in SessionRows /\ s.id < n /\ s.sub \in DOMAIN ls
    /\ c.launch <= s.started
    /\ \/ InsideLife(c, ls[s.sub], s.started)
       \/ s.started > c.now /\ ls[s.sub].role # "hard"
    /\ Rejected(s, c.now) = Kinds(malformed, s.id)
SessionsFine ==
    /\ \A s \in RowsIn(files, "playback_sessions") :
          SessionFine(config, lives, issued["playback_sessions"], found.malformed, s)
    /\ \A k \in DOMAIN delayed :
          SessionFine(config, lives, issued["playback_sessions"], found.malformed, delayed[k].row)
    /\ \A k \in DOMAIN found.malformed : found.malformed[k].id < issued["playback_sessions"]

EventFine(c, ls, e) ==
    e \in EventRows /\ e.sub \in DOMAIN ls /\ InsideLife(c, ls[e.sub], e.at)
EventsFine ==
    /\ \A e \in RowsIn(files, "billing_ledger") : EventFine(config, lives, e)
    /\ \A e \in RowsIn(files, "watchlist_adds") : EventFine(config, lives, e)

InGap(ls, t) ==
    /\ t.gap.to < t.gap.newer
    /\ IF t.gap.to - t.gap.from >= Ticks(10)
       THEN t.gap.from < Ticks(t.at) /\ Ticks(t.at) < t.gap.to
       ELSE ls[t.sub].role = "same_day" /\ t.at - EpochSecond(t.gap.from) \in 0..8
TargetFine(c, ls, t) ==
    t \in TargetRows /\ t.sub \in DOMAIN ls /\ InsideLife(c, ls[t.sub], t.at) /\ InGap(ls, t)
TargetIn(fs, t) ==
    \/ \E r \in RowsIn(fs, "playback_sessions") : r.id = t.id /\ r.started = t.at
    \/ \E r \in RowsIn(fs, "billing_ledger") : r.id = t.id /\ r.at = t.at
TargetsFine ==
    \A k \in DOMAIN found.midstream :
        TargetFine(config, lives, found.midstream[k]) /\ TargetIn(files, found.midstream[k])

IdsCounted ==
    /\ Counted(files, "playback_sessions", issued["playback_sessions"], Ids(HeldBack), << >>)
    /\ Counted(files, "billing_ledger", issued["billing_ledger"], << >>, found.billing)
    /\ Counted(files, "watchlist_adds", issued["watchlist_adds"], << >>, << >>)
    /\ Counted(files, "signup_funnel", issued["signup_funnel"], << >>, found.signup)

SoftDeletesWritten ==
    stage \in Lived => \A i \in Having(lives, "soft") :
        \E e \in RowsIn(files, "subscriber_events") : e.sub = i /\ e.deletes

GeneratorInv ==
    /\ Progress /\ Streams /\ Listings /\ Named /\ Held /\ FilesFit
    /\ SessionsFine /\ EventsFine /\ TargetsFine /\ IdsCounted /\ SoftDeletesWritten

(***************************************************************************)
(* What a run is about to produce.                                         *)
(***************************************************************************)
LEMMA ConfigIs ==
    ASSUME NEW c \in RunConfigs
    PROVE  /\ DrawsInRange(c) /\ Clocks(c)
           /\ c.launch \in Nat /\ c.now \in Nat /\ c.launch < c.now
           /\ c.catalog_seed_buffer \in Nat /\ c.catalog_seed_buffer > 0
           /\ c.catalog_seed_buffer + c.catalog_seed_lead_time <= c.launch
           /\ c.date_dim_upper_bound \in Nat /\ c.now + 2 * DaySeconds <= c.date_dim_upper_bound
           /\ \A f \in Facts : c.rows[f] \in Nat /\ c.batch_size[f] \in Nat /\ c.batch_size[f] > 0
           /\ c.midstream_playback \in Nat /\ c.midstream_billing \in Nat
           /\ c.schema_drift_percent \in 34..99
           /\ c.draws \subseteq 0..99 /\ c.gap_draws \subseteq 10..89
           /\ (\A x \in c.durations : x \in Int /\ x > 0) /\ c.far \subseteq BOOLEAN
           /\ c.delay_batches_min \in Nat /\ c.delay_batches_max \in Nat
           /\ 1 <= c.delay_batches_min /\ c.delay_batches_min <= c.delay_batches_max
           /\ c.subscribers \in Nat /\ c.titles \in Nat
<1>1. DrawsInRange(c) /\ Clocks(c)
  BY RunConfigsAssumption DEF Clocks
<1>2. c.launch \in Nat /\ c.now \in Nat /\ c.launch < c.now
  BY <1>1 DEF DrawsInRange, Clocks, DaySeconds
<1>3. c.catalog_seed_buffer \in Nat /\ c.subscribers \in Nat /\ c.titles \in Nat
  BY <1>1 DEF DrawsInRange
<1>4. \A f \in Facts : c.rows[f] \in Nat /\ c.batch_size[f] \in Nat /\ c.batch_size[f] > 0
  <2>1. c.rows \in [Facts -> Nat]
    BY RunConfigsAssumption, SMTT(60)
  <2>2. c.batch_size \in [Facts -> Nat \ {0}]
    BY RunConfigsAssumption, SMTT(60)
  <2> QED  BY <2>1, <2>2
<1>5. /\ c.catalog_seed_buffer > 0 /\ c.catalog_seed_buffer + c.catalog_seed_lead_time <= c.launch
      /\ c.date_dim_upper_bound \in Nat /\ c.now + 2 * DaySeconds <= c.date_dim_upper_bound
  BY RunConfigsAssumption
<1>6. /\ c.midstream_playback \in Nat /\ c.midstream_billing \in Nat
      /\ c.schema_drift_percent \in 34..99
      /\ c.draws \subseteq 0..99 /\ c.gap_draws \subseteq 10..89
  BY RunConfigsAssumption
<1>7. \A x \in c.durations : x \in Int /\ x > 0
  <2> SUFFICES ASSUME NEW x \in c.durations PROVE x \in Int /\ x > 0
    OBVIOUS
  <2>1. x \in 30..14400
    BY RunConfigsAssumption
  <2> QED  BY <2>1
<1>8. /\ c.far \subseteq BOOLEAN
      /\ c.delay_batches_min \in Nat /\ c.delay_batches_max \in Nat
      /\ 1 <= c.delay_batches_min /\ c.delay_batches_min <= c.delay_batches_max
  BY RunConfigsAssumption
<1> QED  BY <1>1, <1>2, <1>3, <1>4, <1>5, <1>6, <1>7, <1>8

LEMMA RoomLeft ==
    ASSUME NEW r \in Nat, NEW s \in Nat, s > 0, NEW i \in Nat
    PROVE  /\ (r + s - 1) \div s \in Nat
           /\ i < (r + s - 1) \div s => r - i * s > 0
<1> DEFINE m == r + s - 1
           q == m \div s
<1>1. m \in Nat
  OBVIOUS
<1>2. q \in Int /\ q * s <= m /\ m < (q + 1) * s
  <2> HIDE DEF m
  <2> QED  BY <1>1
<1>3. q >= 0
  <2> HIDE DEF q
  <2>1. SUFFICES ASSUME q < 0 PROVE FALSE
    BY <1>2
  <2>2. (q + 1) * s <= 0 * s
    <3>1. q + 1 \in Int /\ q + 1 <= 0
      BY <1>2, <2>1
    <3> QED  BY <3>1, ProductOrder
  <2> QED  BY <1>1, <1>2, <2>2
<1>4. ASSUME i < q PROVE r - i * s > 0
  <2> HIDE DEF q
  <2>1. (i + 1) * s <= q * s
    <3>1. i + 1 \in Int /\ i + 1 <= q
      BY <1>2, <1>4
    <3> QED  BY <1>2, <3>1, ProductOrder
  <2>2. (i + 1) * s = i * s + s /\ i * s \in Int
    OBVIOUS
  <2> QED  BY <1>2, <2>1, <2>2
<1> QED  BY <1>2, <1>3, <1>4

LEMMA BatchesAre ==
    ASSUME config \in RunConfigs, NEW fact \in Facts, NEW i \in Nat
    PROVE  /\ NumBatches(fact) \in Nat
           /\ i < NumBatches(fact) => BatchRows(fact, i) \in Nat
<1> DEFINE r == config.rows[fact]
           s == config.batch_size[fact]
<1>1. r \in Nat /\ s \in Nat /\ s > 0
  BY ConfigIs
<1>2. NumBatches(fact) = (r + s - 1) \div s /\ BatchRows(fact, i) = Min({s, r - i * s})
  BY DEF NumBatches, RowCount, BatchSize, BatchRows
<1> HIDE DEF r, s
<1>3. NumBatches(fact) \in Nat
  BY <1>1, <1>2, RoomLeft
<1>4. ASSUME i < NumBatches(fact) PROVE BatchRows(fact, i) \in Nat
  <2> DEFINE d == r - i * s
  <2>1. d \in Int /\ d > 0
    BY <1>1, <1>2, <1>4, RoomLeft
  <2> HIDE DEF d
  <2>2. Min({s, d}) \in Nat
    BY <1>1, <2>1, MinOfTwo
  <2> QED  BY <1>2, <2>2 DEF d
<1> QED  BY <1>3, <1>4

LEMMA CutoffIs ==
    ASSUME config \in RunConfigs
    PROVE  /\ NumBatches("playback_sessions") \in Nat
           /\ CutoffBatch \in Int /\ CutoffBatch <= NumBatches("playback_sessions")
           /\ LastPlayback = NumBatches("playback_sessions") - 1
           /\ NumBatches("playback_sessions") >= 3 => 0 < CutoffBatch /\ CutoffBatch <= LastPlayback
<1> DEFINE n == NumBatches("playback_sessions")
           p == config.schema_drift_percent
<1>1. n \in Nat
  BY BatchesAre DEF Facts
<1>2. p \in 34..99
  BY ConfigIs
<1>3. CutoffBatch = (p * n) \div 100 /\ LastPlayback = n - 1
  BY DEF CutoffBatch, LastPlayback
<1> HIDE DEF n, p
<1> DEFINE m == p * n
<1>4. m \in Nat /\ 34 * n <= m /\ m <= 99 * n
  <2>1. n * 34 <= n * p /\ n * p <= n * 99
    BY <1>1, <1>2, ProductOrder
  <2>2. m = n * p /\ n * 34 = 34 * n /\ n * 99 = 99 * n
    BY <1>1, <1>2
  <2> HIDE DEF m
  <2>3. m \in Int
    BY <1>1, <1>2 DEF m
  <2> QED  BY <1>1, <2>1, <2>2, <2>3
<1> HIDE DEF m
<1>5. m \div 100 \in Int /\ m \div 100 <= n /\ (n >= 3 => 0 < m \div 100 /\ m \div 100 <= n - 1)
  BY <1>1, <1>4
<1> QED  BY <1>1, <1>3, <1>5 DEF m, n

(***************************************************************************)
(* One session.                                                            *)
(***************************************************************************)
LEMMA BetweenIs ==
    ASSUME NEW lo \in Int, NEW hi \in Int, NEW u \in 0..99
    PROVE  LET v == Between(lo, hi, u)
           IN  v \in Int /\ lo <= v /\ (lo <= hi => v <= hi)
<1> DEFINE top == Max({hi, lo + 1})
           d == top - lo
<1>1. top = IF hi >= lo + 1 THEN hi ELSE lo + 1
  BY MaxOfTwo
<1>2. d \in Nat /\ d > 0 /\ (lo < hi => lo + d = hi) /\ (lo = hi => d = 1)
  <2> HIDE DEF top
  <2> QED  BY <1>1
<1>3. Between(lo, hi, u) = lo + Part(d, u)
  BY DEF Between, Part
<1> HIDE DEF d
<1>4. Part(d, u) \in Nat /\ Part(d, u) < d
  <2>1. d \in Nat /\ u \in 0..100 /\ u < 100 /\ d > 0
    BY <1>2
  <2>2. Part(d, u) \in Nat /\ ((u < 100 /\ d > 0) => Part(d, u) < d)
    BY <2>1, Share
  <2> QED  BY <2>1, <2>2
<1> DEFINE p == Part(d, u)
<1> HIDE DEF p
<1>5. p \in Nat /\ p < d
  BY <1>4 DEF p
<1>6. lo + p \in Int /\ lo <= lo + p /\ (lo <= hi => lo + p <= hi)
  BY <1>2, <1>5
<1> QED  BY <1>3, <1>6 DEF p

LEMMA StartedIs ==
    ASSUME config \in RunConfigs, NEW i \in Nat, i < NumBatches("playback_sessions"),
           NEW life, LifeIs(config, life), NEW u \in 0..99
    PROVE  LET v == Started(life, i, u)
           IN  v \in Int /\ Lower(life) <= v /\ v <= Upper(config, life)
<1> DEFINE n == NumBatches("playback_sessions")
           low == Lower(life)
           up == Upper(config, life)
           a == SliceStart(i)
           b == SliceStart(i + 1)
           lo == Max({low, a})
           hi == Min({up, b})
<1>1. low \in Int /\ up \in Int /\ low <= up
  BY ConfigIs, LifeSeconds
<1>2. a \in Int /\ b \in Int
  <2> DEFINE l == config.launch
             s == config.now - l
  <2>1. n \in Nat /\ n > 0
    BY BatchesAre DEF Facts
  <2>2. l \in Int /\ s \in Int
    BY ConfigIs
  <2>3. a = l + (i * s) \div n /\ b = l + ((i + 1) * s) \div n
    BY DEF SliceStart
  <2> HIDE DEF l, s, n
  <2>4. i * s \in Int /\ (i + 1) * s \in Int
    BY <2>2
  <2> DEFINE x == i * s
             y == (i + 1) * s
  <2> HIDE DEF x, y
  <2>5. x \in Int /\ y \in Int
    BY <2>4 DEF x, y
  <2>6. x \div n \in Int /\ y \div n \in Int
    BY <2>1, <2>5
  <2>7. a = l + x \div n /\ b = l + y \div n
    BY <2>3 DEF x, y
  <2> QED  BY <2>2, <2>6, <2>7
<1>3. Started(life, i, u) = IF lo >= hi THEN Between(low, up, u) ELSE Between(lo, hi, u)
  BY DEF Started
<1> HIDE DEF a, b, low, up
<1>4. lo \in Int /\ hi \in Int /\ low <= lo /\ hi <= up
  BY <1>1, <1>2, MaxOfTwo, MinOfTwo
<1> HIDE DEF lo, hi
<1>5. CASE lo >= hi
  <2> DEFINE v == Between(low, up, u)
  <2>1. v \in Int /\ low <= v /\ v <= up
    BY <1>1, BetweenIs
  <2> HIDE DEF v
  <2> QED  BY <1>3, <1>5, <2>1 DEF low, up, v
<1>6. CASE ~ (lo >= hi)
  <2> DEFINE v == Between(lo, hi, u)
  <2>1. lo <= hi
    BY <1>4, <1>6
  <2>2. v \in Int /\ lo <= v /\ v <= hi
    BY <1>4, <2>1, BetweenIs
  <2> HIDE DEF v
  <2>3. v \in Int /\ low <= v /\ v <= up
    BY <1>1, <1>4, <2>2
  <2> QED  BY <1>3, <1>6, <2>3 DEF low, up, v
<1> QED  BY <1>5, <1>6

LEMMA BetweenLife ==
    ASSUME config \in RunConfigs, NEW life, LifeIs(config, life),
           NEW v \in Int, Lower(life) <= v, v <= Upper(config, life)
    PROVE  InsideLife(config, life, v) /\ config.launch <= v
<1> DEFINE low == Lower(life)
           up == Upper(config, life)
           now == config.now
           launch == config.launch
<1>1. /\ low \in Int /\ up \in Int /\ launch <= low /\ up <= now
      /\ life.role = "hard" => Ticks(up) <= HardDeleteAt(life) /\ HardDeleteAt(life) \in Int
  BY ConfigIs, LifeSeconds
<1>2. launch \in Int /\ now \in Int
  BY ConfigIs
<1>3. low <= v /\ v <= up
  OBVIOUS
<1> HIDE DEF low, up, now, launch
<1>4. v <= now /\ launch <= v
  BY <1>1, <1>2, <1>3
<1>5. Ticks(v) <= Ticks(up) /\ Ticks(v) \in Int /\ Ticks(up) \in Int
  BY <1>1, <1>3, TicksOrder, TicksInt
<1>6. life.role = "hard" => Ticks(v) <= HardDeleteAt(life)
  BY <1>1, <1>5
<1> QED  BY <1>3, <1>4, <1>6 DEF InsideLife, low, now, launch

(* What the gate says of a session by the order of its times.              *)
LEMMA RejectedIs ==
    ASSUME NEW s, NEW now \in Int, s.duration \in Int, s.ended \in Int, s.started \in Int
    PROVE  /\ s.duration >= 0 /\ s.ended >= s.started /\ s.started <= now => Rejected(s, now) = {}
           /\ s.duration < 0 => Rejected(s, now) = {"negative_duration"}
           /\ s.duration >= 0 /\ s.ended < s.started => Rejected(s, now) = {"ended_before_started"}
           /\ s.duration >= 0 /\ s.ended >= s.started /\ s.started > now =>
                 Rejected(s, now) = {"future_timestamp"}
           /\ Malformed(s, now) <=> Rejected(s, now) # {}
<1> DEFINE d == s.duration
           e == s.ended
           b == s.started
<1>1. Rejected(s, now) = {reason \in RejectionReasons :
            \/ reason = "negative_duration" /\ d < 0
            \/ reason = "ended_before_started" /\ d >= 0 /\ e < b
            \/ reason = "future_timestamp" /\ d >= 0 /\ e >= b /\ b > now}
  BY DEF Rejected, RejectedFor, NegativeDuration, EndedBeforeStarted, FutureTimestamp
<1>2. Malformed(s, now) <=> d < 0 \/ e < b \/ b > now
  BY DEF Malformed
<1>3. d \in Int /\ e \in Int /\ b \in Int
  OBVIOUS
<1> HIDE DEF d, e, b
<1>4. (d >= 0 <=> ~ (d < 0)) /\ (e >= b <=> ~ (e < b)) /\ (b <= now <=> ~ (b > now))
  BY <1>3
<1>5. /\ d >= 0 /\ e >= b /\ b <= now => Rejected(s, now) = {}
      /\ d < 0 => Rejected(s, now) = {"negative_duration"}
      /\ d >= 0 /\ e < b => Rejected(s, now) = {"ended_before_started"}
      /\ d >= 0 /\ e >= b /\ b > now => Rejected(s, now) = {"future_timestamp"}
      /\ Malformed(s, now) <=> Rejected(s, now) # {}
  BY <1>1, <1>2, <1>4 DEF RejectionReasons
<1> QED  BY <1>5 DEF d, e, b

LEMMA FutureIs ==
    ASSUME config \in RunConfigs, NEW far \in BOOLEAN
    PROVE  LET start == Min({config.now + (IF far THEN 299 ELSE 1) * DaySeconds,
                             config.date_dim_upper_bound - 7200})
           IN  start \in Int /\ start > config.now
<1> DEFINE now == config.now
           bound == config.date_dim_upper_bound
           a == now + (IF far THEN 299 ELSE 1) * DaySeconds
           b == bound - 7200
<1>1. now \in Int /\ bound \in Int /\ now + 2 * DaySeconds <= bound
  BY ConfigIs
<1> HIDE DEF now, bound
<1>2. a \in Int /\ b \in Int /\ a > now /\ b > now
  BY <1>1 DEF DaySeconds
<1> HIDE DEF a, b
<1>3. Min({a, b}) \in Int /\ Min({a, b}) > now
  BY <1>1, <1>2, MinOfTwo
<1> QED  BY <1>3 DEF a, b, now, bound

LEMMA MalformIs ==
    ASSUME config \in RunConfigs, NEW s \in SessionRows, s.duration >= 0,
           s.ended = s.started + s.duration, s.started <= config.now, s.duration > 0,
           NEW kind \in {"sane"} \cup RejectionReasons, NEW far \in BOOLEAN
    PROVE  LET r == Malform(s, kind, far)
           IN  /\ r \in SessionRows
               /\ r.id = s.id /\ r.sub = s.sub /\ r.batch = s.batch /\ r.quality = s.quality
               /\ kind # "future_timestamp" => r.started = s.started
               /\ kind = "future_timestamp" => r.started > config.now
               /\ Rejected(r, config.now) = IF kind = "sane" THEN {} ELSE {kind}
<1> DEFINE now == config.now
           d == s.duration
           e == s.ended
           b == s.started
<1>1. now \in Int /\ d \in Int /\ e \in Int /\ b \in Int /\ d > 0 /\ e = b + d /\ b <= now
  BY ConfigIs DEF SessionRows
<1>2. CASE kind = "sane"
  <2>1. Malform(s, kind, far) = s
    BY <1>2 DEF Malform
  <2>2. d >= 0 /\ e >= b
    <3> HIDE DEF now, d, e, b
    <3> QED  BY <1>1
  <2>3. Rejected(s, now) = {}
    BY <1>1, <2>2, RejectedIs
  <2> QED  BY <1>2, <2>1, <2>3
<1>3. CASE kind = "negative_duration"
  <2> DEFINE r == [s EXCEPT !.duration = -@]
  <2>1. Malform(s, kind, far) = r
    BY <1>3 DEF Malform
  <2>2. /\ r \in SessionRows /\ r.started = b /\ r.duration = -d
        /\ r.id = s.id /\ r.sub = s.sub /\ r.batch = s.batch /\ r.quality = s.quality
    BY <1>1 DEF SessionRows
  <2>3. r.duration \in Int /\ r.ended \in Int /\ r.started \in Int
    BY <2>2 DEF SessionRows
  <2> HIDE DEF r
  <2>4. r.duration < 0
    BY <1>1, <2>2
  <2>5. Rejected(r, now) = {"negative_duration"}
    BY <1>1, <2>3, <2>4, RejectedIs
  <2> QED  BY <1>3, <2>1, <2>2, <2>5
<1>4. CASE kind = "ended_before_started"
  <2> DEFINE off == IF far THEN 3599 ELSE 60
             r == [s EXCEPT !.ended = s.started - off]
  <2>1. Malform(s, kind, far) = r
    BY <1>4 DEF Malform
  <2>2. off \in Nat /\ off > 0
    OBVIOUS
  <2> HIDE DEF off
  <2>3. /\ r \in SessionRows /\ r.started = b /\ r.duration = d /\ r.ended = b - off
        /\ r.id = s.id /\ r.sub = s.sub /\ r.batch = s.batch /\ r.quality = s.quality
    BY <1>1, <2>2 DEF SessionRows
  <2> HIDE DEF r
  <2>4. r.duration >= 0 /\ r.ended < r.started /\ r.duration \in Int /\ r.ended \in Int /\ r.started \in Int
    BY <1>1, <2>2, <2>3
  <2>5. Rejected(r, now) = {"ended_before_started"}
    BY <1>1, <2>4, RejectedIs
  <2> QED  BY <1>4, <2>1, <2>3, <2>5
<1>5. CASE kind = "future_timestamp"
  <2> DEFINE start == Min({config.now + (IF far THEN 299 ELSE 1) * DaySeconds,
                           config.date_dim_upper_bound - 7200})
             length == Max({s.duration, 60})
             q == [s EXCEPT !.started = start]
             r == [q EXCEPT !.ended = start + length]
  <2>1. Malform(s, kind, far) = r
    BY <1>5 DEF Malform
  <2>2. start \in Int /\ start > now
    BY FutureIs
  <2>3. length \in Int /\ length > 0
    BY <1>1, MaxOfTwo
  <2> HIDE DEF start, length
  <2>3a. /\ q \in SessionRows /\ q.started = start /\ q.duration = d
         /\ q.id = s.id /\ q.sub = s.sub /\ q.batch = s.batch /\ q.quality = s.quality
    BY <1>1, <2>2 DEF SessionRows
  <2> HIDE DEF q
  <2>4. /\ r \in SessionRows /\ r.started = start /\ r.duration = d /\ r.ended = start + length
        /\ r.id = s.id /\ r.sub = s.sub /\ r.batch = s.batch /\ r.quality = s.quality
    BY <2>2, <2>3, <2>3a DEF SessionRows
  <2> HIDE DEF r
  <2>5. /\ r.duration >= 0 /\ r.ended >= r.started /\ r.started > now
        /\ r.duration \in Int /\ r.ended \in Int /\ r.started \in Int
    BY <1>1, <2>2, <2>3, <2>4
  <2>6. Rejected(r, now) = {"future_timestamp"}
    BY <1>1, <2>5, RejectedIs
  <2> QED  BY <1>5, <2>1, <2>4, <2>5, <2>6
<1> QED  BY <1>2, <1>3, <1>4, <1>5 DEF RejectionReasons

(* A row of batch i as it was made, sane or malformed.                     *)
RowMade(c, ls, cutoff, i, id, kind, r) ==
    /\ r \in SessionRows /\ r.id = id /\ r.sub \in DOMAIN ls
    /\ r.batch = i /\ r.quality = QualityOf(cutoff, i)
    /\ c.launch <= r.started
    /\ \/ InsideLife(c, ls[r.sub], r.started)
       \/ r.started > c.now /\ ls[r.sub].role # "hard"
    /\ kind \in {"sane"} \cup RejectionReasons
    /\ Rejected(r, c.now) = IF kind = "sane" THEN {} ELSE {kind}

LEMMA SessionMade ==
    ASSUME config \in RunConfigs, DOMAIN lives \subseteq Nat,
           \A j \in DOMAIN lives : LifeIs(config, lives[j]),
           NEW i \in Nat, i < NumBatches("playback_sessions"), NEW id \in Nat, NEW d \in SessionDraws(i)
    PROVE  LET kind == Malformation(Session(i, id, d), d.kind)
               r == Malform(Session(i, id, d), kind, d.far)
           IN  RowMade(config, lives, CutoffBatch, i, id, kind, r)
<1> DEFINE s == Session(i, id, d)
           kind == Malformation(s, d.kind)
           life == lives[d.sub]
           v == Started(life, i, d.u)
           r == Malform(s, kind, d.far)
           Drawn == {"sane"} \cup (IF config.malformed_playback THEN RejectionReasons ELSE {})
           Waiting == {0} \cup IF config.out_of_order /\ i < LastPlayback
                               THEN config.delay_batches_min..config.delay_batches_max ELSE {}
<1>1. d \in [sub : DOMAIN lives, u : config.draws, duration : config.durations, far : config.far,
             kind : Drawn, delay : Waiting]
  BY DEF SessionDraws
<1> HIDE DEF Waiting
<1>2. /\ d.sub \in DOMAIN lives /\ d.u \in config.draws /\ d.duration \in config.durations
      /\ d.far \in config.far /\ d.kind \in Drawn
  BY <1>1
<1>3. d.u \in 0..99 /\ d.far \in BOOLEAN
  BY <1>2, ConfigIs
<1>4. d.kind \in {"sane"} \cup RejectionReasons
  BY <1>2
<1>5. LifeIs(config, life) /\ d.sub \in Nat
  BY <1>2
<1>6. v \in Int /\ Lower(life) <= v /\ v <= Upper(config, life)
  BY <1>3, <1>5, StartedIs
<1>7. InsideLife(config, life, v) /\ config.launch <= v
  BY <1>5, <1>6, BetweenLife
<1>8. d.duration \in Int /\ d.duration > 0
  BY <1>2, ConfigIs
<1>9. s = [id |-> id, sub |-> d.sub, started |-> v, ended |-> v + d.duration,
           duration |-> d.duration, quality |-> Quality(i), batch |-> i]
  BY DEF Session
<1> HIDE DEF v, life
<1>10. Quality(i) = QualityOf(CutoffBatch, i) /\ Quality(i) \in Qualities
  BY DEF Quality, QualityOf, Qualities
<1>11. /\ s \in SessionRows /\ s.duration > 0 /\ s.duration >= 0 /\ s.ended = s.started + s.duration
       /\ s.id = id /\ s.sub = d.sub /\ s.batch = i /\ s.quality = Quality(i) /\ s.started = v
  BY <1>5, <1>6, <1>8, <1>9, <1>10 DEF SessionRows
<1>12. kind \in {"sane"} \cup RejectionReasons /\ (kind = "future_timestamp" => life.role # "hard")
  BY <1>4, <1>11 DEF Malformation, RejectionReasons, life
<1>13. v <= config.now
  BY <1>7 DEF InsideLife
<1> HIDE DEF s, kind
<1>14. /\ r \in SessionRows
       /\ r.id = s.id /\ r.sub = s.sub /\ r.batch = s.batch /\ r.quality = s.quality
       /\ kind # "future_timestamp" => r.started = s.started
       /\ kind = "future_timestamp" => r.started > config.now
       /\ Rejected(r, config.now) = IF kind = "sane" THEN {} ELSE {kind}
  <2> DEFINE far == d.far
             m == Malform(s, kind, far)
  <2>1. s.started <= config.now /\ far \in BOOLEAN
    BY <1>3, <1>11, <1>13
  <2>2. /\ s \in SessionRows /\ s.duration >= 0 /\ s.duration > 0
        /\ s.ended = s.started + s.duration /\ kind \in {"sane"} \cup RejectionReasons
    BY <1>11, <1>12
  <2> HIDE DEF far
  <2>3. /\ m \in SessionRows
        /\ m.id = s.id /\ m.sub = s.sub /\ m.batch = s.batch /\ m.quality = s.quality
        /\ kind # "future_timestamp" => m.started = s.started
        /\ kind = "future_timestamp" => m.started > config.now
        /\ Rejected(m, config.now) = IF kind = "sane" THEN {} ELSE {kind}
    BY <2>1, <2>2, MalformIs
  <2> QED  BY <2>3 DEF far
<1> HIDE DEF r
<1>15. config.launch <= r.started
  <2>1. config.launch \in Int /\ config.now \in Int /\ config.launch < config.now
    BY ConfigIs
  <2>2. r.started \in Int
    BY <1>14 DEF SessionRows
  <2> DEFINE x == r.started
             l == config.launch
             now == config.now
  <2>3. kind # "future_timestamp" => l <= x
    BY <1>7, <1>11, <1>14
  <2>4. kind = "future_timestamp" => x > now
    BY <1>14
  <2>5. x \in Int /\ l \in Int /\ now \in Int /\ l < now
    BY <2>1, <2>2
  <2> HIDE DEF x, l, now
  <2>6. l <= x
    BY <2>3, <2>4, <2>5
  <2> QED  BY <2>6 DEF l, x
<1>16. \/ InsideLife(config, lives[r.sub], r.started)
       \/ r.started > config.now /\ lives[r.sub].role # "hard"
  <2>1. lives[r.sub] = life
    BY <1>11, <1>14 DEF life
  <2> QED  BY <1>7, <1>11, <1>12, <1>14, <2>1
<1>17. r.id = id /\ r.sub \in DOMAIN lives /\ r.batch = i /\ r.quality = QualityOf(CutoffBatch, i)
  BY <1>2, <1>10, <1>11, <1>14
<1> QED  BY <1>12, <1>14, <1>15, <1>16, <1>17 DEF r, s, kind, RowMade

(***************************************************************************)
(* The rows that are held back and the rows that land.                     *)
(***************************************************************************)
HeldRows(pool) == [k \in DOMAIN pool |-> pool[k].row]

LEMMA HeldRowsAre ==
    ASSUME NEW pool \in Seq(PoolRows)
    PROVE  /\ HeldRows(pool) \in Seq(SessionRows) /\ DOMAIN HeldRows(pool) = DOMAIN pool
           /\ Ids(HeldRows(pool)) \in Seq(Nat) /\ DOMAIN Ids(HeldRows(pool)) = DOMAIN pool
           /\ \A k \in DOMAIN pool : HeldRows(pool)[k] = pool[k].row
           /\ \A k \in DOMAIN pool : Ids(HeldRows(pool))[k] = pool[k].row.id
<1>1. Len(pool) \in Nat /\ DOMAIN pool = 1..Len(pool) /\ \A k \in 1..Len(pool) : pool[k] \in PoolRows
  OBVIOUS
<1> DEFINE n == Len(pool)
<1>2. HeldRows(pool) = [k \in 1..n |-> pool[k].row]
  BY <1>1 DEF HeldRows
<1>3. Ids(HeldRows(pool)) = [k \in 1..n |-> pool[k].row.id]
  BY <1>2 DEF Ids
<1> HIDE DEF n
<1>4. \A k \in 1..n : pool[k].row \in SessionRows /\ pool[k].row.id \in Nat
  BY <1>1 DEF PoolRows, SessionRows, n
<1>5. n \in Nat /\ DOMAIN pool = 1..n
  BY <1>1 DEF n
<1>6. HeldRows(pool) \in Seq(SessionRows) /\ DOMAIN HeldRows(pool) = 1..n
  BY <1>2, <1>4, <1>5
<1>7. Ids(HeldRows(pool)) \in Seq(Nat) /\ DOMAIN Ids(HeldRows(pool)) = 1..n
  BY <1>3, <1>4, <1>5
<1> QED  BY <1>2, <1>3, <1>5, <1>6, <1>7

LEMMA HeldConcat ==
    ASSUME NEW p \in Seq(PoolRows), NEW q \in Seq(PoolRows)
    PROVE  Ids(HeldRows(p \o q)) = Ids(HeldRows(p)) \o Ids(HeldRows(q))
<1> DEFINE a == HeldRows(p)
           b == HeldRows(q)
           m == Len(p)
           n == Len(q)
           pq == p \o q
           ab == a \o b
<1>1. a \in Seq(SessionRows) /\ b \in Seq(SessionRows) /\ Ids(a) \in Seq(Nat) /\ Ids(b) \in Seq(Nat)
  BY HeldRowsAre
<1>2. m \in Nat /\ n \in Nat /\ DOMAIN p = 1..m /\ DOMAIN q = 1..n
  OBVIOUS
<1>3. /\ DOMAIN a = 1..m /\ DOMAIN b = 1..n
      /\ \A k \in 1..m : a[k] = p[k].row
      /\ \A k \in 1..n : b[k] = q[k].row
  BY <1>2, HeldRowsAre
<1>4. Len(a) = m /\ Len(b) = n
  <2> HIDE DEF a, b, m, n
  <2> QED  BY <1>1, <1>2, <1>3
<1>5. /\ pq \in Seq(PoolRows) /\ Len(pq) = m + n
      /\ \A k \in 1..m + n : pq[k] = IF k <= m THEN p[k] ELSE q[k - m]
  BY ConcatProperties
<1>6. /\ ab \in Seq(SessionRows) /\ Len(ab) = m + n
      /\ \A k \in 1..m + n : ab[k] = IF k <= m THEN a[k] ELSE b[k - m]
  <2> HIDE DEF a, b, m, n
  <2> QED  BY <1>1, <1>4, ConcatProperties
<1>7. /\ HeldRows(pq) \in Seq(SessionRows) /\ DOMAIN HeldRows(pq) = DOMAIN pq
      /\ \A k \in DOMAIN pq : HeldRows(pq)[k] = pq[k].row
  <2> HIDE DEF pq
  <2> QED  BY <1>5, HeldRowsAre
<1> DEFINE h == HeldRows(pq)
<1> HIDE DEF h, pq, ab, a, b, m, n
<1>8. /\ DOMAIN pq = 1..m + n /\ DOMAIN ab = 1..m + n /\ DOMAIN h = 1..m + n
  BY <1>2, <1>5, <1>6, <1>7 DEF h
<1>9. ASSUME NEW k \in 1..m + n PROVE h[k] = ab[k]
  <2>1. h[k] = pq[k].row
    BY <1>7, <1>8 DEF h
  <2>2. CASE k <= m
    <3>1. k \in 1..m
      BY <1>2, <2>2
    <3>2. pq[k] = p[k] /\ ab[k] = a[k]
      BY <1>5, <1>6, <2>2
    <3> QED  BY <1>3, <2>1, <3>1, <3>2
  <2>3. CASE ~ (k <= m)
    <3>1. k - m \in 1..n
      BY <1>2, <2>3
    <3>2. pq[k] = q[k - m] /\ ab[k] = b[k - m]
      BY <1>5, <1>6, <2>3
    <3> QED  BY <1>3, <2>1, <3>1, <3>2
  <2> QED  BY <2>2, <2>3
<1>10. h = ab
  <2>1. h \in Seq(SessionRows)
    BY <1>7 DEF h
  <2>2. h = [k \in 1..m + n |-> h[k]] /\ ab = [k \in 1..m + n |-> ab[k]]
    BY <1>6, <1>8, <2>1
  <2> QED  BY <1>9, <2>2
<1>11. Ids(a \o b) = Ids(a) \o Ids(b)
  BY <1>1, IdsConcat
<1> QED  BY <1>10, <1>11 DEF h, ab, pq, a, b

LEMMA HeldPicked ==
    ASSUME NEW p \in Seq(PoolRows), NEW S \in SUBSET DOMAIN p
    PROVE  /\ HeldRows(Picked(p, S)) = Picked(HeldRows(p), S)
           /\ Ids(HeldRows(Picked(p, S))) = Picked(Ids(HeldRows(p)), S)
<1> DEFINE o == InOrder(S)
<1>1. Len(p) \in Nat /\ DOMAIN p = 1..Len(p)
  OBVIOUS
<1>2. \A k \in DOMAIN o : o[k] \in DOMAIN p
  <2>1. S \in SUBSET (1..Len(p))
    BY <1>1
  <2>2. DOMAIN o = 1..Cardinality(S) /\ \A k \in 1..Cardinality(S) : o[k] \in S
    BY <1>1, <2>1, InOrderIs
  <2> QED  BY <2>2
<1>3. /\ Picked(p, S) = [k \in DOMAIN o |-> p[o[k]]]
      /\ Picked(HeldRows(p), S) = [k \in DOMAIN o |-> HeldRows(p)[o[k]]]
  BY DEF Picked
<1>4. HeldRows(Picked(p, S)) = [k \in DOMAIN o |-> p[o[k]].row]
  BY <1>3 DEF HeldRows
<1> HIDE DEF o
<1>5. \A k \in DOMAIN o : HeldRows(p)[o[k]] = p[o[k]].row
  BY <1>2, HeldRowsAre
<1>6. HeldRows(Picked(p, S)) = Picked(HeldRows(p), S)
  BY <1>3, <1>4, <1>5
<1>7. Ids(Picked(HeldRows(p), S)) = Picked(Ids(HeldRows(p)), S)
  <2>1. HeldRows(p) \in Seq(SessionRows) /\ S \in SUBSET DOMAIN HeldRows(p) /\ Ids(HeldRows(p)) \in Seq(Nat)
    BY HeldRowsAre
  <2> QED  BY <2>1, IdsPicked
<1> QED  BY <1>6, <1>7

(* Nothing is lost between the rows of a batch, the pool and the file.     *)
LEMMA Conserved ==
    ASSUME NEW ids \in Seq(Nat), NEW held \in Seq(Nat),
           NEW S, NEW R, Split(DOMAIN ids, S, R),
           NEW pool \in Seq(Nat), NEW U, NEW V, Split(DOMAIN pool, U, V), NEW v,
           Times(pool, v) = Times(held, v) + Times(Picked(ids, R), v)
    PROVE  Times(Picked(ids, S) \o Picked(pool, U), v) + Times(Picked(pool, V), v)
               = Times(held, v) + Times(ids, v)
<1>1. Picked(ids, S) \in Seq(Nat) /\ Picked(ids, R) \in Seq(Nat)
  <2>1. S \in SUBSET DOMAIN ids /\ R \in SUBSET DOMAIN ids
    BY DEF Split
  <2> QED  BY <2>1, PickedSeq
<1>3. Picked(pool, U) \in Seq(Nat) /\ Picked(pool, V) \in Seq(Nat)
  <2>1. U \in SUBSET DOMAIN pool /\ V \in SUBSET DOMAIN pool
    BY DEF Split
  <2> QED  BY <2>1, PickedSeq
<1> DEFINE a == Times(Picked(ids, S), v)
           b == Times(Picked(ids, R), v)
           c == Times(Picked(pool, U), v)
           d == Times(Picked(pool, V), v)
<1>4. a + b = Times(ids, v)
  BY TimesApart
<1>5. c + d = Times(pool, v)
  BY TimesApart
<1>6. Times(pool, v) = Times(held, v) + b
  OBVIOUS
<1>7. Times(Picked(ids, S) \o Picked(pool, U), v) = a + c
  BY <1>1, <1>3, TimesConcat
<1>8. a \in Nat /\ b \in Nat /\ c \in Nat /\ d \in Nat /\ Times(held, v) \in Nat
  BY <1>1, <1>3, TimesOf
<1> DEFINE h == Times(held, v)
           t == Times(ids, v)
           p == Times(pool, v)
<1>9. (a + c) + d = h + t
  <2>1. a + b = t /\ c + d = p /\ p = h + b /\ a \in Nat /\ b \in Nat /\ c \in Nat /\ d \in Nat /\ h \in Nat
    BY <1>4, <1>5, <1>6, <1>8
  <2>2. t \in Int /\ p \in Int
    BY <2>1
  <2> HIDE DEF a, b, c, d, h, t, p
  <2> QED  BY <2>1, <2>2
<1> QED  BY <1>7, <1>9

(***************************************************************************)
(* One batch of sessions.                                                  *)
(***************************************************************************)
SaneRows(i, first, draws) == [k \in DOMAIN draws |-> Session(i, first + k - 1, draws[k])]
KindsOf(i, first, draws) ==
    [k \in DOMAIN draws |-> Malformation(SaneRows(i, first, draws)[k], draws[k].kind)]
MadeRows(i, first, draws) ==
    [k \in DOMAIN draws |->
        Malform(SaneRows(i, first, draws)[k], KindsOf(i, first, draws)[k], draws[k].far)]
BadRows(i, first, draws) ==
    [k \in DOMAIN draws |->
        [id |-> MadeRows(i, first, draws)[k].id, kind |-> KindsOf(i, first, draws)[k]]]

LEMMA BatchMade ==
    ASSUME config \in RunConfigs, DOMAIN lives \subseteq Nat,
           \A j \in DOMAIN lives : LifeIs(config, lives[j]),
           NEW i \in Nat, i < NumBatches("playback_sessions"),
           NEW first \in Nat, NEW n \in Nat, NEW draws \in [1..n -> SessionDraws(i)]
    PROVE  LET rows == MadeRows(i, first, draws)
               kinds == KindsOf(i, first, draws)
               bad == BadRows(i, first, draws)
           IN  /\ rows \in Seq(SessionRows) /\ DOMAIN rows = 1..n /\ DOMAIN kinds = 1..n /\ DOMAIN bad = 1..n
               /\ \A k \in 1..n : RowMade(config, lives, CutoffBatch, i, first + k - 1, kinds[k], rows[k])
               /\ bad \in Seq(JudgedRows)
               /\ \A k \in 1..n : bad[k] = [id |-> first + k - 1, kind |-> kinds[k]]
<1> DEFINE rows == MadeRows(i, first, draws)
           kinds == KindsOf(i, first, draws)
           bad == BadRows(i, first, draws)
<1>1. DOMAIN draws = 1..n /\ \A k \in 1..n : draws[k] \in SessionDraws(i)
  OBVIOUS
<1>2. DOMAIN rows = 1..n /\ DOMAIN kinds = 1..n /\ DOMAIN bad = 1..n
  BY <1>1 DEF MadeRows, KindsOf, BadRows
<1>3. ASSUME NEW k \in 1..n
      PROVE  RowMade(config, lives, CutoffBatch, i, first + k - 1, kinds[k], rows[k])
  <2> DEFINE id == first + k - 1
             d == draws[k]
             kind == Malformation(Session(i, id, d), d.kind)
             r == Malform(Session(i, id, d), kind, d.far)
  <2>1. k \in DOMAIN draws
    BY <1>1
  <2>2. kinds[k] = kind
    BY <2>1 DEF KindsOf, SaneRows
  <2>3. rows[k] = r
    BY <2>1, <2>2 DEF MadeRows, SaneRows
  <2>4. id \in Nat
    OBVIOUS
  <2>5. RowMade(config, lives, CutoffBatch, i, id, kind, r)
    <3>1. d \in SessionDraws(i)
      BY <1>1
    <3> HIDE DEF id, d
    <3> QED  BY <2>4, <3>1, SessionMade
  <2> HIDE DEF r, kind, rows, kinds
  <2> QED  BY <2>2, <2>3, <2>5 DEF id
<1>4. \A k \in 1..n : rows[k] \in SessionRows /\ rows[k].id = first + k - 1
  <2> HIDE DEF rows, kinds
  <2> QED  BY <1>3 DEF RowMade
<1>5. rows \in Seq(SessionRows)
  <2>1. rows = [k \in 1..n |-> rows[k]]
    BY <1>1 DEF MadeRows
  <2> HIDE DEF rows
  <2> QED  BY <1>4, <2>1
<1>6. \A k \in 1..n : bad[k] = [id |-> first + k - 1, kind |-> kinds[k]]
  <2>1. \A k \in 1..n : bad[k] = [id |-> rows[k].id, kind |-> kinds[k]]
    BY <1>1 DEF BadRows
  <2> HIDE DEF rows, kinds, bad
  <2> QED  BY <1>4, <2>1
<1>7. bad \in Seq(JudgedRows)
  <2>1. bad = [k \in 1..n |-> bad[k]]
    BY <1>1 DEF BadRows
  <2>2. \A k \in 1..n : kinds[k] \in {"sane"} \cup RejectionReasons
    <3> HIDE DEF rows, kinds
    <3> QED  BY <1>3 DEF RowMade
  <2> HIDE DEF rows, kinds, bad
  <2>3. \A k \in 1..n : bad[k] \in JudgedRows
    <3> SUFFICES ASSUME NEW k \in 1..n PROVE bad[k] \in JudgedRows
      OBVIOUS
    <3> DEFINE id == first + k - 1
    <3>1. id \in Nat
      OBVIOUS
    <3>2. bad[k] = [id |-> id, kind |-> kinds[k]]
      BY <1>6
    <3> HIDE DEF id
    <3> QED  BY <2>2, <3>1, <3>2 DEF JudgedRows
  <2> QED  BY <2>1, <2>3
<1> QED  BY <1>2, <1>3, <1>5, <1>6, <1>7

LEMMA KindsConcat ==
    ASSUME NEW a \in Seq(MalformedRows), NEW b \in Seq(MalformedRows), NEW id
    PROVE  Kinds(a \o b, id) = Kinds(a, id) \cup Kinds(b, id)
<1> DEFINE ab == a \o b
           m == Len(a)
           n == Len(b)
<1>1. /\ ab \in Seq(MalformedRows) /\ Len(ab) = m + n
      /\ \A k \in 1..m + n : ab[k] = IF k <= m THEN a[k] ELSE b[k - m]
  BY ConcatProperties
<1>2. m \in Nat /\ n \in Nat /\ DOMAIN a = 1..m /\ DOMAIN b = 1..n
  OBVIOUS
<1> HIDE DEF ab, m, n
<1>3. DOMAIN ab = 1..m + n
  BY <1>1
<1>4. ToSet(ab) = ToSet(a) \cup ToSet(b)
  <2>1. ASSUME NEW k \in 1..m PROVE a[k] \in ToSet(ab)
    <3>1. k \in 1..m + n /\ k <= m
      BY <1>2
    <3>2. ab[k] = a[k]
      BY <1>1, <3>1
    <3> QED  BY <1>3, <3>1, <3>2 DEF ToSet
  <2>2. ASSUME NEW k \in 1..n PROVE b[k] \in ToSet(ab)
    <3>1. m + k \in 1..m + n /\ ~ (m + k <= m) /\ (m + k) - m = k
      BY <1>2
    <3>2. ab[m + k] = b[k]
      BY <1>1, <3>1
    <3> QED  BY <1>3, <3>1, <3>2 DEF ToSet
  <2>3. ASSUME NEW k \in 1..m + n PROVE ab[k] \in ToSet(a) \cup ToSet(b)
    <3>1. CASE k <= m
      <4>1. k \in 1..m
        BY <1>2, <3>1
      <4> QED  BY <1>1, <1>2, <3>1, <4>1 DEF ToSet
    <3>2. CASE ~ (k <= m)
      <4>1. k - m \in 1..n
        BY <1>2, <3>2
      <4> QED  BY <1>1, <1>2, <3>2, <4>1 DEF ToSet
    <3> QED  BY <3>1, <3>2
  <2> QED  BY <1>2, <1>3, <2>1, <2>2, <2>3 DEF ToSet
<1>5. Kinds(ab, id) = Kinds(a, id) \cup Kinds(b, id)
  BY <1>4 DEF Kinds
<1> QED  BY <1>5 DEF ab

LEMMA KindsAre ==
    ASSUME NEW m, NEW id
    PROVE  \A x : x \in Kinds(m, id) <=> \E k \in DOMAIN m : m[k].id = id /\ m[k].kind = x
BY DEF Kinds, ToSet

(* n rows from id first on with what was made of each, and the manifest of *)
(* malformed rows from before and with them.                               *)
Judged(bad, kinds, first, n) ==
    /\ DOMAIN kinds = 1..n /\ DOMAIN bad = 1..n
    /\ \A k \in 1..n : bad[k] = [id |-> first + k - 1, kind |-> kinds[k]]
Below(malformed, first) == \A k \in DOMAIN malformed : malformed[k].id < first
Says(malformed, kinds, first, n) ==
    \A k \in 1..n : Kinds(malformed, first + k - 1) = IF kinds[k] = "sane" THEN {} ELSE {kinds[k]}

NotSane(bad, kinds) == Picked(bad, {k \in DOMAIN kinds : kinds[k] # "sane"})

LEMMA MalformedFound ==
    ASSUME NEW first \in Nat, NEW n \in Nat, NEW kinds, NEW bad \in Seq(JudgedRows), Judged(bad, kinds, first, n),
           NEW old \in Seq(MalformedRows), Below(old, first)
    PROVE  LET all == old \o NotSane(bad, kinds)
           IN  /\ all \in Seq(MalformedRows)
               /\ Below(all, first + n)
               /\ \A id : id < first => Kinds(all, id) = Kinds(old, id)
               /\ Says(all, kinds, first, n)
<1> USE DEF Judged, Below
<1> DEFINE S == {k \in DOMAIN kinds : kinds[k] # "sane"}
           new == Picked(bad, S)
           all == old \o new
<1>1. S \in SUBSET DOMAIN bad /\ S \in SUBSET (1..n)
  OBVIOUS
<1>2. /\ new \in Seq(JudgedRows)
      /\ \A k \in DOMAIN new : \E i \in S : new[k] = bad[i]
      /\ \A i \in S : \E k \in DOMAIN new : new[k] = bad[i]
  <2> HIDE DEF S
  <2> QED  BY <1>1, PickedSeq, PickedHas
<1>3. \A k \in 1..n : /\ bad[k].id = first + k - 1 /\ bad[k].kind = kinds[k]
                      /\ first <= first + k - 1 /\ first + k - 1 < first + n
                      /\ bad[k] \in JudgedRows
  OBVIOUS
<1>4. \A i \in S : i \in 1..n /\ kinds[i] # "sane"
  OBVIOUS
<1>5. \A i \in 1..n : i \notin S => kinds[i] = "sane"
  OBVIOUS
<1> HIDE DEF new, S
<1>6. \A k \in DOMAIN new : new[k] \in MalformedRows /\ first <= new[k].id /\ new[k].id < first + n
  <2> SUFFICES ASSUME NEW k \in DOMAIN new
               PROVE  new[k] \in MalformedRows /\ first <= new[k].id /\ new[k].id < first + n
    OBVIOUS
  <2>1. PICK i \in S : new[k] = bad[i]
    BY <1>2
  <2>2. /\ bad[i].kind # "sane" /\ bad[i] \in JudgedRows
        /\ first <= bad[i].id /\ bad[i].id < first + n
    BY <1>3, <1>4
  <2>3. bad[i] \in MalformedRows
    BY <2>2 DEF JudgedRows, MalformedRows
  <2> QED  BY <2>1, <2>2, <2>3
<1>7. new \in Seq(MalformedRows)
  BY <1>2, <1>6
<1>8. /\ all \in Seq(MalformedRows) /\ Len(all) = Len(old) + Len(new)
      /\ \A k \in 1..Len(old) + Len(new) : all[k] = IF k <= Len(old) THEN old[k] ELSE new[k - Len(old)]
  BY <1>7, ConcatProperties
<1>9. \A k \in DOMAIN all : all[k].id < first + n
  <2> DEFINE p == Len(old)
             q == Len(new)
  <2>1. p \in Nat /\ q \in Nat /\ DOMAIN old = 1..p /\ DOMAIN new = 1..q
    BY <1>7
  <2>2. DOMAIN all = 1..p + q /\ \A k \in 1..p + q : all[k] = IF k <= p THEN old[k] ELSE new[k - p]
    <3> HIDE DEF all
    <3> QED  BY <1>8
  <2> HIDE DEF p, q, all
  <2>3. ASSUME NEW k \in 1..p + q PROVE all[k].id < first + n
    <3>1. CASE k <= p
      <4>1. k \in 1..p /\ all[k] = old[k]
        BY <2>1, <2>2, <3>1
      <4>2. all[k].id < first
        BY <2>1, <4>1
      <4>3. all[k].id \in Nat
        <5>1. old[k] \in MalformedRows
          BY <2>1, <4>1
        <5> QED  BY <4>1, <5>1 DEF MalformedRows
      <4> QED  BY <4>2, <4>3
    <3>2. CASE ~ (k <= p)
      <4>1. k - p \in 1..q /\ all[k] = new[k - p]
        BY <2>1, <2>2, <3>2
      <4> QED  BY <1>6, <2>1, <4>1
    <3> QED  BY <3>1, <3>2
  <2> QED  BY <2>2, <2>3
<1>10. \A id : Kinds(all, id) = Kinds(old, id) \cup Kinds(new, id)
  BY <1>7, KindsConcat
<1> HIDE DEF all
<1>11. ASSUME NEW id, id < first PROVE Kinds(all, id) = Kinds(old, id)
  <2>1. \A k \in DOMAIN new : new[k].id # id
    <3> SUFFICES ASSUME NEW k \in DOMAIN new, new[k].id = id PROVE FALSE
      OBVIOUS
    <3>1. first <= id /\ id \in Nat
      BY <1>6 DEF MalformedRows
    <3> QED  BY <1>11, <3>1
  <2>2. Kinds(new, id) = {}
    BY <2>1, KindsAre
  <2> QED  BY <1>10, <2>2
<1>12. ASSUME NEW k \in 1..n
       PROVE  Kinds(all, first + k - 1) = IF kinds[k] = "sane" THEN {} ELSE {kinds[k]}
  <2> DEFINE id == first + k - 1
  <2>1. id \in Nat /\ ~ (id < first)
    OBVIOUS
  <2>2. \A j \in DOMAIN old : old[j].id # id
    <3> HIDE DEF id
    <3> QED  BY <2>1
  <2>3. Kinds(old, id) = {}
    <3> HIDE DEF id
    <3> QED  BY <2>2, KindsAre
  <2>4. ASSUME NEW i \in 1..n, first + i - 1 = first + k - 1 PROVE i = k
    BY <2>4
  <2>5. ASSUME NEW j \in DOMAIN new, new[j].id = id PROVE k \in S /\ new[j].kind = kinds[k]
    <3>1. PICK i \in S : new[j] = bad[i]
      BY <1>2
    <3>2. i \in 1..n /\ bad[i].id = first + i - 1 /\ bad[i].kind = kinds[i]
      BY <1>3, <1>4
    <3>3. i = k
      BY <2>4, <2>5, <3>1, <3>2
    <3> QED  BY <3>1, <3>2, <3>3
  <2>6. CASE kinds[k] = "sane"
    <3>1. k \notin S
      BY <1>4, <2>6
    <3>2. Kinds(new, id) = {}
      <4>1. \A j \in DOMAIN new : new[j].id # id
        BY <2>5, <3>1
      <4> HIDE DEF id
      <4> QED  BY <4>1, KindsAre
    <3> QED  BY <1>10, <2>3, <2>6, <3>2
  <2>7. CASE kinds[k] # "sane"
    <3>1. k \in S
      BY <1>5, <2>7
    <3>2. PICK j \in DOMAIN new : new[j] = bad[k]
      BY <1>2, <3>1
    <3>3. new[j].id = id /\ new[j].kind = kinds[k]
      BY <1>3, <3>2
    <3>4. Kinds(new, id) = {kinds[k]}
      <4> HIDE DEF id
      <4> QED  BY <2>5, <3>3, KindsAre
    <3> QED  BY <1>10, <2>3, <2>7, <3>4
  <2> QED  BY <2>6, <2>7
<1> QED  BY <1>8, <1>9, <1>11, <1>12 DEF all, new, S, Says, NotSane

LEMMA SessionKept ==
    ASSUME NEW c, NEW ls, NEW n \in Int, NEW m \in Int, n <= m, NEW old, NEW now,
           \A id : id < n => Kinds(now, id) = Kinds(old, id),
           NEW s, SessionFine(c, ls, n, old, s)
    PROVE  SessionFine(c, ls, m, now, s)
<1>1. s \in SessionRows /\ s.id < n /\ s.id \in Int
  BY DEF SessionFine, SessionRows
<1>2. s.id < m
  BY <1>1
<1>3. Kinds(now, s.id) = Kinds(old, s.id)
  BY <1>1
<1> QED  BY <1>2, <1>3 DEF SessionFine

LEMMA MadeFine ==
    ASSUME NEW c, NEW ls, NEW cutoff, NEW i, NEW id, NEW kind, NEW r,
           RowMade(c, ls, cutoff, i, id, kind, r), NEW m, id < m, NEW now,
           Kinds(now, id) = IF kind = "sane" THEN {} ELSE {kind}
    PROVE  SessionFine(c, ls, m, now, r)
BY DEF RowMade, SessionFine

LEMMA FitIs ==
    ASSUME NEW s \in SessionRows, NEW i
    PROVE  LET f == Fit(s, i)
           IN  /\ f \in SessionRows /\ f.id = s.id /\ f.sub = s.sub /\ f.batch = s.batch
               /\ f.started = s.started /\ f.ended = s.ended /\ f.duration = s.duration
               /\ f.quality = IF i < CutoffBatch THEN "no column"
                              ELSE IF s.quality = "no column" THEN "null" ELSE s.quality
<1> DEFINE q == IF i < CutoffBatch THEN "no column"
                ELSE IF s.quality = "no column" THEN "null" ELSE s.quality
<1>1. Fit(s, i) = [s EXCEPT !.quality = q]
  BY DEF Fit
<1>2. q \in Qualities
  BY DEF SessionRows, Qualities
<1> HIDE DEF q
<1>3. LET f == [s EXCEPT !.quality = q]
      IN  /\ f \in SessionRows /\ f.id = s.id /\ f.sub = s.sub /\ f.batch = s.batch
          /\ f.started = s.started /\ f.ended = s.ended /\ f.duration = s.duration
          /\ f.quality = q
  BY <1>2 DEF SessionRows
<1> QED  BY <1>1, <1>3 DEF q

LEMMA FitFine ==
    ASSUME NEW c, NEW ls, NEW n, NEW mal, NEW s, SessionFine(c, ls, n, mal, s), NEW i
    PROVE  SessionFine(c, ls, n, mal, Fit(s, i))
<1> DEFINE f == Fit(s, i)
<1>1. s \in SessionRows
  BY DEF SessionFine
<1>2. /\ f \in SessionRows /\ f.id = s.id /\ f.sub = s.sub
      /\ f.started = s.started /\ f.ended = s.ended /\ f.duration = s.duration
  BY <1>1, FitIs
<1> HIDE DEF f
<1>3. Rejected(f, c.now) = Rejected(s, c.now)
  BY <1>2 DEF Rejected, RejectedFor, NegativeDuration, EndedBeforeStarted, FutureTimestamp
<1>4. SessionFine(c, ls, n, mal, f)
  BY <1>2, <1>3 DEF SessionFine
<1> QED  BY <1>4 DEF f

(* A row stays, lands in time, or is held back for a later batch.          *)
LEMMA KeptLands ==
    ASSUME NEW c, c.delay_batches_max \in Nat, NEW ls, NEW cutoff \in Int, NEW last \in Int,
           NEW i \in Nat, i <= last, NEW id, NEW kind, NEW r, RowMade(c, ls, cutoff, i, id, kind, r)
    PROVE  Landed(c, cutoff, last, "part", i, r)
<1>1. r.batch = i /\ r.quality = QualityOf(cutoff, i)
  BY DEF RowMade
<1>2. i - r.batch = 0 /\ 0 <= c.delay_batches_max
  BY <1>1
<1>3. r.quality = IF i < cutoff THEN "no column" ELSE IF r.batch < cutoff THEN "null" ELSE "drawn"
  <2>1. i >= cutoff <=> ~ (i < cutoff)
    OBVIOUS
  <2>2. CASE i < cutoff
    BY <1>1, <2>1, <2>2 DEF QualityOf
  <2>3. CASE ~ (i < cutoff)
    BY <1>1, <2>1, <2>3 DEF QualityOf
  <2> QED  BY <2>2, <2>3
<1> QED  BY <1>2, <1>3 DEF Landed

LEMMA FitLands ==
    ASSUME config \in RunConfigs, NEW last \in Int, NEW i \in Nat,
           NEW d \in PoolRows, Waits(config, CutoffBatch, last, i, d), d.target = i
    PROVE  Landed(config, CutoffBatch, last, "part", i, Fit(d.row, i))
<1> DEFINE f == Fit(d.row, i)
           b == d.row.batch
           cut == CutoffBatch
<1>1. d.row \in SessionRows /\ b \in Nat
  BY DEF PoolRows, SessionRows
<1>2. /\ f.batch = b
      /\ f.quality = IF i < cut THEN "no column"
                     ELSE IF d.row.quality = "no column" THEN "null" ELSE d.row.quality
  BY <1>1, FitIs
<1>3. /\ d.row.quality = QualityOf(cut, b) /\ i <= last
      /\ i - b <= config.delay_batches_max /\ (i - b >= config.delay_batches_min \/ i = last)
  BY DEF Waits
<1>4. cut \in Int
  BY CutoffIs
<1> HIDE DEF f, b, cut
<1>5. f.quality = IF i < cut THEN "no column" ELSE IF f.batch < cut THEN "null" ELSE "drawn"
  <2>1. b >= cut <=> ~ (b < cut)
    BY <1>1, <1>4
  <2>2. CASE i < cut
    BY <1>2, <2>2
  <2>3. CASE ~ (i < cut) /\ b < cut
    <3>1. d.row.quality = "no column"
      BY <1>3, <2>1, <2>3 DEF QualityOf
    <3> QED  BY <1>2, <2>3, <3>1
  <2>4. CASE ~ (i < cut) /\ ~ (b < cut)
    <3>1. d.row.quality = "drawn"
      BY <1>3, <2>1, <2>4 DEF QualityOf
    <3> QED  BY <1>2, <2>4, <3>1
  <2> QED  BY <2>2, <2>3, <2>4
<1>6. i - f.batch <= config.delay_batches_max /\ (i - f.batch >= config.delay_batches_min \/ i = last)
  BY <1>2, <1>3
<1> QED  BY <1>3, <1>5, <1>6 DEF Landed, f, cut

PeeledOff(d, r, i, delay, last) ==
    d \in PoolRows /\ d.row = r /\ d.target = Min({i + delay, last})

LEMMA PeeledWaits ==
    ASSUME NEW c, c.delay_batches_min \in Nat, c.delay_batches_max \in Nat, c.delay_batches_min >= 1,
           NEW ls, NEW cutoff \in Int, NEW last \in Int, NEW i \in Nat, i < last,
           NEW id, NEW kind, NEW r, RowMade(c, ls, cutoff, i, id, kind, r),
           NEW delay \in c.delay_batches_min..c.delay_batches_max,
           NEW d, PeeledOff(d, r, i, delay, last)
    PROVE  Waits(c, cutoff, last, i, d) /\ d.target # i
<1> DEFINE low == c.delay_batches_min
           high == c.delay_batches_max
           t == Min({i + delay, last})
<1>1. low \in Nat /\ high \in Nat /\ low >= 1 /\ low <= delay /\ delay <= high /\ delay \in Int
  OBVIOUS
<1>2. t = IF i + delay <= last THEN i + delay ELSE last
  BY <1>1, MinOfTwo
<1>3. r.batch = i /\ r.quality = QualityOf(cutoff, i)
  BY DEF RowMade
<1>4. d.row = r /\ d.target = t
  BY DEF PeeledOff
<1> HIDE DEF t, low, high
<1>5. /\ t \in Int /\ i <= t /\ t <= last /\ t # i
      /\ t - i <= high /\ (t - i >= low \/ t = last)
  BY <1>1, <1>2
<1> QED  BY <1>3, <1>4, <1>5 DEF Waits, low, high

LEMMA WaitsOn ==
    ASSUME NEW c, NEW cutoff, NEW last, NEW i \in Nat, NEW d \in PoolRows,
           Waits(c, cutoff, last, i, d), d.target # i
    PROVE  Waits(c, cutoff, last, i + 1, d)
<1>1. d.target \in Int /\ i <= d.target
  BY DEF PoolRows, Waits
<1>2. i + 1 <= d.target
  BY <1>1
<1> QED  BY <1>2 DEF Waits

FinePool(m, mal, i) ==
    {d \in PoolRows : /\ Waits(config, CutoffBatch, LastPlayback, i, d)
                      /\ SessionFine(config, lives, m, mal, d.row)}
FineLanded(m, mal, i) ==
    {r \in SessionRows : /\ Landed(config, CutoffBatch, LastPlayback, "part", i, r)
                         /\ SessionFine(config, lives, m, mal, r)}

LEMMA DelayIs ==
    ASSUME config \in RunConfigs, NEW i, NEW d \in SessionDraws(i)
    PROVE  /\ d.delay = 0 \/ d.delay > 0
           /\ ~ (d.delay = 0 /\ d.delay > 0)
           /\ d.delay > 0 => /\ i < LastPlayback
                             /\ d.delay \in config.delay_batches_min..config.delay_batches_max
<1> DEFINE Drawn == {"sane"} \cup (IF config.malformed_playback THEN RejectionReasons ELSE {})
           Waiting == {0} \cup IF config.out_of_order /\ i < LastPlayback
                               THEN config.delay_batches_min..config.delay_batches_max ELSE {}
<1>1. d \in [sub : DOMAIN lives, u : config.draws, duration : config.durations, far : config.far,
             kind : Drawn, delay : Waiting]
  BY DEF SessionDraws
<1> HIDE DEF Waiting
<1>2. d.delay \in Waiting
  BY <1>1
<1> DEFINE x == d.delay
           low == config.delay_batches_min
           high == config.delay_batches_max
<1>3. x = 0 \/ (i < LastPlayback /\ x \in low..high)
  BY <1>2 DEF Waiting
<1>4. low \in Nat /\ low >= 1 /\ high \in Nat
  BY ConfigIs
<1> HIDE DEF x, low, high
<1>5. /\ x = 0 \/ x > 0
      /\ ~ (x = 0 /\ x > 0)
      /\ x > 0 => i < LastPlayback /\ x \in low..high
  BY <1>3, <1>4
<1> QED  BY <1>5 DEF x, low, high

LEMMA BatchKeeps ==
    ASSUME config \in RunConfigs, DOMAIN lives \subseteq Nat,
           \A j \in DOMAIN lives : LifeIs(config, lives[j]),
           batch \in Nat, batch < NumBatches("playback_sessions"),
           NEW first \in Nat, NEW n \in Nat, NEW draws \in [1..n -> SessionDraws(batch)],
           NEW now, Says(now, KindsOf(batch, first, draws), first, n)
    PROVE  LET rows == MadeRows(batch, first, draws)
           IN  /\ rows \in Seq(SessionRows) /\ DOMAIN rows = 1..n
               /\ Kept(rows, draws) \in Seq(FineLanded(first + n, now, batch))
               /\ Peeled(rows, draws) \in Seq({d \in FinePool(first + n, now, batch) : d.target # batch})
               /\ Ids(HeldRows(Peeled(rows, draws)))
                      = Picked(Ids(rows), {k \in DOMAIN rows : draws[k].delay > 0})
<1> DEFINE rows == MadeRows(batch, first, draws)
           kinds == KindsOf(batch, first, draws)
           bad == BadRows(batch, first, draws)
           cut == CutoffBatch
           last == LastPlayback
           m == first + n
           S == {k \in DOMAIN rows : draws[k].delay = 0}
           R == {k \in DOMAIN rows : draws[k].delay > 0}
           held == [k \in DOMAIN rows |->
                       [row |-> rows[k], target |-> Min({batch + draws[k].delay, last})]]
<1>1. /\ rows \in Seq(SessionRows) /\ DOMAIN rows = 1..n
      /\ \A k \in 1..n : RowMade(config, lives, cut, batch, first + k - 1, kinds[k], rows[k])
  <2>1. /\ rows \in Seq(SessionRows) /\ DOMAIN rows = 1..n /\ DOMAIN kinds = 1..n /\ DOMAIN bad = 1..n
        /\ \A k \in 1..n : RowMade(config, lives, cut, batch, first + k - 1, kinds[k], rows[k])
        /\ bad \in Seq(JudgedRows)
        /\ \A k \in 1..n : bad[k] = [id |-> first + k - 1, kind |-> kinds[k]]
    BY BatchMade
  <2> QED  BY <2>1
<1>2. cut \in Int /\ last \in Int /\ batch <= last
  BY CutoffIs
<1>3. /\ config.delay_batches_min \in Nat /\ config.delay_batches_max \in Nat
      /\ config.delay_batches_min >= 1
  BY ConfigIs
<1>4. \A k \in 1..n : Kinds(now, first + k - 1) = IF kinds[k] = "sane" THEN {} ELSE {kinds[k]}
  BY DEF Says
<1> HIDE DEF rows, kinds, cut, last
<1>5. ASSUME NEW k \in 1..n
      PROVE  /\ SessionFine(config, lives, m, now, rows[k])
             /\ Landed(config, cut, last, "part", batch, rows[k])
             /\ rows[k] \in SessionRows
             /\ draws[k].delay > 0 => held[k] \in FinePool(m, now, batch) /\ held[k].target # batch
  <2> DEFINE id == first + k - 1
  <2>1. id < m
    OBVIOUS
  <2>2. RowMade(config, lives, cut, batch, id, kinds[k], rows[k])
    BY <1>1
  <2>3. Kinds(now, id) = IF kinds[k] = "sane" THEN {} ELSE {kinds[k]}
    BY <1>4
  <2> HIDE DEF id, m
  <2>4. SessionFine(config, lives, m, now, rows[k])
    BY <2>1, <2>2, <2>3, MadeFine
  <2>5. Landed(config, cut, last, "part", batch, rows[k])
    BY <1>2, <1>3, <2>2, KeptLands
  <2>6. ASSUME draws[k].delay > 0
        PROVE  held[k] \in FinePool(m, now, batch) /\ held[k].target # batch
    <3> DEFINE delay == draws[k].delay
               d == [row |-> rows[k], target |-> Min({batch + delay, last})]
    <3>1. batch < last /\ delay \in config.delay_batches_min..config.delay_batches_max
      BY <2>6, DelayIs DEF last
    <3>2. held[k] = d
      BY <1>1
    <3>3. Min({batch + delay, last}) \in Int
      <4>1. delay \in Int
        BY <1>3, <3>1
      <4> HIDE DEF delay
      <4> QED  BY <1>2, <4>1, MinOfTwo
    <3>4. d \in PoolRows /\ d.row = rows[k] /\ d.target = Min({batch + delay, last})
      <4>1. rows[k] \in SessionRows
        BY <2>2 DEF RowMade
      <4> DEFINE t == Min({batch + delay, last})
      <4> HIDE DEF t, rows
      <4> QED  BY <3>3, <4>1 DEF PoolRows, t
    <3> HIDE DEF delay, d
    <3>4a. PeeledOff(d, rows[k], batch, delay, last)
      BY <3>4 DEF PeeledOff
    <3>5. Waits(config, cut, last, batch, d) /\ d.target # batch
      BY <1>2, <1>3, <2>2, <3>1, <3>4a, PeeledWaits
    <3> HIDE DEF held
    <3> QED  BY <2>4, <3>2, <3>4, <3>5 DEF FinePool, cut, last
  <2>7. rows[k] \in SessionRows
    BY <2>2 DEF RowMade
  <2> QED  BY <2>4, <2>5, <2>6, <2>7
<1>6. S \in SUBSET DOMAIN rows /\ R \in SUBSET DOMAIN rows
  OBVIOUS
<1>7. Kept(rows, draws) = Picked(rows, S)
  BY DEF Kept
<1>8. Peeled(rows, draws) = Picked(held, R)
  BY DEF Peeled, last
<1>9. \A k \in 1..n : rows[k] \in FineLanded(m, now, batch)
  BY <1>5 DEF FineLanded, cut, last
<1>10. Picked(rows, S) \in Seq(FineLanded(m, now, batch))
  <2> DEFINE U == FineLanded(m, now, batch)
  <2>1. rows \in Seq(U)
    <3> HIDE DEF U
    <3> QED  BY <1>1, <1>9 DEF U
  <2> HIDE DEF U, S
  <2>2. Picked(rows, S) \in Seq(U)
    BY <1>6, <2>1, PickedSeq
  <2> QED  BY <2>2 DEF U
<1> DEFINE X == [row : SessionRows, target : Int]
<1>11. held \in Seq(PoolRows) /\ DOMAIN held = 1..n
  <2>1. ASSUME NEW k \in 1..n PROVE held[k] \in PoolRows
    <3> DEFINE delay == draws[k].delay
               t == Min({batch + delay, last})
    <3>1. delay \in Int
      <4>1. draws[k] \in SessionDraws(batch)
        OBVIOUS
      <4>2. delay = 0 \/ delay \in config.delay_batches_min..config.delay_batches_max
        BY <4>1, DelayIs
      <4> HIDE DEF delay
      <4> QED  BY <1>3, <4>2
    <3> HIDE DEF delay
    <3>2. t \in Int
      BY <1>2, <3>1, MinOfTwo
    <3>3. held[k] = [row |-> rows[k], target |-> t]
      BY <1>1 DEF delay
    <3>4. rows[k] \in SessionRows
      BY <1>5
    <3> HIDE DEF t, held
    <3> QED  BY <3>2, <3>3, <3>4 DEF PoolRows
  <2>2. held = [k \in 1..n |-> held[k]]
    BY <1>1
  <2>3. DOMAIN held = 1..n
    BY <1>1
  <2> HIDE DEF held
  <2> QED  BY <2>1, <2>2, <2>3
<1>12. Picked(held, R) \in Seq({d \in FinePool(m, now, batch) : d.target # batch})
  <2> DEFINE U == {d \in FinePool(m, now, batch) : d.target # batch}
             p == Picked(held, R)
  <2>0. R \in SUBSET DOMAIN held
    BY <1>1, <1>11
  <2>1. \A k \in R : held[k] \in U
    BY <1>1, <1>5
  <2> HIDE DEF U, R, held, p
  <2>2. p \in Seq(PoolRows) /\ \A k \in DOMAIN p : \E j \in R : p[k] = held[j]
    BY <1>11, <2>0, PickedSeq, PickedHas DEF p
  <2>3. \A k \in DOMAIN p : p[k] \in U
    BY <2>1, <2>2
  <2>4. p \in Seq(U)
    BY <2>2, <2>3
  <2> QED  BY <2>4 DEF p, U
<1>13. HeldRows(held) = rows
  <2>1. HeldRows(held) = [k \in 1..n |-> rows[k]]
    BY <1>1 DEF HeldRows
  <2>2. rows = [k \in 1..n |-> rows[k]]
    BY <1>1
  <2> QED  BY <2>1, <2>2
<1>14. Ids(HeldRows(Picked(held, R))) = Picked(Ids(rows), R)
  <2>0. R \in SUBSET DOMAIN held
    BY <1>1, <1>11
  <2> HIDE DEF held, R
  <2> QED  BY <1>11, <1>13, <2>0, HeldPicked
<1> QED  BY <1>1, <1>7, <1>8, <1>10, <1>12, <1>14 DEF rows

LEMMA PoolLands ==
    ASSUME config \in RunConfigs, batch \in Nat, NEW m, NEW now, NEW pool \in Seq(FinePool(m, now, batch))
    PROVE  /\ Landing(pool, batch) \in Seq(FineLanded(m, now, batch))
           /\ Ids(Landing(pool, batch))
                  = Picked(Ids(HeldRows(pool)), {k \in DOMAIN pool : pool[k].target = batch})
<1> DEFINE F == FinePool(m, now, batch)
           L == FineLanded(m, now, batch)
           U == {k \in DOMAIN pool : pool[k].target = batch}
           n == Len(pool)
           fit == [k \in DOMAIN pool |-> Fit(pool[k].row, batch)]
<1>1. n \in Nat /\ DOMAIN pool = 1..n /\ \A k \in 1..n : pool[k] \in F
  <2>1. pool \in Seq(F)
    OBVIOUS
  <2> HIDE DEF F
  <2> QED  BY <2>1
<1>2. \A k \in 1..n : /\ pool[k] \in PoolRows /\ pool[k].row \in SessionRows
                      /\ Waits(config, CutoffBatch, LastPlayback, batch, pool[k])
                      /\ SessionFine(config, lives, m, now, pool[k].row)
  BY <1>1 DEF FinePool, PoolRows
<1> HIDE DEF n, F
<1>3. \A k \in 1..n : fit[k] \in SessionRows /\ fit[k].id = pool[k].row.id
  <2> SUFFICES ASSUME NEW k \in 1..n PROVE fit[k] \in SessionRows /\ fit[k].id = pool[k].row.id
    OBVIOUS
  <2>1. fit[k] = Fit(pool[k].row, batch)
    BY <1>1
  <2> DEFINE r == pool[k].row
             f == Fit(r, batch)
  <2>2. r \in SessionRows
    BY <1>2
  <2> HIDE DEF r
  <2>3. f \in SessionRows /\ f.id = r.id
    BY <2>2, FitIs
  <2> HIDE DEF f, fit
  <2> QED  BY <2>1, <2>3 DEF f, r
<1>4. fit = [k \in 1..n |-> fit[k]] /\ DOMAIN fit = 1..n
  BY <1>1
<1>5. \A k \in U : k \in 1..n /\ fit[k] \in L
  <2> SUFFICES ASSUME NEW k \in U PROVE k \in 1..n /\ fit[k] \in L
    OBVIOUS
  <2>1. k \in 1..n /\ pool[k].target = batch
    BY <1>1
  <2> DEFINE d == pool[k]
             f == Fit(d.row, batch)
  <2>2. fit[k] = f /\ f \in SessionRows
    BY <1>1, <1>3, <2>1
  <2>3. /\ d \in PoolRows /\ Waits(config, CutoffBatch, LastPlayback, batch, d) /\ d.target = batch
        /\ SessionFine(config, lives, m, now, d.row)
    BY <1>2, <2>1
  <2>4. LastPlayback \in Int
    BY CutoffIs
  <2>5. Landed(config, CutoffBatch, LastPlayback, "part", batch, f)
    <3> HIDE DEF d
    <3> QED  BY <2>3, <2>4, FitLands
  <2>6. SessionFine(config, lives, m, now, f)
    <3> HIDE DEF d
    <3> QED  BY <2>3, FitFine
  <2> HIDE DEF f, d, fit
  <2> QED  BY <2>1, <2>2, <2>5, <2>6 DEF FineLanded
<1>6. Landing(pool, batch) = Picked(fit, U)
  BY DEF Landing
<1>7. U \in SUBSET DOMAIN fit
  OBVIOUS
<1> HIDE DEF fit, U, L
<1>8. fit \in Seq(SessionRows)
  BY <1>1, <1>3, <1>4
<1>9. Picked(fit, U) \in Seq(L)
  <2> DEFINE p == Picked(fit, U)
  <2>1. p \in Seq(SessionRows) /\ \A k \in DOMAIN p : \E j \in U : p[k] = fit[j]
    BY <1>7, <1>8, PickedSeq, PickedHas
  <2> HIDE DEF p
  <2>2. \A k \in DOMAIN p : p[k] \in L
    BY <1>5, <2>1
  <2>3. p \in Seq(L)
    BY <2>1, <2>2
  <2> QED  BY <2>3 DEF p
<1>10. pool \in Seq(PoolRows)
  BY <1>1, <1>2
<1>11. Ids(fit) = Ids(HeldRows(pool)) /\ Ids(fit) \in Seq(Nat)
  <2>1. Ids(fit) = [k \in 1..n |-> fit[k].id]
    BY <1>4 DEF Ids
  <2>2. /\ Ids(HeldRows(pool)) \in Seq(Nat) /\ DOMAIN Ids(HeldRows(pool)) = DOMAIN pool
        /\ \A k \in DOMAIN pool : Ids(HeldRows(pool))[k] = pool[k].row.id
    BY <1>10, HeldRowsAre
  <2> DEFINE h == Ids(HeldRows(pool))
  <2> HIDE DEF h
  <2>3. h \in Seq(Nat) /\ DOMAIN h = 1..n /\ \A k \in 1..n : h[k] = pool[k].row.id
    BY <1>1, <2>2 DEF h
  <2>4. h = [k \in 1..n |-> h[k]]
    BY <2>3
  <2>5. Ids(fit) = h
    BY <1>3, <2>1, <2>3, <2>4
  <2> QED  BY <2>3, <2>5 DEF h
<1>12. Ids(Picked(fit, U)) = Picked(Ids(fit), U)
  BY <1>7, <1>8, <1>11, IdsPicked
<1> QED  BY <1>6, <1>9, <1>11, <1>12 DEF L, U

LEMMA PoolRemains ==
    ASSUME batch \in Nat, NEW m, NEW now, NEW pool \in Seq(FinePool(m, now, batch))
    PROVE  /\ Remaining(pool, batch) \in Seq(FinePool(m, now, batch + 1))
           /\ Ids(HeldRows(Remaining(pool, batch)))
                  = Picked(Ids(HeldRows(pool)), {k \in DOMAIN pool : pool[k].target # batch})
<1> DEFINE F == FinePool(m, now, batch)
           G == FinePool(m, now, batch + 1)
           V == {k \in DOMAIN pool : pool[k].target # batch}
           p == Picked(pool, V)
<1>1. V \in SUBSET DOMAIN pool
  OBVIOUS
<1>2. Remaining(pool, batch) = p
  BY DEF Remaining
<1>3. \A k \in V : pool[k] \in F /\ pool[k].target # batch
  <2>1. pool \in Seq(F)
    OBVIOUS
  <2> HIDE DEF F
  <2> QED  BY <2>1
<1> HIDE DEF V
<1>4. p \in Seq(F) /\ \A k \in DOMAIN p : \E j \in V : p[k] = pool[j]
  <2> HIDE DEF F
  <2>1. pool \in Seq(F)
    BY DEF F
  <2> QED  BY <1>1, <2>1, PickedSeq, PickedHas
<1> HIDE DEF p
<1>5. ASSUME NEW k \in DOMAIN p PROVE p[k] \in G
  <2>1. p[k] \in F /\ p[k].target # batch
    BY <1>3, <1>4
  <2> DEFINE d == p[k]
  <2> HIDE DEF d
  <2>2. /\ d \in PoolRows /\ Waits(config, CutoffBatch, LastPlayback, batch, d) /\ d.target # batch
        /\ SessionFine(config, lives, m, now, d.row)
    BY <2>1 DEF FinePool, d
  <2>3. Waits(config, CutoffBatch, LastPlayback, batch + 1, d)
    BY <2>2, WaitsOn
  <2> QED  BY <2>2, <2>3 DEF FinePool, d
<1> HIDE DEF F, G
<1>6. p \in Seq(G)
  BY <1>4, <1>5
<1>7. pool \in Seq(PoolRows)
  <2> DEFINE n == Len(pool)
  <2>1. n \in Nat /\ DOMAIN pool = 1..n /\ \A k \in 1..n : pool[k] \in FinePool(m, now, batch)
    OBVIOUS
  <2>2. \A k \in 1..n : pool[k] \in PoolRows
    BY <2>1 DEF FinePool
  <2> QED  BY <2>1, <2>2
<1>8. Ids(HeldRows(Picked(pool, V))) = Picked(Ids(HeldRows(pool)), V)
  BY <1>1, <1>7, HeldPicked
<1> QED  BY <1>2, <1>6, <1>8 DEF p, G, V

Has(s, x) == \E k \in DOMAIN s : s[k] = x

LEMMA SeqPutTogether ==
    ASSUME NEW T, NEW a \in Seq(T), NEW b \in Seq(T)
    PROVE  a \o b \in Seq(T) /\ \A x : Has(a \o b, x) <=> Has(a, x) \/ Has(b, x)
<1> DEFINE ab == a \o b
           m == Len(a)
           n == Len(b)
<1>1. /\ ab \in Seq(T) /\ Len(ab) = m + n
      /\ \A k \in 1..m + n : ab[k] = IF k <= m THEN a[k] ELSE b[k - m]
  BY ConcatProperties
<1>2. m \in Nat /\ n \in Nat /\ DOMAIN a = 1..m /\ DOMAIN b = 1..n
  OBVIOUS
<1> HIDE DEF ab, m, n
<1>3. DOMAIN ab = 1..m + n
  BY <1>1
<1>4. ASSUME NEW k \in 1..m PROVE k \in 1..m + n /\ ab[k] = a[k]
  <2>1. k \in 1..m + n /\ k <= m
    BY <1>2
  <2> QED  BY <1>1, <2>1
<1>5. ASSUME NEW k \in 1..n PROVE m + k \in 1..m + n /\ ab[m + k] = b[k]
  <2>1. m + k \in 1..m + n /\ ~ (m + k <= m) /\ (m + k) - m = k
    BY <1>2
  <2> QED  BY <1>1, <2>1
<1>6. ASSUME NEW k \in 1..m + n
      PROVE  (k \in 1..m /\ ab[k] = a[k]) \/ (k - m \in 1..n /\ ab[k] = b[k - m])
  <2>1. (k <= m /\ k \in 1..m) \/ (~ (k <= m) /\ k - m \in 1..n)
    BY <1>2
  <2> QED  BY <1>1, <2>1
<1>7. \A x : (\E k \in DOMAIN ab : ab[k] = x)
               <=> (\E k \in DOMAIN a : a[k] = x) \/ (\E k \in DOMAIN b : b[k] = x)
  <2> SUFFICES ASSUME NEW x
               PROVE  (\E k \in DOMAIN ab : ab[k] = x)
                         <=> (\E k \in DOMAIN a : a[k] = x) \/ (\E k \in DOMAIN b : b[k] = x)
    OBVIOUS
  <2>1. ASSUME NEW k \in DOMAIN ab, ab[k] = x
        PROVE  (\E j \in DOMAIN a : a[j] = x) \/ (\E j \in DOMAIN b : b[j] = x)
    BY <1>2, <1>3, <1>6, <2>1
  <2>2. ASSUME NEW k \in DOMAIN a, a[k] = x PROVE \E j \in DOMAIN ab : ab[j] = x
    BY <1>2, <1>3, <1>4, <2>2
  <2>3. ASSUME NEW k \in DOMAIN b, b[k] = x PROVE \E j \in DOMAIN ab : ab[j] = x
    BY <1>2, <1>3, <1>5, <2>3
  <2> QED  BY <2>1, <2>2, <2>3
<1> QED  BY <1>1, <1>7 DEF ab, Has

(***************************************************************************)
(* What each kind of file does to the count of the ids.                    *)
(***************************************************************************)
(* The ids of n rows, given out one after the other from first on.         *)
Numbered(ids, first, n) ==
    ids \in Seq(Nat) /\ DOMAIN ids = 1..n /\ \A k \in 1..n : ids[k] = first + k - 1

LEMMA OncePerId ==
    ASSUME NEW first \in Nat, NEW n \in Nat, NEW ids, Numbered(ids, first, n), NEW id \in Nat
    PROVE  Times(ids, id) = IF id \in first..first + n - 1 THEN 1 ELSE 0
BY TimesNumbered DEF Numbered

LEMMA NoTimes ==
    ASSUME NEW id
    PROVE  Times(<< >>, id) = 0
<1>1. << >> \in Seq(Nat) /\ \A k \in DOMAIN << >> : FALSE
  OBVIOUS
<1> QED  BY <1>1, TimesOf

(* Rows of which none is held back or repeated.                            *)
LEMMA CountedOnce ==
    ASSUME NEW fs, NEW fact, NEW new, NEW rows, NEW gs, Adds(fs, fact, new, rows, gs),
           NEW n, NEW again, Counted(fs, fact, n, << >>, again),
           NEW m \in Nat, Numbered(Ids(rows), n, m)
    PROVE  Counted(gs, fact, n + m, << >>, again)
<1>1. /\ n \in Nat /\ again \in Seq(Nat) /\ \A k \in DOMAIN again : again[k] \in Nat /\ again[k] < n
  BY DEF Counted
<1>2. \A k \in DOMAIN again : again[k] < n + m
  BY <1>1
<1>3. ASSUME NEW id \in Nat
      PROVE  Times(Ids(rows), id) + Times(<< >>, id) + Times(again, id)
               = Times(<< >>, id) + Times(again, id) + (IF id \in n..n + m - 1 THEN 1 ELSE 0)
  <2> DEFINE r == Times(Ids(rows), id)
             a == Times(again, id)
             z == Times(<< >>, id)
  <2>1. r = (IF id \in n..n + m - 1 THEN 1 ELSE 0) /\ z = 0
    BY <1>1, OncePerId, NoTimes
  <2>2. a \in Nat
    BY <1>1, TimesOf
  <2> HIDE DEF r, a, z
  <2>3. r + z + a = z + a + (IF id \in n..n + m - 1 THEN 1 ELSE 0)
    BY <1>1, <2>1, <2>2
  <2> QED  BY <2>3 DEF r, a, z
<1>4. << >> \in Seq(Nat) /\ Ids(rows) \in Seq(Nat)
  BY DEF Numbered
<1>5. Even(Ids(rows), << >>, << >>, again, again, n, m)
  BY <1>3 DEF Even
<1> QED  BY <1>1, <1>2, <1>4, <1>5, CountedMore

(* Rows some of which are written once more, at the end of the file.       *)
LEMMA CountedAgain ==
    ASSUME NEW fs, NEW fact, NEW new, NEW T, NEW rows \in Seq(T), NEW S \in SUBSET DOMAIN rows, NEW gs,
           Adds(fs, fact, new, rows \o Picked(rows, S), gs),
           NEW n, NEW again, Counted(fs, fact, n, << >>, again),
           NEW m \in Nat, Numbered(Ids(rows), n, m)
    PROVE  Counted(gs, fact, n + m, << >>, again \o Ids(Picked(rows, S)))
<1> DEFINE more == Picked(rows, S)
           all == rows \o more
           ids == Ids(rows)
           extra == Ids(more)
           now == again \o extra
<1>1. /\ n \in Nat /\ again \in Seq(Nat) /\ \A k \in DOMAIN again : again[k] \in Nat /\ again[k] < n
  BY DEF Counted
<1>2. ids \in Seq(Nat) /\ DOMAIN ids = 1..m /\ \A k \in 1..m : ids[k] = n + k - 1
  BY DEF Numbered
<1>3. more \in Seq(T)
  BY PickedSeq
<1>4. extra \in Seq(Nat) /\ \A k \in DOMAIN more : \E i \in S : extra[k] = ids[i]
  BY <1>2, IdsPicked
<1>5. DOMAIN more = DOMAIN extra /\ DOMAIN rows = 1..m
  BY <1>2 DEF Ids
<1>6. \A k \in DOMAIN extra : extra[k] < n + m
  <2> SUFFICES ASSUME NEW k \in DOMAIN extra PROVE extra[k] < n + m
    OBVIOUS
  <2>1. PICK i \in S : extra[k] = ids[i]
    BY <1>4, <1>5
  <2>2. i \in 1..m
    BY <1>5
  <2>3. extra[k] = n + i - 1
    BY <1>2, <2>1, <2>2
  <2> QED  BY <1>1, <2>2, <2>3
<1>7. Ids(all) = ids \o extra /\ Ids(all) \in Seq(Nat)
  <2> HIDE DEF more
  <2> QED  BY <1>2, <1>3, <1>4, IdsConcat
<1> HIDE DEF all, ids, extra, more
<1>8. now \in Seq(Nat) /\ \A k \in DOMAIN now : now[k] < n + m
  <2>1. /\ now \in Seq(Nat)
        /\ \A x : Has(now, x) <=> Has(again, x) \/ Has(extra, x)
    BY <1>1, <1>4, SeqPutTogether
  <2>2. \A k \in DOMAIN again : again[k] < n + m
    BY <1>1
  <2> HIDE DEF now
  <2> QED  BY <1>6, <2>1, <2>2 DEF Has
<1>9. ASSUME NEW id \in Nat
      PROVE  Times(Ids(all), id) + Times(<< >>, id) + Times(again, id)
               = Times(<< >>, id) + Times(now, id) + (IF id \in n..n + m - 1 THEN 1 ELSE 0)
  <2> DEFINE r == Times(ids, id)
             e == Times(extra, id)
             a == Times(again, id)
             z == Times(<< >>, id)
             x == Times(Ids(all), id)
             y == Times(now, id)
  <2>1. x = r + e
    BY <1>2, <1>4, <1>7, TimesConcat
  <2>2. y = a + e
    BY <1>1, <1>4, TimesConcat
  <2>3. r = (IF id \in n..n + m - 1 THEN 1 ELSE 0) /\ z = 0
    BY <1>1, OncePerId, NoTimes DEF ids
  <2>4. r \in Nat /\ e \in Nat /\ a \in Nat
    BY <1>1, <1>2, <1>4, TimesOf
  <2> HIDE DEF r, e, a, z, x, y
  <2>5. x + z + a = z + y + (IF id \in n..n + m - 1 THEN 1 ELSE 0)
    BY <1>1, <2>1, <2>2, <2>3, <2>4
  <2> QED  BY <2>5 DEF r, e, a, z, x, y
<1>10. << >> \in Seq(Nat)
  OBVIOUS
<1>11. Counted(gs, fact, n + m, << >>, now)
  <2>1. Adds(fs, fact, new, all, gs)
    BY DEF all, more
  <2>2. Even(Ids(all), << >>, << >>, again, now, n, m)
    BY <1>9 DEF Even
  <2> HIDE DEF now
  <2> QED  BY <1>1, <1>7, <1>8, <1>10, <2>1, <2>2, CountedMore
<1> QED  BY <1>11 DEF extra, more

(* Rows some of which are held back, while some of those held back land.   *)
Joined(ab, a, b) == ab = a \o b

LEMMA CountedBatch ==
    ASSUME NEW fs, NEW fact, NEW new, NEW rows, NEW gs, Adds(fs, fact, new, rows, gs),
           NEW n, NEW held, Counted(fs, fact, n, held, << >>),
           NEW m \in Nat, NEW ids, Numbered(ids, n, m),
           NEW S, NEW R, Split(DOMAIN ids, S, R),
           NEW pool, Joined(pool, held, Picked(ids, R)), NEW U, NEW V, Split(DOMAIN pool, U, V),
           Joined(Ids(rows), Picked(ids, S), Picked(pool, U))
    PROVE  Counted(gs, fact, n + m, Picked(pool, V), << >>)
<1> DEFINE held_now == Picked(pool, V)
<1>1. n \in Nat /\ held \in Seq(Nat) /\ ids \in Seq(Nat)
  BY DEF Counted, Numbered
<1>2. R \in SUBSET DOMAIN ids /\ S \in SUBSET DOMAIN ids
  BY DEF Split
<1>3. Picked(ids, R) \in Seq(Nat) /\ Picked(ids, S) \in Seq(Nat)
  BY <1>1, <1>2, PickedSeq
<1>4. pool \in Seq(Nat)
  <2> DEFINE p == Picked(ids, R)
  <2> HIDE DEF p
  <2>1. held \o p \in Seq(Nat)
    BY <1>1, <1>3 DEF p
  <2> QED  BY <2>1 DEF p, Joined
<1>5. U \in SUBSET DOMAIN pool /\ V \in SUBSET DOMAIN pool
  BY DEF Split
<1>6. Picked(pool, U) \in Seq(Nat) /\ Picked(pool, V) \in Seq(Nat)
  BY <1>4, <1>5, PickedSeq
<1>7. Ids(rows) \in Seq(Nat) /\ held_now \in Seq(Nat)
  <2> DEFINE p == Picked(ids, S)
             q == Picked(pool, U)
  <2> HIDE DEF p, q
  <2>1. p \o q \in Seq(Nat)
    BY <1>3, <1>6 DEF p, q
  <2> QED  BY <1>6, <2>1 DEF p, q, Joined
<1>8. ASSUME NEW id \in Nat
      PROVE  Times(Ids(rows), id) + Times(held_now, id) + Times(<< >>, id)
               = Times(held, id) + Times(<< >>, id) + (IF id \in n..n + m - 1 THEN 1 ELSE 0)
  <2> DEFINE x == Times(Ids(rows), id)
             y == Times(held_now, id)
             h == Times(held, id)
             r == Times(ids, id)
             z == Times(<< >>, id)
  <2>1. Times(pool, id) = Times(held, id) + Times(Picked(ids, R), id)
    <3>1. Times(held \o Picked(ids, R), id) = Times(held, id) + Times(Picked(ids, R), id)
      BY <1>1, <1>3, TimesConcat
    <3> QED  BY <3>1 DEF Joined
  <2>2. x + y = h + r
    <3>1. Times(Picked(ids, S) \o Picked(pool, U), id) + Times(Picked(pool, V), id) = h + r
      BY <1>1, <1>4, <2>1, Conserved
    <3> QED  BY <3>1 DEF Joined
  <2>3. r = (IF id \in n..n + m - 1 THEN 1 ELSE 0) /\ z = 0
    BY <1>1, OncePerId, NoTimes
  <2>4. x \in Nat /\ y \in Nat /\ h \in Nat
    BY <1>1, <1>7, TimesOf
  <2> HIDE DEF x, y, h, r, z
  <2>5. x + y + z = h + z + (IF id \in n..n + m - 1 THEN 1 ELSE 0)
    BY <1>1, <2>2, <2>3, <2>4
  <2> QED  BY <2>5 DEF x, y, h, r, z
<1>9. << >> \in Seq(Nat) /\ \A k \in DOMAIN << >> : << >>[k] < n + m
  OBVIOUS
<1>10. Even(Ids(rows), held, held_now, << >>, << >>, n, m)
  BY <1>8 DEF Even
<1> HIDE DEF held_now
<1>11. Counted(gs, fact, n + m, held_now, << >>)
  BY <1>1, <1>7, <1>9, <1>10, CountedMore
<1> QED  BY <1>11 DEF held_now

(***************************************************************************)
(* What a step keeps that only adds a file.                                *)
(***************************************************************************)
Grows(fs, gs) == \A fact : RowsIn(fs, fact) \subseteq RowsIn(gs, fact)

LEMMA AddsGrows ==
    ASSUME NEW fs, NEW fact, NEW new, NEW rows, NEW gs, Adds(fs, fact, new, rows, gs)
    PROVE  Grows(fs, gs)
<1>1. ASSUME NEW other PROVE RowsIn(fs, other) \subseteq RowsIn(gs, other)
  <2>1. CASE other = fact
    BY <2>1, RowsAdded
  <2>2. CASE other # fact
    BY <2>2, OthersKept
  <2> QED  BY <2>1, <2>2
<1> QED  BY <1>1 DEF Grows

LEMMA TargetStays ==
    ASSUME NEW fs, NEW gs, Grows(fs, gs), NEW t, TargetIn(fs, t)
    PROVE  TargetIn(gs, t)
<1>1. /\ RowsIn(fs, "playback_sessions") \subseteq RowsIn(gs, "playback_sessions")
      /\ RowsIn(fs, "billing_ledger") \subseteq RowsIn(gs, "billing_ledger")
  BY DEF Grows
<1> QED  BY <1>1 DEF TargetIn

LEMMA SamePlan ==
    ASSUME UNCHANGED config
    PROVE  /\ CutoffBatch' = CutoffBatch /\ LastPlayback' = LastPlayback
           /\ NumBatches("playback_sessions")' = NumBatches("playback_sessions")
BY DEF CutoffBatch, LastPlayback, NumBatches, RowCount, BatchSize

LEMMA StreamsKept ==
    ASSUME Streams, UNCHANGED << config, lives, titles >>
    PROVE  Streams'
BY DEF Streams

LEMMA ListingsKept ==
    ASSUME Listings, stage \in Lived \ {"done"}, stage' \in Lived \ {"done"}, UNCHANGED << lives, manifests >>
    PROVE  Listings'
<1>1. \A role : Having(lives, role)' = Having(lives, role)
  BY DEF Having
<1> QED  BY <1>1 DEF Listings, Lived

LEMMA SoftDeletesKept ==
    ASSUME SoftDeletesWritten, stage \in Lived, UNCHANGED lives, Grows(files, files')
    PROVE  SoftDeletesWritten'
<1>1. Having(lives, "soft")' = Having(lives, "soft")
  BY DEF Having
<1>2. RowsIn(files, "subscriber_events") \subseteq RowsIn(files', "subscriber_events")
  BY DEF Grows
<1> QED  BY <1>1, <1>2 DEF SoftDeletesWritten

(* A file of another fact changes nothing for the sessions.                *)
LEMMA SessionsKept ==
    ASSUME NEW fact, NEW new, NEW rows, Adds(files, fact, new, rows, files'), fact # "playback_sessions",
           FilesFit, SessionsFine, UNCHANGED << config, lives, delayed >>,
           issued'["playback_sessions"] = issued["playback_sessions"],
           found'.malformed = found.malformed
    PROVE  FilesFit' /\ SessionsFine'
<1>1. /\ FilesIn(files', "playback_sessions") = FilesIn(files, "playback_sessions")
      /\ \A name \in FilesIn(files, "playback_sessions") : files'[name] = files[name]
      /\ RowsIn(files', "playback_sessions") = RowsIn(files, "playback_sessions")
  <2>1. RowsIn(files', "playback_sessions") = RowsIn(files, "playback_sessions")
    BY OthersKept
  <2> QED  BY <2>1 DEF Adds
<1>2. CutoffBatch' = CutoffBatch /\ LastPlayback' = LastPlayback
  BY SamePlan
<1>3. FilesFit'
  BY <1>1, <1>2 DEF FilesFit
<1>4. SessionsFine'
  BY <1>1 DEF SessionsFine
<1> QED  BY <1>3, <1>4

LEMMA EventsKept ==
    ASSUME NEW fact, NEW new, NEW rows, Adds(files, fact, new, rows, files'),
           EventsFine, UNCHANGED << config, lives >>,
           fact \in {"billing_ledger", "watchlist_adds"} =>
               \A k \in DOMAIN rows : EventFine(config, lives, rows[k])
    PROVE  EventsFine'
<1>1. ASSUME NEW f \in {"billing_ledger", "watchlist_adds"},
             \A e \in RowsIn(files, f) : EventFine(config, lives, e)
      PROVE  \A e \in RowsIn(files', f) : EventFine(config, lives, e)
  <2>1. CASE f = fact
    <3>1. RowsIn(files', f) = RowsIn(files, f) \cup {rows[k] : k \in DOMAIN rows}
      BY <2>1, RowsAdded
    <3> QED  BY <1>1, <2>1, <3>1
  <2>2. CASE f # fact
    <3>1. RowsIn(files', f) = RowsIn(files, f)
      BY <2>2, OthersKept
    <3> QED  BY <1>1, <3>1
  <2> QED  BY <2>1, <2>2
<1>2. \A f \in {"billing_ledger", "watchlist_adds"} :
         (\A e \in RowsIn(files, f) : EventFine(config, lives, e))
            => \A e \in RowsIn(files', f) : EventFine(config, lives, e)
  BY <1>1
<1> QED  BY <1>2 DEF EventsFine

LEMMA TargetsKept ==
    ASSUME TargetsFine, Grows(files, files'), UNCHANGED << config, lives >>, found'.midstream = found.midstream
    PROVE  TargetsFine'
BY TargetStays DEF TargetsFine

(* A step of the stages after playback that adds one file of events.       *)
LEMMA LateFile ==
    ASSUME GeneratorInv, stage \in Played, stage # "done", UNCHANGED << config, lives, titles, delayed, manifests >>,
           stage' \in Played, stage' # "done",
           NEW fact \in {"billing_ledger", "watchlist_adds", "signup_funnel"},
           NEW new, NEW rows, Adds(files, fact, new, rows, files'),
           NEW n \in Nat, issued' = [issued EXCEPT ![fact] = @ + n],
           found'.malformed = found.malformed,
           fact \in {"billing_ledger", "watchlist_adds"} =>
               \A k \in DOMAIN rows : EventFine(config, lives, rows[k])
    PROVE  /\ Streams' /\ Listings' /\ Held' /\ FilesFit' /\ SessionsFine' /\ EventsFine'
           /\ SoftDeletesWritten' /\ Grows(files, files')
<1>1. /\ Progress /\ Streams /\ Listings /\ FilesFit /\ SessionsFine /\ EventsFine /\ SoftDeletesWritten
  BY DEF GeneratorInv
<1>2. stage \in Lived \ {"done"} /\ stage' \in Lived \ {"done"}
  BY DEF Played, Lived
<1>3. Grows(files, files')
  BY AddsGrows
<1>4. issued'["playback_sessions"] = issued["playback_sessions"]
  <2>1. issued \in [Facts -> Nat]
    BY <1>1 DEF Progress
  <2> QED  BY <2>1 DEF Facts
<1>5. fact # "playback_sessions"
  OBVIOUS
<1>6. FilesFit' /\ SessionsFine'
  BY <1>1, <1>4, <1>5, SessionsKept
<1>7. EventsFine'
  BY <1>1, EventsKept
<1>8. Held'
  <2>1. delayed = << >>
    BY <1>1 DEF Progress, Played
  <2>2. delayed' = << >>
    BY <2>1
  <2> QED  BY <2>2 DEF Held
<1>9. Streams' /\ Listings' /\ SoftDeletesWritten'
  BY <1>1, <1>2, <1>3, StreamsKept, ListingsKept, SoftDeletesKept DEF Lived
<1> QED  BY <1>3, <1>6, <1>7, <1>8, <1>9

LEMMA Fresh ==
    ASSUME NEW fact, NEW since, FilesUpTo(fact, stage, since), batch \in Nat
    PROVE  << fact, "part", batch >> \notin DOMAIN files
<1> SUFFICES ASSUME << fact, "part", batch >> \in DOMAIN files PROVE FALSE
  OBVIOUS
<1> DEFINE new == << fact, "part", batch >>
<1>1. new[1] = fact /\ new[3] = batch
  OBVIOUS
<1>2. new \in FilesIn(files, fact)
  BY <1>1 DEF FilesIn
<1> HIDE DEF new
<1>3. new[3] < batch
  BY <1>2 DEF FilesUpTo
<1> QED  BY <1>1, <1>3

LEMMA NamedMore ==
    ASSUME NEW fact, NEW now, NEW since, FilesUpTo(fact, now, since),
           NEW new, NEW rows, Adds(files, fact, new, rows, files'),
           batch \in Nat, batch' \in Nat, stage' \in since, new[3] \in Nat,
           stage' = now => stage = now /\ batch <= batch' /\ new[2] = "part" /\ new[3] < batch'
    PROVE  FilesUpTo(fact, now, since)'
<1>1. FilesIn(files', fact) = FilesIn(files, fact) \cup {new}
  BY DEF Adds
<1>2. ASSUME NEW name \in FilesIn(files, fact)
      PROVE  name[3] \in Nat /\ (stage' = now => name[2] = "part" /\ name[3] < batch')
  <2>1. name[3] \in Nat /\ (stage = now => name[2] = "part" /\ name[3] < batch)
    BY DEF FilesUpTo
  <2> DEFINE x == name[3]
  <2> HIDE DEF x
  <2>2. x < batch /\ x \in Nat /\ batch <= batch' => x < batch'
    OBVIOUS
  <2> QED  BY <2>1, <2>2 DEF x
<1> QED  BY <1>1, <1>2 DEF FilesUpTo

LEMMA NamedOther ==
    ASSUME NEW other, NEW now, NEW since, FilesUpTo(other, now, since),
           NEW fact, NEW new, NEW rows, Adds(files, fact, new, rows, files'), other # fact,
           batch \in Nat, batch' \in Nat,
           stage \in since => stage' \in since /\ (stage' = now => stage = now /\ batch <= batch')
    PROVE  FilesUpTo(other, now, since)'
<1>1. FilesIn(files', other) = FilesIn(files, other)
  BY DEF Adds
<1>2. ASSUME NEW name \in FilesIn(files, other)
      PROVE  /\ stage' \in since
             /\ name[3] \in Nat /\ (stage' = now => name[2] = "part" /\ name[3] < batch')
  <2>1. /\ stage \in since
        /\ name[3] \in Nat /\ (stage = now => name[2] = "part" /\ name[3] < batch)
    BY DEF FilesUpTo
  <2> DEFINE x == name[3]
  <2> HIDE DEF x
  <2>2. x < batch /\ x \in Nat /\ batch <= batch' => x < batch'
    OBVIOUS
  <2> QED  BY <2>1, <2>2 DEF x
<1> QED  BY <1>1, <1>2 DEF FilesUpTo

(* The facts a new file does not belong to are counted as before.          *)
LEMMA OthersCounted ==
    ASSUME Progress, IdsCounted, NEW fact \in Facts, NEW new, NEW rows, Adds(files, fact, new, rows, files'),
           NEW n \in Nat, issued' = [issued EXCEPT ![fact] = @ + n]
    PROVE  /\ fact # "playback_sessions" =>
                 Counted(files', "playback_sessions", issued'["playback_sessions"], Ids(HeldBack), << >>)
           /\ fact # "billing_ledger" =>
                 Counted(files', "billing_ledger", issued'["billing_ledger"], << >>, found.billing)
           /\ fact # "watchlist_adds" =>
                 Counted(files', "watchlist_adds", issued'["watchlist_adds"], << >>, << >>)
           /\ fact # "signup_funnel" =>
                 Counted(files', "signup_funnel", issued'["signup_funnel"], << >>, found.signup)
           /\ issued' \in [Facts -> Nat] /\ issued'[fact] = issued[fact] + n
<1>1. issued \in [Facts -> Nat]
  BY DEF Progress
<1>2. \A other \in Facts : other # fact => issued'[other] = issued[other]
  BY <1>1
<1>3. issued' \in [Facts -> Nat] /\ issued'[fact] = issued[fact] + n
  BY <1>1
<1>4. ASSUME NEW other \in Facts, NEW held, NEW again, Counted(files, other, issued[other], held, again),
             other # fact
      PROVE  Counted(files', other, issued'[other], held, again)
  BY <1>2, <1>4, CountedOther
<1>5. {"playback_sessions", "billing_ledger", "watchlist_adds", "signup_funnel"} \subseteq Facts
  BY DEF Facts
<1> QED  BY <1>3, <1>4, <1>5 DEF IdsCounted

(***************************************************************************)
(* Billing, watchlist and the signup funnel.                               *)
(***************************************************************************)
LEMMA StreamsSay ==
    ASSUME Streams
    PROVE  DOMAIN lives \subseteq Nat /\ \A j \in DOMAIN lives : LifeIs(config, lives[j])
BY DEF Streams

LEMMA EventIs ==
    ASSUME config \in RunConfigs, Streams, NEW id \in Nat, NEW b, NEW d \in EventDraws(b)
    PROVE  EventFine(config, lives, Event(id, d)) /\ Event(id, d).id = id
<1> DEFINE life == lives[d.sub]
           v == Between(Lower(life), Upper(config, life), d.u)
           e == Event(id, d)
           Repeats == IF b THEN BOOLEAN ELSE {FALSE}
<1>1. d \in [sub : DOMAIN lives, u : config.draws, again : Repeats]
  BY DEF EventDraws
<1> HIDE DEF Repeats
<1>2. d.sub \in DOMAIN lives /\ d.u \in config.draws
  BY <1>1
<1>3. d.u \in 0..99
  BY <1>2, ConfigIs
<1>4. LifeIs(config, life) /\ d.sub \in Nat
  BY <1>2, StreamsSay
<1>5. Lower(life) \in Int /\ Upper(config, life) \in Int /\ Lower(life) <= Upper(config, life)
  BY <1>4, ConfigIs, LifeSeconds
<1>6. v \in Int /\ Lower(life) <= v /\ v <= Upper(config, life)
  <2> DEFINE lo == Lower(life)
             hi == Upper(config, life)
             u == d.u
             w == Between(lo, hi, u)
  <2> HIDE DEF lo, hi, u
  <2>1. lo \in Int /\ hi \in Int /\ lo <= hi /\ u \in 0..99
    BY <1>3, <1>5 DEF lo, hi, u
  <2>2. w \in Int /\ lo <= w /\ w <= hi
    BY <2>1, BetweenIs
  <2> QED  BY <2>2 DEF lo, hi, u
<1>7. InsideLife(config, life, v)
  <2> HIDE DEF v, life
  <2> QED  BY <1>4, <1>6, BetweenLife
<1>8. e = [id |-> id, sub |-> d.sub, at |-> v]
  BY DEF Event
<1> HIDE DEF v, e
<1>9. e \in EventRows /\ e.id = id /\ e.sub = d.sub /\ e.at = v
  BY <1>4, <1>6, <1>8 DEF EventRows
<1>10. EventFine(config, lives, e)
  BY <1>2, <1>7, <1>9 DEF EventFine
<1> QED  BY <1>9, <1>10 DEF e

LEMMA EventBatchIs ==
    ASSUME config \in RunConfigs, Streams, NEW fact, issued[fact] \in Nat,
           NEW b, NEW n \in Nat, NEW draws \in [1..n -> EventDraws(b)]
    PROVE  LET rows == EventBatch(fact, draws)
           IN  /\ rows \in Seq(EventRows) /\ DOMAIN rows = 1..n /\ DOMAIN draws = 1..n
               /\ \A k \in DOMAIN rows : EventFine(config, lives, rows[k])
               /\ Numbered(Ids(rows), issued[fact], n)
<1> DEFINE rows == EventBatch(fact, draws)
           first == issued[fact]
<1>1. DOMAIN draws = 1..n /\ \A k \in 1..n : draws[k] \in EventDraws(b)
  OBVIOUS
<1>2. rows = [k \in 1..n |-> Event(first + k - 1, draws[k])]
  BY <1>1 DEF EventBatch
<1>3. first \in Nat
  OBVIOUS
<1> HIDE DEF first
<1>4. ASSUME NEW k \in 1..n
      PROVE  EventFine(config, lives, rows[k]) /\ rows[k].id = first + k - 1
  <2> DEFINE id == first + k - 1
             d == draws[k]
  <2>1. id \in Nat /\ d \in EventDraws(b)
    BY <1>1, <1>3
  <2>2. rows[k] = Event(id, d)
    BY <1>2
  <2>3. id = first + k - 1
    OBVIOUS
  <2> HIDE DEF id, d, rows
  <2> QED  BY <2>1, <2>2, <2>3, EventIs
<1>5. DOMAIN rows = 1..n /\ rows = [k \in 1..n |-> rows[k]]
  BY <1>2
<1> HIDE DEF rows
<1>6. \A k \in 1..n : rows[k] \in EventRows
  BY <1>4 DEF EventFine
<1>7. rows \in Seq(EventRows)
  BY <1>5, <1>6
<1>8. Numbered(Ids(rows), first, n)
  <2>1. Ids(rows) = [k \in 1..n |-> rows[k].id]
    BY <1>5 DEF Ids
  <2>2. \A k \in 1..n : rows[k].id = first + k - 1 /\ rows[k].id \in Nat
    BY <1>3, <1>4
  <2>3. Ids(rows) \in Seq(Nat)
    BY <2>1, <2>2
  <2> QED  BY <2>1, <2>2, <2>3 DEF Numbered
<1> QED  BY <1>1, <1>4, <1>5, <1>7, <1>8 DEF rows, first

LEMMA AgainIs ==
    ASSUME NEW T, NEW rows \in Seq(T), NEW draws
    PROVE  LET S == {k \in DOMAIN rows : draws[k].again}
           IN  /\ Again(rows, draws) = Picked(rows, S) /\ S \in SUBSET DOMAIN rows
               /\ Again(rows, draws) \in Seq(T) /\ rows \o Again(rows, draws) \in Seq(T)
               /\ \A x : Has(rows \o Again(rows, draws), x) => Has(rows, x)
<1> DEFINE S == {k \in DOMAIN rows : draws[k].again}
           more == Picked(rows, S)
<1>1. S \in SUBSET DOMAIN rows
  OBVIOUS
<1>2. Again(rows, draws) = more
  BY DEF Again
<1> HIDE DEF S
<1>3. more \in Seq(T) /\ \A k \in DOMAIN more : \E i \in S : more[k] = rows[i]
  BY <1>1, PickedSeq, PickedHas
<1> HIDE DEF more
<1>4. rows \o more \in Seq(T) /\ \A x : Has(rows \o more, x) <=> Has(rows, x) \/ Has(more, x)
  BY <1>3, SeqPutTogether
<1>5. \A x : Has(more, x) => Has(rows, x)
  BY <1>1, <1>3 DEF Has
<1> QED  BY <1>1, <1>2, <1>3, <1>4, <1>5 DEF S, more

(* found with one of its lists replaced.                                   *)
LEMMA FoundIs ==
    ASSUME Progress
    PROVE  /\ found.malformed \in Seq(MalformedRows) /\ found.midstream \in Seq(TargetRows)
           /\ found.billing \in Seq(Nat) /\ found.signup \in Seq(Nat)
           /\ \A x \in Seq(MalformedRows) :
                 LET f == [found EXCEPT !.malformed = x]
                 IN  /\ f \in FoundRows /\ f.malformed = x /\ f.midstream = found.midstream
                     /\ f.billing = found.billing /\ f.signup = found.signup
           /\ \A x \in Seq(TargetRows) :
                 LET f == [found EXCEPT !.midstream = x]
                 IN  /\ f \in FoundRows /\ f.midstream = x /\ f.malformed = found.malformed
                     /\ f.billing = found.billing /\ f.signup = found.signup
           /\ \A x \in Seq(Nat) :
                 /\ LET f == [found EXCEPT !.billing = x]
                    IN  /\ f \in FoundRows /\ f.billing = x /\ f.malformed = found.malformed
                        /\ f.midstream = found.midstream /\ f.signup = found.signup
                 /\ LET f == [found EXCEPT !.signup = x]
                    IN  /\ f \in FoundRows /\ f.signup = x /\ f.malformed = found.malformed
                        /\ f.midstream = found.midstream /\ f.billing = found.billing
<1>1. found \in FoundRows
  BY DEF Progress
<1> DEFINE A == Seq(MalformedRows)
           B == Seq(TargetRows)
           C == Seq(Nat)
<1>2. found \in [malformed : A, midstream : B, billing : C, signup : C]
  BY <1>1 DEF FoundRows
<1>3. FoundRows = [malformed : A, midstream : B, billing : C, signup : C]
  BY DEF FoundRows
<1> HIDE DEF A, B, C
<1>4. found.malformed \in A /\ found.midstream \in B /\ found.billing \in C /\ found.signup \in C
  BY <1>2
<1>5. \A x \in A : LET f == [found EXCEPT !.malformed = x]
                   IN  /\ f \in FoundRows /\ f.malformed = x /\ f.midstream = found.midstream
                       /\ f.billing = found.billing /\ f.signup = found.signup
  BY <1>2, <1>3
<1>6. \A x \in B : LET f == [found EXCEPT !.midstream = x]
                   IN  /\ f \in FoundRows /\ f.midstream = x /\ f.malformed = found.malformed
                       /\ f.billing = found.billing /\ f.signup = found.signup
  BY <1>2, <1>3
<1>7. \A x \in C : LET f == [found EXCEPT !.billing = x]
                   IN  /\ f \in FoundRows /\ f.billing = x /\ f.malformed = found.malformed
                       /\ f.midstream = found.midstream /\ f.signup = found.signup
  BY <1>2, <1>3
<1>8. \A x \in C : LET f == [found EXCEPT !.signup = x]
                   IN  /\ f \in FoundRows /\ f.signup = x /\ f.malformed = found.malformed
                       /\ f.midstream = found.midstream /\ f.billing = found.billing
  BY <1>2, <1>3
<1> QED  BY <1>4, <1>5, <1>6, <1>7, <1>8 DEF A, B, C

LEMMA BillingBatchKeeps ==
    ASSUME GeneratorInv, BillingBatch
    PROVE  GeneratorInv'
<1> DEFINE n == BatchRows("billing_ledger", batch)
           fact == "billing_ledger"
           new == << fact, "part", batch >>
           first == issued[fact]
<1>1. /\ stage = "billing" /\ batch < NumBatches(fact)
      /\ stage' = stage /\ batch' = batch + 1
      /\ UNCHANGED << config, lives, titles, delayed, manifests >>
  BY DEF BillingBatch, At, NextBatch
<1>2. PICK draws \in [1..n -> EventDraws(config.duplicates)] :
        LET rows == EventBatch(fact, draws)
        IN  /\ files' = WithFile(files, fact, "part", batch, rows \o Again(rows, draws))
            /\ found' = [found EXCEPT !.billing = @ \o Ids(Again(rows, draws))]
            /\ Issue(fact, Len(draws))
  BY DEF BillingBatch
<1> DEFINE rows == EventBatch(fact, draws)
           S == {k \in DOMAIN rows : draws[k].again}
           more == Picked(rows, S)
           all == rows \o Again(rows, draws)
<1>3. /\ Progress /\ Streams /\ Named /\ TargetsFine /\ IdsCounted
      /\ config \in RunConfigs /\ batch \in Nat /\ first \in Nat /\ fact \in Facts
      /\ found.billing \in Seq(Nat) /\ issued \in [Facts -> Nat]
  BY FoundIs DEF GeneratorInv, Progress, Facts
<1>4. n \in Nat
  BY <1>1, <1>3, BatchesAre
<1>5. /\ rows \in Seq(EventRows) /\ DOMAIN rows = 1..n /\ DOMAIN draws = 1..n
      /\ \A k \in DOMAIN rows : EventFine(config, lives, rows[k])
      /\ Numbered(Ids(rows), first, n)
  <2> HIDE DEF n
  <2> QED  BY <1>3, <1>4, EventBatchIs
<1>6. Len(draws) = n
  <2> HIDE DEF n
  <2> QED  BY <1>4, <1>5
<1> HIDE DEF n, rows
<1>7. /\ Again(rows, draws) = more /\ S \in SUBSET DOMAIN rows
      /\ all \in Seq(EventRows)
      /\ \A x : Has(all, x) => Has(rows, x)
  BY <1>5, AgainIs
<1>8. /\ files' = WithFile(files, fact, "part", batch, all)
      /\ found' = [found EXCEPT !.billing = @ \o Ids(more)]
      /\ issued' = [issued EXCEPT ![fact] = @ + n]
  BY <1>2, <1>6, <1>7 DEF Issue, rows
<1> HIDE DEF S, all
<1>9. Adds(files, fact, new, all, files')
  <2>1. new \notin DOMAIN files
    BY <1>1, <1>3, Fresh DEF Named
  <2> QED  BY <1>8, <2>1, FileAdded
<1>10. Ids(more) \in Seq(Nat)
  <2>1. Ids(rows) \in Seq(Nat)
    BY <1>5 DEF Numbered
  <2> QED  BY <1>5, <1>7, <2>1, IdsPicked
<1> DEFINE again == found.billing \o Ids(more)
<1>11. /\ found' \in FoundRows /\ found'.billing = again /\ found'.malformed = found.malformed
       /\ found'.midstream = found.midstream /\ found'.signup = found.signup
  <2>1. again \in Seq(Nat)
    <3> DEFINE e == Ids(more)
    <3> HIDE DEF e
    <3> QED  BY <1>3, <1>10 DEF e
  <2>2. found' = [found EXCEPT !.billing = again]
    BY <1>8
  <2> HIDE DEF again
  <2> QED  BY <1>3, <2>1, <2>2, FoundIs
<1>12. \A k \in DOMAIN all : EventFine(config, lives, all[k])
  BY <1>5, <1>7 DEF Has
<1>13. /\ Streams' /\ Listings' /\ Held' /\ FilesFit' /\ SessionsFine' /\ EventsFine'
       /\ SoftDeletesWritten' /\ Grows(files, files')
  <2>1. stage \in Played /\ stage # "done" /\ stage' \in Played /\ stage' # "done"
    BY <1>1 DEF Played
  <2> QED  BY <1>1, <1>4, <1>8, <1>9, <1>11, <1>12, <2>1, LateFile
<1>14. TargetsFine'
  BY <1>1, <1>3, <1>11, <1>13, TargetsKept
<1>15. /\ Counted(files', "playback_sessions", issued'["playback_sessions"], Ids(HeldBack), << >>)
       /\ Counted(files', "watchlist_adds", issued'["watchlist_adds"], << >>, << >>)
       /\ Counted(files', "signup_funnel", issued'["signup_funnel"], << >>, found.signup)
       /\ issued' \in [Facts -> Nat] /\ issued'[fact] = first + n
  BY <1>3, <1>4, <1>8, <1>9, OthersCounted
<1>16. Counted(files', fact, first + n, << >>, again)
  <2>1. Counted(files, fact, first, << >>, found.billing)
    BY <1>3 DEF IdsCounted
  <2>2. Adds(files, fact, new, rows \o Picked(rows, S), files')
    BY <1>7, <1>9 DEF all
  <2> HIDE DEF more, new, fact, first
  <2> QED  BY <1>4, <1>5, <1>7, <2>1, <2>2, CountedAgain DEF more
<1>17. IdsCounted'
  BY <1>1, <1>11, <1>15, <1>16 DEF IdsCounted, HeldBack
<1>18. Progress'
  BY <1>1, <1>3, <1>8, <1>11, <1>15 DEF Progress, Signed, Facts
<1>19. Named'
  <2>1. batch' \in Nat /\ batch <= batch' /\ batch < batch'
    BY <1>1, <1>3
  <2>2. new[2] = "part" /\ new[3] = batch
    OBVIOUS
  <2> HIDE DEF new
  <2>3. FilesUpTo("billing_ledger", "billing", Played)'
    BY <1>1, <1>3, <1>9, <2>1, <2>2, NamedMore DEF Named, Played
  <2>4. FilesUpTo("playback_sessions", "playback", Lived)'
    BY <1>1, <1>3, <1>9, <2>1, NamedOther DEF Named, Lived
  <2>5. FilesUpTo("watchlist_adds", "watchlist", Billed)'
    BY <1>1, <1>3, <1>9, <2>1, NamedOther DEF Named, Billed
  <2>6. FilesIn(files', "signup_funnel") = FilesIn(files, "signup_funnel")
    BY <1>9 DEF Adds
  <2> QED  BY <1>1, <1>3, <2>3, <2>4, <2>5, <2>6 DEF Named
<1> QED  BY <1>13, <1>14, <1>17, <1>18, <1>19 DEF GeneratorInv

LEMMA WatchlistBatchKeeps ==
    ASSUME GeneratorInv, WatchlistBatch
    PROVE  GeneratorInv'
<1> DEFINE n == BatchRows("watchlist_adds", batch)
           fact == "watchlist_adds"
           new == << fact, "part", batch >>
           first == issued[fact]
<1>1. /\ stage = "watchlist" /\ batch < NumBatches(fact)
      /\ stage' = stage /\ batch' = batch + 1
      /\ UNCHANGED << config, lives, titles, delayed, found, manifests >>
  BY DEF WatchlistBatch, At, NextBatch
<1>2. PICK draws \in [1..n -> EventDraws(FALSE)] :
        /\ files' = WithFile(files, fact, "part", batch, EventBatch(fact, draws))
        /\ Issue(fact, Len(draws))
  BY DEF WatchlistBatch
<1> DEFINE rows == EventBatch(fact, draws)
<1>3. /\ Progress /\ Streams /\ Named /\ TargetsFine /\ IdsCounted
      /\ config \in RunConfigs /\ batch \in Nat /\ first \in Nat /\ fact \in Facts
      /\ issued \in [Facts -> Nat]
  BY DEF GeneratorInv, Progress, Facts
<1>4. n \in Nat
  BY <1>1, <1>3, BatchesAre
<1>5. /\ rows \in Seq(EventRows) /\ DOMAIN rows = 1..n /\ DOMAIN draws = 1..n
      /\ \A k \in DOMAIN rows : EventFine(config, lives, rows[k])
      /\ Numbered(Ids(rows), first, n)
  <2> HIDE DEF n
  <2> QED  BY <1>3, <1>4, EventBatchIs
<1>6. Len(draws) = n
  <2> HIDE DEF n
  <2> QED  BY <1>4, <1>5
<1> HIDE DEF n, rows
<1>7. /\ files' = WithFile(files, fact, "part", batch, rows)
      /\ issued' = [issued EXCEPT ![fact] = @ + n]
  BY <1>2, <1>6 DEF Issue, rows
<1>8. Adds(files, fact, new, rows, files')
  <2>1. new \notin DOMAIN files
    BY <1>1, <1>3, Fresh DEF Named
  <2> QED  BY <1>7, <2>1, FileAdded
<1>9. /\ Streams' /\ Listings' /\ Held' /\ FilesFit' /\ SessionsFine' /\ EventsFine'
      /\ SoftDeletesWritten' /\ Grows(files, files')
  <2>1. stage \in Played /\ stage # "done" /\ stage' \in Played /\ stage' # "done"
    BY <1>1 DEF Played
  <2> QED  BY <1>1, <1>4, <1>5, <1>7, <1>8, <2>1, LateFile
<1>10. TargetsFine'
  BY <1>1, <1>3, <1>9, TargetsKept
<1>11. /\ Counted(files', "playback_sessions", issued'["playback_sessions"], Ids(HeldBack), << >>)
       /\ Counted(files', "billing_ledger", issued'["billing_ledger"], << >>, found.billing)
       /\ Counted(files', "signup_funnel", issued'["signup_funnel"], << >>, found.signup)
       /\ issued' \in [Facts -> Nat] /\ issued'[fact] = first + n
  BY <1>3, <1>4, <1>7, <1>8, OthersCounted
<1>12. Counted(files', fact, first + n, << >>, << >>)
  <2>1. Counted(files, fact, first, << >>, << >>)
    BY <1>3 DEF IdsCounted
  <2> HIDE DEF new, fact, first
  <2> QED  BY <1>4, <1>5, <1>8, <2>1, CountedOnce
<1>13. IdsCounted'
  BY <1>1, <1>11, <1>12 DEF IdsCounted, HeldBack
<1>14. Progress'
  BY <1>1, <1>3, <1>7, <1>11 DEF Progress, Signed, Facts
<1>15. Named'
  <2>1. batch' \in Nat /\ batch <= batch' /\ batch < batch'
    BY <1>1, <1>3
  <2>2. new[2] = "part" /\ new[3] = batch
    OBVIOUS
  <2> HIDE DEF new
  <2>3. FilesUpTo("watchlist_adds", "watchlist", Billed)'
    BY <1>1, <1>3, <1>8, <2>1, <2>2, NamedMore DEF Named, Billed
  <2>4. FilesUpTo("playback_sessions", "playback", Lived)'
    BY <1>1, <1>3, <1>8, <2>1, NamedOther DEF Named, Lived
  <2>5. FilesUpTo("billing_ledger", "billing", Played)'
    BY <1>1, <1>3, <1>8, <2>1, NamedOther DEF Named, Played
  <2>6. FilesIn(files', "signup_funnel") = FilesIn(files, "signup_funnel")
    BY <1>8 DEF Adds
  <2> QED  BY <1>1, <1>3, <2>3, <2>4, <2>5, <2>6 DEF Named
<1> QED  BY <1>9, <1>10, <1>13, <1>14, <1>15 DEF GeneratorInv

LEMMA SignupFunnelKeeps ==
    ASSUME GeneratorInv, SignupFunnel
    PROVE  GeneratorInv'
<1> DEFINE n == RowCount("signup_funnel")
           fact == "signup_funnel"
           new == << fact, "part", 0 >>
           Draws == [sub : DOMAIN lives, reached : 0..5, slow : BOOLEAN,
                     again : IF config.duplicates THEN BOOLEAN ELSE {FALSE}]
<1>1. /\ stage = "watchlist" /\ stage' = "manifests" /\ batch' = 0
      /\ UNCHANGED << config, lives, titles, delayed, manifests >>
  BY DEF SignupFunnel, AllBatches, GoTo
<1>2. PICK draws \in [1..n -> Draws] :
        LET rows == [k \in DOMAIN draws |-> Attempt(k - 1, draws[k])]
        IN  /\ files' = WithFile(files, fact, "part", 0, rows \o Again(rows, draws))
            /\ found' = [found EXCEPT !.signup = Ids(Again(rows, draws))]
            /\ Issue(fact, Len(draws))
  BY DEF SignupFunnel
<1> HIDE DEF Draws
<1> DEFINE rows == [k \in DOMAIN draws |-> Attempt(k - 1, draws[k])]
           S == {k \in DOMAIN rows : draws[k].again}
           more == Picked(rows, S)
           all == rows \o Again(rows, draws)
           T == {Attempt(k - 1, draws[k]) : k \in 1..n}
<1>3. /\ Progress /\ Streams /\ Named /\ TargetsFine /\ IdsCounted
      /\ config \in RunConfigs /\ batch \in Nat /\ fact \in Facts
      /\ issued \in [Facts -> Nat] /\ issued[fact] = 0 /\ found.signup = << >>
  <2>1. Progress /\ Streams /\ Named /\ TargetsFine /\ IdsCounted
    BY DEF GeneratorInv
  <2> QED  BY <1>1, <2>1 DEF Progress, Facts, Signed
<1>4. n \in Nat
  BY <1>3, ConfigIs DEF RowCount
<1>5. /\ rows \in Seq(T) /\ DOMAIN rows = 1..n /\ Len(draws) = n /\ Numbered(Ids(rows), 0, n)
  <2> HIDE DEF n
  <2>1. DOMAIN draws = 1..n /\ Len(draws) = n
    BY <1>4
  <2>2. \A k \in 1..n : rows[k] = Attempt(k - 1, draws[k])
    BY <2>1
  <2>3. \A k \in 1..n : rows[k].id = 0 + k - 1
    BY <2>2 DEF Attempt
  <2>4. DOMAIN rows = 1..n /\ rows = [k \in 1..n |-> rows[k]]
    BY <2>1
  <2>5. \A k \in 1..n : rows[k] \in T
    BY <2>2
  <2> HIDE DEF rows, T
  <2>6. rows \in Seq(T)
    BY <1>4, <2>4, <2>5
  <2>7. Ids(rows) = [k \in 1..n |-> rows[k].id]
    BY <2>4 DEF Ids
  <2>8. Numbered(Ids(rows), 0, n)
    <3>1. \A k \in 1..n : rows[k].id \in Nat
      BY <1>4, <2>3
    <3>2. Ids(rows) \in Seq(Nat)
      BY <1>4, <2>7, <3>1
    <3> QED  BY <2>3, <2>7, <3>2 DEF Numbered
  <2> QED  BY <2>1, <2>4, <2>6, <2>8
<1> HIDE DEF n, rows, T
<1>7. /\ Again(rows, draws) = more /\ S \in SUBSET DOMAIN rows /\ all \in Seq(T)
  BY <1>5, AgainIs
<1>8. /\ files' = WithFile(files, fact, "part", 0, all)
      /\ found' = [found EXCEPT !.signup = Ids(more)]
      /\ issued' = [issued EXCEPT ![fact] = @ + n]
  BY <1>2, <1>5, <1>7 DEF Issue, rows
<1> HIDE DEF S, all
<1>9. Adds(files, fact, new, all, files')
  <2>1. new \notin DOMAIN files
    <3> SUFFICES ASSUME new \in DOMAIN files PROVE FALSE
      OBVIOUS
    <3>1. new \in FilesIn(files, fact)
      BY DEF FilesIn
    <3> QED  BY <1>1, <1>3, <3>1 DEF Named, Signed
  <2> QED  BY <1>8, <2>1, FileAdded
<1>10. Ids(more) \in Seq(Nat)
  <2>1. Ids(rows) \in Seq(Nat)
    BY <1>5 DEF Numbered
  <2> QED  BY <1>5, <1>7, <2>1, IdsPicked
<1> DEFINE again == Ids(more)
<1>11. /\ found' \in FoundRows /\ found'.signup = again /\ found'.malformed = found.malformed
       /\ found'.midstream = found.midstream /\ found'.billing = found.billing
  BY <1>3, <1>8, <1>10, FoundIs
<1>13. /\ Streams' /\ Listings' /\ Held' /\ FilesFit' /\ SessionsFine' /\ EventsFine'
       /\ SoftDeletesWritten' /\ Grows(files, files')
  <2>1. stage \in Played /\ stage # "done" /\ stage' \in Played /\ stage' # "done"
    BY <1>1 DEF Played
  <2> QED  BY <1>1, <1>4, <1>8, <1>9, <1>11, <2>1, LateFile
<1>14. TargetsFine'
  BY <1>1, <1>3, <1>11, <1>13, TargetsKept
<1>15. /\ Counted(files', "playback_sessions", issued'["playback_sessions"], Ids(HeldBack), << >>)
       /\ Counted(files', "billing_ledger", issued'["billing_ledger"], << >>, found.billing)
       /\ Counted(files', "watchlist_adds", issued'["watchlist_adds"], << >>, << >>)
       /\ issued' \in [Facts -> Nat] /\ issued'[fact] = 0 + n
  BY <1>3, <1>4, <1>8, <1>9, OthersCounted
<1>16. Counted(files', fact, 0 + n, << >>, << >> \o again)
  <2>1. Counted(files, fact, 0, << >>, << >>)
    BY <1>3 DEF IdsCounted
  <2>2. Adds(files, fact, new, rows \o Picked(rows, S), files')
    BY <1>7, <1>9 DEF all
  <2> DEFINE zero == 0
  <2>3. Numbered(Ids(rows), zero, n) /\ Counted(files, fact, zero, << >>, << >>)
    BY <1>5, <2>1
  <2> HIDE DEF more, new, fact, zero
  <2>4. Counted(files', fact, zero + n, << >>, << >> \o Ids(Picked(rows, S)))
    BY <1>4, <1>5, <1>7, <2>3, <2>2, CountedAgain
  <2> QED  BY <2>4 DEF more, zero
<1>17. << >> \o again = again
  <2> HIDE DEF again
  <2>1. again \in Seq(Nat)
    BY <1>10 DEF again
  <2> QED  BY <2>1
<1>18. IdsCounted'
  BY <1>1, <1>11, <1>15, <1>16, <1>17 DEF IdsCounted, HeldBack
<1>19. Progress'
  BY <1>1, <1>3, <1>11, <1>15 DEF Progress, Stages, Signed, Facts
<1>20. Named'
  <2>1. batch' \in Nat
    BY <1>1
  <2>4. FilesUpTo("playback_sessions", "playback", Lived)'
    BY <1>1, <1>3, <1>9, <2>1, NamedOther DEF Named, Lived
  <2>5. FilesUpTo("billing_ledger", "billing", Played)'
    BY <1>1, <1>3, <1>9, <2>1, NamedOther DEF Named, Played
  <2>6. FilesUpTo("watchlist_adds", "watchlist", Billed)'
    BY <1>1, <1>3, <1>9, <2>1, NamedOther DEF Named, Billed
  <2> QED  BY <1>1, <2>4, <2>5, <2>6 DEF Named, Signed
<1> QED  BY <1>13, <1>14, <1>18, <1>19, <1>20 DEF GeneratorInv

(***************************************************************************)
(* The facts that are put into a gap.                                      *)
(***************************************************************************)
(* The first gap of a life that goes on after it.                          *)
OpenGap(ls, gap) == \E i \in DOMAIN ls : gap = Candidate(i, ls[i]) /\ Len(ls[i].changes) >= 3
OpenGaps(ls, pool) == \A k \in DOMAIN pool : OpenGap(ls, pool[k])

LEMMA CandidatesOpen ==
    ASSUME Streams
    PROVE  OpenGaps(lives, Candidates(lives)) /\ \E T : Candidates(lives) \in Seq(T)
<1>1. PICK n \in Nat : DOMAIN lives = 1..n
  BY DEF Streams
<1>2. ASSUME NEW k \in DOMAIN Candidates(lives) PROVE OpenGap(lives, Candidates(lives)[k])
  BY <1>1, CandidatesAre DEF OpenGap
<1>3. Candidates(lives) \in Seq({Candidate(i, lives[i]) : i \in 1..n})
  BY <1>1, CandidatesSeq
<1> QED  BY <1>2, <1>3 DEF OpenGaps

LEMMA RestOpen ==
    ASSUME NEW ls, NEW T, NEW all \in Seq(T), OpenGaps(ls, all), NEW wanted \in Nat, Len(all) > wanted
    PROVE  SubSeq(all, wanted + 1, Len(all)) \in Seq(T) /\ OpenGaps(ls, SubSeq(all, wanted + 1, Len(all)))
<1> DEFINE n == Len(all)
           rest == SubSeq(all, wanted + 1, n)
<1>1. n \in Nat /\ DOMAIN all = 1..n /\ n > wanted
  OBVIOUS
<1>2. /\ rest \in Seq(T) /\ Len(rest) = n - wanted
      /\ \A k \in 1..n - wanted : rest[k] = all[wanted + k]
  <2> DEFINE m == wanted + 1
  <2>1. m \in Int /\ n \in Int /\ \A i \in m..n : i \in 1..n
    BY <1>1
  <2>2. \A i \in m..n : all[i] \in T
    BY <1>1, <2>1
  <2> HIDE DEF n, m
  <2>3. /\ SubSeq(all, m, n) \in Seq(T)
        /\ Len(SubSeq(all, m, n)) = IF m <= n THEN n - m + 1 ELSE 0
        /\ \A i \in 1..n - m + 1 : SubSeq(all, m, n)[i] = all[m + i - 1]
    BY <2>1, <2>2, SubSeqProperties
  <2>4. rest = SubSeq(all, m, n)
    BY DEF m
  <2>5. m <= n /\ n - m + 1 = n - wanted /\ \A i \in 1..n - wanted : m + i - 1 = wanted + i
    BY <1>1 DEF m
  <2> HIDE DEF rest
  <2> QED  BY <2>3, <2>4, <2>5
<1> HIDE DEF n, rest
<1>3. ASSUME NEW k \in DOMAIN rest PROVE OpenGap(ls, rest[k])
  <2>1. k \in 1..n - wanted
    BY <1>2
  <2>2. wanted + k \in DOMAIN all
    BY <1>1, <2>1
  <2>3. OpenGap(ls, all[wanted + k])
    BY <2>2 DEF OpenGaps
  <2> QED  BY <1>2, <2>1, <2>3
<1> QED  BY <1>2, <1>3 DEF OpenGaps, n, rest

(* n choices, each a gap of the pool with a place in it.                   *)
Chosen(c, ls, n, chosen) ==
    /\ DOMAIN chosen = 1..n /\ Len(chosen) = n
    /\ \A k \in 1..n : OpenGap(ls, chosen[k].gap) /\ chosen[k].u \in c.gap_draws

LEMMA ChoicesAre ==
    ASSUME NEW T, NEW pool \in Seq(T), OpenGaps(lives, pool), NEW wanted \in Nat,
           NEW chosen \in TargetChoices(pool, wanted)
    PROVE  \E n \in Nat : Chosen(config, lives, n, chosen)
<1> DEFINE n == Min({wanted, Len(pool)})
<1>1. n \in Nat
  <2> DEFINE l == Len(pool)
  <2>1. l \in Nat
    OBVIOUS
  <2> HIDE DEF l
  <2>2. Min({wanted, l}) \in Nat
    BY <2>1, MinOfTwo
  <2> QED  BY <2>2 DEF l
<1>2. TargetChoices(pool, wanted) =
         {[k \in 1..n |-> [gap |-> pool[which[k]], u |-> u[k]]] :
             which \in Injection(1..n, DOMAIN pool), u \in [1..n -> config.gap_draws]}
  BY DEF TargetChoices
<1> HIDE DEF n
<1>3. \E which \in Injection(1..n, DOMAIN pool) : \E u \in [1..n -> config.gap_draws] :
        chosen = [k \in 1..n |-> [gap |-> pool[which[k]], u |-> u[k]]]
  BY <1>2
<1>4. PICK which \in Injection(1..n, DOMAIN pool) : \E u \in [1..n -> config.gap_draws] :
        chosen = [k \in 1..n |-> [gap |-> pool[which[k]], u |-> u[k]]]
  BY <1>3
<1>5. PICK u \in [1..n -> config.gap_draws] :
        chosen = [k \in 1..n |-> [gap |-> pool[which[k]], u |-> u[k]]]
  BY <1>4
<1>6. \A k \in 1..n : which[k] \in DOMAIN pool
  BY DEF Injection
<1>7. DOMAIN chosen = 1..n /\ Len(chosen) = n
  BY <1>1, <1>5
<1>8. \A k \in 1..n : chosen[k].gap = pool[which[k]] /\ chosen[k].u = u[k]
  BY <1>5
<1>9. \A k \in 1..n : OpenGap(lives, chosen[k].gap) /\ chosen[k].u \in config.gap_draws
  BY <1>6, <1>8 DEF OpenGaps
<1> QED  BY <1>1, <1>7, <1>9 DEF Chosen

LEMMA TargetIs ==
    ASSUME config \in RunConfigs, Streams, NEW fact \in Facts, issued[fact] \in Nat,
           NEW k \in Nat, k >= 1,
           NEW choice, OpenGap(lives, choice.gap), choice.u \in config.gap_draws
    PROVE  LET t == Target(fact, k, choice)
           IN  /\ TargetFine(config, lives, t) /\ t.id = issued[fact] + k - 1
               /\ config.launch <= t.at /\ t.fact = fact
<1> DEFINE gap == choice.gap
           u == choice.u
           at == EventInGap(gap, u)
           id == issued[fact] + k - 1
           t == Target(fact, k, choice)
<1>1. PICK i \in DOMAIN lives : gap = Candidate(i, lives[i]) /\ Len(lives[i].changes) >= 3
  BY DEF OpenGap
<1> DEFINE life == lives[i]
           from == life.changes[1]
           to == life.changes[2]
           newer == Last(life.changes)
           sec == EpochSecond(from)
           v == sec + Part(Max({EpochSecond(to) - sec, 2}), u)
<1>2. i \in Nat /\ LifeIs(config, life) /\ Len(life.changes) >= 3
  BY <1>1, StreamsSay
<1>3. u \in 10..89
  BY ConfigIs
<1>4. gap = [sub |-> i, from |-> from, to |-> to, newer |-> newer]
  BY <1>1 DEF Candidate
<1>5. id \in Nat
  OBVIOUS
<1>6. at = v
  BY <1>4 DEF EventInGap, Part
<1>7. from \in Int /\ to \in Int /\ newer \in Int
  <2> DEFINE ch == life.changes
             n == Len(ch)
  <2>1. ch \in Seq(Int) /\ n >= 3
    BY <1>2 DEF LifeIs
  <2>2. n \in Nat /\ DOMAIN ch = 1..n /\ 1 \in 1..n /\ 2 \in 1..n /\ n \in 1..n
    BY <2>1
  <2> HIDE DEF ch
  <2>3. ch[1] \in Int /\ ch[2] \in Int /\ ch[n] \in Int
    BY <2>1, <2>2
  <2>4. Last(ch) = ch[n]
    BY DEF Last
  <2> QED  BY <2>3, <2>4 DEF ch
<1>8. DrawsInRange(config) /\ Clocks(config)
  BY ConfigIs
<1> HIDE DEF life, u
<1>9. /\ v \in Int /\ Lower(life) <= v /\ v <= config.now
      /\ life.role = "hard" => Ticks(v) <= HardDeleteAt(life)
      /\ to < newer
      /\ IF to - from >= Ticks(10)
         THEN from < Ticks(v) /\ Ticks(v) < to
         ELSE life.role = "same_day" /\ sec <= v /\ v <= sec + 8
  <2> DEFINE a == from
             b == to
             c == newer
  <2>1. a = life.changes[1] /\ b = life.changes[2] /\ c = Last(life.changes)
    OBVIOUS
  <2> HIDE DEF a, b, c
  <2> DEFINE s == EpochSecond(a)
             w == s + Part(Max({EpochSecond(b) - s, 2}), u)
  <2>2. /\ w \in Int /\ Lower(life) <= w /\ w <= config.now
        /\ life.role = "hard" => Ticks(w) <= HardDeleteAt(life)
        /\ b < c
        /\ IF b - a >= Ticks(10)
           THEN a < Ticks(w) /\ Ticks(w) < b
           ELSE life.role = "same_day" /\ s <= w /\ w <= s + 8
    BY <1>2, <1>3, <1>8, <2>1, InTheGap
  <2> QED  BY <2>2 DEF a, b, c
<1> HIDE DEF at, v, from, to, newer, id
<1>10. t = [fact |-> fact, id |-> id, sub |-> i, at |-> at, gap |-> gap]
  BY <1>4 DEF Target, TargetId, id, at, u
<1> HIDE DEF t, gap
<1>11. gap \in Gaps /\ gap.from = from /\ gap.to = to /\ gap.newer = newer
  BY <1>2, <1>4, <1>7 DEF Gaps
<1>12. /\ t \in TargetRows /\ t.id = id /\ t.sub = i /\ t.at = v /\ t.gap = gap /\ t.fact = fact
  BY <1>2, <1>5, <1>6, <1>9, <1>10, <1>11 DEF TargetRows
<1>13. InsideLife(config, lives[t.sub], t.at)
  BY <1>9, <1>12 DEF InsideLife, life
<1>14. InGap(lives, t)
  <2>1. sec \in Int
    BY <1>7, SecondOf
  <2>2. t.gap.to < t.gap.newer /\ EpochSecond(t.gap.from) = sec
    BY <1>9, <1>11, <1>12
  <2>3. ASSUME t.gap.to - t.gap.from >= Ticks(10)
        PROVE  t.gap.from < Ticks(t.at) /\ Ticks(t.at) < t.gap.to
    BY <1>9, <1>11, <1>12, <2>3
  <2>4. ASSUME ~ (t.gap.to - t.gap.from >= Ticks(10))
        PROVE  lives[t.sub].role = "same_day" /\ t.at - EpochSecond(t.gap.from) \in 0..8
    <3>1. life.role = "same_day" /\ sec <= v /\ v <= sec + 8 /\ v \in Int
      BY <1>9, <1>11, <1>12, <2>4
    <3> HIDE DEF sec
    <3>2. v - sec \in 0..8
      BY <2>1, <3>1
    <3> QED  BY <1>12, <2>2, <3>1, <3>2 DEF life
  <2> QED  BY <2>2, <2>3, <2>4 DEF InGap
<1>15. config.launch <= v
  <2> DEFINE l == config.launch
             low == Lower(life)
  <2>1. l \in Int /\ low \in Int /\ l <= low /\ low <= v /\ v \in Int
    BY <1>2, <1>8, <1>9, ConfigIs, LifeSeconds
  <2> HIDE DEF l, low
  <2>2. l <= v
    BY <2>1
  <2> QED  BY <2>2 DEF l
<1> QED  BY <1>12, <1>13, <1>14, <1>15 DEF TargetFine, t, id

LEMMA TargetsAre ==
    ASSUME config \in RunConfigs, Streams, NEW fact \in Facts, issued[fact] \in Nat,
           NEW n \in Nat, NEW chosen, Chosen(config, lives, n, chosen)
    PROVE  LET targets == [k \in DOMAIN chosen |-> Target(fact, k, chosen[k])]
           IN  /\ targets \in Seq(TargetRows) /\ DOMAIN targets = 1..n /\ Len(targets) = n
               /\ \A k \in 1..n : /\ TargetFine(config, lives, targets[k])
                                  /\ targets[k].id = issued[fact] + k - 1
                                  /\ config.launch <= targets[k].at
<1> DEFINE targets == [k \in DOMAIN chosen |-> Target(fact, k, chosen[k])]
<1>1. DOMAIN targets = 1..n /\ targets = [k \in 1..n |-> targets[k]]
  BY DEF Chosen
<1>2. ASSUME NEW k \in 1..n
      PROVE  /\ TargetFine(config, lives, targets[k])
             /\ targets[k].id = issued[fact] + k - 1
             /\ config.launch <= targets[k].at
  <2> DEFINE choice == chosen[k]
             t == Target(fact, k, choice)
  <2>1. OpenGap(lives, choice.gap) /\ choice.u \in config.gap_draws
    BY DEF Chosen
  <2>2. k \in Nat /\ k >= 1
    OBVIOUS
  <2>3. targets[k] = t
    BY <1>1
  <2> HIDE DEF choice
  <2>4. TargetFine(config, lives, t) /\ t.id = issued[fact] + k - 1 /\ config.launch <= t.at
    BY <2>1, <2>2, TargetIs
  <2> HIDE DEF t, targets
  <2> QED  BY <2>3, <2>4
<1> HIDE DEF targets
<1>3. \A k \in 1..n : targets[k] \in TargetRows
  BY <1>2 DEF TargetFine
<1>4. targets \in Seq(TargetRows) /\ Len(targets) = n
  BY <1>1, <1>3
<1> QED  BY <1>1, <1>2, <1>4 DEF targets

LEMMA FreshMidstream ==
    ASSUME NEW fact, NEW since, FilesUpTo(fact, stage, since), NEW part
    PROVE  << fact, "part-pathology-midstream", part >> \notin DOMAIN files
<1> SUFFICES ASSUME << fact, "part-pathology-midstream", part >> \in DOMAIN files PROVE FALSE
  OBVIOUS
<1> DEFINE new == << fact, "part-pathology-midstream", part >>
<1>1. new[1] = fact /\ new[2] = "part-pathology-midstream"
  OBVIOUS
<1>2. new \in FilesIn(files, fact)
  BY <1>1 DEF FilesIn
<1> HIDE DEF new
<1>3. new[2] = "part"
  BY <1>2 DEF FilesUpTo
<1> QED  BY <1>1, <1>3

LEMMA TargetsMore ==
    ASSUME TargetsFine, UNCHANGED << config, lives >>, Grows(files, files'),
           NEW targets \in Seq(TargetRows), found.midstream \in Seq(TargetRows),
           \A k \in DOMAIN targets : TargetFine(config, lives, targets[k]) /\ TargetIn(files', targets[k]),
           \/ found'.midstream = targets
           \/ found'.midstream = found.midstream \o targets
    PROVE  TargetsFine'
<1> DEFINE old == found.midstream
           now == found'.midstream
<1>1. \A k \in DOMAIN old : TargetFine(config, lives, old[k]) /\ TargetIn(files', old[k])
  BY TargetStays DEF TargetsFine
<1>2. \A x : Has(now, x) => Has(old, x) \/ Has(targets, x)
  <2>1. CASE now = targets
    BY <2>1
  <2>2. CASE now = old \o targets
    <3>1. \A x : Has(old \o targets, x) => Has(old, x) \/ Has(targets, x)
      BY SeqPutTogether
    <3> QED  BY <2>2, <3>1
  <2> QED  BY <2>1, <2>2
<1> HIDE DEF old, now
<1>3. ASSUME NEW k \in DOMAIN now PROVE TargetFine(config, lives, now[k]) /\ TargetIn(files', now[k])
  <2>1. Has(now, now[k])
    BY DEF Has
  <2>2. CASE Has(old, now[k])
    BY <1>1, <2>2 DEF Has
  <2>3. CASE Has(targets, now[k])
    BY <2>3 DEF Has
  <2> QED  BY <1>2, <2>1, <2>2, <2>3
<1> QED  BY <1>3 DEF TargetsFine, now

LEMMA SessionsMore ==
    ASSUME NEW new, NEW rows, Adds(files, "playback_sessions", new, rows, files'),
           FilesFit, SessionsFine, UNCHANGED << config, lives >>,
           NEW n \in Nat, issued["playback_sessions"] \in Nat,
           issued'["playback_sessions"] = issued["playback_sessions"] + n,
           \A id : id < issued["playback_sessions"] => Kinds(found'.malformed, id) = Kinds(found.malformed, id),
           \A k \in DOMAIN rows :
              /\ Landed(config, CutoffBatch, LastPlayback, new[2], new[3], rows[k])
              /\ SessionFine(config, lives, issued'["playback_sessions"], found'.malformed, rows[k]),
           \A k \in DOMAIN delayed' :
              SessionFine(config, lives, issued'["playback_sessions"], found'.malformed, delayed'[k].row),
           \A k \in DOMAIN found'.malformed : found'.malformed[k].id < issued'["playback_sessions"]
    PROVE  FilesFit' /\ SessionsFine'
<1> DEFINE fact == "playback_sessions"
           m == issued'[fact]
           mal == found'.malformed
<1>1. /\ FilesIn(files', fact) = FilesIn(files, fact) \cup {new}
      /\ files'[new] = rows
      /\ \A name \in FilesIn(files, fact) : files'[name] = files[name]
  BY DEF Adds
<1>2. CutoffBatch' = CutoffBatch /\ LastPlayback' = LastPlayback
  BY SamePlan
<1>3. FilesFit'
  <2>1. ASSUME NEW name \in FilesIn(files', fact), NEW k \in DOMAIN files'[name]
        PROVE  Landed(config, CutoffBatch, LastPlayback, name[2], name[3], files'[name][k])
    <3>1. CASE name = new
      BY <1>1, <3>1
    <3>2. CASE name # new
      <4>1. name \in FilesIn(files, fact) /\ files'[name] = files[name]
        BY <1>1, <3>2
      <4> QED  BY <4>1 DEF FilesFit
    <3> QED  BY <3>1, <3>2
  <2> QED  BY <1>2, <2>1 DEF FilesFit
<1>4. RowsIn(files', fact) = RowsIn(files, fact) \cup {rows[k] : k \in DOMAIN rows}
  BY RowsAdded
<1>5. ASSUME NEW s \in RowsIn(files', fact) PROVE SessionFine(config, lives, m, mal, s)
  <2>1. CASE s \in RowsIn(files, fact)
    <3>1. SessionFine(config, lives, issued[fact], found.malformed, s)
      BY <2>1 DEF SessionsFine
    <3> DEFINE i == issued[fact]
    <3>2. i \in Int /\ m \in Int /\ i <= m
      OBVIOUS
    <3>3. \A id : id < i => Kinds(mal, id) = Kinds(found.malformed, id)
      OBVIOUS
    <3> HIDE DEF i, m, mal
    <3> QED  BY <3>1, <3>2, <3>3, SessionKept DEF i
  <2>2. CASE s \notin RowsIn(files, fact)
    BY <1>4, <2>2
  <2> QED  BY <2>1, <2>2
<1> QED  BY <1>3, <1>5 DEF SessionsFine

LEMMA NothingHeld == HeldRows(<< >>) = << >> /\ Ids(<< >>) = << >>
BY DEF HeldRows, Ids

(* A step that adds no file and issues nothing, with nothing held back.    *)
LEMMA NoFile ==
    ASSUME GeneratorInv, UNCHANGED << config, lives, titles, files, issued, manifests >>,
           delayed = << >>, delayed' = << >>,
           stage \in Lived \ {"done"}, stage' \in Lived \ {"done"},
           found'.malformed = found.malformed, found'.billing = found.billing, found'.signup = found.signup
    PROVE  /\ Streams' /\ Listings' /\ Held' /\ FilesFit' /\ SessionsFine' /\ EventsFine'
           /\ SoftDeletesWritten' /\ IdsCounted' /\ Grows(files, files')
<1>1. /\ Streams /\ Listings /\ FilesFit /\ SessionsFine /\ EventsFine /\ SoftDeletesWritten /\ IdsCounted
  BY DEF GeneratorInv
<1>2. Grows(files, files')
  BY DEF Grows
<1>3. Streams' /\ Listings' /\ SoftDeletesWritten'
  BY <1>1, <1>2, StreamsKept, ListingsKept, SoftDeletesKept
<1>4. Held'
  BY DEF Held
<1>5. FilesFit'
  <2>1. CutoffBatch' = CutoffBatch /\ LastPlayback' = LastPlayback
    BY SamePlan
  <2> QED  BY <1>1, <2>1 DEF FilesFit
<1>6. SessionsFine' /\ EventsFine'
  BY <1>1 DEF SessionsFine, EventsFine
<1>7. IdsCounted'
  BY <1>1 DEF IdsCounted, HeldBack
<1> QED  BY <1>2, <1>3, <1>4, <1>5, <1>6, <1>7

(* After the last batch nothing is held back any more.                     *)
LEMMA NothingLeft ==
    ASSUME GeneratorInv, batch = NumBatches("playback_sessions")
    PROVE  delayed = << >>
<1>1. Progress /\ Held /\ config \in RunConfigs
  BY DEF GeneratorInv, Progress
<1>2. LastPlayback = batch - 1 /\ batch \in Int
  BY <1>1, CutoffIs
<1>3. delayed \in Seq(PoolRows)
  BY <1>1 DEF Progress
<1>4. ASSUME NEW k \in DOMAIN delayed PROVE FALSE
  <2> DEFINE t == delayed[k].target
  <2>1. t \in Int
    <3>1. delayed[k] \in PoolRows
      BY <1>3
    <3> QED  BY <3>1 DEF PoolRows
  <2>2. batch <= t /\ t <= LastPlayback
    BY <1>1 DEF Held, Waits
  <2> HIDE DEF t
  <2> QED  BY <1>2, <2>1, <2>2
<1> DEFINE n == Len(delayed)
<1>5. n \in Nat /\ DOMAIN delayed = 1..n
  BY <1>3
<1>6. n = 0
  <2> SUFFICES ASSUME n # 0 PROVE FALSE
    OBVIOUS
  <2> HIDE DEF n
  <2>1. 1 \in 1..n
    BY <1>5
  <2> QED  BY <1>4, <1>5, <2>1
<1> QED  BY <1>3, <1>6

(* A session put into a gap: of the regular schema, and not malformed.     *)
LEMMA MidstreamSession ==
    ASSUME config \in RunConfigs, NEW t, TargetFine(config, lives, t), config.launch <= t.at,
           NEW m, t.id < m, NEW mal, Kinds(mal, t.id) = {}, NEW prefix, prefix # "part"
    PROVE  LET s == SessionAt(t)
           IN  /\ s.id = t.id /\ s.started = t.at
               /\ SessionFine(config, lives, m, mal, s)
               /\ Landed(config, CutoffBatch, LastPlayback, prefix, NumBatches("playback_sessions") + 1, s)
<1> DEFINE s == SessionAt(t)
           num == NumBatches("playback_sessions")
           now == config.now
           at == t.at
<1>1. /\ t \in TargetRows /\ t.sub \in DOMAIN lives /\ InsideLife(config, lives[t.sub], at)
  BY DEF TargetFine
<1>2. t.id \in Nat /\ t.sub \in Nat /\ at \in Int
  BY <1>1 DEF TargetRows
<1>3. num \in Nat /\ CutoffBatch \in Int /\ CutoffBatch <= num
  BY CutoffIs
<1>4. now \in Int
  BY ConfigIs
<1>5. at <= now
  BY <1>1 DEF InsideLife
<1>6. s = [id |-> t.id, sub |-> t.sub, started |-> at, ended |-> at + 30,
           duration |-> 30, quality |-> "drawn", batch |-> num]
  BY DEF SessionAt
<1> HIDE DEF s, num, now, at
<1>7. /\ s \in SessionRows /\ s.id = t.id /\ s.sub = t.sub /\ s.started = at /\ s.ended = at + 30
      /\ s.duration = 30 /\ s.quality = "drawn" /\ s.batch = num
  BY <1>2, <1>3, <1>6 DEF SessionRows, Qualities
<1>8. Rejected(s, now) = {}
  <2>1. s.duration \in Int /\ s.ended \in Int /\ s.started \in Int
    BY <1>2, <1>7
  <2>2. s.duration >= 0 /\ s.ended >= s.started /\ s.started <= now
    BY <1>2, <1>5, <1>7
  <2> QED  BY <1>4, <2>1, <2>2, RejectedIs
<1>9. SessionFine(config, lives, m, mal, s)
  BY <1>1, <1>7, <1>8 DEF SessionFine, at, now
<1>10. Landed(config, CutoffBatch, LastPlayback, prefix, num + 1, s)
  <2>1. ~ (num + 1 < CutoffBatch) /\ ~ (num < CutoffBatch)
    BY <1>3
  <2> QED  BY <1>7, <2>1 DEF Landed
<1> QED  BY <1>7, <1>9, <1>10 DEF s, num, at

LEMMA NumberedTargets ==
    ASSUME NEW n \in Nat, NEW first \in Nat, NEW rows, DOMAIN rows = 1..n,
           \A k \in 1..n : rows[k].id = first + k - 1
    PROVE  Numbered(Ids(rows), first, n)
<1>1. Ids(rows) = [k \in 1..n |-> rows[k].id]
  BY DEF Ids
<1>2. \A k \in 1..n : rows[k].id \in Nat
  OBVIOUS
<1>3. Ids(rows) \in Seq(Nat)
  BY <1>1, <1>2
<1> QED  BY <1>1, <1>3 DEF Numbered

LEMMA EndPlaybackChooses ==
    ASSUME GeneratorInv, EndPlayback
    PROVE  LET num == NumBatches("playback_sessions")
           IN  /\ stage = "playback" /\ batch = num /\ stage' = "billing" /\ batch' = 0
               /\ delayed = << >> /\ delayed' = << >>
               /\ UNCHANGED << config, lives, titles, manifests >>
               /\ \E chosen : \E n \in Nat :
                     LET targets == [k \in DOMAIN chosen |-> Target("playback_sessions", k, chosen[k])]
                     IN  /\ Chosen(config, lives, n, chosen)
                         /\ files' = WithTargets(files, "playback_sessions", num + 1,
                                         [k \in DOMAIN targets |-> SessionAt(targets[k])])
                         /\ found' = [found EXCEPT !.midstream = targets]
                         /\ issued' = [issued EXCEPT !["playback_sessions"] = @ + Len(targets)]
<1> DEFINE num == NumBatches("playback_sessions")
<1>1. /\ stage = "playback" /\ batch = num /\ stage' = "billing" /\ batch' = 0
      /\ delayed' = << >> /\ UNCHANGED << config, lives, titles, manifests >>
  BY DEF EndPlayback, AllBatches, GoTo
<1>2. delayed = << >>
  BY <1>1, NothingLeft
<1>3. PICK chosen \in TargetChoices(Candidates(lives), config.midstream_playback) :
        LET targets == [k \in DOMAIN chosen |-> Target("playback_sessions", k, chosen[k])]
        IN  /\ files' = WithTargets(files, "playback_sessions", num + 1,
                                            [k \in DOMAIN targets |-> SessionAt(targets[k])])
            /\ found' = [found EXCEPT !.midstream = targets]
            /\ Issue("playback_sessions", Len(targets))
  BY <1>2 DEF EndPlayback
<1>4. Streams /\ config \in RunConfigs
  BY DEF GeneratorInv, Progress
<1>5. PICK T : Candidates(lives) \in Seq(T)
  BY <1>4, CandidatesOpen
<1>6. \E n \in Nat : Chosen(config, lives, n, chosen)
  <2> DEFINE pool == Candidates(lives)
             wanted == config.midstream_playback
  <2>1. pool \in Seq(T) /\ OpenGaps(lives, pool) /\ wanted \in Nat
    BY <1>4, <1>5, CandidatesOpen, ConfigIs
  <2>2. chosen \in TargetChoices(pool, wanted)
    OBVIOUS
  <2> HIDE DEF pool, wanted
  <2> QED  BY <2>1, <2>2, ChoicesAre
<1> QED  BY <1>1, <1>2, <1>3, <1>6 DEF Issue

LEMMA EndPlaybackKeeps ==
    ASSUME GeneratorInv, EndPlayback
    PROVE  GeneratorInv'
<1> DEFINE fact == "playback_sessions"
           num == NumBatches(fact)
           first == issued[fact]
           mid == "part-pathology-midstream"
           new == << fact, mid, num + 1 >>
<1>1. /\ stage = "playback" /\ batch = num /\ stage' = "billing" /\ batch' = 0
      /\ delayed = << >> /\ delayed' = << >>
      /\ UNCHANGED << config, lives, titles, manifests >>
  BY EndPlaybackChooses
<1>2. PICK chosen : \E n \in Nat :
         LET targets == [k \in DOMAIN chosen |-> Target(fact, k, chosen[k])]
         IN  /\ Chosen(config, lives, n, chosen)
             /\ files' = WithTargets(files, fact, num + 1, [k \in DOMAIN targets |-> SessionAt(targets[k])])
             /\ found' = [found EXCEPT !.midstream = targets]
             /\ issued' = [issued EXCEPT ![fact] = @ + Len(targets)]
  BY EndPlaybackChooses
<1> DEFINE targets == [k \in DOMAIN chosen |-> Target(fact, k, chosen[k])]
           rows == [k \in DOMAIN targets |-> SessionAt(targets[k])]
<1>3. PICK n \in Nat :
         /\ Chosen(config, lives, n, chosen)
         /\ files' = WithTargets(files, fact, num + 1, rows)
         /\ found' = [found EXCEPT !.midstream = targets]
         /\ issued' = [issued EXCEPT ![fact] = @ + Len(targets)]
  BY <1>2
<1>4. /\ Progress /\ Streams /\ Listings /\ Named /\ FilesFit /\ SessionsFine /\ EventsFine
      /\ TargetsFine /\ IdsCounted /\ SoftDeletesWritten
      /\ config \in RunConfigs /\ batch \in Nat /\ first \in Nat /\ fact \in Facts
      /\ found.midstream \in Seq(TargetRows) /\ issued \in [Facts -> Nat]
  BY FoundIs DEF GeneratorInv, Progress, Facts
<1>5. /\ targets \in Seq(TargetRows) /\ DOMAIN targets = 1..n /\ Len(targets) = n
      /\ \A k \in 1..n : /\ TargetFine(config, lives, targets[k])
                         /\ targets[k].id = first + k - 1
                         /\ config.launch <= targets[k].at
  BY <1>3, <1>4, TargetsAre
<1> HIDE DEF targets
<1>6. /\ found' \in FoundRows /\ found'.midstream = targets /\ found'.malformed = found.malformed
      /\ found'.billing = found.billing /\ found'.signup = found.signup
  BY <1>3, <1>4, <1>5, FoundIs
<1>7. issued' = [issued EXCEPT ![fact] = @ + n] /\ issued' \in [Facts -> Nat] /\ issued'[fact] = first + n
  BY <1>3, <1>4, <1>5
<1>8. Progress'
  BY <1>1, <1>4, <1>6, <1>7 DEF Progress, Stages, Signed, Facts
<1>9. \A k \in 1..n : /\ rows[k] = SessionAt(targets[k])
                      /\ rows[k].id = targets[k].id /\ rows[k].started = targets[k].at
  BY <1>5 DEF SessionAt
<1>10. DOMAIN rows = 1..n
  BY <1>5
<1> HIDE DEF rows
<1>11. CASE n = 0
  <2>1. rows = << >>
    BY <1>10, <1>11
  <2>2. files' = files
    BY <1>3, <2>1 DEF WithTargets
  <2>3. issued' = issued
    BY <1>4, <1>7, <1>11
  <2>4. /\ Streams' /\ Listings' /\ Held' /\ FilesFit' /\ SessionsFine' /\ EventsFine'
        /\ SoftDeletesWritten' /\ IdsCounted' /\ Grows(files, files')
    <3>1. stage \in Lived \ {"done"} /\ stage' \in Lived \ {"done"}
      BY <1>1 DEF Lived
    <3> QED  BY <1>1, <1>6, <2>2, <2>3, <3>1, NoFile
  <2>5. TargetsFine'
    <3>1. \A k \in DOMAIN targets : FALSE
      BY <1>5, <1>11
    <3>2. \A k \in DOMAIN found'.midstream : FALSE
      BY <1>6, <3>1
    <3> QED  BY <3>2 DEF TargetsFine
  <2>6. Named'
    BY <1>1, <1>4, <2>2 DEF Named, FilesUpTo, Lived, Played, Billed, Signed
  <2> QED  BY <1>8, <2>4, <2>5, <2>6 DEF GeneratorInv
<1>12. CASE n # 0
  <2>1. rows # << >>
    BY <1>10, <1>12
  <2>2. files' = WithFile(files, fact, mid, num + 1, rows)
    BY <1>3, <2>1 DEF WithTargets
  <2>3. Adds(files, fact, new, rows, files')
    <3>1. new \notin DOMAIN files
      BY <1>1, <1>4, FreshMidstream DEF Named
    <3> QED  BY <2>2, <3>1, FileAdded
  <2>4. Grows(files, files')
    BY <2>3, AddsGrows
  <2>5. /\ stage \in Lived \ {"done"} /\ stage' \in Lived \ {"done"} /\ stage \in Lived
    BY <1>1 DEF Lived
  <2>6. Streams' /\ Listings' /\ SoftDeletesWritten'
    BY <1>1, <1>4, <2>4, <2>5, StreamsKept, ListingsKept, SoftDeletesKept
  <2>7. Held'
    BY <1>1 DEF Held
  <2>8. ASSUME NEW k \in 1..n
        PROVE  /\ Landed(config, CutoffBatch, LastPlayback, new[2], new[3], rows[k])
               /\ SessionFine(config, lives, issued'[fact], found'.malformed, rows[k])
    <3> DEFINE t == targets[k]
               m == issued'[fact]
               mal == found'.malformed
    <3>1. t.id = first + k - 1 /\ t.id < m /\ t.id >= first
      BY <1>4, <1>5, <1>7
    <3>2. Kinds(mal, t.id) = {}
      <4>1. \A j \in DOMAIN found.malformed : found.malformed[j].id < first /\ found.malformed[j].id \in Int
        <5>1. found.malformed \in Seq(MalformedRows)
          BY <1>4, FoundIs
        <5>2. \A j \in DOMAIN found.malformed : found.malformed[j] \in MalformedRows
          BY <5>1
        <5>3. \A j \in DOMAIN found.malformed : found.malformed[j].id \in Int
          BY <5>2 DEF MalformedRows
        <5> QED  BY <1>4, <5>3 DEF SessionsFine
      <4>2. mal = found.malformed
        BY <1>6
      <4> HIDE DEF mal, t
      <4>3. \A x : x \notin Kinds(mal, t.id)
        <5> SUFFICES ASSUME NEW x, x \in Kinds(mal, t.id) PROVE FALSE
          OBVIOUS
        <5>1. PICK j \in DOMAIN mal : mal[j].id = t.id
          BY KindsAre
        <5> QED  BY <1>4, <3>1, <4>1, <4>2, <5>1
      <4> QED  BY <4>3
    <3>3. TargetFine(config, lives, t) /\ config.launch <= t.at
      BY <1>5
    <3>4. new[2] = mid /\ new[3] = num + 1 /\ mid # "part" /\ rows[k] = SessionAt(t)
      BY <1>9
    <3> HIDE DEF t, m, mal, mid, new
    <3> DEFINE s == SessionAt(t)
    <3>5. /\ SessionFine(config, lives, m, mal, s)
          /\ Landed(config, CutoffBatch, LastPlayback, mid, num + 1, s)
      BY <1>4, <3>1, <3>2, <3>3, <3>4, MidstreamSession
    <3> QED  BY <3>4, <3>5 DEF m, mal
  <2>9. FilesFit' /\ SessionsFine'
    <3>1. \A k \in DOMAIN delayed' :
              SessionFine(config, lives, issued'[fact], found'.malformed, delayed'[k].row)
      BY <1>1
    <3>2. \A k \in DOMAIN found'.malformed : found'.malformed[k].id < issued'[fact]
      <4>1. found.malformed \in Seq(MalformedRows)
        BY <1>4, FoundIs
      <4>2. \A j \in DOMAIN found.malformed : found.malformed[j] \in MalformedRows
        BY <4>1
      <4>3. \A j \in DOMAIN found.malformed : found.malformed[j].id \in Int
        BY <4>2 DEF MalformedRows
      <4>4. \A j \in DOMAIN found.malformed : found.malformed[j].id < first
        BY <1>4 DEF SessionsFine
      <4>5. \A j \in DOMAIN found.malformed : found.malformed[j].id < first + n
        BY <1>4, <4>3, <4>4
      <4> QED  BY <1>6, <1>7, <4>5
    <3>3. \A id : id < first => Kinds(found'.malformed, id) = Kinds(found.malformed, id)
      BY <1>6
    <3> HIDE DEF new
    <3> QED  BY <1>1, <1>4, <1>7, <1>10, <2>3, <2>8, <3>1, <3>2, <3>3, SessionsMore
  <2>10. EventsFine'
    BY <1>1, <1>4, <2>3, EventsKept
  <2>11. TargetsFine'
    <3>1. RowsIn(files', fact) = RowsIn(files, fact) \cup {rows[k] : k \in DOMAIN rows}
      BY <2>3, RowsAdded
    <3>2. \A k \in 1..n : rows[k] \in RowsIn(files', fact)
      BY <1>10, <3>1
    <3>3. \A k \in DOMAIN targets : TargetIn(files', targets[k])
      BY <1>5, <1>9, <3>2 DEF TargetIn
    <3> QED  BY <1>1, <1>4, <1>5, <1>6, <2>4, <3>3, TargetsMore
  <2>12. /\ Counted(files', "billing_ledger", issued'["billing_ledger"], << >>, found.billing)
         /\ Counted(files', "watchlist_adds", issued'["watchlist_adds"], << >>, << >>)
         /\ Counted(files', "signup_funnel", issued'["signup_funnel"], << >>, found.signup)
    BY <1>4, <1>7, <2>3, OthersCounted
  <2>13. Counted(files', fact, first + n, << >>, << >>)
    <3>1. Counted(files, fact, first, << >>, << >>)
      BY <1>1, <1>4, NothingHeld DEF IdsCounted, HeldBack, HeldRows
    <3>2. Numbered(Ids(rows), first, n)
      <4>1. \A k \in 1..n : rows[k].id = first + k - 1
        BY <1>5, <1>9
      <4> QED  BY <1>4, <1>10, <4>1, NumberedTargets
    <3> HIDE DEF new, fact, first
    <3> QED  BY <2>3, <3>1, <3>2, CountedOnce
  <2>14. Ids(HeldBack)' = << >>
    BY <1>1, NothingHeld DEF HeldBack, HeldRows, Ids
  <2>15. IdsCounted'
    BY <1>6, <1>7, <2>12, <2>13, <2>14 DEF IdsCounted
  <2>16. Named'
    <3>1. batch' \in Nat /\ num \in Nat
      BY <1>1, <1>4
    <3>2. new[3] = num + 1 /\ new[3] \in Nat
      BY <3>1
    <3> HIDE DEF new
    <3>3. FilesUpTo("playback_sessions", "playback", Lived)'
      BY <1>1, <1>4, <2>3, <2>5, <3>1, <3>2, NamedMore DEF Named
    <3>4. FilesUpTo("billing_ledger", "billing", Played)'
      BY <1>1, <1>4, <2>3, <3>1, NamedOther DEF Named, Played
    <3>5. FilesUpTo("watchlist_adds", "watchlist", Billed)'
      BY <1>1, <1>4, <2>3, <3>1, NamedOther DEF Named, Billed
    <3>6. FilesIn(files', "signup_funnel") = FilesIn(files, "signup_funnel")
      BY <2>3 DEF Adds
    <3> QED  BY <1>1, <1>4, <3>3, <3>4, <3>5, <3>6 DEF Named, Signed
  <2> QED  BY <1>8, <2>6, <2>7, <2>9, <2>10, <2>11, <2>15, <2>16 DEF GeneratorInv
<1> QED  BY <1>11, <1>12

LEMMA MidstreamTransaction ==
    ASSUME NEW t, TargetFine(config, lives, t)
    PROVE  LET e == TransactionAt(t)
           IN  e.id = t.id /\ e.at = t.at /\ EventFine(config, lives, e)
<1> DEFINE e == TransactionAt(t)
<1>1. t \in TargetRows /\ t.sub \in DOMAIN lives /\ InsideLife(config, lives[t.sub], t.at)
  BY DEF TargetFine
<1>2. t.id \in Nat /\ t.sub \in Nat /\ t.at \in Int
  BY <1>1 DEF TargetRows
<1>3. e = [id |-> t.id, sub |-> t.sub, at |-> t.at]
  BY DEF TransactionAt
<1> HIDE DEF e
<1>4. e \in EventRows /\ e.id = t.id /\ e.sub = t.sub /\ e.at = t.at
  BY <1>2, <1>3 DEF EventRows
<1> QED  BY <1>1, <1>4 DEF EventFine, e

LEMMA EndBillingChooses ==
    ASSUME GeneratorInv, EndBilling
    PROVE  /\ stage = "billing" /\ stage' = "watchlist" /\ batch' = 0
           /\ UNCHANGED << config, lives, titles, delayed, manifests >>
           /\ \E chosen : \E n \in Nat :
                 LET targets == [k \in DOMAIN chosen |-> Target("billing_ledger", k, chosen[k])]
                 IN  /\ Chosen(config, lives, n, chosen)
                     /\ files' = WithTargets(files, "billing_ledger", batch,
                                     [k \in DOMAIN targets |-> TransactionAt(targets[k])])
                     /\ found' = [found EXCEPT !.midstream = @ \o targets]
                     /\ issued' = [issued EXCEPT !["billing_ledger"] = @ + Len(targets)]
<1> DEFINE all == Candidates(lives)
           wanted == config.midstream_playback
           pool == IF Len(all) > wanted THEN SubSeq(all, wanted + 1, Len(all)) ELSE all
<1>1. /\ stage = "billing" /\ stage' = "watchlist" /\ batch' = 0
      /\ UNCHANGED << config, lives, titles, delayed, manifests >>
  BY DEF EndBilling, AllBatches, GoTo
<1>2. PICK chosen \in TargetChoices(pool, config.midstream_billing) :
        LET targets == [k \in DOMAIN chosen |-> Target("billing_ledger", k, chosen[k])]
        IN  /\ files' = WithTargets(files, "billing_ledger", batch,
                                            [k \in DOMAIN targets |-> TransactionAt(targets[k])])
            /\ found' = [found EXCEPT !.midstream = @ \o targets]
            /\ Issue("billing_ledger", Len(targets))
  BY DEF EndBilling
<1>3. Streams /\ config \in RunConfigs
  BY DEF GeneratorInv, Progress
<1>4. PICK T : all \in Seq(T)
  BY <1>3, CandidatesOpen
<1>5. OpenGaps(lives, all) /\ wanted \in Nat /\ config.midstream_billing \in Nat
  BY <1>3, CandidatesOpen, ConfigIs
<1>6. pool \in Seq(T) /\ OpenGaps(lives, pool)
  <2> HIDE DEF all, wanted
  <2>1. CASE Len(all) > wanted
    <3> DEFINE rest == SubSeq(all, wanted + 1, Len(all))
    <3>1. rest \in Seq(T) /\ OpenGaps(lives, rest)
      BY <1>4, <1>5, <2>1, RestOpen
    <3> HIDE DEF rest
    <3>2. pool = rest
      BY <2>1 DEF rest
    <3> QED  BY <3>1, <3>2
  <2>2. CASE ~ (Len(all) > wanted)
    BY <1>4, <1>5, <2>2
  <2> QED  BY <2>1, <2>2
<1>7. \E n \in Nat : Chosen(config, lives, n, chosen)
  <2> DEFINE few == config.midstream_billing
  <2>1. few \in Nat /\ chosen \in TargetChoices(pool, few)
    BY <1>5
  <2> HIDE DEF pool, few
  <2> QED  BY <1>6, <2>1, ChoicesAre
<1> QED  BY <1>1, <1>2, <1>7 DEF Issue

LEMMA EndBillingKeeps ==
    ASSUME GeneratorInv, EndBilling
    PROVE  GeneratorInv'
<1> DEFINE fact == "billing_ledger"
           first == issued[fact]
           mid == "part-pathology-midstream"
           new == << fact, mid, batch >>
<1>1. /\ stage = "billing" /\ stage' = "watchlist" /\ batch' = 0
      /\ UNCHANGED << config, lives, titles, delayed, manifests >>
  BY EndBillingChooses
<1>2. PICK chosen : \E n \in Nat :
         LET targets == [k \in DOMAIN chosen |-> Target(fact, k, chosen[k])]
         IN  /\ Chosen(config, lives, n, chosen)
             /\ files' = WithTargets(files, fact, batch, [k \in DOMAIN targets |-> TransactionAt(targets[k])])
             /\ found' = [found EXCEPT !.midstream = @ \o targets]
             /\ issued' = [issued EXCEPT ![fact] = @ + Len(targets)]
  BY EndBillingChooses
<1> DEFINE targets == [k \in DOMAIN chosen |-> Target(fact, k, chosen[k])]
           rows == [k \in DOMAIN targets |-> TransactionAt(targets[k])]
<1>3. PICK n \in Nat :
         /\ Chosen(config, lives, n, chosen)
         /\ files' = WithTargets(files, fact, batch, rows)
         /\ found' = [found EXCEPT !.midstream = @ \o targets]
         /\ issued' = [issued EXCEPT ![fact] = @ + Len(targets)]
  BY <1>2
<1>4. /\ Progress /\ Streams /\ Named /\ TargetsFine /\ IdsCounted
      /\ config \in RunConfigs /\ batch \in Nat /\ first \in Nat /\ fact \in Facts
      /\ found.midstream \in Seq(TargetRows) /\ issued \in [Facts -> Nat]
  BY FoundIs DEF GeneratorInv, Progress, Facts
<1>5. /\ targets \in Seq(TargetRows) /\ DOMAIN targets = 1..n /\ Len(targets) = n
      /\ \A k \in 1..n : /\ TargetFine(config, lives, targets[k])
                         /\ targets[k].id = first + k - 1
  BY <1>3, <1>4, TargetsAre
<1> HIDE DEF targets
<1> DEFINE all == found.midstream \o targets
<1>6. /\ found' \in FoundRows /\ found'.midstream = all /\ found'.malformed = found.malformed
      /\ found'.billing = found.billing /\ found'.signup = found.signup
  <2>1. all \in Seq(TargetRows)
    <3> DEFINE old == found.midstream
    <3> HIDE DEF old
    <3>1. old \in Seq(TargetRows)
      BY <1>4 DEF old
    <3> QED  BY <1>5, <3>1 DEF old
  <2>2. found' = [found EXCEPT !.midstream = all]
    BY <1>3
  <2> HIDE DEF all
  <2> QED  BY <1>4, <2>1, <2>2, FoundIs
<1>7. issued' = [issued EXCEPT ![fact] = @ + n] /\ issued' \in [Facts -> Nat] /\ issued'[fact] = first + n
  BY <1>3, <1>4, <1>5
<1>8. Progress'
  BY <1>1, <1>4, <1>6, <1>7 DEF Progress, Stages, Signed, Facts
<1>9. \A k \in 1..n : /\ rows[k] = TransactionAt(targets[k])
                      /\ rows[k].id = targets[k].id /\ rows[k].at = targets[k].at
  BY <1>5 DEF TransactionAt
<1>10. DOMAIN rows = 1..n
  BY <1>5
<1> HIDE DEF rows
<1>11. delayed = << >> /\ delayed' = << >>
  BY <1>1, <1>4 DEF Progress
<1>12. CASE n = 0
  <2>1. rows = << >>
    BY <1>10, <1>12
  <2>2. files' = files
    BY <1>3, <2>1 DEF WithTargets
  <2>3. issued' = issued
    BY <1>4, <1>7, <1>12
  <2>4. /\ Streams' /\ Listings' /\ Held' /\ FilesFit' /\ SessionsFine' /\ EventsFine'
        /\ SoftDeletesWritten' /\ IdsCounted' /\ Grows(files, files')
    <3>1. stage \in Lived \ {"done"} /\ stage' \in Lived \ {"done"}
      BY <1>1 DEF Lived
    <3> QED  BY <1>1, <1>6, <1>11, <2>2, <2>3, <3>1, NoFile
  <2>5. TargetsFine'
    <3>1. \A k \in DOMAIN targets : TargetFine(config, lives, targets[k]) /\ TargetIn(files', targets[k])
      BY <1>5, <1>12
    <3> QED  BY <1>1, <1>4, <1>5, <1>6, <2>4, <3>1, TargetsMore
  <2>6. Named'
    BY <1>1, <1>4, <2>2 DEF Named, FilesUpTo, Lived, Played, Billed, Signed
  <2> QED  BY <1>8, <2>4, <2>5, <2>6 DEF GeneratorInv
<1>13. CASE n # 0
  <2>1. rows # << >>
    BY <1>10, <1>13
  <2>2. files' = WithFile(files, fact, mid, batch, rows)
    BY <1>3, <2>1 DEF WithTargets
  <2>3. Adds(files, fact, new, rows, files')
    <3>1. new \notin DOMAIN files
      BY <1>1, <1>4, FreshMidstream DEF Named
    <3> QED  BY <2>2, <3>1, FileAdded
  <2>4. \A k \in DOMAIN rows : EventFine(config, lives, rows[k])
    BY <1>5, <1>9, <1>10, MidstreamTransaction
  <2>5. /\ Streams' /\ Listings' /\ Held' /\ FilesFit' /\ SessionsFine' /\ EventsFine'
        /\ SoftDeletesWritten' /\ Grows(files, files')
    <3>1. stage \in Played /\ stage # "done" /\ stage' \in Played /\ stage' # "done"
      BY <1>1 DEF Played
    <3> QED  BY <1>1, <1>6, <1>7, <2>3, <2>4, <3>1, LateFile
  <2>6. TargetsFine'
    <3>1. RowsIn(files', fact) = RowsIn(files, fact) \cup {rows[k] : k \in DOMAIN rows}
      BY <2>3, RowsAdded
    <3>2. \A k \in 1..n : rows[k] \in RowsIn(files', fact)
      BY <1>10, <3>1
    <3>3. \A k \in DOMAIN targets : TargetIn(files', targets[k])
      BY <1>5, <1>9, <3>2 DEF TargetIn
    <3> QED  BY <1>1, <1>4, <1>5, <1>6, <2>5, <3>3, TargetsMore
  <2>7. /\ Counted(files', "playback_sessions", issued'["playback_sessions"], Ids(HeldBack), << >>)
        /\ Counted(files', "watchlist_adds", issued'["watchlist_adds"], << >>, << >>)
        /\ Counted(files', "signup_funnel", issued'["signup_funnel"], << >>, found.signup)
    BY <1>4, <1>7, <2>3, OthersCounted
  <2>8. Counted(files', fact, first + n, << >>, found.billing)
    <3> DEFINE again == found.billing
    <3>1. Counted(files, fact, first, << >>, again)
      BY <1>4 DEF IdsCounted
    <3>2. Numbered(Ids(rows), first, n)
      <4>1. \A k \in 1..n : rows[k].id = first + k - 1
        BY <1>5, <1>9
      <4> QED  BY <1>4, <1>10, <4>1, NumberedTargets
    <3> HIDE DEF new, fact, first, again
    <3> QED  BY <2>3, <3>1, <3>2, CountedOnce DEF again
  <2>9. IdsCounted'
    BY <1>1, <1>6, <1>7, <2>7, <2>8 DEF IdsCounted, HeldBack
  <2>10. Named'
    <3>1. batch' \in Nat /\ new[3] \in Nat
      BY <1>1, <1>4
    <3> HIDE DEF new
    <3>3. FilesUpTo("billing_ledger", "billing", Played)'
      BY <1>1, <1>4, <2>3, <3>1, NamedMore DEF Named, Played
    <3>4. FilesUpTo("playback_sessions", "playback", Lived)'
      BY <1>1, <1>4, <2>3, <3>1, NamedOther DEF Named, Lived
    <3>5. FilesUpTo("watchlist_adds", "watchlist", Billed)'
      BY <1>1, <1>4, <2>3, <3>1, NamedOther DEF Named, Billed
    <3>6. FilesIn(files', "signup_funnel") = FilesIn(files, "signup_funnel")
      BY <2>3 DEF Adds
    <3> QED  BY <1>1, <1>4, <3>3, <3>4, <3>5, <3>6 DEF Named, Signed
  <2> QED  BY <1>8, <2>5, <2>6, <2>9, <2>10 DEF GeneratorInv
<1> QED  BY <1>12, <1>13

(***************************************************************************)
(* A batch of playback.                                                    *)
(***************************************************************************)
LEMMA PlaybackDraws ==
    ASSUME GeneratorInv, PlaybackBatch
    PROVE  LET first == issued["playback_sessions"]
               n == BatchRows("playback_sessions", batch)
           IN  /\ stage = "playback" /\ batch < NumBatches("playback_sessions")
               /\ stage' = stage /\ batch' = batch + 1 /\ n \in Nat
               /\ UNCHANGED << config, lives, titles, manifests >>
               /\ \E draws \in [1..n -> SessionDraws(batch)] :
                     LET rows == MadeRows(batch, first, draws)
                         kinds == KindsOf(batch, first, draws)
                         pool == delayed \o Peeled(rows, draws)
                     IN  /\ files' = WithFile(files, "playback_sessions", "part", batch,
                                              Kept(rows, draws) \o Landing(pool, batch))
                         /\ delayed' = Remaining(pool, batch)
                         /\ found' = [found EXCEPT !.malformed =
                                @ \o Picked(BadRows(batch, first, draws), {k \in DOMAIN kinds : kinds[k] # "sane"})]
                         /\ issued' = [issued EXCEPT !["playback_sessions"] = @ + n]
<1> DEFINE first == issued["playback_sessions"]
           n == BatchRows("playback_sessions", batch)
<1>1. /\ stage = "playback" /\ batch < NumBatches("playback_sessions")
      /\ stage' = stage /\ batch' = batch + 1
      /\ UNCHANGED << config, lives, titles, manifests >>
  BY DEF PlaybackBatch, At, NextBatch
<1>2. n \in Nat
  <2>1. config \in RunConfigs /\ batch \in Nat /\ "playback_sessions" \in Facts
    BY DEF GeneratorInv, Progress, Facts
  <2> QED  BY <1>1, <2>1, BatchesAre
<1>3. PICK draws \in [1..n -> SessionDraws(batch)] :
        LET sane == [k \in DOMAIN draws |->
                        Session(batch, issued["playback_sessions"] + k - 1, draws[k])]
            kinds == [k \in DOMAIN draws |-> Malformation(sane[k], draws[k].kind)]
            rows == [k \in DOMAIN draws |-> Malform(sane[k], kinds[k], draws[k].far)]
            bad == [k \in DOMAIN draws |-> [id |-> rows[k].id, kind |-> kinds[k]]]
            pool == delayed \o Peeled(rows, draws)
        IN  /\ files' = WithFile(files, "playback_sessions", "part", batch,
                                 Kept(rows, draws) \o Landing(pool, batch))
            /\ delayed' = Remaining(pool, batch)
            /\ found' = [found EXCEPT !.malformed =
                             @ \o Picked(bad, {k \in DOMAIN kinds : kinds[k] # "sane"})]
            /\ Issue("playback_sessions", Len(draws))
  BY DEF PlaybackBatch
<1>4. Len(draws) = n
  <2> HIDE DEF n
  <2> QED  BY <1>2
<1> HIDE DEF n
<1>5. LET rows == MadeRows(batch, first, draws)
          kinds == KindsOf(batch, first, draws)
          pool == delayed \o Peeled(rows, draws)
      IN  /\ files' = WithFile(files, "playback_sessions", "part", batch,
                               Kept(rows, draws) \o Landing(pool, batch))
          /\ delayed' = Remaining(pool, batch)
          /\ found' = [found EXCEPT !.malformed =
                 @ \o Picked(BadRows(batch, first, draws), {k \in DOMAIN kinds : kinds[k] # "sane"})]
          /\ issued' = [issued EXCEPT !["playback_sessions"] = @ + n]
  BY <1>3, <1>4 DEF MadeRows, KindsOf, BadRows, SaneRows, Issue
<1> QED  BY <1>1, <1>2, <1>5 DEF n

(* What is held back before a batch is fine for it.                        *)
LEMMA DelayedFine ==
    ASSUME GeneratorInv, issued["playback_sessions"] \in Nat, NEW n \in Nat, NEW mal,
           \A id : id < issued["playback_sessions"] => Kinds(mal, id) = Kinds(found.malformed, id)
    PROVE  delayed \in Seq(FinePool(issued["playback_sessions"] + n, mal, batch))
<1> DEFINE first == issued["playback_sessions"]
           m == first + n
           old == found.malformed
           F == FinePool(m, mal, batch)
<1>1. Progress /\ Held /\ SessionsFine /\ delayed \in Seq(PoolRows)
  BY DEF GeneratorInv, Progress
<1>2. /\ m \in Int /\ first \in Int /\ first <= m
      /\ \A id : id < first => Kinds(mal, id) = Kinds(old, id)
  OBVIOUS
<1>3. ASSUME NEW k \in DOMAIN delayed PROVE delayed[k] \in F
  <2> DEFINE d == delayed[k]
             s == d.row
  <2>1. d \in PoolRows
    BY <1>1
  <2>2. Waits(config, CutoffBatch, LastPlayback, batch, d)
    BY <1>1 DEF Held
  <2>3. SessionFine(config, lives, first, old, s)
    BY <1>1 DEF SessionsFine
  <2> HIDE DEF first, m, old, s
  <2>4. SessionFine(config, lives, m, mal, s)
    BY <1>2, <2>3, SessionKept
  <2> QED  BY <2>1, <2>2, <2>4 DEF FinePool, s
<1> HIDE DEF F
<1>4. delayed = [k \in 1..Len(delayed) |-> delayed[k]] /\ DOMAIN delayed = 1..Len(delayed) /\ Len(delayed) \in Nat
  BY <1>1
<1>5. delayed \in Seq(F)
  <2> DEFINE l == Len(delayed)
  <2> HIDE DEF l
  <2>1. l \in Nat /\ \A k \in 1..l : delayed[k] \in F
    BY <1>3, <1>4 DEF l
  <2>2. [k \in 1..l |-> delayed[k]] \in Seq(F)
    BY <2>1
  <2> QED  BY <1>4, <2>2 DEF l
<1> QED  BY <1>5 DEF F, m, first

LEMMA PlaybackBatchKeeps ==
    ASSUME GeneratorInv, PlaybackBatch
    PROVE  GeneratorInv'
<1> DEFINE fact == "playback_sessions"
           first == issued[fact]
           n == BatchRows(fact, batch)
           m == first + n
           new == << fact, "part", batch >>
           old == found.malformed
<1>1. /\ stage = "playback" /\ batch < NumBatches(fact)
      /\ stage' = stage /\ batch' = batch + 1 /\ n \in Nat
      /\ UNCHANGED << config, lives, titles, manifests >>
  BY PlaybackDraws
<1>2. \E draws \in [1..n -> SessionDraws(batch)] :
         LET rows == MadeRows(batch, first, draws)
             kinds == KindsOf(batch, first, draws)
             pool == delayed \o Peeled(rows, draws)
         IN  /\ files' = WithFile(files, fact, "part", batch, Kept(rows, draws) \o Landing(pool, batch))
             /\ delayed' = Remaining(pool, batch)
             /\ found' = [found EXCEPT !.malformed =
                    @ \o Picked(BadRows(batch, first, draws), {k \in DOMAIN kinds : kinds[k] # "sane"})]
             /\ issued' = [issued EXCEPT ![fact] = @ + n]
  BY PlaybackDraws
<1>3. PICK draws \in [1..n -> SessionDraws(batch)] :
         LET rows == MadeRows(batch, first, draws)
             kinds == KindsOf(batch, first, draws)
             pool == delayed \o Peeled(rows, draws)
         IN  /\ files' = WithFile(files, fact, "part", batch, Kept(rows, draws) \o Landing(pool, batch))
             /\ delayed' = Remaining(pool, batch)
             /\ found' = [found EXCEPT !.malformed =
                    @ \o Picked(BadRows(batch, first, draws), {k \in DOMAIN kinds : kinds[k] # "sane"})]
             /\ issued' = [issued EXCEPT ![fact] = @ + n]
  BY <1>2
<1> DEFINE rows == MadeRows(batch, first, draws)
           kinds == KindsOf(batch, first, draws)
           bad == BadRows(batch, first, draws)
           mal == old \o Picked(bad, {k \in DOMAIN kinds : kinds[k] # "sane"})
           peeled == Peeled(rows, draws)
           pool == delayed \o peeled
           landed == Landing(pool, batch)
           here == Kept(rows, draws) \o landed
<1>4. /\ files' = WithFile(files, fact, "part", batch, here)
      /\ delayed' = Remaining(pool, batch)
      /\ found' = [found EXCEPT !.malformed = mal]
      /\ issued' = [issued EXCEPT ![fact] = @ + n]
  BY <1>3
<1>5. /\ Progress /\ Streams /\ Listings /\ Named /\ Held /\ FilesFit /\ SessionsFine /\ EventsFine
      /\ TargetsFine /\ IdsCounted /\ SoftDeletesWritten
      /\ config \in RunConfigs /\ batch \in Nat /\ first \in Nat /\ fact \in Facts
      /\ old \in Seq(MalformedRows) /\ issued \in [Facts -> Nat] /\ delayed \in Seq(PoolRows)
  BY FoundIs DEF GeneratorInv, Progress, Facts
<1>6. DOMAIN lives \subseteq Nat /\ \A j \in DOMAIN lives : LifeIs(config, lives[j])
  BY <1>5, StreamsSay
<1> HIDE DEF n
<1>7. /\ rows \in Seq(SessionRows) /\ DOMAIN rows = 1..n /\ DOMAIN kinds = 1..n /\ DOMAIN bad = 1..n
      /\ \A k \in 1..n : RowMade(config, lives, CutoffBatch, batch, first + k - 1, kinds[k], rows[k])
      /\ bad \in Seq(JudgedRows)
      /\ \A k \in 1..n : bad[k] = [id |-> first + k - 1, kind |-> kinds[k]]
  <2> HIDE DEF first
  <2> QED  BY <1>1, <1>5, <1>6, BatchMade
<1>8. /\ mal \in Seq(MalformedRows)
      /\ \A k \in DOMAIN mal : mal[k].id < first + n
      /\ \A id : id < first => Kinds(mal, id) = Kinds(old, id)
      /\ Says(mal, kinds, first, n)
  <2>1. Below(old, first)
    BY <1>5 DEF SessionsFine, Below
  <2>2. Judged(bad, kinds, first, n)
    BY <1>7 DEF Judged
  <2> HIDE DEF first, old, kinds, bad
  <2> DEFINE all == old \o NotSane(bad, kinds)
  <2>3. /\ all \in Seq(MalformedRows) /\ Below(all, first + n)
        /\ \A id : id < first => Kinds(all, id) = Kinds(old, id)
        /\ Says(all, kinds, first, n)
    BY <1>1, <1>5, <1>7, <2>1, <2>2, MalformedFound
  <2>4. mal = all
    BY DEF NotSane
  <2> HIDE DEF all, mal
  <2> QED  BY <2>3, <2>4 DEF Below
<1> HIDE DEF mal
<1>9. /\ Kept(rows, draws) \in Seq(FineLanded(m, mal, batch))
      /\ peeled \in Seq({d \in FinePool(m, mal, batch) : d.target # batch})
      /\ Ids(HeldRows(peeled)) = Picked(Ids(rows), {k \in DOMAIN rows : draws[k].delay > 0})
  <2> HIDE DEF first
  <2> QED  BY <1>1, <1>5, <1>6, <1>8, BatchKeeps
<1>10. delayed \in Seq(FinePool(m, mal, batch))
  BY <1>1, <1>5, <1>8, DelayedFine
<1> HIDE DEF rows, kinds, bad, peeled
<1>11. pool \in Seq(FinePool(m, mal, batch)) /\ peeled \in Seq(PoolRows) /\ pool \in Seq(PoolRows)
  <2> DEFINE F == FinePool(m, mal, batch)
             G == {d \in F : d.target # batch}
  <2>1. \A d \in F : d \in PoolRows
    BY DEF FinePool
  <2>2. \A d \in G : d \in F
    OBVIOUS
  <2>3. peeled \in Seq(G) /\ delayed \in Seq(F)
    BY <1>9, <1>10
  <2> HIDE DEF F, G
  <2>4. peeled \in Seq(F)
    BY <2>2, <2>3
  <2>5. pool \in Seq(F)
    BY <2>3, <2>4
  <2> HIDE DEF pool
  <2>6. peeled \in Seq(PoolRows) /\ pool \in Seq(PoolRows)
    BY <2>1, <2>4, <2>5
  <2> QED  BY <2>5, <2>6 DEF F
<1>12. /\ landed \in Seq(FineLanded(m, mal, batch))
       /\ Ids(landed) = Picked(Ids(HeldRows(pool)), {k \in DOMAIN pool : pool[k].target = batch})
  <2> HIDE DEF pool, m
  <2> QED  BY <1>5, <1>11, PoolLands
<1>13. /\ delayed' \in Seq(FinePool(m, mal, batch + 1))
       /\ Ids(HeldRows(delayed')) = Picked(Ids(HeldRows(pool)), {k \in DOMAIN pool : pool[k].target # batch})
  <2> HIDE DEF pool, m
  <2> QED  BY <1>4, <1>5, <1>11, PoolRemains
<1> HIDE DEF landed
<1>14. Ids(HeldRows(pool)) = Ids(HeldRows(delayed)) \o Ids(HeldRows(peeled))
  BY <1>5, <1>11, HeldConcat
<1> HIDE DEF pool
<1>15. here \in Seq(FineLanded(m, mal, batch))
  <2> DEFINE L == FineLanded(m, mal, batch)
             kept == Kept(rows, draws)
  <2>1. kept \in Seq(L) /\ landed \in Seq(L)
    BY <1>9, <1>12
  <2> HIDE DEF L, kept
  <2>2. kept \o landed \in Seq(L)
    BY <2>1
  <2> QED  BY <2>2 DEF L, kept
<1> DEFINE kept == Kept(rows, draws)
<1>16. Ids(rows) \in Seq(Nat) /\ Numbered(Ids(rows), first, n)
  <2>1. \A k \in 1..n : rows[k].id = first + k - 1
    BY <1>7 DEF RowMade
  <2>2. Numbered(Ids(rows), first, n)
    BY <1>1, <1>5, <1>7, <2>1, NumberedTargets
  <2> QED  BY <2>2 DEF Numbered
<1> DEFINE S == {k \in DOMAIN rows : draws[k].delay = 0}
           R == {k \in DOMAIN rows : draws[k].delay > 0}
           U == {k \in DOMAIN pool : pool[k].target = batch}
           V == {k \in DOMAIN pool : pool[k].target # batch}
           held == Ids(HeldRows(delayed))
           waiting == Ids(HeldRows(pool))
           ids == Ids(rows)
<1>17. Split(DOMAIN ids, S, R)
  <2>1. \A k \in 1..n : /\ draws[k].delay = 0 \/ draws[k].delay > 0
                        /\ ~ (draws[k].delay = 0 /\ draws[k].delay > 0)
    BY <1>5, DelayIs
  <2>2. DOMAIN ids = 1..n
    BY <1>7 DEF Ids
  <2> QED  BY <1>7, <2>1, <2>2 DEF Split
<1>18. Split(DOMAIN waiting, U, V)
  <2>1. DOMAIN waiting = DOMAIN pool
    BY <1>11, HeldRowsAre
  <2> QED  BY <2>1 DEF Split
<1>19. Joined(waiting, held, Picked(ids, R))
  BY <1>9, <1>14 DEF Joined
<1>20. Joined(Ids(here), Picked(ids, S), Picked(waiting, U))
  <2>1. kept = Picked(rows, S)
    BY DEF Kept
  <2>2. S \in SUBSET DOMAIN rows
    OBVIOUS
  <2> HIDE DEF S
  <2>3. Ids(Picked(rows, S)) = Picked(Ids(rows), S) /\ Ids(Picked(rows, S)) \in Seq(Nat)
    BY <1>7, <1>16, <2>2, IdsPicked
  <2>4. Ids(landed) \in Seq(Nat)
    <3>1. waiting \in Seq(Nat) /\ U \in SUBSET DOMAIN waiting
      BY <1>11, <1>18, HeldRowsAre DEF Split
    <3> HIDE DEF U, waiting
    <3>2. Picked(waiting, U) \in Seq(Nat)
      BY <3>1, PickedSeq
    <3> QED  BY <1>12, <3>2 DEF U, waiting
  <2> DEFINE L == FineLanded(m, mal, batch)
  <2>5. kept \in Seq(L) /\ landed \in Seq(L) /\ Ids(kept) \in Seq(Nat)
    BY <1>9, <1>12, <2>1, <2>3
  <2> HIDE DEF L, kept
  <2>6. Ids(kept \o landed) = Ids(kept) \o Ids(landed)
    BY <2>4, <2>5, IdsConcat
  <2> QED  BY <1>12, <2>1, <2>3, <2>6 DEF Joined, kept
<1>21. Adds(files, fact, new, here, files')
  <2>1. new \notin DOMAIN files
    BY <1>1, <1>5, Fresh DEF Named
  <2> HIDE DEF here
  <2> QED  BY <1>4, <2>1, FileAdded
<1> HIDE DEF here, S, R, U, V, held, waiting, ids
<1>22. Counted(files', fact, m, Picked(waiting, V), << >>)
  <2>1. Counted(files, fact, first, held, << >>)
    BY <1>5 DEF IdsCounted, HeldBack, HeldRows, held
  <2>2. Numbered(ids, first, n)
    BY <1>16 DEF ids
  <2> HIDE DEF new, fact, first
  <2>3. Counted(files', fact, first + n, Picked(waiting, V), << >>)
    BY <1>1, <1>17, <1>18, <1>19, <1>20, <1>21, <2>1, <2>2, CountedBatch
  <2> QED  BY <2>3
<1>23. Ids(HeldBack)' = Picked(waiting, V)
  BY <1>13 DEF HeldBack, HeldRows, waiting, V
<1>24. issued' \in [Facts -> Nat] /\ issued'[fact] = m
  BY <1>1, <1>4, <1>5
<1>25. /\ found' \in FoundRows /\ found'.malformed = mal /\ found'.midstream = found.midstream
       /\ found'.billing = found.billing /\ found'.signup = found.signup
  BY <1>4, <1>5, <1>8, FoundIs
<1>26. IdsCounted'
  <2>1. /\ Counted(files', "billing_ledger", issued'["billing_ledger"], << >>, found.billing)
        /\ Counted(files', "watchlist_adds", issued'["watchlist_adds"], << >>, << >>)
        /\ Counted(files', "signup_funnel", issued'["signup_funnel"], << >>, found.signup)
    BY <1>1, <1>4, <1>5, <1>21, OthersCounted
  <2> HIDE DEF m
  <2> QED  BY <1>22, <1>23, <1>24, <1>25, <2>1 DEF IdsCounted
<1>27. Grows(files, files')
  BY <1>21, AddsGrows
<1>28. stage \in Lived \ {"done"} /\ stage' \in Lived \ {"done"} /\ stage \in Lived
  BY <1>1 DEF Lived
<1>29. Streams' /\ Listings' /\ SoftDeletesWritten' /\ TargetsFine'
  BY <1>1, <1>5, <1>25, <1>27, <1>28, StreamsKept, ListingsKept, SoftDeletesKept, TargetsKept
<1>30. EventsFine'
  BY <1>1, <1>5, <1>21, EventsKept
<1>31. \A k \in DOMAIN delayed' :
          /\ delayed'[k] \in PoolRows
          /\ Waits(config, CutoffBatch, LastPlayback, batch + 1, delayed'[k])
          /\ SessionFine(config, lives, m, mal, delayed'[k].row)
  <2> DEFINE F == FinePool(m, mal, batch + 1)
  <2>1. delayed' \in Seq(F)
    BY <1>13
  <2>2. \A d \in F : /\ d \in PoolRows /\ Waits(config, CutoffBatch, LastPlayback, batch + 1, d)
                     /\ SessionFine(config, lives, m, mal, d.row)
    BY DEF FinePool
  <2> HIDE DEF F
  <2>3. \A k \in DOMAIN delayed' : delayed'[k] \in F
    BY <2>1
  <2> QED  BY <2>2, <2>3
<1>32. delayed' \in Seq(PoolRows)
  <2> DEFINE F == FinePool(m, mal, batch + 1)
  <2>1. delayed' \in Seq(F) /\ \A d \in F : d \in PoolRows
    BY <1>13 DEF FinePool
  <2> HIDE DEF F
  <2> QED  BY <2>1
<1>33. Held'
  BY <1>1, <1>31, SamePlan DEF Held
<1>34. FilesFit' /\ SessionsFine'
  <2>1. \A k \in DOMAIN here : /\ Landed(config, CutoffBatch, LastPlayback, new[2], new[3], here[k])
                               /\ SessionFine(config, lives, issued'[fact], found'.malformed, here[k])
    <3> DEFINE L == FineLanded(m, mal, batch)
    <3>1. here \in Seq(L)
      BY <1>15
    <3>2. \A r \in L : /\ Landed(config, CutoffBatch, LastPlayback, "part", batch, r)
                       /\ SessionFine(config, lives, m, mal, r)
      BY DEF FineLanded
    <3> HIDE DEF L
    <3>3. \A k \in DOMAIN here : here[k] \in L
      BY <3>1
    <3> QED  BY <1>24, <1>25, <3>2, <3>3
  <2>2. /\ \A k \in DOMAIN delayed' :
              SessionFine(config, lives, issued'[fact], found'.malformed, delayed'[k].row)
        /\ \A k \in DOMAIN found'.malformed : found'.malformed[k].id < issued'[fact]
        /\ \A id : id < issued[fact] => Kinds(found'.malformed, id) = Kinds(found.malformed, id)
    BY <1>8, <1>24, <1>25, <1>31
  <2> HIDE DEF new
  <2> QED  BY <1>1, <1>5, <1>21, <1>24, <2>1, <2>2, SessionsMore
<1>35. Progress'
  <2>1. issued'["signup_funnel"] = issued["signup_funnel"]
    BY <1>4, <1>5 DEF Facts
  <2> QED  BY <1>1, <1>5, <1>24, <1>25, <1>32, <2>1 DEF Progress, Signed
<1>36. Named'
  <2>1. batch' \in Nat /\ batch <= batch' /\ batch < batch'
    BY <1>1, <1>5
  <2>2. new[2] = "part" /\ new[3] = batch
    OBVIOUS
  <2> HIDE DEF new
  <2>3. FilesUpTo("playback_sessions", "playback", Lived)'
    BY <1>1, <1>5, <1>21, <1>28, <2>1, <2>2, NamedMore DEF Named
  <2>4. FilesUpTo("billing_ledger", "billing", Played)'
    BY <1>1, <1>5, <1>21, <2>1, NamedOther DEF Named, Played
  <2>5. FilesUpTo("watchlist_adds", "watchlist", Billed)'
    BY <1>1, <1>5, <1>21, <2>1, NamedOther DEF Named, Billed
  <2>6. FilesIn(files', "signup_funnel") = FilesIn(files, "signup_funnel")
    BY <1>21 DEF Adds
  <2> QED  BY <1>1, <1>5, <2>3, <2>4, <2>5, <2>6 DEF Named
<1> QED  BY <1>26, <1>29, <1>30, <1>33, <1>34, <1>35, <1>36 DEF GeneratorInv

(***************************************************************************)
(* Titles and subscribers: before any fact.                                *)
(***************************************************************************)
LEMMA NoneCounted ==
    ASSUME NEW fs, NEW gs, NEW fact, FilesIn(fs, fact) = {}, FilesIn(gs, fact) = {},
           NEW n, NEW held, NEW again, Counted(fs, fact, n, held, again)
    PROVE  /\ Counted(gs, fact, n, held, again)
           /\ RowsIn(gs, fact) = {} /\ RowsIn(fs, fact) = {}
<1>1. PlacesIn(fs, fact) = {} /\ PlacesIn(gs, fact) = {}
  BY DEF PlacesIn
<1>2. /\ RowsIn(fs, fact) = {} /\ RowsIn(gs, fact) = {}
      /\ \A id : IdAt(fs, fact, id) = {} /\ IdAt(gs, fact, id) = {}
  BY <1>1 DEF RowsIn, IdAt
<1> QED  BY <1>2 DEF Counted

LEMMA BeforeFacts ==
    ASSUME GeneratorInv, stage \notin Lived, stage' \in {"subscribers", "playback"}, batch' = 0,
           UNCHANGED << config, issued, delayed, found >>,
           \A fact \in Facts : FilesIn(files', fact) = FilesIn(files, fact)
    PROVE  /\ Progress' /\ Named' /\ Held' /\ FilesFit' /\ SessionsFine' /\ EventsFine'
           /\ TargetsFine' /\ IdsCounted'
<1>1. /\ Progress /\ Named /\ SessionsFine /\ TargetsFine /\ IdsCounted
  BY DEF GeneratorInv
<1>2. stage \notin Played /\ stage \notin Billed /\ stage \notin Signed /\ stage # "playback"
  BY DEF Lived, Played, Billed, Signed
<1>3. \A fact \in Facts : FilesIn(files, fact) = {}
  BY <1>1, <1>2 DEF Named, FilesUpTo, Facts
<1>4. \A fact \in Facts : FilesIn(files', fact) = {}
  BY <1>3
<1>5. {"playback_sessions", "billing_ledger", "watchlist_adds", "signup_funnel"} = Facts
  BY DEF Facts
<1>6. delayed = << >> /\ delayed' = << >>
  BY <1>1, <1>2 DEF Progress
<1>7. Progress'
  BY <1>1, <1>2, <1>6 DEF Progress, Stages, Signed
<1>8. Named'
  BY <1>4, <1>5 DEF Named, FilesUpTo
<1>9. Held' /\ FilesFit'
  BY <1>4, <1>5, <1>6 DEF Held, FilesFit
<1>10. HeldBack' = HeldBack
  BY DEF HeldBack
<1>11. IdsCounted'
  BY <1>1, <1>3, <1>4, <1>5, <1>10, NoneCounted DEF IdsCounted
<1>12. \A fact \in Facts : RowsIn(files, fact) = {} /\ RowsIn(files', fact) = {}
  BY <1>3, <1>4 DEF RowsIn, PlacesIn
<1>13. SessionsFine' /\ EventsFine'
  BY <1>1, <1>5, <1>6, <1>12 DEF SessionsFine, EventsFine
<1>14. TargetsFine'
  <2>1. \A k \in DOMAIN found.midstream : FALSE
    BY <1>1, <1>5, <1>12 DEF TargetsFine, TargetIn
  <2> QED  BY <2>1 DEF TargetsFine
<1> QED  BY <1>7, <1>8, <1>9, <1>11, <1>13, <1>14

LEMMA OtherFile ==
    ASSUME NEW fs, NEW entity, entity \notin Facts, NEW prefix, NEW part, NEW rows
    PROVE  \A fact \in Facts : FilesIn(WithFile(fs, entity, prefix, part, rows), fact) = FilesIn(fs, fact)
BY DEF FilesIn, WithFile

LEMMA GenerateTitlesKeeps ==
    ASSUME GeneratorInv, GenerateTitles
    PROVE  GeneratorInv'
<1>1. /\ stage = "titles" /\ titles' \in [1..config.titles -> TitleStreams(config)]
      /\ files' = WithFile(files, "title_events", "part", 0, titles')
      /\ stage' = "subscribers" /\ batch' = 0
      /\ UNCHANGED << config, lives, issued, delayed, found, manifests >>
  BY DEF GenerateTitles, GoTo
<1>2. Progress /\ Streams /\ Listings /\ config \in RunConfigs
  BY DEF GeneratorInv, Progress
<1>3. stage \notin Lived /\ stage' \notin Lived /\ "title_events" \notin Facts
  BY <1>1 DEF Lived, Facts
<1>4. \A fact \in Facts : FilesIn(files', fact) = FilesIn(files, fact)
  BY <1>1, <1>3, OtherFile
<1>5. /\ Progress' /\ Named' /\ Held' /\ FilesFit' /\ SessionsFine' /\ EventsFine'
      /\ TargetsFine' /\ IdsCounted'
  BY <1>1, <1>3, <1>4, BeforeFacts
<1>6. Streams'
  <2>1. ASSUME NEW i \in DOMAIN titles'
        PROVE  /\ Head(titles'[i]) \in Int
               /\ Head(titles'[i]) <= Ticks(config.launch - config.catalog_seed_buffer)
    <3> DEFINE stream == titles'[i]
    <3>1. stream \in TitleStreams(config)
      BY <1>1
    <3>2. DrawsInRange(config) /\ Clocks(config)
          /\ config.catalog_seed_buffer + config.catalog_seed_lead_time <= config.launch
      BY <1>2, ConfigIs
    <3> HIDE DEF stream
    <3>3. Head(stream) \in Int /\ Head(stream) <= Ticks(config.launch - config.catalog_seed_buffer)
      BY <3>1, <3>2, TitlesAre
    <3> QED  BY <3>3 DEF stream
  <2> QED  BY <1>1, <1>2, <2>1 DEF Streams
<1>7. Listings'
  BY <1>1, <1>2, <1>3 DEF Listings, Lived
<1>8. SoftDeletesWritten'
  BY <1>3 DEF SoftDeletesWritten
<1> QED  BY <1>5, <1>6, <1>7, <1>8 DEF GeneratorInv

(* The stream of some subscribers has all the events of each of them.      *)
LEMMA StreamHas ==
    ASSUME NEW n \in Nat, lives' \in [1..n -> {life \in UNION {Lives(config, role) : role \in ToSet(Roles)} :
                                                  LifeIs(config, life)}],
           NEW S, NEW i \in 1..n, i \in S, NEW k \in 1..Len(lives'[i].changes)
    PROVE  \E j \in DOMAIN StreamOf(S) : StreamOf(S)[j] = EventsOf(i, lives'[i])[k]
<1> DEFINE T == [sub : Nat, at : Int, deletes : BOOLEAN]
           seqs == [l \in DOMAIN lives' |-> IF l \in S THEN EventsOf(l, lives'[l]) ELSE << >>]
<1>1. DOMAIN lives' = 1..n /\ \A l \in 1..n : LifeIs(config, lives'[l])
  OBVIOUS
<1>2. ASSUME NEW l \in 1..n
      PROVE  /\ EventsOf(l, lives'[l]) \in Seq(T)
             /\ Len(EventsOf(l, lives'[l])) = Len(lives'[l].changes)
  <2> DEFINE ch == lives'[l].changes
             m == Len(ch)
             soft == lives'[l].role = "soft"
  <2>1. ch \in Seq(Int)
    BY <1>1 DEF LifeIs
  <2>2. m \in Nat /\ DOMAIN ch = 1..m /\ \A j \in 1..m : ch[j] \in Int
    BY <2>1
  <2>3. EventsOf(l, lives'[l]) = [j \in 1..m |-> [sub |-> l, at |-> ch[j], deletes |-> soft /\ j > 1 /\ j = m]]
    BY <2>2 DEF EventsOf
  <2> HIDE DEF ch, m, soft
  <2>4. \A j \in 1..m : [sub |-> l, at |-> ch[j], deletes |-> soft /\ j > 1 /\ j = m] \in T
    BY <2>2
  <2> HIDE DEF T
  <2>5. EventsOf(l, lives'[l]) \in Seq(T) /\ Len(EventsOf(l, lives'[l])) = m
    BY <2>2, <2>3, <2>4
  <2> QED  BY <2>5 DEF m, ch
<1> HIDE DEF T
<1>3. seqs = [l \in 1..n |-> IF l \in S THEN EventsOf(l, lives'[l]) ELSE << >>]
  BY <1>1
<1>4. \A l \in 1..n : (IF l \in S THEN EventsOf(l, lives'[l]) ELSE << >>) \in Seq(T)
  BY <1>2
<1>5. seqs \in Seq(Seq(T)) /\ Len(seqs) = n /\ seqs[i] = EventsOf(i, lives'[i])
  BY <1>3, <1>4
<1>6. StreamOf(S) = FlattenSeq(seqs)
  BY DEF StreamOf
<1>7. i \in 1..Len(seqs) /\ k \in 1..Len(seqs[i])
  BY <1>2, <1>5
<1> HIDE DEF seqs
<1>8. /\ FlattenSeq(seqs) \in Seq(T)
      /\ \E j \in 1..Len(FlattenSeq(seqs)) : FlattenSeq(seqs)[j] = seqs[i][k]
  BY <1>5, <1>7, FlattenHas
<1> DEFINE f == FlattenSeq(seqs)
<1> HIDE DEF f
<1>9. DOMAIN f = 1..Len(f)
  <2>1. f \in Seq(T)
    BY <1>8 DEF f
  <2> QED  BY <2>1
<1> QED  BY <1>5, <1>6, <1>8, <1>9 DEF f

LEMMA LivesDrawn ==
    ASSUME config \in RunConfigs,
           lives' \in [1..config.subscribers -> UNION {Lives(config, role) : role \in ToSet(Roles)}]
    PROVE  lives' \in [1..config.subscribers ->
                          {life \in UNION {Lives(config, role) : role \in ToSet(Roles)} : LifeIs(config, life)}]
<1> DEFINE All == UNION {Lives(config, role) : role \in ToSet(Roles)}
<1>1. ASSUME NEW life \in All PROVE LifeIs(config, life)
  <2>1. PICK role \in ToSet(Roles) : life \in Lives(config, role)
    OBVIOUS
  <2>2. role \in {"late", "same_day", "soft", "hard", "plain"}
    BY RolesAre
  <2>3. DrawsInRange(config) /\ Clocks(config)
    BY ConfigIs
  <2> QED  BY <2>1, <2>2, <2>3, LivesAre
<1> HIDE DEF All
<1>2. lives' \in [1..config.subscribers -> All]
  BY DEF All
<1>3. lives' \in [1..config.subscribers -> {life \in All : LifeIs(config, life)}]
  BY <1>1, <1>2
<1> QED  BY <1>3 DEF All

LEMMA GenerateSubscribersKeeps ==
    ASSUME GeneratorInv, GenerateSubscribers
    PROVE  GeneratorInv'
<1> DEFINE late == Having(lives', "late")
           part == << "subscriber_events", "part", 0 >>
           rows == StreamOf(DOMAIN lives' \ late)
           normal == WithFile(files, "subscriber_events", "part", 0, rows)
<1>1. /\ stage = "subscribers" /\ stage' = "playback" /\ batch' = 0
      /\ lives' \in [1..config.subscribers -> UNION {Lives(config, role) : role \in ToSet(Roles)}]
      /\ UNCHANGED << config, titles, issued, delayed, found >>
      /\ manifests' = [late |-> Having(lives', "late"), same_day |-> Having(lives', "same_day"),
                       soft |-> Having(lives', "soft"), hard |-> Having(lives', "hard")]
  BY DEF GenerateSubscribers, GoTo
<1>2. files' = IF StreamOf(late) = << >> THEN normal
               ELSE WithFile(normal, "subscriber_events", "part-late", 1, StreamOf(late))
  BY DEF GenerateSubscribers
<1>3. Progress /\ Streams /\ Listings /\ config \in RunConfigs
  BY DEF GeneratorInv, Progress
<1>4. stage \notin Lived /\ stage' \in Lived /\ stage' # "done" /\ "subscriber_events" \notin Facts
  BY <1>1 DEF Lived, Facts
<1> HIDE DEF rows
<1>5. \A fact \in Facts : FilesIn(files', fact) = FilesIn(files, fact)
  <2>1. \A fact \in Facts : FilesIn(normal, fact) = FilesIn(files, fact)
    BY <1>4, OtherFile
  <2> HIDE DEF normal
  <2>2. CASE StreamOf(late) = << >>
    BY <1>2, <2>1, <2>2
  <2>3. CASE StreamOf(late) # << >>
    <3> DEFINE more == StreamOf(late)
    <3>1. files' = WithFile(normal, "subscriber_events", "part-late", 1, more)
      BY <1>2, <2>3
    <3> HIDE DEF more
    <3> QED  BY <1>4, <2>1, <3>1, OtherFile
  <2> QED  BY <2>2, <2>3
<1>6. /\ Progress' /\ Named' /\ Held' /\ FilesFit' /\ SessionsFine' /\ EventsFine'
      /\ TargetsFine' /\ IdsCounted'
  BY <1>1, <1>4, <1>5, BeforeFacts
<1> DEFINE n == config.subscribers
<1>7. n \in Nat
  BY <1>3, ConfigIs
<1>8. lives' \in [1..n -> {life \in UNION {Lives(config, role) : role \in ToSet(Roles)} :
                              LifeIs(config, life)}]
  BY <1>1, <1>3, LivesDrawn
<1> HIDE DEF n
<1>9. DOMAIN lives' = 1..n /\ \A i \in 1..n : LifeIs(config, lives'[i])
  BY <1>8
<1>10. Streams'
  BY <1>1, <1>3, <1>7, <1>9 DEF Streams
<1>11. Listings'
  <2>1. /\ DOMAIN manifests' = Pathologies
        /\ \A role \in Pathologies : manifests'[role] = Having(lives', role)
    BY <1>1 DEF Pathologies
  <2> QED  BY <1>4, <2>1 DEF Listings
<1>12. part \in DOMAIN files' /\ files'[part] = rows
  <2>1. part \in DOMAIN normal /\ normal[part] = rows
    BY DEF WithFile
  <2>2. << "subscriber_events", "part-late", 1 >> # part
    OBVIOUS
  <2> HIDE DEF normal, part
  <2>3. \A r : LET f == WithFile(normal, "subscriber_events", "part-late", 1, r)
               IN  part \in DOMAIN f /\ f[part] = rows
    BY <2>1, <2>2 DEF WithFile
  <2> QED  BY <1>2, <2>1, <2>3
<1>13. \A k \in DOMAIN rows : rows[k] \in RowsIn(files', "subscriber_events")
  <2>1. part \in FilesIn(files', "subscriber_events")
    BY <1>12 DEF FilesIn
  <2> HIDE DEF part
  <2> QED  BY <1>12, <2>1, RowsAre
<1>14. ASSUME NEW i \in Having(lives', "soft")
       PROVE  \E e \in RowsIn(files', "subscriber_events") : e.sub = i /\ e.deletes
  <2> DEFINE life == lives'[i]
             k == Len(life.changes)
  <2>1. i \in 1..n /\ life.role = "soft"
    BY <1>9 DEF Having
  <2>2. k >= 2 /\ life.changes \in Seq(Int)
    BY <1>9, <2>1 DEF LifeIs
  <2>3. k \in 1..k /\ k > 1 /\ DOMAIN life.changes = 1..k
    BY <2>2
  <2>4. EventsOf(i, life)[k] = [sub |-> i, at |-> life.changes[k], deletes |-> TRUE]
    BY <2>1, <2>3 DEF EventsOf
  <2> DEFINE S == DOMAIN lives' \ late
  <2>5. i \in S
    BY <1>9, <2>1 DEF Having
  <2> HIDE DEF S
  <2>6. \E j \in DOMAIN StreamOf(S) : StreamOf(S)[j] = EventsOf(i, lives'[i])[k]
    BY <1>7, <1>8, <2>1, <2>3, <2>5, StreamHas
  <2>7. rows = StreamOf(S)
    BY DEF rows, S
  <2>8. PICK j \in DOMAIN rows : rows[j] = EventsOf(i, life)[k]
    BY <2>6, <2>7
  <2> HIDE DEF life, k
  <2>9. rows[j].sub = i /\ rows[j].deletes
    BY <2>4, <2>8
  <2> QED  BY <1>13, <2>9
<1>15. SoftDeletesWritten'
  BY <1>14 DEF SoftDeletesWritten
<1> QED  BY <1>6, <1>10, <1>11, <1>15 DEF GeneratorInv

(***************************************************************************)
(* The manifests, and a new run.                                           *)
(***************************************************************************)
LEMMA WriteManifestsKeeps ==
    ASSUME GeneratorInv, WriteManifests
    PROVE  GeneratorInv'
<1>1. /\ stage = "manifests" /\ stage' = "done" /\ batch' = 0
      /\ manifests' = [key \in DOMAIN found \cup DOMAIN manifests |->
                          IF key \in DOMAIN found THEN found[key] ELSE manifests[key]]
      /\ UNCHANGED << config, lives, titles, files, issued, delayed, found >>
  BY DEF WriteManifests, GoTo
<1>2. /\ Progress /\ Streams /\ Listings /\ Named /\ Held /\ FilesFit
      /\ SessionsFine /\ EventsFine /\ TargetsFine /\ IdsCounted /\ SoftDeletesWritten
  BY DEF GeneratorInv
<1>3. delayed = << >> /\ delayed' = << >>
  BY <1>1, <1>2 DEF Progress
<1>4. Progress'
  BY <1>1, <1>2 DEF Progress, Stages, Signed
<1>5. Streams' /\ TargetsFine'
  BY <1>1, <1>2 DEF Streams, TargetsFine
<1>6. Named' /\ SoftDeletesWritten'
  <2>1. Having(lives, "soft")' = Having(lives, "soft")
    BY <1>1 DEF Having
  <2> QED  BY <1>1, <1>2, <2>1 DEF Named, FilesUpTo, SoftDeletesWritten, Lived, Played, Billed, Signed
<1>7. Held'
  BY <1>3 DEF Held
<1>8. FilesFit'
  BY <1>1, <1>2, SamePlan DEF FilesFit
<1>9. SessionsFine' /\ EventsFine'
  BY <1>1, <1>2, <1>3 DEF SessionsFine, EventsFine
<1>10. IdsCounted'
  BY <1>1, <1>2 DEF IdsCounted, HeldBack
<1>11. Listings'
  <2>1. /\ DOMAIN manifests = Pathologies
        /\ \A role \in Pathologies : manifests[role] = Having(lives, role)
    BY <1>1, <1>2 DEF Listings, Lived
  <2>2. DOMAIN found = {"malformed", "midstream", "billing", "signup"}
    BY <1>2 DEF Progress, FoundRows
  <2>3. DOMAIN manifests' = Pathologies \cup DOMAIN found
    BY <1>1, <2>1
  <2>4. \A key \in DOMAIN found : manifests'[key] = found[key]
    BY <1>1
  <2>5. \A role \in Pathologies : manifests'[role] = Having(lives, role)
    BY <1>1, <2>1, <2>2 DEF Pathologies
  <2>6. \A role : Having(lives, role)' = Having(lives, role)
    BY <1>1 DEF Having
  <2> QED  BY <1>1, <2>3, <2>4, <2>5, <2>6 DEF Listings, Lived
<1> QED  BY <1>4, <1>5, <1>6, <1>7, <1>8, <1>9, <1>10, <1>11 DEF GeneratorInv

(* A run that has just deleted the output, or the first one to come.       *)
FreshRun ==
    /\ config \in RunConfigs /\ stage \in {"absent", "titles"} /\ batch = 0
    /\ lives = << >> /\ titles = << >> /\ files = Empty /\ issued = [fact \in Facts |-> 0]
    /\ delayed = << >> /\ found = NothingFound /\ manifests = Empty

LEMMA FreshOutput == FreshRun => GeneratorInv
<1> SUFFICES ASSUME FreshRun PROVE GeneratorInv
  OBVIOUS
<1> USE DEF FreshRun
<1>1. DOMAIN files = {} /\ DOMAIN manifests = {}
  BY DEF Empty
<1>2. /\ found.malformed = << >> /\ found.midstream = << >>
      /\ found.billing = << >> /\ found.signup = << >> /\ found \in FoundRows
  BY DEF NothingFound, FoundRows
<1>3. \A fact : FilesIn(files, fact) = {} /\ RowsIn(files, fact) = {}
  BY <1>1 DEF FilesIn, RowsIn, PlacesIn
<1>4. /\ stage \in Stages /\ stage \notin Lived /\ stage # "playback" /\ stage # "done"
      /\ stage \notin Signed
  BY DEF Stages, Lived, Signed
<1>5. "playback_sessions" \in Facts /\ "billing_ledger" \in Facts /\ "watchlist_adds" \in Facts
      /\ "signup_funnel" \in Facts
  BY DEF Facts
<1>6. Progress
  BY <1>2, <1>4, <1>5 DEF Progress
<1>7. Streams
  <2>1. DOMAIN lives = 1..0 /\ 0 \in Nat /\ \A i \in DOMAIN lives : FALSE
    OBVIOUS
  <2>2. \A i \in DOMAIN titles : FALSE
    OBVIOUS
  <2> QED  BY <2>1, <2>2 DEF Streams
<1>8. Listings /\ SoftDeletesWritten
  BY <1>1, <1>4 DEF Listings, SoftDeletesWritten
<1>9. Named /\ FilesFit
  BY <1>3 DEF Named, FilesUpTo, FilesFit
<1>10. Held /\ SessionsFine /\ EventsFine /\ TargetsFine
  BY <1>2, <1>3 DEF Held, SessionsFine, EventsFine, TargetsFine
<1>11. IdsCounted
  <2>1. Ids(HeldBack) = << >>
    BY DEF HeldBack, Ids
  <2>2. \A fact \in Facts : issued[fact] = 0
    OBVIOUS
  <2> QED  BY <1>2, <1>3, <1>5, <2>1, <2>2, CountedNone DEF IdsCounted
<1> QED  BY <1>6, <1>7, <1>8, <1>9, <1>10, <1>11 DEF GeneratorInv

LEMMA RunKeeps ==
    ASSUME NEW c \in RunConfigs, Run(c)
    PROVE  GeneratorInv'
<1>1. FreshRun'
  BY DEF Run, FreshRun
<1> QED  BY <1>1, FreshOutput, PTL

LEMMA StutterKeeps ==
    ASSUME GeneratorInv, UNCHANGED vars
    PROVE  GeneratorInv'
<1>1. /\ Progress /\ Streams /\ Listings /\ Named /\ Held /\ FilesFit
      /\ SessionsFine /\ EventsFine /\ TargetsFine /\ IdsCounted /\ SoftDeletesWritten
  BY DEF GeneratorInv
<1>2. UNCHANGED << config, stage, batch, lives, titles, files, issued, delayed, found, manifests >>
  BY DEF vars
<1>3. \A role : Having(lives, role)' = Having(lives, role)
  BY <1>2 DEF Having
<1>4. Progress' /\ Streams' /\ Listings' /\ SoftDeletesWritten'
  BY <1>1, <1>2, <1>3 DEF Progress, Streams, Listings, SoftDeletesWritten
<1>5. Named' /\ SessionsFine' /\ EventsFine' /\ TargetsFine'
  BY <1>1, <1>2 DEF Named, FilesUpTo, SessionsFine, EventsFine, TargetsFine
<1>6. Held' /\ FilesFit'
  BY <1>1, <1>2, SamePlan DEF Held, FilesFit
<1>7. IdsCounted'
  BY <1>1, <1>2 DEF IdsCounted, HeldBack
<1> QED  BY <1>4, <1>5, <1>6, <1>7 DEF GeneratorInv

LEMMA StepKeeps == GeneratorInv /\ [Next]_vars => GeneratorInv'
<1> SUFFICES ASSUME GeneratorInv, [Next]_vars PROVE GeneratorInv'
  OBVIOUS
<1>1. ASSUME NEW c \in RunConfigs, Run(c) PROVE GeneratorInv'
  BY <1>1, RunKeeps
<1>2. CASE GenerateTitles
  BY <1>2, GenerateTitlesKeeps
<1>3. CASE GenerateSubscribers
  BY <1>3, GenerateSubscribersKeeps
<1>4. CASE PlaybackBatch
  BY <1>4, PlaybackBatchKeeps
<1>5. CASE EndPlayback
  BY <1>5, EndPlaybackKeeps
<1>6. CASE BillingBatch
  BY <1>6, BillingBatchKeeps
<1>7. CASE EndBilling
  BY <1>7, EndBillingKeeps
<1>8. CASE WatchlistBatch
  BY <1>8, WatchlistBatchKeeps
<1>9. CASE SignupFunnel
  BY <1>9, SignupFunnelKeeps
<1>10. CASE WriteManifests
  BY <1>10, WriteManifestsKeeps
<1>11. CASE UNCHANGED vars
  BY <1>11, StutterKeeps
<1> QED  BY <1>1, <1>2, <1>3, <1>4, <1>5, <1>6, <1>7, <1>8, <1>9, <1>10, <1>11 DEF Next

(* The inductive invariant of a run: what the six properties below follow  *)
(* from, in every state of any sequence of runs of generate.py, killed or  *)
(* not.                                                                    *)
THEOREM GeneratorInvariant == Spec => []GeneratorInv
<1>1. Init => GeneratorInv
  <2>1. Init => FreshRun
    BY DEF Init, FreshRun
  <2> QED  BY <2>1, FreshOutput
<1> QED  BY <1>1, StepKeeps, PTL DEF Spec

(***************************************************************************)
(* What the invariant says of a run.                                       *)
(***************************************************************************)
LEMMA TypeSaid == GeneratorInv => GenTypeOK
<1> SUFFICES ASSUME GeneratorInv PROVE GenTypeOK
  OBVIOUS
<1>1. Progress /\ Listings /\ Held /\ FilesFit /\ config \in RunConfigs
  BY DEF GeneratorInv, Progress
<1>2. DOMAIN manifests \subseteq Pathologies \cup DOMAIN NothingFound
  <2>1. DOMAIN found = {"malformed", "midstream", "billing", "signup"}
    BY <1>1 DEF Progress, FoundRows
  <2>2. DOMAIN NothingFound = {"malformed", "midstream", "billing", "signup"}
    BY DEF NothingFound
  <2>3. DOMAIN manifests \subseteq Pathologies \cup DOMAIN found
    BY <1>1 DEF Listings
  <2> QED  BY <2>1, <2>2, <2>3
<1>3. ASSUME NEW k \in DOMAIN delayed PROVE delayed[k].target \in batch..LastPlayback
  <2> DEFINE t == delayed[k].target
             last == LastPlayback
  <2>1. batch <= t /\ t <= last
    BY <1>1 DEF Held, Waits
  <2>2. t \in Int
    <3>1. delayed[k] \in PoolRows
      BY <1>1 DEF Progress
    <3> QED  BY <3>1 DEF PoolRows
  <2>3. batch \in Int /\ last \in Int
    BY <1>1, CutoffIs DEF Progress
  <2> HIDE DEF t, last
  <2>4. t \in batch..last
    BY <2>1, <2>2, <2>3
  <2> QED  BY <2>4 DEF t, last
<1>4. ASSUME NEW name \in FilesOf("playback_sessions"), NEW k \in DOMAIN files[name]
      PROVE  files[name][k].quality = IF name[3] < CutoffBatch THEN "no column"
                          ELSE IF files[name][k].batch < CutoffBatch THEN "null" ELSE "drawn"
  <2>1. name \in FilesIn(files, "playback_sessions")
    BY DEF FilesOf, FilesIn
  <2> QED  BY <1>1, <2>1 DEF FilesFit, Landed
<1>5. stage \in Stages
  BY <1>1 DEF Progress
<1> QED  BY <1>2, <1>3, <1>4, <1>5 DEF GenTypeOK, Stages, Pathologies

OncePlus(fact, held, again) ==
    LET issued_ids == 0..issued[fact] - 1
    IN  /\ \A row \in Rows(fact) : row.id \in issued_ids
        /\ ToSet(held) \cup ToSet(again) \subseteq issued_ids
        /\ \A id \in issued_ids :
              Cardinality({p \in Places(fact) : RowAt(p).id = id})
                  + Cardinality({k \in DOMAIN held : held[k] = id})
                  = 1 + Cardinality({k \in DOMAIN again : again[k] = id})

LEMMA OkSaid ==
    ASSUME NEW fact, NEW held, NEW again, Counted(files, fact, issued[fact], held, again)
    PROVE  OncePlus(fact, held, again)
<1> DEFINE n == issued[fact]
<1>1. /\ \A r \in RowsIn(files, fact) : r.id \in 0..n - 1
      /\ \A k \in DOMAIN held : held[k] \in 0..n - 1
      /\ \A k \in DOMAIN again : again[k] \in 0..n - 1
      /\ \A id \in 0..n - 1 :
            Cardinality(IdAt(files, fact, id)) + Times(held, id) = 1 + Times(again, id)
  <2>1. Counted(files, fact, n, held, again)
    OBVIOUS
  <2> HIDE DEF n
  <2> QED  BY <2>1, CountedSays
<1>2. Places(fact) = PlacesIn(files, fact) /\ \A p : RowAt(p) = RowIn(files, p)
  BY DEF Places, FilesOf, PlacesIn, FilesIn, RowAt, RowIn
<1>3. Rows(fact) = RowsIn(files, fact)
  BY <1>2 DEF Rows, RowsIn
<1>4. \A id : {p \in Places(fact) : RowAt(p).id = id} = IdAt(files, fact, id)
  BY <1>2 DEF IdAt
<1> HIDE DEF n
<1>5. ToSet(held) \cup ToSet(again) \subseteq 0..n - 1
  BY <1>1 DEF ToSet
<1>6. \A id \in 0..n - 1 :
         Cardinality({p \in Places(fact) : RowAt(p).id = id})
             + Cardinality({k \in DOMAIN held : held[k] = id})
             = 1 + Cardinality({k \in DOMAIN again : again[k] = id})
  BY <1>1, <1>4 DEF Times
<1> QED  BY <1>1, <1>3, <1>5, <1>6 DEF n, OncePlus

LEMMA ConservedSaid == GeneratorInv => RowsConserved
<1> SUFFICES ASSUME GeneratorInv PROVE RowsConserved
  OBVIOUS
<1>1. IdsCounted /\ FilesFit
  BY DEF GeneratorInv
<1>2. OncePlus("playback_sessions", Ids(HeldBack), << >>)
  <2>1. Counted(files, "playback_sessions", issued["playback_sessions"], Ids(HeldBack), << >>)
    BY <1>1 DEF IdsCounted
  <2> QED  BY <2>1, OkSaid
<1>3. OncePlus("billing_ledger", << >>, found.billing)
  <2>1. Counted(files, "billing_ledger", issued["billing_ledger"], << >>, found.billing)
    BY <1>1 DEF IdsCounted
  <2> QED  BY <2>1, OkSaid
<1>4. OncePlus("watchlist_adds", << >>, << >>)
  <2>1. Counted(files, "watchlist_adds", issued["watchlist_adds"], << >>, << >>)
    BY <1>1 DEF IdsCounted
  <2> QED  BY <2>1, OkSaid
<1>5. OncePlus("signup_funnel", << >>, found.signup)
  <2>1. Counted(files, "signup_funnel", issued["signup_funnel"], << >>, found.signup)
    BY <1>1 DEF IdsCounted
  <2> QED  BY <2>1, OkSaid
<1>6. ASSUME NEW name \in FilesOf("playback_sessions"), name[2] = "part", NEW k \in DOMAIN files[name]
      PROVE  LET behind == name[3] - files[name][k].batch
             IN  /\ name[3] <= LastPlayback
                 /\ behind = 0 \/ behind >= config.delay_batches_min \/ name[3] = LastPlayback
                 /\ behind <= config.delay_batches_max
  <2>1. name \in FilesIn(files, "playback_sessions")
    BY DEF FilesOf, FilesIn
  <2> QED  BY <1>1, <1>6, <2>1 DEF FilesFit, Landed
<1>7. /\ OncePlus("playback_sessions", Ids(HeldBack), << >>)
      /\ OncePlus("billing_ledger", << >>, found.billing)
      /\ OncePlus("watchlist_adds", << >>, << >>)
      /\ OncePlus("signup_funnel", << >>, found.signup)
      /\ \A name \in FilesOf("playback_sessions") : name[2] = "part" =>
            \A k \in DOMAIN files[name] :
                LET behind == name[3] - files[name][k].batch
                IN  /\ name[3] <= LastPlayback
                    /\ behind = 0 \/ behind >= config.delay_batches_min \/ name[3] = LastPlayback
                    /\ behind <= config.delay_batches_max
  BY <1>2, <1>3, <1>4, <1>5, <1>6
<1> QED  BY <1>7 DEF RowsConserved, OncePlus

(* Every session, in a file or held back.                                  *)
LEMMA SessionSaid ==
    ASSUME GeneratorInv, NEW s \in Sessions
    PROVE  SessionFine(config, lives, issued["playback_sessions"], found.malformed, s)
<1>1. SessionsFine
  BY DEF GeneratorInv
<1>2. Rows("playback_sessions") = RowsIn(files, "playback_sessions")
  BY DEF Rows, RowsIn, Places, FilesOf, PlacesIn, FilesIn, RowAt, RowIn
<1>3. CASE s \in Rows("playback_sessions")
  BY <1>1, <1>2, <1>3 DEF SessionsFine
<1>4. CASE s \in ToSet(HeldBack)
  BY <1>1, <1>4 DEF SessionsFine, HeldBack, ToSet
<1> QED  BY <1>3, <1>4 DEF Sessions

LEMMA CatalogFirst ==
    ASSUME config \in RunConfigs, Streams, NEW second \in Int, config.launch <= second
    PROVE  \A i \in DOMAIN titles : Head(titles[i]) < Ticks(second)
<1> DEFINE launch == config.launch
           early == launch - config.catalog_seed_buffer
<1>1. launch \in Int /\ early \in Int /\ early < second
  <2> DEFINE buffer == config.catalog_seed_buffer
  <2>1. launch \in Int /\ buffer \in Nat /\ buffer > 0 /\ launch <= second
    BY ConfigIs
  <2> HIDE DEF launch, buffer
  <2>2. launch - buffer \in Int /\ launch - buffer < second
    BY <2>1
  <2> QED  BY <2>1, <2>2 DEF buffer
<1> HIDE DEF early
<1>2. Ticks(early) \in Int /\ Ticks(second) \in Int /\ Ticks(early) < Ticks(second)
  BY <1>1, TicksInt, TicksOrder
<1>3. ASSUME NEW i \in DOMAIN titles PROVE Head(titles[i]) < Ticks(second)
  <2> DEFINE h == Head(titles[i])
             a == Ticks(early)
             b == Ticks(second)
  <2>1. h \in Int /\ h <= a
    BY DEF Streams, early
  <2>2. a \in Int /\ b \in Int /\ a < b
    BY <1>2
  <2> HIDE DEF h, a, b
  <2>3. h < b
    BY <2>1, <2>2
  <2> QED  BY <2>3 DEF h, b
<1> QED  BY <1>3

LEMMA LifetimesSaid == GeneratorInv => FactsInsideLifetimes
<1> SUFFICES ASSUME GeneratorInv PROVE FactsInsideLifetimes
  OBVIOUS
<1>1. Streams /\ EventsFine /\ config \in RunConfigs
  BY DEF GeneratorInv, Progress
<1> DEFINE Inside(sub, second) ==
               /\ Lower(lives[sub]) <= second /\ second <= config.now
               /\ lives[sub].role = "hard" => Ticks(second) <= HardDeleteAt(lives[sub])
           AfterCatalog(second) == \A i \in DOMAIN titles : Head(titles[i]) < Ticks(second)
<1>2. ASSUME NEW s \in Sessions
      PROVE  /\ AfterCatalog(s.started)
             /\ Inside(s.sub, s.started) \/ (s.started > config.now /\ lives[s.sub].role # "hard")
  <2>1. SessionFine(config, lives, issued["playback_sessions"], found.malformed, s)
    BY SessionSaid
  <2>2. s.started \in Int /\ config.launch <= s.started
    BY <2>1 DEF SessionFine, SessionRows
  <2>3. AfterCatalog(s.started)
    <3> DEFINE second == s.started
    <3>1. second \in Int /\ config.launch <= second
      BY <2>2
    <3> HIDE DEF second
    <3>2. \A i \in DOMAIN titles : Head(titles[i]) < Ticks(second)
      BY <1>1, <3>1, CatalogFirst
    <3> QED  BY <3>2 DEF second
  <2> QED  BY <2>1, <2>3 DEF SessionFine, InsideLife
<1>3. ASSUME NEW fact \in {"billing_ledger", "watchlist_adds"}, NEW e \in Rows(fact)
      PROVE  Inside(e.sub, e.at) /\ AfterCatalog(e.at)
  <2>1. Rows(fact) = RowsIn(files, fact)
    BY DEF Rows, RowsIn, Places, FilesOf, PlacesIn, FilesIn, RowAt, RowIn
  <2>2. EventFine(config, lives, e)
    BY <1>1, <2>1 DEF EventsFine
  <2>3. e.at \in Int /\ e.sub \in DOMAIN lives /\ InsideLife(config, lives[e.sub], e.at)
    BY <2>2 DEF EventFine, EventRows
  <2>4. AfterCatalog(e.at)
    <3> DEFINE second == e.at
               life == lives[e.sub]
               low == Lower(life)
               launch == config.launch
    <3>1. low \in Int /\ launch \in Int /\ launch <= low
      <4>1. LifeIs(config, life)
        BY <1>1, <2>3, StreamsSay
      <4> HIDE DEF life
      <4> QED  BY <1>1, <4>1, ConfigIs, LifeSeconds
    <3>2. low <= second /\ second \in Int
      BY <2>3 DEF InsideLife
    <3> HIDE DEF second, low, launch
    <3>3. launch <= second
      BY <3>1, <3>2
    <3>4. config.launch <= second
      BY <3>3 DEF launch
    <3>5. \A i \in DOMAIN titles : Head(titles[i]) < Ticks(second)
      BY <1>1, <3>2, <3>4, CatalogFirst
    <3> QED  BY <3>5 DEF second
  <2> QED  BY <2>3, <2>4 DEF InsideLife
<1> HIDE DEF Inside, AfterCatalog
<1>4. /\ \A s \in Sessions :
            /\ AfterCatalog(s.started)
            /\ Inside(s.sub, s.started) \/ (s.started > config.now /\ lives[s.sub].role # "hard")
      /\ \A b \in Rows("billing_ledger") : Inside(b.sub, b.at)
      /\ \A w \in Rows("watchlist_adds") : Inside(w.sub, w.at) /\ AfterCatalog(w.at)
  BY <1>2, <1>3
<1> QED  BY <1>4 DEF FactsInsideLifetimes, Inside, AfterCatalog

LEMMA GateSaid == GeneratorInv => GateMatchesManifest
<1> SUFFICES ASSUME GeneratorInv PROVE GateMatchesManifest
  OBVIOUS
<1> DEFINE now == config.now
<1>1. now \in Int
  BY ConfigIs DEF GeneratorInv, Progress
<1>2. ASSUME NEW s \in Sessions
      PROVE  /\ Malformed(s, now) <=> Kinds(found.malformed, s.id) # {}
             /\ Rejected(s, now) = Kinds(found.malformed, s.id)
  <2>1. SessionFine(config, lives, issued["playback_sessions"], found.malformed, s)
    BY SessionSaid
  <2>2. Rejected(s, now) = Kinds(found.malformed, s.id)
    BY <2>1 DEF SessionFine
  <2>3. s.duration \in Int /\ s.ended \in Int /\ s.started \in Int
    BY <2>1 DEF SessionFine, SessionRows
  <2> HIDE DEF now
  <2>4. Malformed(s, now) <=> Rejected(s, now) # {}
    BY <1>1, <2>3, RejectedIs
  <2> QED  BY <2>2, <2>4
<1> QED  BY <1>2 DEF GateMatchesManifest, Kinds, Rejected

LEMMA GapSaid == GeneratorInv => TargetsInsideTheirGap
BY DEF GeneratorInv, TargetsFine, TargetFine, InGap, TargetsInsideTheirGap

(***************************************************************************)
(* The checks of an output that holds all the facts.                       *)
(***************************************************************************)
LEMMA TwoOf ==
    ASSUME NEW S, IsFiniteSet(S), Cardinality(S) \in Nat, Cardinality(S) >= 2
    PROVE  \E p, q \in S : p # q
<1> SUFFICES ASSUME \A p, q \in S : p = q PROVE FALSE
  OBVIOUS
<1> DEFINE n == Cardinality(S)
<1>1. S # {}
  <2> SUFFICES ASSUME S = {} PROVE FALSE
    OBVIOUS
  <2>1. n = 0
    BY FS_EmptySet
  <2>2. n \in Nat /\ n >= 2
    OBVIOUS
  <2> HIDE DEF n
  <2> QED  BY <2>1, <2>2
<1>2. PICK p \in S : S = {p}
  BY <1>1
<1>3. n = 1
  BY <1>2, FS_Singleton
<1>4. n \in Nat /\ n >= 2
  OBVIOUS
<1> HIDE DEF n
<1> QED  BY <1>3, <1>4

LEMMA DuplicateSaid ==
    ASSUME NEW fact, NEW n, NEW again, Counted(files, fact, n, << >>, again), again # << >>
    PROVE  \E p, q \in Places(fact) : p # q /\ RowAt(p).id = RowAt(q).id
<1>1. again \in Seq(Nat) /\ n \in Nat
  BY DEF Counted
<1>2. 1 \in DOMAIN again
  BY <1>1
<1> DEFINE id == again[1]
           S == IdAt(files, fact, id)
           a == Times(again, id)
           c == Cardinality(S)
<1>3. id \in 0..n - 1
  BY <1>2, CountedSays
<1>4. IsFiniteSet(S) /\ c \in Nat /\ a \in Nat /\ c + Times(<< >>, id) = 1 + a
  <2> HIDE DEF id
  <2> QED  BY <1>3, CountedSays
<1>5. a # 0
  <2> SUFFICES ASSUME a = 0 PROVE FALSE
    OBVIOUS
  <2>1. \A v : Times(again, v) = 0 <=> \A k \in DOMAIN again : again[k] # v
    BY <1>1, TimesOf
  <2> QED  BY <1>2, <2>1
<1>6. Times(<< >>, id) = 0
  BY NoTimes
<1>7. c >= 2
  <2> HIDE DEF a, c, id
  <2> QED  BY <1>4, <1>5, <1>6
<1> HIDE DEF S
<1>8. PICK p \in S, q \in S : p # q
  BY <1>4, <1>7, TwoOf
<1>9. p \in PlacesIn(files, fact) /\ q \in PlacesIn(files, fact)
      /\ RowIn(files, p).id = id /\ RowIn(files, q).id = id
  BY DEF S, IdAt
<1>10. Places(fact) = PlacesIn(files, fact) /\ \A r : RowAt(r) = RowIn(files, r)
  BY DEF Places, FilesOf, PlacesIn, FilesIn, RowAt, RowIn
<1> QED  BY <1>8, <1>9, <1>10

LEMMA ChecksSaid == GeneratorInv => CertainChecksPass
<1> SUFFICES ASSUME GeneratorInv, stage \in {"manifests", "done"} PROVE
        /\ MidstreamCheck
        /\ DuplicateCheck("billing", "billing_ledger") /\ DuplicateCheck("signup", "signup_funnel")
        /\ SameDayCheck \/ \A i \in manifests.same_day : \E k \in DOMAIN lives[i].changes :
                              k > 1 /\ lives[i].changes[k] = DayStart(lives[i].changes[k - 1]) + Day
        /\ NumBatches("playback_sessions") >= 3 => DriftCheck
        /\ SoftDeleteCheck
        /\ HardDeleteCheck
  BY DEF CertainChecksPass
<1>1. /\ Progress /\ Streams /\ Listings /\ SessionsFine /\ TargetsFine /\ IdsCounted
      /\ SoftDeletesWritten /\ config \in RunConfigs
  BY DEF GeneratorInv, Progress
<1>2. /\ \A role \in Pathologies : manifests[role] = Having(lives, role)
      /\ DOMAIN manifests = Pathologies \cup (IF stage = "done" THEN DOMAIN found ELSE {})
      /\ stage = "done" => \A key \in DOMAIN found : manifests[key] = found[key]
      /\ stage \in Lived
  BY <1>1 DEF Listings, Lived
<1>3. DOMAIN found = {"malformed", "midstream", "billing", "signup"}
  BY <1>1 DEF Progress, FoundRows
<1>4. \A fact : Rows(fact) = RowsIn(files, fact)
  BY DEF Rows, RowsIn, Places, FilesOf, PlacesIn, FilesIn, RowAt, RowIn
<1>5. ASSUME NEW key \in {"midstream", "billing", "signup"}, key \in DOMAIN manifests
      PROVE  manifests[key] = found[key]
  BY <1>2, <1>3, <1>5 DEF Pathologies
<1>6. MidstreamCheck
  <2> SUFFICES ASSUME Listed("midstream", << >>), NEW k \in DOMAIN manifests.midstream
               PROVE  LET t == manifests.midstream[k]
                      IN  \/ \E r \in Rows("playback_sessions") : r.id = t.id /\ r.started = t.at
                          \/ \E r \in Rows("billing_ledger") : r.id = t.id /\ r.at = t.at
    BY DEF MidstreamCheck
  <2>1. manifests.midstream = found.midstream
    BY <1>5 DEF Listed
  <2>2. TargetIn(files, found.midstream[k])
    BY <1>1, <2>1 DEF TargetsFine
  <2> QED  BY <1>4, <2>1, <2>2 DEF TargetIn
<1>7. DuplicateCheck("billing", "billing_ledger")
  <2> SUFFICES ASSUME Listed("billing", << >>)
               PROVE  \E p, q \in Places("billing_ledger") : p # q /\ RowAt(p).id = RowAt(q).id
    BY DEF DuplicateCheck
  <2>1. found.billing # << >>
    BY <1>5 DEF Listed
  <2> DEFINE again == found.billing
             n == issued["billing_ledger"]
             fact == "billing_ledger"
  <2>2. Counted(files, fact, n, << >>, again) /\ again # << >>
    BY <1>1, <2>1 DEF IdsCounted
  <2> HIDE DEF again, n, fact
  <2>3. \E p, q \in Places(fact) : p # q /\ RowAt(p).id = RowAt(q).id
    BY <2>2, DuplicateSaid
  <2> QED  BY <2>3 DEF fact
<1>8. DuplicateCheck("signup", "signup_funnel")
  <2> SUFFICES ASSUME Listed("signup", << >>)
               PROVE  \E p, q \in Places("signup_funnel") : p # q /\ RowAt(p).id = RowAt(q).id
    BY DEF DuplicateCheck
  <2>1. found.signup # << >>
    BY <1>5 DEF Listed
  <2> DEFINE again == found.signup
             n == issued["signup_funnel"]
             fact == "signup_funnel"
  <2>2. Counted(files, fact, n, << >>, again) /\ again # << >>
    BY <1>1, <2>1 DEF IdsCounted
  <2> HIDE DEF again, n, fact
  <2>3. \E p, q \in Places(fact) : p # q /\ RowAt(p).id = RowAt(q).id
    BY <2>2, DuplicateSaid
  <2> QED  BY <2>3 DEF fact
<1>9. ASSUME NEW i \in manifests.same_day
      PROVE  \/ \E j, k \in DOMAIN lives[i].changes :
                   j # k /\ DayStart(lives[i].changes[j]) = DayStart(lives[i].changes[k])
             \/ \E k \in DOMAIN lives[i].changes :
                   k > 1 /\ lives[i].changes[k] = DayStart(lives[i].changes[k - 1]) + Day
  <2> DEFINE ch == lives[i].changes
  <2>1. i \in DOMAIN lives /\ lives[i].role = "same_day"
    BY <1>2 DEF Pathologies, Having
  <2>2. OneDay(ch) /\ ch \in Seq(Int)
    BY <1>1, <2>1, StreamsSay DEF LifeIs
  <2> HIDE DEF ch
  <2>3. DOMAIN ch = 1..Len(ch) /\ Len(ch) \in Nat
    BY <2>2
  <2>4. PICK j \in 1..Len(ch), k \in 1..Len(ch) :
           /\ j # k
           /\ \/ DayStart(ch[j]) = DayStart(ch[k])
              \/ k = j + 1 /\ ch[k] = DayStart(ch[j]) + Day
    BY <2>2 DEF OneDay
  <2>5. k = j + 1 => k > 1 /\ k - 1 = j
    BY <2>3
  <2>6. \/ \E a, b \in DOMAIN ch : a # b /\ DayStart(ch[a]) = DayStart(ch[b])
        \/ \E b \in DOMAIN ch : b > 1 /\ ch[b] = DayStart(ch[b - 1]) + Day
    BY <2>3, <2>4, <2>5
  <2> QED  BY <2>6 DEF ch
<1>10. SameDayCheck \/ \A i \in manifests.same_day : \E k \in DOMAIN lives[i].changes :
                          k > 1 /\ lives[i].changes[k] = DayStart(lives[i].changes[k - 1]) + Day
  BY <1>9 DEF SameDayCheck
<1>11. NumBatches("playback_sessions") >= 3 => DriftCheck
  BY <1>1, CutoffIs DEF DriftCheck
<1>12. SoftDeleteCheck
  <2> SUFFICES ASSUME Listed("soft", {})
               PROVE  \E e \in Rows("subscriber_events") : e.sub \in manifests.soft /\ e.deletes
    BY DEF SoftDeleteCheck
  <2>1. manifests.soft = Having(lives, "soft") /\ manifests.soft # {}
    BY <1>2 DEF Listed, Pathologies
  <2>2. PICK i : i \in Having(lives, "soft")
    BY <2>1
  <2> QED  BY <1>1, <1>2, <1>4, <2>1, <2>2 DEF SoftDeletesWritten
<1>13. HardDeleteCheck
  <2> SUFFICES ASSUME NEW r \in Rows("playback_sessions"), r.sub \in manifests.hard
               PROVE  Ticks(r.started) <= HardDeleteAt(lives[r.sub])
    BY DEF HardDeleteCheck
  <2>1. lives[r.sub].role = "hard"
    BY <1>2 DEF Pathologies, Having
  <2>2. SessionFine(config, lives, issued["playback_sessions"], found.malformed, r)
    BY <1>1, <1>4 DEF SessionsFine
  <2> QED  BY <2>1, <2>2 DEF SessionFine, InsideLife
<1> QED  BY <1>6, <1>7, <1>8, <1>10, <1>11, <1>12, <1>13

(***************************************************************************)
(* What holds of every run, for every configuration config.py can give.    *)
(***************************************************************************)
(* Types: what run() is producing, which manifests there are, which batch  *)
(* a row held back is to land in, and the quality column a file's rows     *)
(* have, the delayed ones included (playback.py:generate_playback_events). *)
THEOREM GeneratorTypeCorrect == Spec => []GenTypeOK
BY GeneratorInvariant, TypeSaid, PTL

(* No row is lost or made up: every id a fact used up is in its files once *)
(* or held back, and once more for each time the manifest of duplicates    *)
(* names it, and a row held back lands within the delays of config.py.     *)
THEOREM NoRowLost == Spec => []RowsConserved
BY GeneratorInvariant, ConservedSaid, PTL

(* No playback session, billing transaction or watchlist entry of a        *)
(* subscriber lies before its signup, after its hard delete or after now,  *)
(* and no session or watchlist entry before the catalog. The milestones of *)
(* the signup funnel are not among them: nothing cuts those off.           *)
THEOREM FactsInLifetimes == Spec => []FactsInsideLifetimes
BY GeneratorInvariant, LifetimesSaid, PTL

(* The quality gate rejects the sessions the manifest of malformed rows    *)
(* names, each for the reason it gives, and no other.                      *)
THEOREM GateAgreesWithManifest == Spec => []GateMatchesManifest
BY GeneratorInvariant, GateSaid, PTL

(* A constructed fact lies strictly inside a gap of ten seconds or more    *)
(* between two versions of its subscriber that has a newer one still. Only *)
(* same-day changes leave a shorter gap or one that runs backwards; the    *)
(* fact then lies in the signup's second or at most eight seconds later.   *)
THEOREM TargetsInTheirGap == Spec => []TargetsInsideTheirGap
BY GeneratorInvariant, GapSaid, PTL

(* The checks of sanity_check.py that need no luck pass on every output    *)
(* that holds all the facts.                                               *)
THEOREM ChecksPass == Spec => []CertainChecksPass
BY GeneratorInvariant, ChecksSaid, PTL
=============================================================================
