--------------------------- MODULE Nessie_proofs ---------------------------
(***************************************************************************)
(* Facts about the operators of Nessie, for every set of tables, contents  *)
(* and writers.                                                            *)
(***************************************************************************)
EXTENDS Nessie, Integers, TLAPS, SequenceTheorems, WellFoundedInduction

(* A nonempty bounded set of positive integers has a largest element.      *)
LEMMA LargestIndex ==
    ASSUME NEW n \in Nat, NEW S \in SUBSET (1..n), S # {}
    PROVE  \E i \in S : \A j \in S : j <= i
<1> DEFINE T == {k \in Nat : n - k \in S}
<1>1. PICK e \in S : TRUE
  OBVIOUS
<1>2. T \subseteq Nat /\ T # {}
  <2>1. n - e \in T
    BY <1>1
  <2> QED  BY <2>1
<1>3. PICK m \in T : \A y \in T : ~ (<< y, m >> \in OpToRel(<, Nat))
  BY <1>2, NatLessThanWellFounded, WFMin
<1>4. \A y \in T : ~ (y < m)
  BY <1>3 DEF OpToRel
<1>5. \A j \in S : j <= n - m
  <2> TAKE j \in S
  <2>1. n - j \in T
    OBVIOUS
  <2>2. ~ (n - j < m)
    BY <2>1, <1>4
  <2>3. m \in Nat /\ n - m \in S /\ j \in Int
    OBVIOUS
  <2> HIDE DEF T
  <2> QED  BY <2>2, <2>3
<1>6. n - m \in S
  OBVIOUS
<1> QED  BY <1>5, <1>6

(* A commit replaces some of the tables by contents.                       *)
LEMMA CommitPuts ==
    ASSUME NEW c \in Commit
    PROVE  /\ c.by \in Writers
           /\ DOMAIN c.puts \subseteq Tables
           /\ c.puts \in [DOMAIN c.puts -> Values]
BY DEF Commit

LEMMA PutsCommit ==
    ASSUME NEW w \in Writers, NEW S \in SUBSET Tables, NEW p \in [S -> Values]
    PROVE  [by |-> w, puts |-> p] \in Commit
BY DEF Commit

(* What is put between two positions of a history are tables.              *)
LEMMA TablesPutType ==
    ASSUME NEW h \in Hash, NEW m \in Nat \ {0}
    PROVE  TablesPut(h, m, Len(h)) \subseteq Tables
<1> SUFFICES ASSUME NEW t \in TablesPut(h, m, Len(h)) PROVE t \in Tables
  OBVIOUS
<1>1. PICK i \in m..Len(h) : t \in DOMAIN h[i].puts
  BY DEF TablesPut
<1>2. i \in 1..Len(h) /\ h[i] \in Commit
  BY <1>1, ElementOfSeq DEF Hash
<1> QED  BY <1>1, <1>2, CommitPuts

(* There is only one last commit that put a table.                         *)
LEMMA LastPutIs ==
    ASSUME NEW h \in Hash, NEW t, NEW i \in 1..Len(h), t \in DOMAIN h[i].puts,
           \A j \in (i + 1)..Len(h) : t \notin DOMAIN h[j].puts
    PROVE  LastPut(h, t) = i
<1>1. Len(h) \in Nat
  BY LenProperties DEF Hash
<1>2. ASSUME NEW k \in 1..Len(h), t \in DOMAIN h[k].puts,
             \A j \in (k + 1)..Len(h) : t \notin DOMAIN h[j].puts
      PROVE  k = i
  <2>1. ~ (k < i)
    BY <1>1, <1>2
  <2>2. ~ (i < k)
    BY <1>1, <1>2
  <2> QED  BY <1>1, <2>1, <2>2
<1> QED  BY <1>2 DEF LastPut

(* The last commit that put a table exists whenever some commit did.       *)
LEMMA LastPutExists ==
    ASSUME NEW h \in Hash, NEW t \in TablesPut(h, 1, Len(h))
    PROVE  /\ LastPut(h, t) \in 1..Len(h)
           /\ t \in DOMAIN h[LastPut(h, t)].puts
           /\ \A j \in (LastPut(h, t) + 1)..Len(h) : t \notin DOMAIN h[j].puts
<1> DEFINE S == {i \in 1..Len(h) : t \in DOMAIN h[i].puts}
<1>1. Len(h) \in Nat
  BY LenProperties DEF Hash
<1>2. S # {}
  BY DEF TablesPut
<1>3. PICK i \in S : \A j \in S : j <= i
  BY <1>1, <1>2, LargestIndex
<1>4. \A j \in (i + 1)..Len(h) : t \notin DOMAIN h[j].puts
  BY <1>1, <1>3
<1>5. LastPut(h, t) = i
  BY <1>3, <1>4, LastPutIs
<1> QED  BY <1>3, <1>4, <1>5

(* The content a merge moves: contents for tables.                         *)
LEMMA GainedType ==
    ASSUME NEW h \in Hash, NEW n \in Nat
    PROVE  /\ DOMAIN Gained(h, n) = TablesPut(h, n + 1, Len(h))
           /\ Gained(h, n) \in [TablesPut(h, n + 1, Len(h)) -> Values]
           /\ TablesPut(h, n + 1, Len(h)) \subseteq Tables
<1> DEFINE put == TablesPut(h, n + 1, Len(h))
<1>1. Len(h) \in Nat
  BY LenProperties DEF Hash
<1>2. put \subseteq TablesPut(h, 1, Len(h))
  BY <1>1 DEF TablesPut
<1>3. \A t \in put : Content(h)[t] \in Values
  <2> TAKE t \in put
  <2>1. t \in TablesPut(h, 1, Len(h))
    BY <1>2
  <2>2. /\ LastPut(h, t) \in 1..Len(h)
        /\ t \in DOMAIN h[LastPut(h, t)].puts
    BY <2>1, LastPutExists
  <2>3. h[LastPut(h, t)] \in Commit
    BY <2>2, ElementOfSeq DEF Hash
  <2>4. h[LastPut(h, t)].puts[t] \in Values
    BY <2>2, <2>3, CommitPuts
  <2> QED  BY <2>1, <2>4 DEF Content
<1>4. put \subseteq Tables
  BY TablesPutType, n + 1 \in Nat \ {0}
<1> QED  BY <1>3, <1>4 DEF Gained

(* Two histories that agree up to n and not further share exactly n.       *)
LEMMA CommonLenIs ==
    ASSUME NEW a \in Hash, NEW b \in Hash, NEW n \in Nat,
           AgreeUpTo(a, b, n), ~ AgreeUpTo(a, b, n + 1)
    PROVE  CommonLen(a, b) = n
<1>1. Len(a) \in Nat /\ Len(b) \in Nat
  BY LenProperties DEF Hash
<1>2. n \in 0..Len(a)
  BY <1>1 DEF AgreeUpTo
<1>3. ASSUME NEW m \in 0..Len(a), AgreeUpTo(a, b, m), ~ AgreeUpTo(a, b, m + 1)
      PROVE  m = n
  <2>1. CASE m < n
    BY <1>1, <1>3, <2>1 DEF AgreeUpTo
  <2>2. CASE n < m
    BY <1>1, <1>3, <2>2 DEF AgreeUpTo
  <2> QED  BY <1>1, <2>1, <2>2
<1> QED  BY <1>2, <1>3 DEF CommonLen

(* Any two histories share some number of commits.                         *)
LEMMA CommonLenType ==
    ASSUME NEW a \in Hash, NEW b \in Hash
    PROVE  CommonLen(a, b) \in Nat
<1>1. Len(a) \in Nat /\ Len(b) \in Nat
  BY LenProperties DEF Hash
<1> DEFINE S == {k \in 1..(Len(a) + 1) : AgreeUpTo(a, b, k - 1)}
<1>2. 1 \in S
  BY <1>1 DEF AgreeUpTo
<1>3. PICK i \in S : \A j \in S : j <= i
  <2>1. Len(a) + 1 \in Nat /\ S \in SUBSET (1..(Len(a) + 1)) /\ S # {}
    BY <1>1, <1>2
  <2> HIDE DEF S
  <2> QED  BY <2>1, LargestIndex
<1>4. ~ AgreeUpTo(a, b, i)
  <2> SUFFICES ASSUME AgreeUpTo(a, b, i) PROVE FALSE
    OBVIOUS
  <2>1. i + 1 \in 1..(Len(a) + 1) /\ (i + 1) - 1 = i
    BY <1>1 DEF AgreeUpTo
  <2>2. i + 1 \in S
    BY <2>1
  <2>3. i \in Int
    OBVIOUS
  <2>4. i + 1 <= i
    BY <1>3, <2>2
  <2> QED  BY <2>3, <2>4
<1>5. i - 1 \in Nat /\ AgreeUpTo(a, b, i - 1) /\ ~ AgreeUpTo(a, b, (i - 1) + 1)
  BY <1>3, <1>4
<1> QED  BY <1>5, CommonLenIs

(* The outcomes of a call: it succeeds only when the server accepted it,   *)
(* and the reference table is the old one or, if accepted, the new one.    *)
LEMMA Outcome ==
    ASSUME NEW accepted \in BOOLEAN, NEW before, NEW after,
           NEW mayFail, NEW o \in CallOutcomes(mayFail, accepted, before, after)
    PROVE  /\ o.reply \in {"ok", "error", "raw"}
           /\ o.refs \in {before, after}
           /\ o.refs = after /\ o.refs # before => accepted
           /\ o.reply = "ok" => accepted /\ o.refs = after
BY DEF CallOutcomes

(* Extending a history keeps what was there.                               *)
LEMMA AppendAgrees ==
    ASSUME NEW a \in Hash, NEW h \in Hash, NEW c \in Commit,
           AgreeUpTo(a, h, Len(a))
    PROVE  /\ Append(h, c) \in Hash
           /\ Len(Append(h, c)) = Len(h) + 1
           /\ AgreeUpTo(a, Append(h, c), Len(a))
<1>1. Len(a) \in Nat /\ Len(h) \in Nat
  BY LenProperties DEF Hash
<1> QED  BY <1>1, AppendProperties DEF Hash, AgreeUpTo

(* One more commit adds exactly its tables.                                *)
LEMMA TablesPutAppend ==
    ASSUME NEW h \in Hash, NEW c \in Commit, NEW m \in Nat \ {0}, m <= Len(h) + 1
    PROVE  TablesPut(Append(h, c), m, Len(Append(h, c)))
             = TablesPut(h, m, Len(h)) \cup DOMAIN c.puts
<1> DEFINE g == Append(h, c)
<1>1. Len(h) \in Nat
  BY LenProperties DEF Hash
<1>2. /\ Len(g) = Len(h) + 1
      /\ \A i \in 1..Len(h) : g[i] = h[i]
      /\ g[Len(h) + 1] = c
  BY AppendProperties DEF Hash
<1> HIDE DEF g
<1>3. ASSUME NEW t
      PROVE  (\E i \in m..Len(g) : t \in DOMAIN g[i].puts)
               <=> (\E i \in m..Len(h) : t \in DOMAIN h[i].puts) \/ t \in DOMAIN c.puts
  <2>1. ASSUME NEW i \in m..Len(g), t \in DOMAIN g[i].puts
        PROVE  (\E j \in m..Len(h) : t \in DOMAIN h[j].puts) \/ t \in DOMAIN c.puts
    <3>1. i \in m..Len(h) \/ i = Len(h) + 1
      BY <1>1, <1>2
    <3> QED  BY <1>1, <1>2, <2>1, <3>1
  <2>2. ASSUME NEW i \in m..Len(h), t \in DOMAIN h[i].puts
        PROVE  \E j \in m..Len(g) : t \in DOMAIN g[j].puts
    <3>1. i \in m..Len(g) /\ i \in 1..Len(h)
      BY <1>1, <1>2
    <3> QED  BY <1>2, <2>2, <3>1
  <2>3. ASSUME t \in DOMAIN c.puts
        PROVE  \E j \in m..Len(g) : t \in DOMAIN g[j].puts
    <3>1. Len(h) + 1 \in m..Len(g)
      BY <1>1, <1>2
    <3> QED  BY <1>2, <2>3, <3>1
  <2> QED  BY <2>1, <2>2, <2>3
<1> QED  BY <1>3 DEF TablesPut, g

(* What a history puts is what one it extends put, and what came on top.   *)
LEMMA TablesPutSplit ==
    ASSUME NEW b \in Hash, NEW h \in Hash, AgreeUpTo(b, h, Len(b))
    PROVE  TablesPut(h, 1, Len(h)) = TablesPut(b, 1, Len(b)) \cup TablesPut(h, Len(b) + 1, Len(h))
<1>1. Len(b) \in Nat /\ Len(h) \in Nat /\ Len(b) <= Len(h)
  BY LenProperties DEF Hash, AgreeUpTo
<1>2. \A i \in 1..Len(b) : b[i] = h[i]
  BY DEF AgreeUpTo
<1>3. ASSUME NEW t
      PROVE  (\E i \in 1..Len(h) : t \in DOMAIN h[i].puts)
               <=> \/ \E i \in 1..Len(b) : t \in DOMAIN b[i].puts
                   \/ \E i \in (Len(b) + 1)..Len(h) : t \in DOMAIN h[i].puts
  <2>1. \A i : i \in 1..Len(h) <=> i \in 1..Len(b) \/ i \in (Len(b) + 1)..Len(h)
    BY <1>1
  <2> QED  BY <1>2, <2>1
<1> QED  BY <1>3 DEF TablesPut
=============================================================================
