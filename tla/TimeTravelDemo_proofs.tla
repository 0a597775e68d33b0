------------------------ MODULE TimeTravelDemo_proofs ------------------------
(***************************************************************************)
(* The demonstration never moves main: for any number of invocations, one  *)
(* after the other or overlapping, killed or failing anywhere, and any     *)
(* writes to main next to them.                                            *)
(***************************************************************************)
EXTENDS TimeTravelDemo, Nessie_proofs

LEMMA NotMain == BRANCH_NAME # "main"
BY DEF BRANCH_NAME

MainThere == "main" \in DOMAIN refs

(* A statement changes no reference but the demonstration's own branch.    *)
OnlyBranch ==
    \/ UNCHANGED refs
    \/ \E h : refs' = SetRef(refs, BRANCH_NAME, h)
    \/ refs' = DropRef(refs, BRANCH_NAME)

LEMMA OnlyBranchKeepsMain ==
    ASSUME MainThere, OnlyBranch
    PROVE  MainThere' /\ refs'["main"] = refs["main"]
BY NotMain DEF MainThere, OnlyBranch, SetRef, DropRef

LEMMA OutcomeRefs ==
    ASSUME NEW accepted, NEW before, NEW after,
           NEW out \in CallOutcomes(TRUE, accepted, before, after)
    PROVE  out.refs = before \/ out.refs = after
BY DEF CallOutcomes

LEMMA StepOnlyBranch ==
    ASSUME NEW r \in Runs, Start(r) \/ Step(r) \/ Abort(r)
    PROVE  OnlyBranch
<1>1. CASE Start(r) \/ Abort(r)
  BY <1>1 DEF Start, Abort, OnlyBranch
<1>2. ASSUME NEW label, NEW next, NEW name, NEW target,
             CreateCatalog(r, label, next, name, target)
      PROVE  OnlyBranch
  BY <1>2 DEF CreateCatalog, OnlyBranch
<1>3. ASSUME NEW label, NEW next, NEW name, DropCatalog(r, label, next, name)
      PROVE  OnlyBranch
  BY <1>3 DEF DropCatalog, OnlyBranch
<1>4. ASSUME NEW label, NEW next, NEW name, NEW key, Query(r, label, next, name, key)
      PROVE  OnlyBranch
  BY <1>4 DEF Query, OnlyBranch
<1>5. CASE ReadMain(r) \/ ReadGood(r) \/ ReadBad(r)
  BY <1>5 DEF ReadMain, ReadGood, ReadBad, ReadHash, OnlyBranch
<1>6. CASE FindLeftover(r) \/ HistoryAfter(r)
  BY <1>6 DEF FindLeftover, HistoryAfter, OnlyBranch
<1>7. CASE DeleteLeftover(r)
  <2>1. PICK out \in delete_reference(TRUE, refs, BRANCH_NAME, existing[r]) : refs' = out.refs
    BY <1>7 DEF DeleteLeftover
  <2> QED  BY <2>1, OutcomeRefs DEF delete_reference, OnlyBranch
<1>8. CASE CreateBranch(r)
  <2>1. PICK out \in create_branch(TRUE, refs, BRANCH_NAME, main_ref[r]) : refs' = out.refs
    BY <1>8 DEF CreateBranch
  <2> QED  BY <2>1, OutcomeRefs DEF create_branch, OnlyBranch
<1>9. CASE Rollback(r)
  <2>1. PICK out \in assign_reference(TRUE, refs, BRANCH_NAME, hash_bad[r], hash_good[r]) :
           refs' = out.refs
    BY <1>9 DEF Rollback
  <2> QED  BY <2>1, OutcomeRefs DEF assign_reference, OnlyBranch
<1>10. CASE CreateSchema(r) \/ CreateTable(r)
  BY <1>10 DEF CreateSchema, CreateTable, Execute, Commit1, OnlyBranch
<1>11. ASSUME NEW label, NEW next, NEW batch, Insert(r, label, next, batch) PROVE OnlyBranch
  BY <1>11 DEF Insert, Execute, Commit1, OnlyBranch
<1> QED
  BY <1>1, <1>2, <1>3, <1>4, <1>5, <1>6, <1>7, <1>8, <1>9, <1>10, <1>11 DEF Step

LEMMA NextMainThere == MainThere /\ [Next]_vars => MainThere'
<1>1. ASSUME MainThere, DemoStep PROVE MainThere'
  BY <1>1, StepOnlyBranch, OnlyBranchKeepsMain DEF DemoStep
<1>2. ASSUME MainThere, DirectWrite PROVE MainThere'
  BY <1>2 DEF DirectWrite, MainThere, SetRef
<1> QED  BY <1>1, <1>2 DEF Next, AllEnded, vars, MainThere

(* "Everything this script does happens on a dedicated branch": no step of *)
(* any invocation moves main, or removes it.                               *)
THEOREM MainNeverMoves == Spec => MainUntouched
<1>1. Init => MainThere
  BY DEF Init, MainThere
<1>2. MainThere /\ [Next]_vars => (DemoStep => refs'["main"] = refs["main"])
  BY StepOnlyBranch, OnlyBranchKeepsMain DEF DemoStep
<1> QED  BY <1>1, <1>2, NextMainThere, PTL DEF Spec, MainUntouched

(***************************************************************************)
(* What histories say of the demonstration's table.                        *)
(***************************************************************************)
Plain(h) == \A i \in 1..Len(h) : Demo \notin DOMAIN h[i].puts
Wrote(h, S) ==
    \A i \in 1..Len(h) : Demo \in DOMAIN h[i].puts => h[i].puts[Demo] \in S
Holds(h, content) == HasTable(h) /\ Content(h)[Demo] = content

(* A history up to the good batch, and one up to the bad batch; or one     *)
(* that does not know the table, because someone cut the branch anew.      *)
GoodHash(h) == Plain(h) \/ (Holds(h, <<Good>>) /\ Wrote(h, {<< >>, <<Good>>}))
BadHash(h) == Plain(h) \/ Holds(h, <<Good, Bad>>)

LEMMA HasTableIs ==
    ASSUME NEW h \in Hash
    PROVE  /\ HasTable(h) <=> Demo \in TablesPut(h, 1, Len(h))
           /\ HasTable(h) <=> ~ Plain(h)
BY DEF HasTable, Content, TablesPut, Plain

(* The content of the table is what one of the commits put.                *)
LEMMA ContentIsPut ==
    ASSUME NEW h \in Hash, HasTable(h)
    PROVE  \E i \in 1..Len(h) : /\ Demo \in DOMAIN h[i].puts
                                /\ Content(h)[Demo] = h[i].puts[Demo]
<1>1. Demo \in TablesPut(h, 1, Len(h))
  BY HasTableIs
<1>2. LastPut(h, Demo) \in 1..Len(h) /\ Demo \in DOMAIN h[LastPut(h, Demo)].puts
  BY <1>1, LastPutExists
<1> QED  BY <1>1, <1>2 DEF Content

(* A commit that puts the table decides its content.                       *)
LEMMA AppendContent ==
    ASSUME NEW h \in Hash, NEW c \in Commit, Demo \in DOMAIN c.puts
    PROVE  /\ Holds(Append(h, c), c.puts[Demo])
           /\ \A S : Wrote(h, S) /\ c.puts[Demo] \in S => Wrote(Append(h, c), S)
<1> DEFINE g == Append(h, c)
<1>1. /\ g \in Hash /\ Len(h) \in Nat /\ Len(g) = Len(h) + 1
      /\ \A i \in 1..Len(h) : g[i] = h[i]
      /\ g[Len(h) + 1] = c
  BY AppendProperties, LenProperties DEF Hash
<1> HIDE DEF g
<1>2. LastPut(g, Demo) = Len(g)
  <2>1. Len(g) \in 1..Len(g) /\ (Len(g) + 1)..Len(g) = {} /\ Demo \in DOMAIN g[Len(g)].puts
    BY <1>1
  <2> QED  BY <1>1, <2>1, LastPutIs
<1>3. Demo \in TablesPut(g, 1, Len(g))
  BY <1>1 DEF TablesPut
<1>4. Holds(g, c.puts[Demo])
  BY <1>1, <1>2, <1>3 DEF Holds, HasTable, Content
<1>5. ASSUME NEW S, Wrote(h, S), c.puts[Demo] \in S PROVE Wrote(g, S)
  BY <1>1, <1>5 DEF Wrote
<1> QED  BY <1>4, <1>5 DEF g

LEMMA AppendPlain ==
    ASSUME NEW h \in Hash, NEW c \in Commit, DOMAIN c.puts = {}, Plain(h)
    PROVE  Plain(Append(h, c))
BY AppendProperties, LenProperties DEF Hash, Plain

(* The commits of the script.                                              *)
LEMMA DemoCommits ==
    /\ Genesis \in Hash /\ Plain(Genesis)
    /\ \A w \in Writers : [by |-> w, puts |-> Nothing] \in Commit
    /\ \A w \in Writers, v \in Values : [by |-> w, puts |-> [t \in {Demo} |-> v]] \in Commit
<1>1. Genesis \in Hash /\ Plain(Genesis)
  BY EmptySeq DEF Genesis, Hash, Plain
<1>2. ASSUME NEW w \in Writers PROVE [by |-> w, puts |-> Nothing] \in Commit
  <2>1. Nothing \in [{} -> Values] /\ {} \in SUBSET Tables
    BY DEF Nothing
  <2> QED  BY <2>1, PutsCommit
<1>3. ASSUME NEW w \in Writers, NEW v \in Values
      PROVE  [by |-> w, puts |-> [t \in {Demo} |-> v]] \in Commit
  <2>1. [t \in {Demo} |-> v] \in [{Demo} -> Values] /\ {Demo} \in SUBSET Tables
    BY DemoAssumption
  <2> QED  BY <2>1, PutsCommit
<1> QED  BY <1>1, <1>2, <1>3

(***************************************************************************)
(* The live catalog is a lock.  CREATE CATALOG has no IF NOT EXISTS, so an *)
(* invocation that got past it is the only one to write to the branch until *)
(* it drops the catalog; one that ends before leaves it locked.  The others *)
(* can still delete the branch under it and cut it anew from main.         *)
(***************************************************************************)
Holding ==
    {"create_schema", "create_table", "insert_good", "read_good", "insert_bad", "read_bad",
     "create_asof", "query_asof", "query_before", "rollback", "query_after",
     "history_after", "drop_asof", "drop_live"}
RolledBack == {"query_after", "history_after", "drop_asof", "drop_live"}
BothRead == {"create_asof", "query_asof", "query_before", "rollback"}
AsofPinned == {"query_asof", "query_before", "rollback", "query_after", "history_after", "drop_asof"}

BranchAt(r, h) ==
    /\ pc[r] = "insert_good" => Plain(h) \/ (Holds(h, << >>) /\ Wrote(h, {<< >>}))
    /\ pc[r] \in {"read_good", "insert_bad"} => GoodHash(h)
    /\ pc[r] = "read_bad" => BadHash(h)
    /\ pc[r] \in BothRead => Plain(h) \/ h = hash_bad[r]
    /\ pc[r] \in RolledBack => Plain(h) \/ h = hash_good[r]

HolderOf(r) ==
    /\ LIVE_CATALOG \in DOMAIN catalogs
    /\ \A q \in Runs : pc[q] \in Holding => q = r
    /\ BRANCH_NAME \in DOMAIN refs => BranchAt(r, refs[BRANCH_NAME])
    /\ pc[r] \in {"insert_bad", "read_bad"} \cup BothRead \cup RolledBack => GoodHash(hash_good[r])
    /\ pc[r] \in BothRead \cup RolledBack => BadHash(hash_bad[r])
    /\ pc[r] \in {"rollback"} \cup RolledBack => HasTable(hash_bad[r])
    /\ pc[r] \in AsofPinned =>
          ASOF_CATALOG \in DOMAIN catalogs /\ catalogs[ASOF_CATALOG] = Pinned(hash_good[r])

HolderInv ==
    /\ Plain(refs["main"])
    /\ \A r \in Runs : Plain(main_ref[r])
    /\ \A r \in Runs : pc[r] \in Holding => HolderOf(r)

DemoInv == DemoTypeOK /\ HolderInv /\ EvidenceIsTrue

LEMMA InitDemo == Init => DemoInv
<1> SUFFICES ASSUME Init PROVE DemoInv
  OBVIOUS
<1>1. DemoTypeOK
  <2>1. /\ main_ref \in [Runs -> Hash] /\ existing \in [Runs -> Hash]
        /\ hash_good \in [Runs -> Hash] /\ hash_bad \in [Runs -> Hash]
    BY DemoCommits DEF Init
  <2>2. DOMAIN refs = {"main"} /\ refs["main"] = Genesis
    BY DEF Init, Genesis
  <2>3. \A n \in DOMAIN refs : refs[n] \in Hash
    BY <2>2, DemoCommits
  <2> QED  BY <2>1, <2>2, <2>3 DEF Init, DemoTypeOK, Nothing, Stopped
<1>2. HolderInv
  BY DemoCommits DEF Init, HolderInv, Holding, Genesis
<1>3. EvidenceIsTrue
  BY DEF Init, EvidenceIsTrue, Nothing
<1> QED  BY <1>1, <1>2, <1>3 DEF DemoInv

(* The histories an invocation can put its branch at.                      *)
LEMMA RefsStayTyped ==
    ASSUME DemoTypeOK, NEW h \in Hash,
           refs' \in {refs, SetRef(refs, BRANCH_NAME, h), DropRef(refs, BRANCH_NAME)}
    PROVE  /\ {"main"} \subseteq DOMAIN refs' /\ DOMAIN refs' \subseteq {"main", BRANCH_NAME}
           /\ \A n \in DOMAIN refs' : refs'[n] \in Hash
BY NotMain DEF DemoTypeOK, SetRef, DropRef

(***************************************************************************)
(* What one step does, apart from the counter: the part every proof below  *)
(* starts from.                                                            *)
(***************************************************************************)
(* An insert of the holder, given what its branch holds.                   *)
LEMMA InsertCommits ==
    ASSUME DemoTypeOK, NEW r \in Runs, NEW label, NEW next, NEW batch, NEW before,
           Insert(r, label, next, batch), refs' # refs \/ pc'[r] # "failed",
           \/ Plain(refs[BRANCH_NAME])
           \/ Holds(refs[BRANCH_NAME], before),
           Append(before, batch) \in Values
    PROVE  /\ BRANCH_NAME \in DOMAIN refs
           /\ refs'[BRANCH_NAME] \in Hash
           /\ refs' = SetRef(refs, BRANCH_NAME, refs'[BRANCH_NAME])
           /\ Holds(refs'[BRANCH_NAME], Append(before, batch))
           /\ \A S : Wrote(refs[BRANCH_NAME], S) /\ Append(before, batch) \in S
                        => Wrote(refs'[BRANCH_NAME], S)
<1> DEFINE h == refs[BRANCH_NAME]
           c == [by |-> r, puts |-> [t \in {Demo} |-> Append(Content(h)[t], batch)]]
<1>1. /\ BRANCH_NAME \in DOMAIN refs /\ HasTable(h)
      /\ refs' = SetRef(refs, BRANCH_NAME, Append(h, c))
  BY DEF Insert, Execute, Resolves, Seen, Commit1, LIVE_CATALOG, Goto, DemoTypeOK
<1>2. h \in Hash
  BY <1>1 DEF DemoTypeOK
<1>3. Content(h)[Demo] = before
  BY <1>1, <1>2, HasTableIs DEF Holds
<1>4. c = [by |-> r, puts |-> [t \in {Demo} |-> Append(before, batch)]]
  BY <1>3
<1>5. c \in Commit /\ Demo \in DOMAIN c.puts /\ c.puts[Demo] = Append(before, batch)
  BY <1>4, DemoCommits, DemoAssumption
<1> HIDE DEF c, h
<1>6. Append(h, c) \in Hash
  BY <1>2, <1>5, AppendProperties DEF Hash
<1>7. refs'[BRANCH_NAME] = Append(h, c)
  BY <1>1 DEF SetRef
<1> QED  BY <1>1, <1>2, <1>5, <1>6, <1>7, AppendContent DEF h

LEMMA SchemaCommits ==
    ASSUME DemoTypeOK, NEW r \in Runs, CreateSchema(r), refs' # refs
    PROVE  /\ BRANCH_NAME \in DOMAIN refs
           /\ refs'[BRANCH_NAME] \in Hash
           /\ refs' = SetRef(refs, BRANCH_NAME, refs'[BRANCH_NAME])
           /\ Plain(refs[BRANCH_NAME]) => Plain(refs'[BRANCH_NAME])
<1> DEFINE h == refs[BRANCH_NAME]
           c == [by |-> Schema, puts |-> Nothing]
<1>1. BRANCH_NAME \in DOMAIN refs /\ refs' = SetRef(refs, BRANCH_NAME, Append(h, c))
  BY DEF CreateSchema, Execute, Resolves, Commit1
<1>2. h \in Hash
  BY <1>1 DEF DemoTypeOK
<1>3. c \in Commit /\ DOMAIN c.puts = {}
  BY DemoCommits, DemoAssumption DEF Nothing
<1> HIDE DEF c, h
<1>4. Append(h, c) \in Hash
  BY <1>2, <1>3, AppendProperties DEF Hash
<1>5. refs'[BRANCH_NAME] = Append(h, c)
  BY <1>1 DEF SetRef
<1> QED  BY <1>1, <1>2, <1>3, <1>4, <1>5, AppendPlain DEF h

LEMMA TableCommits ==
    ASSUME DemoTypeOK, NEW r \in Runs, CreateTable(r), refs' # refs \/ pc'[r] # "failed"
    PROVE  /\ BRANCH_NAME \in DOMAIN refs
           /\ refs'[BRANCH_NAME] \in Hash
           /\ refs' = SetRef(refs, BRANCH_NAME, refs'[BRANCH_NAME])
           /\ Holds(refs'[BRANCH_NAME], << >>) /\ Wrote(refs'[BRANCH_NAME], {<< >>})
<1> DEFINE h == refs[BRANCH_NAME]
           c == [by |-> r, puts |-> [t \in {Demo} |-> << >>]]
<1>1. /\ BRANCH_NAME \in DOMAIN refs /\ ~ HasTable(h)
      /\ refs' = SetRef(refs, BRANCH_NAME, Append(h, c))
  BY DEF CreateTable, Execute, Resolves, Seen, Commit1, LIVE_CATALOG, Goto, DemoTypeOK
<1>2. h \in Hash
  BY <1>1 DEF DemoTypeOK
<1>3. Wrote(h, {<< >>})
  BY <1>1, <1>2, HasTableIs DEF Plain, Wrote
<1>4. c \in Commit /\ Demo \in DOMAIN c.puts /\ c.puts[Demo] = << >>
  BY DemoCommits, DemoAssumption
<1> HIDE DEF c, h
<1>5. Append(h, c) \in Hash
  BY <1>2, <1>4, AppendProperties DEF Hash
<1>6. refs'[BRANCH_NAME] = Append(h, c)
  BY <1>1 DEF SetRef
<1> QED  BY <1>1, <1>2, <1>3, <1>4, <1>5, <1>6, AppendContent

(* What the holder's branch holds before each insert, and after it.        *)
LEMMA InsertGoodCommits ==
    ASSUME DemoInv, NEW r \in Runs, Insert(r, "insert_good", "read_good", Good),
           refs' # refs \/ pc'[r] # "failed"
    PROVE  /\ BRANCH_NAME \in DOMAIN refs
           /\ refs'[BRANCH_NAME] \in Hash
           /\ refs' = SetRef(refs, BRANCH_NAME, refs'[BRANCH_NAME])
           /\ GoodHash(refs'[BRANCH_NAME])
<1>1. pc[r] = "insert_good" /\ BRANCH_NAME \in DOMAIN refs
  BY DEF Insert, Execute, Statement, At, Resolves, Goto, DemoInv, DemoTypeOK
<1>2. \/ Plain(refs[BRANCH_NAME])
      \/ Holds(refs[BRANCH_NAME], << >>)
  BY <1>1 DEF DemoInv, HolderInv, HolderOf, Holding, BranchAt
<1>3. Wrote(refs[BRANCH_NAME], {<< >>, <<Good>>})
  BY <1>1 DEF DemoInv, HolderInv, HolderOf, Holding, BranchAt, Plain, Wrote
<1>4. Append(<< >>, Good) = <<Good>> /\ <<Good>> \in Values
  BY DemoAssumption
<1> QED
  BY <1>1, <1>2, <1>3, <1>4, InsertCommits DEF DemoInv, GoodHash

LEMMA GoodThenBad == Append(<<Good>>, Bad) = <<Good, Bad>>
<1>1. /\ <<Good>> \in Seq({Good, Bad}) /\ Len(<<Good>>) = 1 /\ <<Good>>[1] = Good
      /\ <<Good, Bad>> \in Seq({Good, Bad}) /\ Len(<<Good, Bad>>) = 2
      /\ <<Good, Bad>>[1] = Good /\ <<Good, Bad>>[2] = Bad
  OBVIOUS
<1>2. /\ Append(<<Good>>, Bad) \in Seq({Good, Bad})
      /\ Len(Append(<<Good>>, Bad)) = 2
      /\ Append(<<Good>>, Bad)[1] = Good /\ Append(<<Good>>, Bad)[2] = Bad
  BY <1>1, AppendProperties
<1>3. \A i \in 1..2 : Append(<<Good>>, Bad)[i] = <<Good, Bad>>[i]
  BY <1>1, <1>2
<1> QED  BY <1>1, <1>2, <1>3, SeqEqual

LEMMA InsertBadCommits ==
    ASSUME DemoInv, NEW r \in Runs, Insert(r, "insert_bad", "read_bad", Bad),
           refs' # refs \/ pc'[r] # "failed"
    PROVE  /\ BRANCH_NAME \in DOMAIN refs
           /\ refs'[BRANCH_NAME] \in Hash
           /\ refs' = SetRef(refs, BRANCH_NAME, refs'[BRANCH_NAME])
           /\ BadHash(refs'[BRANCH_NAME])
<1>1. pc[r] = "insert_bad" /\ BRANCH_NAME \in DOMAIN refs
  BY DEF Insert, Execute, Statement, At, Resolves, Goto, DemoInv, DemoTypeOK
<1>2. \/ Plain(refs[BRANCH_NAME])
      \/ Holds(refs[BRANCH_NAME], <<Good>>)
  BY <1>1 DEF DemoInv, HolderInv, HolderOf, Holding, BranchAt, GoodHash
<1>3. <<Good, Bad>> \in Values
  BY DemoAssumption
<1> QED
  BY <1>1, <1>2, <1>3, GoodThenBad, InsertCommits DEF DemoInv, BadHash

LEMMA StepRefs ==
    ASSUME DemoInv, NEW r \in Runs, Start(r) \/ Step(r) \/ Abort(r)
    PROVE  \E h \in Hash : refs' \in {refs, SetRef(refs, BRANCH_NAME, h), DropRef(refs, BRANCH_NAME)}
<1> DEFINE Goal == \E h \in Hash :
                      refs' \in {refs, SetRef(refs, BRANCH_NAME, h), DropRef(refs, BRANCH_NAME)}
<1>0. Genesis \in Hash
  BY DemoCommits
<1>1. ASSUME UNCHANGED refs PROVE Goal
  BY <1>0, <1>1
<1>2. CASE DeleteLeftover(r)
  <2>1. PICK out \in delete_reference(TRUE, refs, BRANCH_NAME, existing[r]) : refs' = out.refs
    BY <1>2 DEF DeleteLeftover
  <2> QED  BY <1>0, <2>1, OutcomeRefs DEF delete_reference
<1>3. CASE CreateBranch(r)
  <2>1. PICK out \in create_branch(TRUE, refs, BRANCH_NAME, main_ref[r]) : refs' = out.refs
    BY <1>3 DEF CreateBranch
  <2>2. main_ref[r] \in Hash
    BY DEF DemoInv, DemoTypeOK
  <2> QED  BY <2>1, <2>2, OutcomeRefs DEF create_branch
<1>4. CASE Rollback(r)
  <2>1. PICK out \in assign_reference(TRUE, refs, BRANCH_NAME, hash_bad[r], hash_good[r]) :
           refs' = out.refs
    BY <1>4 DEF Rollback
  <2>2. hash_good[r] \in Hash
    BY DEF DemoInv, DemoTypeOK
  <2> QED  BY <2>1, <2>2, OutcomeRefs DEF assign_reference
<1>5. CASE CreateSchema(r) \/ CreateTable(r)
  BY <1>1, <1>5, SchemaCommits, TableCommits DEF DemoInv
<1>6. CASE \/ Insert(r, "insert_good", "read_good", Good)
           \/ Insert(r, "insert_bad", "read_bad", Bad)
  BY <1>1, <1>6, InsertGoodCommits, InsertBadCommits
<1>7. ASSUME NEW label, NEW next, NEW name, NEW target,
             CreateCatalog(r, label, next, name, target)
      PROVE  UNCHANGED refs
  BY <1>7 DEF CreateCatalog
<1>8. ASSUME NEW label, NEW next, NEW name, DropCatalog(r, label, next, name)
      PROVE  UNCHANGED refs
  BY <1>8 DEF DropCatalog
<1>9. ASSUME NEW label, NEW next, NEW name, NEW key, Query(r, label, next, name, key)
      PROVE  UNCHANGED refs
  BY <1>9 DEF Query
<1>10. CASE ReadMain(r) \/ FindLeftover(r) \/ ReadGood(r) \/ ReadBad(r) \/ HistoryAfter(r)
  BY <1>1, <1>10 DEF ReadMain, FindLeftover, ReadGood, ReadBad, ReadHash, HistoryAfter
<1>11. CASE Start(r) \/ Abort(r)
  BY <1>1, <1>11 DEF Start, Abort
<1> QED
  BY <1>1, <1>2, <1>3, <1>4, <1>5, <1>6, <1>7, <1>8, <1>9, <1>10, <1>11 DEF Step

(* The rest of a step's effect: the counter of one invocation moves, its   *)
(* own records change, and only the histories.                             *)
LEMMA StepRecords ==
    ASSUME DemoTypeOK, NEW r \in Runs, Start(r) \/ Step(r) \/ Abort(r)
    PROVE  /\ pc' \in [Runs -> Stopped \cup Statements]
           /\ \A q \in Runs \ {r} :
                /\ pc'[q] = pc[q] /\ main_ref'[q] = main_ref[q]
                /\ hash_good'[q] = hash_good[q] /\ hash_bad'[q] = hash_bad[q]
                /\ evidence'[q] = evidence[q]
           /\ main_ref' \in [Runs -> Hash] /\ existing' \in [Runs -> Hash]
           /\ hash_good' \in [Runs -> Hash] /\ hash_bad' \in [Runs -> Hash]
           /\ DOMAIN evidence' = Runs
           /\ \A q \in Runs : DOMAIN evidence'[q] \subseteq {"asof", "before", "after", "bad_reachable"}
           /\ DOMAIN catalogs' \subseteq {LIVE_CATALOG, ASOF_CATALOG}
           /\ faulty' \subseteq Runs /\ overlapped' \subseteq Runs /\ barred' \subseteq Runs
<1> DEFINE Records ==
             /\ pc' \in [Runs -> Stopped \cup Statements]
             /\ \A q \in Runs \ {r} :
                  /\ pc'[q] = pc[q] /\ main_ref'[q] = main_ref[q]
                  /\ hash_good'[q] = hash_good[q] /\ hash_bad'[q] = hash_bad[q]
                  /\ evidence'[q] = evidence[q]
             /\ main_ref' \in [Runs -> Hash] /\ existing' \in [Runs -> Hash]
             /\ hash_good' \in [Runs -> Hash] /\ hash_bad' \in [Runs -> Hash]
             /\ DOMAIN evidence' = Runs
             /\ \A q \in Runs : DOMAIN evidence'[q] \subseteq {"asof", "before", "after", "bad_reachable"}
             /\ DOMAIN catalogs' \subseteq {LIVE_CATALOG, ASOF_CATALOG}
             /\ faulty' \subseteq Runs /\ overlapped' \subseteq Runs /\ barred' \subseteq Runs
<1> USE DEF localVars, Goto, At, Statement
<1>1. CASE Start(r)
  BY <1>1 DEF Start, DemoTypeOK, Statements, Running
<1>2. CASE Abort(r)
  BY <1>2 DEF Abort, DemoTypeOK, Stopped
<1>3. CASE ReadMain(r) \/ ReadGood(r) \/ ReadBad(r)
  BY <1>3 DEF ReadMain, ReadGood, ReadBad, ReadHash, DemoTypeOK, Stopped, Statements
<1>4. CASE FindLeftover(r)
  <2>1. faulty' \subseteq Runs
    BY <1>4 DEF FindLeftover, Answered, DemoTypeOK
  <2>2. /\ pc' \in [Runs -> Stopped \cup Statements]
        /\ \A q \in Runs \ {r} : pc'[q] = pc[q]
    BY <1>4 DEF FindLeftover, DemoTypeOK, Stopped, Statements
  <2>3. existing' \in [Runs -> Hash]
    <3>1. CASE UNCHANGED existing
      BY <3>1 DEF DemoTypeOK
    <3>2. CASE BRANCH_NAME \in DOMAIN refs /\ existing' = [existing EXCEPT ![r] = refs[BRANCH_NAME]]
      BY <3>2 DEF DemoTypeOK
    <3>3. CASE BRANCH_NAME \notin DOMAIN refs
      <4>1. "ok" \notin ReadOutcomes(TRUE, refs, BRANCH_NAME)
        BY <3>3 DEF ReadOutcomes
      <4> QED  BY <1>4, <3>1, <4>1 DEF FindLeftover
    <3> QED  BY <1>4, <3>1, <3>2, <3>3 DEF FindLeftover
  <2> QED  BY <1>4, <2>1, <2>2, <2>3 DEF FindLeftover, DemoTypeOK
<1>5. CASE DeleteLeftover(r) \/ CreateBranch(r) \/ Rollback(r)
  BY <1>5 DEF DeleteLeftover, CreateBranch, Rollback, Answered, DemoTypeOK, Stopped, Statements
<1>6. CASE \/ CreateSchema(r) \/ CreateTable(r)
           \/ Insert(r, "insert_good", "read_good", Good)
           \/ Insert(r, "insert_bad", "read_bad", Bad)
  BY <1>6 DEF CreateSchema, CreateTable, Insert, Execute, DemoTypeOK, Stopped, Statements
<1>7. ASSUME NEW label, NEW next \in Statements, NEW name \in {LIVE_CATALOG, ASOF_CATALOG},
             NEW target, CreateCatalog(r, label, next, name, target)
      PROVE  Records
  BY <1>7 DEF CreateCatalog, SetRef, DemoTypeOK, Stopped
<1>8. ASSUME NEW label, NEW next \in Stopped \cup Statements, NEW name,
             DropCatalog(r, label, next, name)
      PROVE  Records
  BY <1>8 DEF DropCatalog, DemoTypeOK
<1>9. ASSUME NEW label, NEW next \in Statements, NEW name, NEW key \in {"asof", "before", "after"},
             Query(r, label, next, name, key)
      PROVE  Records
  BY <1>9 DEF Query, SetRef, DemoTypeOK, Stopped
<1>10. CASE HistoryAfter(r)
  BY <1>10 DEF HistoryAfter, SetRef, DemoTypeOK, Stopped, Statements
<1>11. /\ {"create_schema", "query_asof", "query_before", "rollback", "history_after",
           "drop_live"} \subseteq Statements
       /\ "done" \in Stopped
  BY DEF Statements, Stopped
<1> QED
  BY <1>1, <1>2, <1>3, <1>4, <1>5, <1>6, <1>7, <1>8, <1>9, <1>10, <1>11 DEF Step

(* An invocation that does not hold the lock leaves the branch alone,      *)
(* removes it or cuts it from main, and touches no catalog but to take the *)
(* lock when it is free.                                                   *)
LEMMA Outsider ==
    ASSUME DemoInv, NEW q \in Runs, pc[q] \notin Holding, Start(q) \/ Step(q) \/ Abort(q)
    PROVE  /\ \/ BRANCH_NAME \notin DOMAIN refs'
              \/ BRANCH_NAME \in DOMAIN refs /\ refs'[BRANCH_NAME] = refs[BRANCH_NAME]
              \/ refs'[BRANCH_NAME] = main_ref[q]
           /\ \/ catalogs' = catalogs /\ pc'[q] \notin Holding
              \/ /\ LIVE_CATALOG \notin DOMAIN catalogs
                 /\ DOMAIN catalogs' = DOMAIN catalogs \cup {LIVE_CATALOG}
                 /\ pc'[q] = "create_schema"
           /\ Plain(main_ref'[q])
           /\ evidence' = evidence
<1>0. DemoTypeOK /\ Plain(main_ref[q])
  BY DEF DemoInv, HolderInv
<1> USE DEF Goto, At, Statement, localVars, Holding
<1>1. CASE Start(q) \/ Abort(q)
  BY <1>0, <1>1 DEF Start, Abort, DemoTypeOK
<1>2. CASE ReadMain(q)
  BY <1>0, <1>2 DEF ReadMain, ReadHash, DemoTypeOK, DemoInv, HolderInv
<1>3. CASE FindLeftover(q)
  BY <1>0, <1>3 DEF FindLeftover, DemoTypeOK
<1>4. CASE DeleteLeftover(q)
  <2>1. PICK out \in delete_reference(TRUE, refs, BRANCH_NAME, existing[q]) : refs' = out.refs
    BY <1>4 DEF DeleteLeftover
  <2>2. refs' = refs \/ refs' = DropRef(refs, BRANCH_NAME)
    BY <2>1, OutcomeRefs DEF delete_reference
  <2> QED  BY <1>0, <1>4, <2>2 DEF DeleteLeftover, DropRef, DemoTypeOK
<1>5. CASE CreateBranch(q)
  <2>1. PICK out \in create_branch(TRUE, refs, BRANCH_NAME, main_ref[q]) : refs' = out.refs
    BY <1>5 DEF CreateBranch
  <2>2. refs' = refs \/ refs' = SetRef(refs, BRANCH_NAME, main_ref[q])
    BY <2>1, OutcomeRefs DEF create_branch
  <2> QED  BY <1>0, <1>5, <2>2 DEF CreateBranch, SetRef, DemoTypeOK
<1>6. CASE CreateCatalog(q, "create_live", "create_schema", LIVE_CATALOG, "head")
  BY <1>0, <1>6 DEF CreateCatalog, SetRef, DemoTypeOK
<1>7. ASSUME Step(q)
      PROVE  \/ ReadMain(q) \/ FindLeftover(q) \/ DeleteLeftover(q) \/ CreateBranch(q)
             \/ CreateCatalog(q, "create_live", "create_schema", LIVE_CATALOG, "head")
  BY <1>7 DEF Step, CreateSchema, CreateTable, Insert, Execute, ReadGood, ReadBad, ReadHash,
     CreateCatalog, Query, Rollback, HistoryAfter, DropCatalog
<1> QED  BY <1>1, <1>2, <1>3, <1>4, <1>5, <1>6, <1>7

(* Whatever an outsider does, the holder's facts stand.                    *)
LEMMA HolderKept ==
    ASSUME DemoInv, NEW r \in Runs, pc[r] \in Holding,
           NEW q \in Runs, q # r, Start(q) \/ Step(q) \/ Abort(q)
    PROVE  HolderOf(r)'
<1>0. DemoTypeOK /\ HolderOf(r) /\ pc[q] \notin Holding
  BY DEF DemoInv, HolderInv, HolderOf
<1>1. /\ pc'[r] = pc[r] /\ hash_good'[r] = hash_good[r] /\ hash_bad'[r] = hash_bad[r]
      /\ \A p \in Runs \ {q} : pc'[p] = pc[p]
  BY <1>0, StepRecords
<1>2. /\ \/ BRANCH_NAME \notin DOMAIN refs'
         \/ BRANCH_NAME \in DOMAIN refs /\ refs'[BRANCH_NAME] = refs[BRANCH_NAME]
         \/ Plain(refs'[BRANCH_NAME])
      /\ catalogs' = catalogs /\ pc'[q] \notin Holding
  BY <1>0, Outsider DEF DemoInv, HolderInv, HolderOf
<1>3. (BRANCH_NAME \in DOMAIN refs => BranchAt(r, refs[BRANCH_NAME]))'
  BY <1>0, <1>1, <1>2 DEF HolderOf, BranchAt, GoodHash, BadHash
<1> QED
  BY <1>0, <1>1, <1>2, <1>3 DEF HolderOf

(* A step of the holder itself.                                            *)
LEMMA HolderStep ==
    ASSUME DemoInv, NEW r \in Runs, pc[r] \in Holding, Step(r), pc'[r] \in Holding
    PROVE  HolderOf(r)'
<1>0. /\ DemoTypeOK /\ HolderOf(r)
      /\ \A p \in Runs \ {r} : pc'[p] = pc[p]
  BY StepRecords DEF DemoInv, HolderInv
<1>1. \A q \in Runs : pc'[q] \in Holding => q = r
  BY <1>0 DEF HolderOf
<1> USE DEF Goto, At, Statement, localVars, BothRead, RolledBack, AsofPinned
<1>2. CASE CreateSchema(r)
  BY <1>0, <1>1, <1>2 DEF CreateSchema, Execute, HolderOf, BranchAt, DemoTypeOK
<1>3. CASE CreateTable(r)
  <2>1. pc'[r] = "insert_good" /\ UNCHANGED catalogs
    BY <1>0, <1>3 DEF CreateTable, Execute, Holding, DemoTypeOK
  <2>2. Holds(refs'[BRANCH_NAME], << >>) /\ Wrote(refs'[BRANCH_NAME], {<< >>})
    BY <1>0, <1>3, <2>1, TableCommits
  <2> QED  BY <1>0, <1>1, <2>1, <2>2 DEF HolderOf, BranchAt
<1>4. CASE Insert(r, "insert_good", "read_good", Good)
  <2>1. pc'[r] = "read_good" /\ UNCHANGED catalogs
    BY <1>0, <1>4 DEF Insert, Execute, Holding, DemoTypeOK
  <2>2. GoodHash(refs'[BRANCH_NAME])
    BY <1>4, <2>1, InsertGoodCommits
  <2> QED  BY <1>0, <1>1, <2>1, <2>2 DEF HolderOf, BranchAt
<1>5. CASE ReadGood(r)
  <2>1. /\ BRANCH_NAME \in DOMAIN refs /\ UNCHANGED << refs, catalogs, hash_bad >>
        /\ hash_good'[r] = refs[BRANCH_NAME]
        /\ pc[r] = "read_good" /\ pc'[r] = "insert_bad"
    BY <1>0, <1>5 DEF ReadGood, ReadHash, Holding, DemoTypeOK
  <2> QED  BY <1>0, <1>1, <2>1 DEF HolderOf, BranchAt, GoodHash, BadHash
<1>6. CASE Insert(r, "insert_bad", "read_bad", Bad)
  <2>1. pc[r] = "insert_bad" /\ pc'[r] = "read_bad" /\ UNCHANGED << catalogs, hash_good, hash_bad >>
    BY <1>0, <1>6 DEF Insert, Execute, Holding, DemoTypeOK
  <2>2. BadHash(refs'[BRANCH_NAME])
    BY <1>6, <2>1, InsertBadCommits
  <2> QED  BY <1>0, <1>1, <2>1, <2>2 DEF HolderOf, BranchAt
<1>7. CASE ReadBad(r)
  <2>1. /\ BRANCH_NAME \in DOMAIN refs /\ UNCHANGED << refs, catalogs, hash_good >>
        /\ hash_bad'[r] = refs[BRANCH_NAME]
        /\ pc[r] = "read_bad" /\ pc'[r] = "create_asof"
    BY <1>0, <1>7 DEF ReadBad, ReadHash, Holding, DemoTypeOK
  <2> QED  BY <1>0, <1>1, <2>1 DEF HolderOf, BranchAt, GoodHash, BadHash
<1>8. CASE CreateCatalog(r, "create_asof", "query_asof", ASOF_CATALOG, Pinned(hash_good[r]))
  <2>1. /\ UNCHANGED << refs, hash_good, hash_bad >>
        /\ catalogs' = SetRef(catalogs, ASOF_CATALOG, Pinned(hash_good[r]))
        /\ pc[r] = "create_asof" /\ pc'[r] = "query_asof"
    BY <1>0, <1>8 DEF CreateCatalog, Holding, DemoTypeOK
  <2>2. /\ LIVE_CATALOG \in DOMAIN catalogs' /\ ASOF_CATALOG \in DOMAIN catalogs'
        /\ catalogs'[ASOF_CATALOG] = Pinned(hash_good[r])
    BY <1>0, <2>1 DEF SetRef, HolderOf
  <2> QED  BY <1>0, <1>1, <2>1, <2>2 DEF HolderOf, BranchAt, Pinned
<1>9. CASE Query(r, "query_asof", "query_before", ASOF_CATALOG, "asof")
  <2>1. /\ UNCHANGED << refs, catalogs, hash_good, hash_bad >>
        /\ pc[r] = "query_asof" /\ pc'[r] = "query_before"
    BY <1>0, <1>9 DEF Query, Holding, DemoTypeOK
  <2> QED  BY <1>0, <1>1, <2>1 DEF HolderOf, BranchAt, Pinned
<1>10. CASE Query(r, "query_before", "rollback", LIVE_CATALOG, "before")
  <2>1. /\ UNCHANGED << refs, catalogs, hash_good, hash_bad >>
        /\ pc[r] = "query_before" /\ pc'[r] = "rollback"
        /\ BRANCH_NAME \in DOMAIN refs /\ HasTable(refs[BRANCH_NAME])
    BY <1>0, <1>10 DEF Query, Holding, DemoTypeOK, Resolves, Seen
  <2>2. refs[BRANCH_NAME] = hash_bad[r]
    BY <1>0, <2>1, HasTableIs DEF HolderOf, BranchAt, DemoTypeOK
  <2> QED  BY <1>0, <1>1, <2>1, <2>2 DEF HolderOf, BranchAt, Pinned
<1>11. CASE Rollback(r)
  <2>1. PICK out \in assign_reference(TRUE, refs, BRANCH_NAME, hash_bad[r], hash_good[r]) :
           /\ refs' = out.refs
           /\ Goto(r, IF out.reply = "ok" THEN "query_after" ELSE "failed")
    BY <1>11 DEF Rollback
  <2>2. /\ UNCHANGED << catalogs, hash_good, hash_bad >>
        /\ pc[r] = "rollback" /\ pc'[r] = "query_after" /\ out.reply = "ok"
    BY <1>0, <1>11, <2>1 DEF Rollback, Holding, DemoTypeOK
  <2>3. refs' = SetRef(refs, BRANCH_NAME, hash_good[r])
    <3>1. /\ Checked(refs, BRANCH_NAME, hash_bad[r]) \in BOOLEAN
          /\ out \in CallOutcomes(TRUE, Checked(refs, BRANCH_NAME, hash_bad[r]), refs,
                                 SetRef(refs, BRANCH_NAME, hash_good[r]))
      BY <2>1 DEF assign_reference, Checked
    <3>2. out.refs = SetRef(refs, BRANCH_NAME, hash_good[r])
      BY <2>2, <3>1 DEF CallOutcomes
    <3> QED  BY <2>1, <3>2
  <2>4. refs'[BRANCH_NAME] = hash_good'[r]
    BY <2>2, <2>3 DEF SetRef
  <2> QED  BY <1>0, <1>1, <2>2, <2>4 DEF HolderOf, BranchAt, Pinned
<1>12. CASE \/ Query(r, "query_after", "history_after", LIVE_CATALOG, "after")
            \/ HistoryAfter(r)
  <2>1. /\ UNCHANGED << refs, catalogs, hash_good, hash_bad >>
        /\ \/ pc[r] = "query_after" /\ pc'[r] = "history_after"
           \/ pc[r] = "history_after" /\ pc'[r] = "drop_asof"
    BY <1>0, <1>12 DEF Query, HistoryAfter, Holding, DemoTypeOK
  <2> QED  BY <1>0, <1>1, <2>1 DEF HolderOf, BranchAt, Pinned
<1>13. CASE DropCatalog(r, "drop_asof", "drop_live", ASOF_CATALOG)
  <2>1. /\ UNCHANGED << refs, hash_good, hash_bad >>
        /\ pc[r] = "drop_asof" /\ pc'[r] = "drop_live"
        /\ LIVE_CATALOG \in DOMAIN catalogs'
    BY <1>0, <1>13 DEF DropCatalog, DemoTypeOK, HolderOf, LIVE_CATALOG, ASOF_CATALOG
  <2> QED  BY <1>0, <1>1, <2>1 DEF HolderOf, BranchAt
<1>14. CASE DropCatalog(r, "drop_live", "done", LIVE_CATALOG)
  BY <1>0, <1>14 DEF DropCatalog, DemoTypeOK, Holding
<1>15. ASSUME \/ ReadMain(r) \/ FindLeftover(r) \/ DeleteLeftover(r) \/ CreateBranch(r)
              \/ CreateCatalog(r, "create_live", "create_schema", LIVE_CATALOG, "head")
       PROVE  FALSE
  BY <1>15 DEF ReadMain, ReadHash, FindLeftover, DeleteLeftover, CreateBranch, CreateCatalog,
     Holding
<1> QED
  BY <1>2, <1>3, <1>4, <1>5, <1>6, <1>7, <1>8, <1>9, <1>10, <1>11, <1>12, <1>13, <1>14, <1>15
     DEF Step

(* What an invocation writes to its evidence directory.                    *)
LEMMA TwoContents == <<Good>> # <<Good, Bad>> /\ << >> # <<Good, Bad>>
OBVIOUS

(* The branch's history after the rollback has no commit with the bad      *)
(* batch.                                                                  *)
LEMMA BadUnreachable ==
    ASSUME NEW g \in Hash, NEW b \in Hash, Plain(g) \/ GoodHash(g), BadHash(b), HasTable(b)
    PROVE  ~ AgreeUpTo(b, g, Len(b))
<1>1. b \in Hash /\ Content(b)[Demo] = <<Good, Bad>>
  BY HasTableIs DEF BadHash, Holds
<1>2. PICK i \in 1..Len(b) : Demo \in DOMAIN b[i].puts /\ b[i].puts[Demo] = <<Good, Bad>>
  BY <1>1, ContentIsPut
<1> SUFFICES ASSUME AgreeUpTo(b, g, Len(b)) PROVE FALSE
  OBVIOUS
<1>3. i \in 1..Len(g) /\ g[i] = b[i]
  BY <1>2, LenProperties DEF AgreeUpTo, Hash
<1> QED  BY <1>2, <1>3, TwoContents DEF GoodHash, Plain, Wrote

LEMMA HolderEvidence ==
    ASSUME DemoInv, NEW r \in Runs, pc[r] \in Holding, Step(r)
    PROVE  \/ UNCHANGED evidence
           \/ \E key \in DOMAIN Expected :
                evidence' = [evidence EXCEPT ![r] = SetRef(@, key, Expected[key])]
<1>0. /\ DemoTypeOK /\ HolderOf(r)
      /\ BRANCH_NAME \in DOMAIN refs => refs[BRANCH_NAME] \in Hash
      /\ hash_good[r] \in Hash /\ hash_bad[r] \in Hash
  BY DEF DemoInv, HolderInv, DemoTypeOK
<1> DEFINE Goal ==
             \/ UNCHANGED evidence
             \/ \E key \in DOMAIN Expected :
                  evidence' = [evidence EXCEPT ![r] = SetRef(@, key, Expected[key])]
<1>E. /\ DOMAIN Expected = {"asof", "before", "after", "bad_reachable"}
      /\ Expected["asof"] = <<Good>> /\ Expected["before"] = <<Good, Bad>>
      /\ Expected["after"] = <<Good>> /\ Expected["bad_reachable"] = FALSE
  BY DEF Expected
<1> HIDE DEF Goal
<1> USE DEF At, Statement, localVars
<1>2. CASE Query(r, "query_asof", "query_before", ASOF_CATALOG, "asof")
  <2>1. pc[r] = "query_asof"
    BY <1>2 DEF Query
  <2>2. Seen(ASOF_CATALOG) = hash_good[r]
    BY <1>0, <2>1 DEF HolderOf, AsofPinned, Seen, Pinned, ASOF_CATALOG, LIVE_CATALOG
  <2>3. GoodHash(hash_good[r])
    BY <1>0, <2>1 DEF HolderOf, BothRead
  <2>4. HasTable(Seen(ASOF_CATALOG)) => Content(Seen(ASOF_CATALOG))[Demo] = Expected["asof"]
    BY <1>0, <1>E, <2>2, <2>3, HasTableIs DEF GoodHash, Holds
  <2>5. CASE ~ UNCHANGED evidence
    BY <1>2, <1>E, <2>4, <2>5 DEF Query, Goal
  <2> QED  BY <2>5 DEF Goal
<1>3. CASE Query(r, "query_before", "rollback", LIVE_CATALOG, "before")
  <2>1. pc[r] = "query_before"
    BY <1>3 DEF Query
  <2>2. Seen(LIVE_CATALOG) = refs[BRANCH_NAME]
    BY DEF Seen
  <2>3. BRANCH_NAME \in DOMAIN refs =>
           Plain(refs[BRANCH_NAME]) \/ BadHash(refs[BRANCH_NAME])
    BY <1>0, <2>1 DEF HolderOf, BranchAt, BothRead
  <2>4. Resolves(LIVE_CATALOG) /\ HasTable(Seen(LIVE_CATALOG))
           => Content(Seen(LIVE_CATALOG))[Demo] = Expected["before"]
    BY <1>0, <1>E, <2>2, <2>3, HasTableIs DEF BadHash, Holds, Resolves
  <2>5. CASE ~ UNCHANGED evidence
    BY <1>3, <1>E, <2>4, <2>5 DEF Query, Goal
  <2> QED  BY <2>5 DEF Goal
<1>4. CASE Query(r, "query_after", "history_after", LIVE_CATALOG, "after")
  <2>1. pc[r] = "query_after"
    BY <1>4 DEF Query
  <2>2. Seen(LIVE_CATALOG) = refs[BRANCH_NAME]
    BY DEF Seen
  <2>3. BRANCH_NAME \in DOMAIN refs =>
           Plain(refs[BRANCH_NAME]) \/ GoodHash(refs[BRANCH_NAME])
    BY <1>0, <2>1 DEF HolderOf, BranchAt, RolledBack
  <2>4. Resolves(LIVE_CATALOG) /\ HasTable(Seen(LIVE_CATALOG))
           => Content(Seen(LIVE_CATALOG))[Demo] = Expected["after"]
    BY <1>0, <1>E, <2>2, <2>3, HasTableIs DEF GoodHash, Holds, Resolves
  <2>5. CASE ~ UNCHANGED evidence
    BY <1>4, <1>E, <2>4, <2>5 DEF Query, Goal
  <2> QED  BY <2>5 DEF Goal
<1>5. CASE HistoryAfter(r)
  <2>1. pc[r] = "history_after"
    BY <1>5 DEF HistoryAfter
  <2>2. BadHash(hash_bad[r]) /\ HasTable(hash_bad[r])
    BY <1>0, <2>1 DEF HolderOf, RolledBack
  <2>3. BRANCH_NAME \in DOMAIN refs =>
           Plain(refs[BRANCH_NAME]) \/ GoodHash(refs[BRANCH_NAME])
    BY <1>0, <2>1 DEF HolderOf, BranchAt, RolledBack
  <2>4. Reachable(hash_bad[r]) = FALSE
    BY <1>0, <2>2, <2>3, BadUnreachable DEF Reachable
  <2> QED  BY <1>5, <1>E, <2>4 DEF HistoryAfter, Goal
<1>6. ASSUME NEW label, NEW next, NEW name, NEW target,
             CreateCatalog(r, label, next, name, target)
      PROVE  Goal
  BY <1>6 DEF CreateCatalog, Goal
<1>7. ASSUME NEW label, NEW next, NEW name, DropCatalog(r, label, next, name) PROVE Goal
  BY <1>7 DEF DropCatalog, Goal
<1>8. ASSUME NEW label, NEW next, NEW batch, Insert(r, label, next, batch) PROVE Goal
  BY <1>8 DEF Insert, Execute, Goal
<1>9. CASE \/ ReadMain(r) \/ FindLeftover(r) \/ DeleteLeftover(r) \/ CreateBranch(r)
           \/ CreateSchema(r) \/ CreateTable(r) \/ ReadGood(r) \/ ReadBad(r) \/ Rollback(r)
  BY <1>9 DEF ReadMain, FindLeftover, DeleteLeftover, CreateBranch, CreateSchema, CreateTable,
     ReadGood, ReadBad, ReadHash, Execute, Rollback, Goal
<1> QED
  BY <1>2, <1>3, <1>4, <1>5, <1>6, <1>7, <1>8, <1>9 DEF Step, Goal

LEMMA EvidenceStep ==
    ASSUME DemoInv, NEW r \in Runs, Start(r) \/ Step(r) \/ Abort(r)
    PROVE  EvidenceIsTrue'
<1>0. EvidenceIsTrue /\ DOMAIN evidence = Runs
  BY DEF DemoInv, DemoTypeOK
<1>1. CASE UNCHANGED evidence
  BY <1>0, <1>1 DEF EvidenceIsTrue
<1>2. ASSUME NEW key \in DOMAIN Expected,
             evidence' = [evidence EXCEPT ![r] = SetRef(@, key, Expected[key])]
      PROVE  EvidenceIsTrue'
  <2>1. \A q \in Runs \ {r} : evidence'[q] = evidence[q]
    BY <1>0, <1>2
  <2>2. evidence'[r] = SetRef(evidence[r], key, Expected[key])
    BY <1>0, <1>2
  <2>3. \A k \in DOMAIN evidence'[r] : evidence'[r][k] = Expected[k]
    BY <1>0, <2>2 DEF SetRef, EvidenceIsTrue
  <2> QED  BY <1>0, <2>1, <2>3 DEF EvidenceIsTrue
<1>3. CASE pc[r] \notin Holding
  BY <1>1, <1>3, Outsider
<1>4. CASE Start(r) \/ Abort(r)
  BY <1>1, <1>4 DEF Start, Abort
<1> QED  BY <1>1, <1>2, <1>3, <1>4, HolderEvidence

LEMMA MainStaysPlain ==
    ASSUME DemoInv, [Next]_vars
    PROVE  Plain(refs'["main"])
<1>0. MainThere /\ Plain(refs["main"]) /\ refs["main"] \in Hash
  BY DEF DemoInv, DemoTypeOK, HolderInv, MainThere
<1>1. CASE DemoStep
  BY <1>0, <1>1, StepOnlyBranch, OnlyBranchKeepsMain DEF DemoStep
<1>2. CASE DirectWrite
  <2> DEFINE c == [by |-> DirectBuild, puts |-> Nothing]
  <2>1. refs'["main"] = Append(refs["main"], c)
    BY <1>2 DEF DirectWrite, SetRef
  <2>2. c \in Commit /\ DOMAIN c.puts = {}
    BY DemoCommits, DemoAssumption DEF Nothing
  <2> HIDE DEF c
  <2> QED  BY <1>0, <2>1, <2>2, AppendPlain
<1> QED  BY <1>0, <1>1, <1>2 DEF Next, AllEnded, vars

(* A direct write is none of an invocation's business.                     *)
LEMMA DirectKeeps ==
    ASSUME DemoInv, DirectWrite
    PROVE  DemoTypeOK' /\ EvidenceIsTrue' /\ (\A r \in Runs : pc[r] \in Holding => HolderOf(r)')
<1> DEFINE c == [by |-> DirectBuild, puts |-> Nothing]
<1>1. /\ refs' = SetRef(refs, "main", Append(refs["main"], c))
      /\ UNCHANGED << catalogs, pc, main_ref, existing, hash_good, hash_bad, evidence, faulty,
                      overlapped, barred >>
  BY DEF DirectWrite, localVars
<1>2. c \in Commit
  BY DemoCommits, DemoAssumption
<1> HIDE DEF c
<1>3. Append(refs["main"], c) \in Hash
  BY <1>2, AppendProperties DEF DemoInv, DemoTypeOK, Hash
<1>4. /\ DOMAIN refs' = DOMAIN refs
      /\ \A n \in DOMAIN refs' : refs'[n] \in Hash
      /\ BRANCH_NAME \in DOMAIN refs => refs'[BRANCH_NAME] = refs[BRANCH_NAME]
  BY <1>1, <1>3, NotMain DEF SetRef, DemoInv, DemoTypeOK
<1>5. DemoTypeOK'
  BY <1>1, <1>4 DEF DemoInv, DemoTypeOK
<1>6. EvidenceIsTrue'
  BY <1>1 DEF DemoInv, EvidenceIsTrue
<1>7. ASSUME NEW r \in Runs, pc[r] \in Holding PROVE HolderOf(r)'
  BY <1>1, <1>4, <1>7 DEF DemoInv, HolderInv, HolderOf, BranchAt
<1> QED  BY <1>5, <1>6, <1>7

LEMMA NextDemo == DemoInv /\ [Next]_vars => DemoInv'
<1> SUFFICES ASSUME DemoInv, [Next]_vars PROVE DemoInv'
  OBVIOUS
<1>0. Plain(refs'["main"])
  BY MainStaysPlain
<1>1. CASE UNCHANGED vars
  BY <1>1 DEF vars, localVars, DemoInv, DemoTypeOK, HolderInv, HolderOf, BranchAt, EvidenceIsTrue
<1>2. CASE DirectWrite
  BY <1>0, <1>2, DirectKeeps DEF DemoInv, HolderInv, DirectWrite, localVars
<1>3. CASE DemoStep
  <2>1. PICK r \in Runs : Start(r) \/ Step(r) \/ Abort(r)
    BY <1>3 DEF DemoStep
  <2>2. DemoTypeOK'
    <3>1. PICK h \in Hash : refs' \in {refs, SetRef(refs, BRANCH_NAME, h), DropRef(refs, BRANCH_NAME)}
      BY <2>1, StepRefs
    <3>2. DemoTypeOK
      BY DEF DemoInv
    <3>3. /\ {"main"} \subseteq DOMAIN refs' /\ DOMAIN refs' \subseteq {"main", BRANCH_NAME}
          /\ \A n \in DOMAIN refs' : refs'[n] \in Hash
      BY <3>1, <3>2, RefsStayTyped
    <3> QED  BY <2>1, <3>2, <3>3, StepRecords DEF DemoTypeOK
  <2>3. EvidenceIsTrue'
    BY <2>1, EvidenceStep
  <2>4. \A q \in Runs : Plain(main_ref'[q])
    <3>1. \A q \in Runs \ {r} : main_ref'[q] = main_ref[q]
      BY <2>1, StepRecords DEF DemoInv
    <3>2. Plain(main_ref'[r])
      <4>1. CASE pc[r] \notin Holding
        BY <2>1, <4>1, Outsider
      <4>2. CASE pc[r] \in Holding
        <5>1. UNCHANGED main_ref
          BY <2>1, <4>2 DEF Start, Abort, Step, ReadMain, ReadHash, FindLeftover,
             DeleteLeftover, CreateBranch, CreateCatalog, CreateSchema, CreateTable, Insert,
             Execute, ReadGood, ReadBad, Query, Rollback, HistoryAfter, DropCatalog,
             Statement, At, localVars, Holding
        <5> QED  BY <5>1 DEF DemoInv, HolderInv
      <4> QED  BY <4>1, <4>2
    <3> QED  BY <3>1, <3>2 DEF DemoInv, HolderInv
  <2>5. ASSUME NEW p \in Runs, pc'[p] \in Holding PROVE HolderOf(p)'
    <3>1. CASE p # r
      <4>1. pc[p] \in Holding
        BY <2>1, <2>5, <3>1, StepRecords DEF DemoInv
      <4> QED  BY <2>1, <3>1, <4>1, HolderKept
    <3>2. CASE p = r /\ pc[r] \in Holding
      <4>1. ~ Start(r) /\ ~ Abort(r)
        BY <2>5, <3>2 DEF Start, Abort, Goto, Holding, DemoInv, DemoTypeOK
      <4> QED  BY <2>1, <2>5, <3>2, <4>1, HolderStep
    <3>3. CASE p = r /\ pc[r] \notin Holding
      <4>1. /\ LIVE_CATALOG \notin DOMAIN catalogs /\ LIVE_CATALOG \in DOMAIN catalogs'
            /\ pc'[r] = "create_schema"
        BY <2>1, <2>5, <3>3, Outsider
      <4>2. \A q \in Runs : pc[q] \notin Holding
        BY <4>1 DEF DemoInv, HolderInv, HolderOf
      <4>3. \A q \in Runs : pc'[q] \in Holding => q = r
        BY <2>1, <4>2, StepRecords DEF DemoInv
      <4> QED
        BY <3>3, <4>1, <4>3 DEF HolderOf, BranchAt, BothRead, RolledBack, AsofPinned
    <3> QED  BY <3>1, <3>2, <3>3
  <2> QED  BY <1>0, <2>2, <2>3, <2>4, <2>5 DEF DemoInv, HolderInv
<1> QED  BY <1>1, <1>2, <1>3 DEF Next, AllEnded

THEOREM DemoInvariant == Spec => []DemoInv
BY InitDemo, NextDemo, PTL DEF Spec

(* The demonstration's state keeps its types.                              *)
THEOREM DemoTypeCorrect == Spec => []DemoTypeOK
<1>1. DemoInv => DemoTypeOK
  BY DEF DemoInv
<1> QED  BY <1>1, DemoInvariant, PTL

(* What an invocation writes to its evidence directory is true, however    *)
(* many others overlap it, fail or are killed.                             *)
THEOREM EvidenceAlwaysTrue == Spec => []EvidenceIsTrue
<1>1. DemoInv => EvidenceIsTrue
  BY DEF DemoInv
<1> QED  BY <1>1, DemoInvariant, PTL

(***************************************************************************)
(* An invocation nothing disturbs reaches its end.  The as-of catalog is   *)
(* registered and dropped under the lock, so one that finds the live       *)
(* catalog free finds the other free as well.                              *)
(***************************************************************************)
CatalogInv ==
    /\ ASOF_CATALOG \in DOMAIN catalogs => LIVE_CATALOG \in DOMAIN catalogs
    /\ \A r \in Runs : pc[r] \in Holding \ AsofPinned => ASOF_CATALOG \notin DOMAIN catalogs

Early == {"read_main", "find_leftover", "delete_leftover", "create_branch", "create_live"}
Fresh == {"create_live", "create_schema", "create_table"}

(* The branch an undisturbed invocation finds at each of its statements.   *)
BranchSoFar(r) ==
    /\ pc[r] = "delete_leftover" =>
          BRANCH_NAME \in DOMAIN refs /\ refs[BRANCH_NAME] = existing[r]
    /\ pc[r] = "create_branch" => BRANCH_NAME \notin DOMAIN refs
    /\ pc[r] \in Fresh \cup Holding => BRANCH_NAME \in DOMAIN refs
    /\ pc[r] \in Fresh => Plain(refs[BRANCH_NAME])
    /\ pc[r] \in Holding \ Fresh => HasTable(refs[BRANCH_NAME])
    /\ pc[r] = "insert_bad" => refs[BRANCH_NAME] = hash_good[r]
    /\ pc[r] \in {"read_bad"} \cup BothRead =>
          /\ HasTable(hash_good[r])
          /\ AgreeUpTo(hash_good[r], refs[BRANCH_NAME], Len(hash_good[r]))

(* The evidence it has written by then.                                    *)
EvidenceSoFar(r) ==
    /\ pc[r] \notin {"query_before", "done"} \cup {"rollback"} \cup RolledBack =>
          evidence[r] = Nothing
    /\ pc[r] = "query_before" => DOMAIN evidence[r] = {"asof"}
    /\ pc[r] \in {"rollback", "query_after"} => DOMAIN evidence[r] = {"asof", "before"}
    /\ pc[r] = "history_after" => DOMAIN evidence[r] = {"asof", "before", "after"}
    /\ pc[r] \in {"drop_asof", "drop_live", "done"} => DOMAIN evidence[r] = DOMAIN Expected

Progress(r) ==
    /\ Running(r) => \A q \in Runs : Running(q) => q = r
    /\ pc[r] \in Early => (r \in barred <=> LIVE_CATALOG \in DOMAIN catalogs)
    /\ pc[r] \in Holding \cup {"start", "done"} => r \notin barred
    /\ pc[r] = "failed" => r \in barred
    /\ BranchSoFar(r)
    /\ EvidenceSoFar(r)

AloneInv == \A r \in Runs \ (faulty \cup overlapped) : Progress(r)

AllInv == DemoInv /\ CatalogInv /\ AloneInv

LEMMA InitAll == Init => AllInv
<1>1. Init => CatalogInv
  BY DEF Init, CatalogInv, Nothing, Holding
<1>2. Init => AloneInv
  BY DEF Init, AloneInv, Progress, BranchSoFar, EvidenceSoFar, Nothing, Running, Stopped,
     Early, Fresh, Holding, BothRead, RolledBack
<1> QED  BY <1>1, <1>2, InitDemo DEF AllInv

(* Only the holder of the lock registers or drops the as-of catalog.       *)
LEMMA CatalogStep ==
    ASSUME DemoInv, CatalogInv, NEW r \in Runs, Start(r) \/ Step(r) \/ Abort(r)
    PROVE  CatalogInv'
<1>0. /\ DemoTypeOK /\ DOMAIN catalogs \subseteq {LIVE_CATALOG, ASOF_CATALOG}
      /\ \A p \in Runs \ {r} : pc'[p] = pc[p]
      /\ LIVE_CATALOG # ASOF_CATALOG
  BY StepRecords DEF DemoInv, DemoTypeOK, LIVE_CATALOG, ASOF_CATALOG
<1>1. CASE pc[r] \notin Holding
  <2>1. CASE catalogs' = catalogs /\ pc'[r] \notin Holding
    BY <1>0, <2>1 DEF CatalogInv
  <2>2. CASE /\ LIVE_CATALOG \notin DOMAIN catalogs
             /\ DOMAIN catalogs' = DOMAIN catalogs \cup {LIVE_CATALOG}
    <3>1. ASOF_CATALOG \notin DOMAIN catalogs'
      BY <1>0, <2>2 DEF CatalogInv
    <3> QED  BY <3>1 DEF CatalogInv
  <2> QED  BY <1>1, <2>1, <2>2, Outsider
<1> USE DEF Goto, At, Statement, localVars, AsofPinned
<1>2. CASE Start(r) \/ Abort(r)
  BY <1>0, <1>2 DEF Start, Abort, CatalogInv, DemoTypeOK, Holding
<1>3. ASSUME pc[r] \in Holding PROVE LIVE_CATALOG \in DOMAIN catalogs
                                     /\ \A p \in Runs \ {r} : pc'[p] \notin Holding
  BY <1>0, <1>3 DEF DemoInv, HolderInv, HolderOf
<1>4. CASE CreateCatalog(r, "create_asof", "query_asof", ASOF_CATALOG, Pinned(hash_good[r]))
  <2>1. pc[r] = "create_asof" /\ pc'[r] \in {"query_asof", "failed"}
    BY <1>0, <1>4 DEF CreateCatalog, DemoTypeOK
  <2>2. LIVE_CATALOG \in DOMAIN catalogs'
    BY <1>3, <1>4, <2>1 DEF CreateCatalog, SetRef, Holding
  <2> QED  BY <1>3, <2>1, <2>2 DEF CatalogInv, Holding
<1>5. CASE DropCatalog(r, "drop_asof", "drop_live", ASOF_CATALOG)
  <2>1. ASOF_CATALOG \notin DOMAIN catalogs'
    BY <1>5 DEF DropCatalog
  <2> QED  BY <2>1 DEF CatalogInv
<1>6. CASE DropCatalog(r, "drop_live", "done", LIVE_CATALOG)
  <2>1. ASOF_CATALOG \notin DOMAIN catalogs'
    BY <1>6 DEF DropCatalog, CatalogInv, Holding
  <2> QED  BY <2>1 DEF CatalogInv
<1>7. ASSUME UNCHANGED catalogs,
             pc'[r] \in Holding \ AsofPinned => pc[r] \in Holding \ AsofPinned
      PROVE  CatalogInv'
  BY <1>0, <1>7 DEF CatalogInv
<1> DEFINE Quiet == /\ UNCHANGED catalogs
                    /\ pc'[r] \in Holding \ AsofPinned => pc[r] \in Holding \ AsofPinned
<1>8. CASE ReadMain(r) \/ FindLeftover(r) \/ DeleteLeftover(r) \/ CreateBranch(r)
           \/ CreateCatalog(r, "create_live", "create_schema", LIVE_CATALOG, "head")
  <2>1. pc[r] \notin Holding
    BY <1>8 DEF ReadMain, ReadHash, FindLeftover, DeleteLeftover, CreateBranch, CreateCatalog, Holding
  <2> QED  BY <1>1, <2>1
<1>9. CASE \/ CreateSchema(r) \/ CreateTable(r) \/ ReadGood(r) \/ ReadBad(r)
           \/ Insert(r, "insert_good", "read_good", Good)
           \/ Insert(r, "insert_bad", "read_bad", Bad)
  <2>1. Quiet
    BY <1>0, <1>9 DEF CreateSchema, CreateTable, ReadGood, ReadBad, ReadHash, Insert, Execute,
       DemoTypeOK, Holding
  <2> QED  BY <1>7, <2>1
<1>10. CASE \/ Query(r, "query_asof", "query_before", ASOF_CATALOG, "asof")
            \/ Query(r, "query_before", "rollback", LIVE_CATALOG, "before")
            \/ Rollback(r)
            \/ Query(r, "query_after", "history_after", LIVE_CATALOG, "after")
            \/ HistoryAfter(r)
  <2>1. Quiet
    BY <1>0, <1>10 DEF Query, Rollback, HistoryAfter, DemoTypeOK, Holding
  <2> QED  BY <1>7, <2>1
<1> QED  BY <1>2, <1>4, <1>5, <1>6, <1>8, <1>9, <1>10 DEF Step

(* While an undisturbed invocation runs, no other makes a step; what       *)
(* others do before or after is not about its records.                     *)
LEMMA OthersKeepProgress ==
    ASSUME DemoInv, NEW r \in Runs, Progress(r), NEW q \in Runs, q # r,
           Start(q) \/ Step(q) \/ Abort(q), r \notin overlapped'
    PROVE  Progress(r)'
<1>0. DemoTypeOK /\ pc'[r] = pc[r] /\ evidence'[r] = evidence[r]
  BY StepRecords DEF DemoInv
<1>1. ~ Running(r)
  <2>1. SUFFICES ASSUME Running(r) PROVE FALSE
    OBVIOUS
  <2>2. CASE Start(q)
    BY <2>1, <2>2 DEF Start
  <2>3. CASE Abort(q)
    BY <2>1, <2>3 DEF Abort, Progress
  <2>4. CASE Step(q)
    <3>1. Running(q)
      BY <2>4 DEF Step, ReadMain, ReadHash, FindLeftover, DeleteLeftover, CreateBranch,
         CreateCatalog, CreateSchema, CreateTable, Insert, Execute, ReadGood, ReadBad, Query,
         Rollback, HistoryAfter, DropCatalog, Statement, At, Running, Stopped
    <3> QED  BY <2>1, <3>1 DEF Progress
  <2> QED  BY <2>2, <2>3, <2>4
<1>2. r \in barred' <=> r \in barred
  BY DEF Start, Step, Abort, ReadMain, ReadHash, FindLeftover, DeleteLeftover, CreateBranch,
     CreateCatalog, CreateSchema, CreateTable, Insert, Execute, ReadGood, ReadBad, Query,
     Rollback, HistoryAfter, DropCatalog, Statement, At
<1> QED
  BY <1>0, <1>1, <1>2 DEF Progress, BranchSoFar, EvidenceSoFar, Running, Stopped, Early,
     Fresh, Holding, BothRead, RolledBack

(* A call that is not faulty answers what the server says.                 *)
LEMMA FaultlessCall ==
    ASSUME NEW r, NEW before, NEW after, NEW out \in CallOutcomes(TRUE, TRUE, before, after),
           Answered(r, out.reply, TRUE), r \notin faulty'
    PROVE  out.reply = "ok" /\ out.refs = after
<1>1. out.reply \in {"ok", "error", "raw"}
  BY DEF CallOutcomes
<1>2. out.reply # "raw" /\ out.reply # "error"
  BY DEF Answered
<1>3. out.reply = "ok" => out.refs = after
  BY DEF CallOutcomes
<1> QED  BY <1>1, <1>2, <1>3

(* An insert keeps the history it extends, and the table is there.         *)
LEMMA InsertExtends ==
    ASSUME DemoTypeOK, NEW r \in Runs, NEW label, NEW next, NEW batch,
           Insert(r, label, next, batch), refs' # refs,
           Append(Content(refs[BRANCH_NAME])[Demo], batch) \in Values
    PROVE  AgreeUpTo(refs[BRANCH_NAME], refs'[BRANCH_NAME], Len(refs[BRANCH_NAME]))
<1> DEFINE h == refs[BRANCH_NAME]
           c == [by |-> r, puts |-> [t \in {Demo} |-> Append(Content(h)[Demo], batch)]]
<1>1. /\ BRANCH_NAME \in DOMAIN refs
      /\ refs' = SetRef(refs, BRANCH_NAME, Append(h, c))
  <2>1. [t \in {Demo} |-> Append(Content(h)[t], batch)]
          = [t \in {Demo} |-> Append(Content(h)[Demo], batch)]
    OBVIOUS
  <2> QED  BY <2>1 DEF Insert, Execute, Resolves, Seen, Commit1, LIVE_CATALOG
<1>2. h \in Hash
  BY <1>1 DEF DemoTypeOK
<1>3. c \in Commit
  BY DemoCommits, DemoAssumption
<1> HIDE DEF c
<1>4. refs'[BRANCH_NAME] = Append(h, c)
  BY <1>1 DEF SetRef
<1>5. AgreeUpTo(h, h, Len(h))
  BY <1>2, LenProperties DEF AgreeUpTo, Hash
<1> QED  BY <1>2, <1>3, <1>4, <1>5, AppendAgrees

(* Up to its lock: the leftover goes, the branch is cut from main.         *)
LEMMA EarlyProgress ==
    ASSUME AllInv, NEW r \in Runs, Progress(r), r \notin faulty', r \notin overlapped',
           \/ Start(r) \/ ReadMain(r) \/ FindLeftover(r) \/ DeleteLeftover(r) \/ CreateBranch(r)
           \/ CreateCatalog(r, "create_live", "create_schema", LIVE_CATALOG, "head")
    PROVE  Progress(r)'
<1>0. /\ DemoTypeOK /\ Plain(main_ref[r])
      /\ \A p \in Runs \ {r} : pc'[p] = pc[p]
  BY StepRecords DEF AllInv, DemoInv, HolderInv, Step
<1> DEFINE Solo == Running(r)' => \A q \in Runs : Running(q)' => q = r
<1>1. ASSUME Running(r) PROVE Solo
  BY <1>0, <1>1 DEF Progress, Running
<1> HIDE DEF Solo
<1> USE DEF Goto, At, Statement, localVars, Running, Stopped, Early, Fresh, Holding, BothRead,
            RolledBack
<1>2. CASE Start(r)
  <2>1. Solo
    BY <1>0, <1>2 DEF Start, DemoTypeOK, Solo
  <2>2. /\ pc[r] = "start" /\ pc'[r] = "read_main"
        /\ r \in barred' <=> r \in barred \/ LIVE_CATALOG \in DOMAIN catalogs
        /\ UNCHANGED << refs, catalogs, evidence >>
    BY <1>0, <1>2 DEF Start, DemoTypeOK
  <2> QED  BY <2>1, <2>2 DEF Progress, BranchSoFar, EvidenceSoFar, Solo
<1>3. CASE ReadMain(r)
  <2>1. /\ pc[r] = "read_main" /\ pc'[r] = "find_leftover"
        /\ UNCHANGED << refs, catalogs, evidence, barred >>
    BY <1>0, <1>3 DEF ReadMain, ReadHash, DemoTypeOK
  <2> QED  BY <1>1, <2>1 DEF Progress, BranchSoFar, EvidenceSoFar, Solo
<1>4. CASE FindLeftover(r)
  <2>1. pc[r] = "find_leftover" /\ UNCHANGED << refs, catalogs, evidence, barred >>
    BY <1>4 DEF FindLeftover
  <2>2. PICK reply \in ReadOutcomes(TRUE, refs, BRANCH_NAME) :
           /\ Answered(r, reply, BRANCH_NAME \in DOMAIN refs)
           /\ \/ /\ reply = "ok"
                 /\ existing' = [existing EXCEPT ![r] = refs[BRANCH_NAME]]
                 /\ Goto(r, "delete_leftover")
              \/ reply = "error" /\ Goto(r, "create_branch") /\ UNCHANGED existing
              \/ reply = "raw" /\ Goto(r, "failed") /\ UNCHANGED existing
    BY <1>4 DEF FindLeftover
  <2>3. /\ reply # "raw"
        /\ reply = "error" => BRANCH_NAME \notin DOMAIN refs
        /\ reply = "ok" => BRANCH_NAME \in DOMAIN refs
    BY <2>2 DEF Answered, ReadOutcomes
  <2>4. \/ pc'[r] = "delete_leftover" /\ BRANCH_NAME \in DOMAIN refs
             /\ existing'[r] = refs[BRANCH_NAME]
        \/ pc'[r] = "create_branch" /\ BRANCH_NAME \notin DOMAIN refs
    BY <1>0, <2>2, <2>3 DEF DemoTypeOK
  <2> QED  BY <1>1, <2>1, <2>4 DEF Progress, BranchSoFar, EvidenceSoFar, Solo
<1>5. CASE DeleteLeftover(r)
  <2>1. pc[r] = "delete_leftover" /\ UNCHANGED << catalogs, evidence, barred >>
    BY <1>5 DEF DeleteLeftover
  <2>2. Checked(refs, BRANCH_NAME, existing[r])
    BY <2>1 DEF Progress, BranchSoFar, Checked
  <2>3. PICK out \in delete_reference(TRUE, refs, BRANCH_NAME, existing[r]) :
           /\ Answered(r, out.reply, Checked(refs, BRANCH_NAME, existing[r]))
           /\ refs' = out.refs
           /\ Goto(r, IF out.reply = "raw" THEN "failed" ELSE "create_branch")
    BY <1>5 DEF DeleteLeftover
  <2>4. out.reply = "ok" /\ out.refs = DropRef(refs, BRANCH_NAME)
    <3>1. Checked(refs, BRANCH_NAME, existing[r]) = TRUE
      BY <2>2 DEF Checked
    <3>2. /\ out \in CallOutcomes(TRUE, TRUE, refs, DropRef(refs, BRANCH_NAME))
          /\ Answered(r, out.reply, TRUE)
      BY <2>3, <3>1 DEF delete_reference
    <3> QED  BY <3>2, FaultlessCall
  <2>5. pc'[r] = "create_branch" /\ BRANCH_NAME \notin DOMAIN refs'
    BY <1>0, <2>3, <2>4 DEF DemoTypeOK, DropRef
  <2> QED  BY <1>1, <2>1, <2>5 DEF Progress, BranchSoFar, EvidenceSoFar, Solo
<1>6. CASE CreateBranch(r)
  <2>1. pc[r] = "create_branch" /\ UNCHANGED << catalogs, evidence, barred >>
    BY <1>6 DEF CreateBranch
  <2>2. BRANCH_NAME \notin DOMAIN refs
    BY <2>1 DEF Progress, BranchSoFar
  <2>3. PICK out \in create_branch(TRUE, refs, BRANCH_NAME, main_ref[r]) :
           /\ Answered(r, out.reply, BRANCH_NAME \notin DOMAIN refs)
           /\ refs' = out.refs
           /\ Goto(r, IF out.reply = "ok" THEN "create_live" ELSE "failed")
    BY <1>6 DEF CreateBranch
  <2>4. out.reply = "ok" /\ out.refs = SetRef(refs, BRANCH_NAME, main_ref[r])
    <3>1. (BRANCH_NAME \notin DOMAIN refs) = TRUE
      BY <2>2 DEF Checked
    <3>2. /\ out \in CallOutcomes(TRUE, TRUE, refs, SetRef(refs, BRANCH_NAME, main_ref[r]))
          /\ Answered(r, out.reply, TRUE)
      BY <2>3, <3>1 DEF create_branch
    <3> QED  BY <3>2, FaultlessCall
  <2>5. /\ pc'[r] = "create_live" /\ BRANCH_NAME \in DOMAIN refs'
        /\ refs'[BRANCH_NAME] = main_ref[r]
    BY <1>0, <2>3, <2>4 DEF DemoTypeOK, SetRef
  <2> QED  BY <1>0, <1>1, <2>1, <2>5 DEF Progress, BranchSoFar, EvidenceSoFar, Solo
<1>7. CASE CreateCatalog(r, "create_live", "create_schema", LIVE_CATALOG, "head")
  <2>1. /\ pc[r] = "create_live" /\ UNCHANGED << refs, evidence, barred >>
        /\ pc'[r] = IF LIVE_CATALOG \in DOMAIN catalogs THEN "failed" ELSE "create_schema"
    BY <1>0, <1>7 DEF CreateCatalog, DemoTypeOK
  <2> QED  BY <1>1, <2>1 DEF Progress, BranchSoFar, EvidenceSoFar, Solo
<1> QED  BY <1>2, <1>3, <1>4, <1>5, <1>6, <1>7

(* Under its lock: both batches go in, and come out with the rollback.     *)
LEMMA BatchProgress ==
    ASSUME AllInv, NEW r \in Runs, Progress(r), r \notin faulty',
           \/ CreateSchema(r) \/ CreateTable(r)
           \/ Insert(r, "insert_good", "read_good", Good) \/ ReadGood(r)
           \/ Insert(r, "insert_bad", "read_bad", Bad) \/ ReadBad(r)
           \/ Rollback(r)
    PROVE  Progress(r)'
<1>0. /\ DemoTypeOK /\ DemoInv
      /\ \A p \in Runs \ {r} : pc'[p] = pc[p]
      /\ pc[r] \in Holding => HolderOf(r)
      /\ BRANCH_NAME \in DOMAIN refs => refs[BRANCH_NAME] \in Hash
  BY StepRecords DEF AllInv, DemoInv, HolderInv, Step, DemoTypeOK
<1> DEFINE Solo == Running(r)' => \A q \in Runs : Running(q)' => q = r
<1>1. ASSUME Running(r) PROVE Solo
  BY <1>0, <1>1 DEF Progress, Running
<1> HIDE DEF Solo
<1> USE DEF Goto, At, Statement, localVars, Running, Stopped, Early, Fresh, Holding, BothRead,
            RolledBack
<1>2. CASE CreateSchema(r)
  <2>1. /\ pc[r] = "create_schema" /\ UNCHANGED << catalogs, evidence, barred >>
    BY <1>2 DEF CreateSchema, Execute
  <2>2. Resolves(LIVE_CATALOG) /\ Plain(refs[BRANCH_NAME])
    BY <1>0, <2>1 DEF Progress, BranchSoFar, HolderOf, Resolves, LIVE_CATALOG, ASOF_CATALOG
  <2>3. pc'[r] = "create_table"
    BY <1>0, <1>2, <2>2 DEF CreateSchema, Execute, DemoTypeOK
  <2>4. BRANCH_NAME \in DOMAIN refs' /\ Plain(refs'[BRANCH_NAME])
    <3>1. CASE refs' = refs
      BY <2>2, <3>1 DEF Resolves
    <3>2. CASE refs' # refs
      BY <1>0, <1>2, <2>2, <3>2, SchemaCommits DEF SetRef
    <3> QED  BY <3>1, <3>2
  <2> QED  BY <1>1, <2>1, <2>3, <2>4 DEF Progress, BranchSoFar, EvidenceSoFar, Solo
<1>3. CASE CreateTable(r)
  <2>1. /\ pc[r] = "create_table" /\ UNCHANGED << catalogs, evidence, barred >>
    BY <1>3 DEF CreateTable, Execute
  <2>2. /\ Resolves(LIVE_CATALOG) /\ Plain(refs[BRANCH_NAME])
        /\ Seen(LIVE_CATALOG) = refs[BRANCH_NAME]
    BY <1>0, <2>1 DEF Progress, BranchSoFar, HolderOf, Resolves, LIVE_CATALOG, ASOF_CATALOG, Seen
  <2>3. ~ HasTable(Seen(LIVE_CATALOG))
    BY <1>0, <2>2, HasTableIs DEF Resolves
  <2>4. pc'[r] = "insert_good"
    BY <1>0, <1>3, <2>2, <2>3 DEF CreateTable, Execute, DemoTypeOK
  <2>5. BRANCH_NAME \in DOMAIN refs' /\ HasTable(refs'[BRANCH_NAME])
    BY <1>0, <1>3, <2>4, TableCommits DEF SetRef, Holds
  <2> QED  BY <1>1, <2>1, <2>4, <2>5 DEF Progress, BranchSoFar, EvidenceSoFar, Solo
<1>4. ASSUME NEW label \in {"insert_good", "insert_bad"}, NEW next, NEW batch,
             Insert(r, label, next, batch)
      PROVE  /\ pc[r] = label /\ pc'[r] = next
             /\ UNCHANGED << catalogs, evidence, barred, hash_good, hash_bad >>
             /\ HasTable(refs[BRANCH_NAME]) /\ BRANCH_NAME \in DOMAIN refs
  <2>1. pc[r] = label /\ UNCHANGED << catalogs, evidence, barred, hash_good, hash_bad >>
    BY <1>4 DEF Insert, Execute
  <2>2. /\ Resolves(LIVE_CATALOG) /\ HasTable(refs[BRANCH_NAME])
        /\ Seen(LIVE_CATALOG) = refs[BRANCH_NAME]
    BY <1>0, <2>1 DEF Progress, BranchSoFar, HolderOf, Resolves, LIVE_CATALOG, ASOF_CATALOG, Seen
  <2>3. pc'[r] = next
    BY <1>0, <1>4, <2>2 DEF Insert, Execute, DemoTypeOK
  <2> QED  BY <2>1, <2>2, <2>3 DEF Resolves
<1>5. CASE Insert(r, "insert_good", "read_good", Good)
  <2>1. /\ pc[r] = "insert_good" /\ pc'[r] = "read_good"
        /\ UNCHANGED << catalogs, evidence, barred >>
        /\ HasTable(refs[BRANCH_NAME]) /\ BRANCH_NAME \in DOMAIN refs
    BY <1>4, <1>5
  <2>2. Holds(refs[BRANCH_NAME], << >>)
    BY <1>0, <2>1, HasTableIs DEF HolderOf, BranchAt
  <2>3. /\ Append(<< >>, Good) = <<Good>> /\ <<Good>> \in Values
    BY DemoAssumption
  <2>4. BRANCH_NAME \in DOMAIN refs' /\ HasTable(refs'[BRANCH_NAME])
    <3>1. /\ refs' = SetRef(refs, BRANCH_NAME, refs'[BRANCH_NAME])
          /\ Holds(refs'[BRANCH_NAME], <<Good>>)
      BY <1>0, <1>5, <2>1, <2>2, <2>3, InsertCommits
    <3> QED  BY <3>1 DEF SetRef, Holds
  <2> QED  BY <1>1, <2>1, <2>4 DEF Progress, BranchSoFar, EvidenceSoFar, Solo
<1>6. CASE ReadGood(r)
  <2>1. /\ pc[r] = "read_good" /\ BRANCH_NAME \in DOMAIN refs
        /\ UNCHANGED << refs, catalogs, evidence, barred >>
    BY <1>6 DEF ReadGood, ReadHash, Progress, BranchSoFar
  <2>2. pc'[r] = "insert_bad" /\ hash_good'[r] = refs[BRANCH_NAME]
    BY <1>0, <1>6, <2>1 DEF ReadGood, ReadHash, DemoTypeOK
  <2> QED  BY <1>1, <2>1, <2>2 DEF Progress, BranchSoFar, EvidenceSoFar, Solo
<1>7. CASE Insert(r, "insert_bad", "read_bad", Bad)
  <2>1. /\ pc[r] = "insert_bad" /\ pc'[r] = "read_bad"
        /\ UNCHANGED << catalogs, evidence, barred, hash_good >>
        /\ HasTable(refs[BRANCH_NAME]) /\ BRANCH_NAME \in DOMAIN refs
    BY <1>4, <1>7
  <2>2. Holds(refs[BRANCH_NAME], <<Good>>)
    BY <1>0, <2>1, HasTableIs DEF HolderOf, BranchAt, GoodHash
  <2>3. /\ refs' = SetRef(refs, BRANCH_NAME, refs'[BRANCH_NAME])
        /\ Holds(refs'[BRANCH_NAME], <<Good, Bad>>)
    BY <1>0, <1>7, <2>1, <2>2, GoodThenBad, InsertCommits, DemoAssumption
  <2>4. BRANCH_NAME \in DOMAIN refs' /\ HasTable(refs'[BRANCH_NAME])
    BY <2>3 DEF SetRef, Holds
  <2>5. AgreeUpTo(refs[BRANCH_NAME], refs'[BRANCH_NAME], Len(refs[BRANCH_NAME]))
    <3>1. refs' # refs
      BY <2>2, <2>3, TwoContents DEF Holds
    <3>2. Append(Content(refs[BRANCH_NAME])[Demo], Bad) \in Values
      BY <2>2, GoodThenBad, DemoAssumption DEF Holds
    <3> QED  BY <1>0, <1>7, <3>1, <3>2, InsertExtends
  <2>6. refs[BRANCH_NAME] = hash_good[r]
    BY <2>1 DEF Progress, BranchSoFar
  <2> QED  BY <1>1, <2>1, <2>4, <2>5, <2>6 DEF Progress, BranchSoFar, EvidenceSoFar, Solo
<1>8. CASE ReadBad(r)
  <2>1. /\ pc[r] = "read_bad" /\ BRANCH_NAME \in DOMAIN refs
        /\ UNCHANGED << refs, catalogs, evidence, barred, hash_good >>
    BY <1>8 DEF ReadBad, ReadHash, Progress, BranchSoFar
  <2>2. pc'[r] = "create_asof"
    BY <1>0, <1>8, <2>1 DEF ReadBad, ReadHash, DemoTypeOK
  <2> QED  BY <1>1, <2>1, <2>2 DEF Progress, BranchSoFar, EvidenceSoFar, Solo
<1>9. CASE Rollback(r)
  <2>1. /\ pc[r] = "rollback" /\ UNCHANGED << catalogs, evidence, barred, hash_good >>
    BY <1>9 DEF Rollback
  <2>2. /\ BRANCH_NAME \in DOMAIN refs /\ HasTable(refs[BRANCH_NAME]) /\ HasTable(hash_good[r])
    BY <2>1 DEF Progress, BranchSoFar
  <2>3. Checked(refs, BRANCH_NAME, hash_bad[r])
    BY <1>0, <2>1, <2>2, HasTableIs DEF HolderOf, BranchAt, Checked
  <2>4. PICK out \in assign_reference(TRUE, refs, BRANCH_NAME, hash_bad[r], hash_good[r]) :
           /\ Answered(r, out.reply, Checked(refs, BRANCH_NAME, hash_bad[r]))
           /\ refs' = out.refs
           /\ Goto(r, IF out.reply = "ok" THEN "query_after" ELSE "failed")
    BY <1>9 DEF Rollback
  <2>5. out.reply = "ok" /\ out.refs = SetRef(refs, BRANCH_NAME, hash_good[r])
    <3>1. Checked(refs, BRANCH_NAME, hash_bad[r]) = TRUE
      BY <2>3 DEF Checked
    <3>2. /\ out \in CallOutcomes(TRUE, TRUE, refs, SetRef(refs, BRANCH_NAME, hash_good[r]))
          /\ Answered(r, out.reply, TRUE)
      BY <2>4, <3>1 DEF assign_reference
    <3> QED  BY <3>2, FaultlessCall
  <2>6. /\ pc'[r] = "query_after" /\ BRANCH_NAME \in DOMAIN refs'
        /\ refs'[BRANCH_NAME] = hash_good[r]
    BY <1>0, <2>4, <2>5 DEF DemoTypeOK, SetRef
  <2> QED  BY <1>1, <2>1, <2>2, <2>6 DEF Progress, BranchSoFar, EvidenceSoFar, Solo
<1> QED  BY <1>2, <1>3, <1>5, <1>6, <1>7, <1>8, <1>9

(* Its queries: each catalog resolves, and the table is there.             *)
LEMMA QueryProgress ==
    ASSUME AllInv, NEW r \in Runs, Progress(r),
           \/ CreateCatalog(r, "create_asof", "query_asof", ASOF_CATALOG, Pinned(hash_good[r]))
           \/ Query(r, "query_asof", "query_before", ASOF_CATALOG, "asof")
           \/ Query(r, "query_before", "rollback", LIVE_CATALOG, "before")
           \/ Query(r, "query_after", "history_after", LIVE_CATALOG, "after")
           \/ HistoryAfter(r)
           \/ DropCatalog(r, "drop_asof", "drop_live", ASOF_CATALOG)
           \/ DropCatalog(r, "drop_live", "done", LIVE_CATALOG)
    PROVE  Progress(r)'
<1>0. /\ DemoTypeOK /\ CatalogInv
      /\ \A p \in Runs \ {r} : pc'[p] = pc[p]
      /\ pc[r] \in Holding => HolderOf(r)
  BY StepRecords DEF AllInv, DemoInv, HolderInv, Step
<1> DEFINE Solo == Running(r)' => \A q \in Runs : Running(q)' => q = r
<1>1. ASSUME Running(r) PROVE Solo
  BY <1>0, <1>1 DEF Progress, Running
<1>E. DOMAIN Expected = {"asof", "before", "after", "bad_reachable"}
  BY DEF Expected
<1> HIDE DEF Solo
<1> USE DEF Goto, At, Statement, localVars, Running, Stopped, Early, Fresh, Holding, BothRead,
            RolledBack
<1>2. CASE CreateCatalog(r, "create_asof", "query_asof", ASOF_CATALOG, Pinned(hash_good[r]))
  <2>1. pc[r] = "create_asof" /\ UNCHANGED << refs, evidence, barred, hash_good >>
    BY <1>2 DEF CreateCatalog
  <2>2. ASOF_CATALOG \notin DOMAIN catalogs
    BY <1>0, <2>1 DEF CatalogInv, AsofPinned
  <2>3. pc'[r] = "query_asof"
    BY <1>0, <1>2, <2>2 DEF CreateCatalog, DemoTypeOK
  <2> QED  BY <1>1, <2>1, <2>3 DEF Progress, BranchSoFar, EvidenceSoFar, Solo
<1>3. ASSUME pc[r] \in Holding \ Fresh
      PROVE  /\ Resolves(LIVE_CATALOG) /\ Seen(LIVE_CATALOG) = refs[BRANCH_NAME]
             /\ HasTable(Seen(LIVE_CATALOG)) /\ BRANCH_NAME \in DOMAIN refs
  BY <1>0, <1>3 DEF Progress, BranchSoFar, HolderOf, Resolves, Seen, LIVE_CATALOG, ASOF_CATALOG
<1>4. ASSUME pc[r] = "query_asof"
      PROVE  Resolves(ASOF_CATALOG) /\ HasTable(Seen(ASOF_CATALOG))
  <2>1. /\ ASOF_CATALOG \in DOMAIN catalogs /\ catalogs[ASOF_CATALOG].pin = hash_good[r]
        /\ Seen(ASOF_CATALOG) = hash_good[r]
    BY <1>0, <1>4 DEF HolderOf, AsofPinned, Pinned, Seen, LIVE_CATALOG, ASOF_CATALOG
  <2> QED  BY <1>4, <2>1 DEF Progress, BranchSoFar, Resolves, Reachable
<1>5. ASSUME NEW label, NEW next, NEW name, NEW key, Query(r, label, next, name, key),
             Resolves(name), HasTable(Seen(name))
      PROVE  /\ pc[r] = label /\ pc'[r] = next
             /\ UNCHANGED << refs, catalogs, barred, hash_good, existing >>
             /\ DOMAIN evidence'[r] = DOMAIN evidence[r] \cup {key}
  <2>1. /\ pc[r] = label /\ UNCHANGED << refs, catalogs, barred, hash_good, existing >>
        /\ pc' = [pc EXCEPT ![r] = next]
        /\ evidence' = [evidence EXCEPT ![r] = SetRef(@, key, Content(Seen(name))[Demo])]
    BY <1>5 DEF Query
  <2>2. evidence'[r] = SetRef(evidence[r], key, Content(Seen(name))[Demo])
    BY <1>0, <2>1 DEF DemoTypeOK
  <2> QED  BY <1>0, <2>1, <2>2 DEF SetRef, DemoTypeOK
<1>6. CASE Query(r, "query_asof", "query_before", ASOF_CATALOG, "asof")
  <2>1. pc[r] = "query_asof"
    BY <1>6 DEF Query
  <2>2. /\ pc'[r] = "query_before"
        /\ UNCHANGED << refs, catalogs, barred, hash_good, existing >>
        /\ DOMAIN evidence'[r] = DOMAIN evidence[r] \cup {"asof"}
    BY <1>4, <1>5, <1>6, <2>1
  <2>3. DOMAIN evidence[r] = {}
    BY <2>1 DEF Progress, EvidenceSoFar, Nothing
  <2> QED  BY <1>1, <2>1, <2>2, <2>3 DEF Progress, BranchSoFar, EvidenceSoFar, Solo
<1>7. CASE Query(r, "query_before", "rollback", LIVE_CATALOG, "before")
  <2>1. pc[r] = "query_before"
    BY <1>7 DEF Query
  <2>2. /\ pc'[r] = "rollback"
        /\ UNCHANGED << refs, catalogs, barred, hash_good, existing >>
        /\ DOMAIN evidence'[r] = DOMAIN evidence[r] \cup {"before"}
    BY <1>3, <1>5, <1>7, <2>1
  <2> QED  BY <1>1, <2>1, <2>2 DEF Progress, BranchSoFar, EvidenceSoFar, Solo
<1>8. CASE Query(r, "query_after", "history_after", LIVE_CATALOG, "after")
  <2>1. pc[r] = "query_after"
    BY <1>8 DEF Query
  <2>2. /\ pc'[r] = "history_after"
        /\ UNCHANGED << refs, catalogs, barred, hash_good, existing >>
        /\ DOMAIN evidence'[r] = DOMAIN evidence[r] \cup {"after"}
    BY <1>3, <1>5, <1>8, <2>1
  <2> QED  BY <1>1, <2>1, <2>2 DEF Progress, BranchSoFar, EvidenceSoFar, Solo
<1>9. CASE HistoryAfter(r)
  <2>1. pc[r] = "history_after" /\ UNCHANGED << refs, catalogs, barred, hash_good, existing >>
    BY <1>9 DEF HistoryAfter
  <2>2. BRANCH_NAME \in DOMAIN refs
    BY <1>3, <2>1
  <2>3. /\ pc'[r] = "drop_asof"
        /\ evidence'[r] = SetRef(evidence[r], "bad_reachable", Reachable(hash_bad[r]))
    BY <1>0, <1>9, <2>2 DEF HistoryAfter, DemoTypeOK
  <2>4. DOMAIN evidence'[r] = DOMAIN evidence[r] \cup {"bad_reachable"}
    BY <2>3 DEF SetRef
  <2> QED  BY <1>1, <1>E, <2>1, <2>3, <2>4 DEF Progress, BranchSoFar, EvidenceSoFar, Solo
<1>10. CASE \/ DropCatalog(r, "drop_asof", "drop_live", ASOF_CATALOG)
            \/ DropCatalog(r, "drop_live", "done", LIVE_CATALOG)
  <2>1. /\ UNCHANGED << refs, evidence, barred, hash_good, existing >>
        /\ \/ pc[r] = "drop_asof" /\ pc'[r] = "drop_live"
           \/ pc[r] = "drop_live" /\ pc'[r] = "done"
    BY <1>0, <1>10 DEF DropCatalog, DemoTypeOK
  <2> QED  BY <1>1, <2>1 DEF Progress, BranchSoFar, EvidenceSoFar, Solo
<1> QED  BY <1>2, <1>6, <1>7, <1>8, <1>9, <1>10

LEMMA NextAlone == AllInv /\ [Next]_vars => AloneInv'
<1> SUFFICES ASSUME AllInv, [Next]_vars PROVE AloneInv'
  OBVIOUS
<1>1. CASE UNCHANGED vars
  BY <1>1 DEF vars, localVars, AllInv, AloneInv, Progress, BranchSoFar, EvidenceSoFar, Running
<1>2. CASE DirectWrite
  <2>1. /\ BRANCH_NAME \in DOMAIN refs' <=> BRANCH_NAME \in DOMAIN refs
        /\ BRANCH_NAME \in DOMAIN refs => refs'[BRANCH_NAME] = refs[BRANCH_NAME]
        /\ UNCHANGED << catalogs, pc, existing, hash_good, evidence, faulty, overlapped, barred >>
    BY <1>2, NotMain DEF DirectWrite, SetRef, localVars, AllInv, DemoInv, DemoTypeOK
  <2>2. ASSUME NEW r \in Runs, Progress(r) PROVE Progress(r)'
    <3>1. BranchSoFar(r)'
      BY <2>1, <2>2 DEF Progress, BranchSoFar, Fresh, Holding, BothRead
    <3> QED  BY <2>1, <2>2, <3>1 DEF Progress, EvidenceSoFar, Running
  <2> QED  BY <2>1, <2>2 DEF AllInv, AloneInv
<1>3. CASE DemoStep
  <2>1. PICK q \in Runs : Start(q) \/ Step(q) \/ Abort(q)
    BY <1>3 DEF DemoStep
  <2>2. ASSUME NEW r \in Runs, r \notin faulty', r \notin overlapped' PROVE Progress(r)'
    <3>1. r \notin faulty /\ r \notin overlapped
      BY <2>1, <2>2 DEF Start, Step, Abort, ReadMain, ReadHash, FindLeftover, DeleteLeftover,
         CreateBranch, CreateCatalog, CreateSchema, CreateTable, Insert, Execute, ReadGood,
         ReadBad, Query, Rollback, HistoryAfter, DropCatalog, Statement, At, Answered
    <3>2. Progress(r)
      BY <3>1 DEF AllInv, AloneInv
    <3>3. CASE q # r
      BY <2>1, <2>2, <3>2, <3>3, OthersKeepProgress DEF AllInv
    <3>4. CASE q = r
      <4>1. ~ Abort(r)
        BY <2>2 DEF Abort
      <4> QED
        BY <2>1, <2>2, <3>2, <3>4, <4>1, EarlyProgress, BatchProgress, QueryProgress DEF Step
    <3> QED  BY <3>3, <3>4
  <2> QED  BY <2>2 DEF AloneInv
<1> QED  BY <1>1, <1>2, <1>3 DEF Next, AllEnded

LEMMA NextAll == AllInv /\ [Next]_vars => AllInv'
<1> SUFFICES ASSUME AllInv, [Next]_vars PROVE AllInv'
  OBVIOUS
<1>1. CatalogInv'
  <2>1. CASE DemoStep
    BY <2>1, CatalogStep DEF DemoStep, AllInv
  <2>2. CASE DirectWrite \/ UNCHANGED vars
    BY <2>2 DEF DirectWrite, vars, localVars, AllInv, CatalogInv
  <2> QED  BY <2>1, <2>2 DEF Next, AllEnded
<1> QED  BY <1>1, NextDemo, NextAlone DEF AllInv

(* "Idempotent": an invocation no other overlaps and no fault hits         *)
(* completes its evidence, whatever earlier ones left; one that finds the  *)
(* live catalog registered is refused before it captured anything.         *)
THEOREM UndisturbedSucceeds == Spec => []UndisturbedRunSucceeds
<1>1. AllInv => UndisturbedRunSucceeds
  BY DEF AllInv, AloneInv, Progress, EvidenceSoFar, UndisturbedRunSucceeds, Holding, BothRead,
     RolledBack
<1>2. Spec => []AllInv
  BY InitAll, NextAll, PTL DEF Spec
<1> QED  BY <1>1, <1>2, PTL
=============================================================================
