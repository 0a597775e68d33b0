----------------------------- MODULE Wap_proofs -----------------------------
(***************************************************************************)
(* Theorems about run_wap for any number of runs, tables, contents, tests, *)
(* scopes, direct builds, call failures, lost replies and late merges.     *)
(***************************************************************************)
EXTENDS Wap, Nessie_proofs

(***************************************************************************)
(* Typing of the reference table.                                          *)
(***************************************************************************)
RefsOK(table) ==
    /\ DOMAIN table \subseteq Runs \cup {"main"}
    /\ "main" \in DOMAIN table
    /\ \A n \in DOMAIN table : table[n] \in Hash

LEMMA SetRefOK ==
    ASSUME NEW table, RefsOK(table), NEW n \in Runs \cup {"main"}, NEW h \in Hash
    PROVE  RefsOK(SetRef(table, n, h))
BY DEF RefsOK, SetRef

LEMMA DropRefOK ==
    ASSUME NEW table, RefsOK(table), NEW r \in Runs
    PROVE  RefsOK(DropRef(table, r))
BY WritersAssumption DEF RefsOK, DropRef

(* A commit of any author that puts one table, or none, is a commit.       *)
LEMMA SmallCommits ==
    ASSUME NEW w \in Writers
    PROVE  /\ \A t \in Tables, v \in Values :
                [by |-> w, puts |-> [x \in {t} |-> v]] \in Commit
           /\ [by |-> w, puts |-> [t \in {} |-> t]] \in Commit
<1>1. ASSUME NEW t \in Tables, NEW v \in Values
      PROVE  [by |-> w, puts |-> [x \in {t} |-> v]] \in Commit
  <2>1. {t} \in SUBSET Tables /\ [x \in {t} |-> v] \in [{t} -> Values]
    OBVIOUS
  <2> QED  BY <2>1, PutsCommit
<1>2. [by |-> w, puts |-> [t \in {} |-> t]] \in Commit
  <2>1. {} \in SUBSET Tables /\ [t \in {} |-> t] \in [{} -> Values]
    OBVIOUS
  <2> QED  BY <2>1, PutsCommit
<1> QED  BY <1>1, <1>2

(* The squashed commit of a merge, and the history it makes.               *)
LEMMA MergedType ==
    ASSUME NEW target \in Hash, NEW source \in Hash, NEW w \in Writers
    PROVE  /\ Merged(target, source, w) \in Hash
           /\ [by |-> w, puts |-> Gained(source, CommonLen(target, source))]
                \in Commit
<1>1. [by |-> w, puts |-> Gained(source, CommonLen(target, source))] \in Commit
  BY CommonLenType, GainedType, PutsCommit
<1> QED  BY <1>1, AppendProperties DEF Merged, Hash
(***************************************************************************)
(* Type correctness.                                                       *)
(***************************************************************************)
Stages == {"branch-create", "catalog-create", "dbt-run", "dbt-test", "merge",
           "dbt-deps", "bootstrap"}

LEMMA StageCodes ==
    /\ \A stage \in Stages : StageExitCode(stage) \in 2..8
    /\ \A stage \in Stages : StageExitCode(stage) = 6 => stage = "merge"
BY DEF Stages, StageExitCode

(* Where control goes, and what it does to pc and exit.                    *)
LEMMA ControlType ==
    ASSUME TypeOK, NEW r \in Runs, NEW reply, NEW stage \in Stages,
           \/ RaiseStage(r, stage)
           \/ RaiseRaw(r)
           \/ Raise(r, reply, stage)
    PROVE  /\ pc' \in [Runs -> Locations]
           /\ exit' \in [Runs -> 0..8]
<1>1. CASE RaiseStage(r, stage)
  BY <1>1, StageCodes DEF RaiseStage, Goto, Locations, TypeOK
<1>2. CASE RaiseRaw(r)
  BY <1>2 DEF RaiseRaw, Goto, Uncaught, Locations, TypeOK
<1> QED  BY <1>1, <1>2 DEF Raise

LEMMA OutcomeOK ==
    ASSUME NEW mayFail, NEW accepted \in BOOLEAN, NEW before, NEW after,
           RefsOK(before), RefsOK(after)
    PROVE  \A o \in CallOutcomes(mayFail, accepted, before, after) : RefsOK(o.refs)
<1> TAKE o \in CallOutcomes(mayFail, accepted, before, after)
<1>1. o.refs \in {before, after}
  BY Outcome
<1> QED  BY <1>1

(* The calls of nessie.py keep the reference table well-formed.            *)
LEMMA CallsOK ==
    ASSUME RefsOK(refs), NEW r \in Runs, NEW h \in Hash, NEW g \in Hash
    PROVE  /\ \A o \in create_branch(r \in Unreliable, refs, r, h) : RefsOK(o.refs)
           /\ \A o \in delete_reference(r \in Unreliable, refs, r, h) : RefsOK(o.refs)
           /\ \A o \in merge_branch(r \in Unreliable, refs, "main", h, r, g, r) : RefsOK(o.refs)
           /\ \A o \in bootstrap_main_if_empty(r \in Unreliable, refs, BootstrapNamespace) :
                RefsOK(o.refs)
<1>1. \A o \in create_branch(r \in Unreliable, refs, r, h) : RefsOK(o.refs)
  <2>1. RefsOK(SetRef(refs, r, h))
    BY SetRefOK
  <2> QED  BY <2>1, OutcomeOK, (r \notin DOMAIN refs) \in BOOLEAN DEF create_branch
<1>2. \A o \in delete_reference(r \in Unreliable, refs, r, h) : RefsOK(o.refs)
  <2>1. RefsOK(DropRef(refs, r))
    BY DropRefOK
  <2>2. Checked(refs, r, h) \in BOOLEAN
    BY DEF Checked
  <2> QED  BY <2>1, <2>2, OutcomeOK DEF delete_reference
<1>3. \A o \in merge_branch(r \in Unreliable, refs, "main", h, r, g, r) : RefsOK(o.refs)
  <2>1. RefsOK(SetRef(refs, "main", Merged(h, g, r)))
    BY SetRefOK, MergedType, WritersAssumption
  <2>2. (/\ Checked(refs, "main", h)
         /\ r \in DOMAIN refs
         /\ Mergeable(h, g)) \in BOOLEAN
    OBVIOUS
  <2> QED  BY <2>1, <2>2, OutcomeOK DEF merge_branch
<1>4. \A o \in bootstrap_main_if_empty(r \in Unreliable, refs, BootstrapNamespace) : RefsOK(o.refs)
  <2> DEFINE created == Append(refs["main"],
                               [by |-> BootstrapNamespace, puts |-> [t \in {} |-> t]])
  <2>1. created \in Hash
    BY SmallCommits, AppendProperties, WritersAssumption DEF RefsOK, Hash
  <2>2. RefsOK(SetRef(refs, "main", created))
    BY <2>1, SetRefOK
  <2> QED  BY <2>2, OutcomeOK DEF bootstrap_main_if_empty
<1> QED  BY <1>1, <1>2, <1>3, <1>4

LEMMA InitTypeOK == Init => TypeOK
<1> SUFFICES ASSUME Init PROVE TypeOK
  OBVIOUS
<1>1. PICK h \in InitialHashes : refs = [n \in {"main"} |-> h]
  BY DEF Init
<1>2. h \in Hash /\ Genesis \in Hash
  BY InitialAssumption, EmptySeq DEF Hash, Genesis
<1>3. /\ DOMAIN refs \subseteq Runs \cup {"main"}
      /\ "main" \in DOMAIN refs
      /\ \A n \in DOMAIN refs : refs[n] \in Hash
  BY <1>1, <1>2
<1>4. DOMAIN audited \subseteq Runs /\ \A r \in DOMAIN audited : audited[r] \in Hash
  BY DEF Init
<1>5. keep_failed_branch \subseteq Runs
  BY KeepAssumption DEF Init
<1> QED  BY <1>2, <1>3, <1>4, <1>5 DEF Init, TypeOK, Locations

LEMMA NextTypeOK == TypeOK /\ ControlInv /\ [Next]_vars => TypeOK'
<1> SUFFICES ASSUME TypeOK, ControlInv, [Next]_vars PROVE TypeOK'
  OBVIOUS
<1> USE DEF nessieVars, localVars
<1>0. RefsOK(refs) /\ Main \in Hash
  BY DEF TypeOK, RefsOK, Main
<1>1. ASSUME NEW r \in Runs, EnsureDbtDeps(r) PROVE TypeOK'
  <2>1. pc' \in [Runs -> Locations] /\ exit' \in [Runs -> 0..8]
    BY <1>1, ControlType DEF EnsureDbtDeps, Goto, TypeOK, Locations, Stages
  <2> QED  BY <1>1, <2>1 DEF EnsureDbtDeps, TypeOK
<1>2. ASSUME NEW r \in Runs, BootstrapMain(r) PROVE TypeOK'
  <2>1. pc' \in [Runs -> Locations] /\ exit' \in [Runs -> 0..8]
    BY <1>2, ControlType DEF BootstrapMain, Goto, TypeOK, Locations, Stages
  <2>2. RefsOK(refs')
    BY <1>0, <1>2, CallsOK DEF BootstrapMain
  <2> QED  BY <1>2, <2>1, <2>2 DEF BootstrapMain, TypeOK, RefsOK
<1>3. ASSUME NEW r \in Runs, ReadMain(r) PROVE TypeOK'
  <2>1. pc' \in [Runs -> Locations] /\ exit' \in [Runs -> 0..8]
    BY <1>3, ControlType DEF ReadMain, Goto, TypeOK, Locations, Stages
  <2>2. main_ref' \in [Runs -> Hash]
    BY <1>0, <1>3 DEF ReadMain, TypeOK
  <2> QED  BY <1>3, <2>1, <2>2 DEF ReadMain, TypeOK
<1>4. ASSUME NEW r \in Runs, CreateBranch(r) PROVE TypeOK'
  <2>1. pc' \in [Runs -> Locations] /\ exit' \in [Runs -> 0..8]
    BY <1>4, ControlType DEF CreateBranch, Goto, TypeOK, Locations, Stages
  <2>2. RefsOK(refs')
    BY <1>0, <1>4, CallsOK DEF CreateBranch, TypeOK
  <2>3. branch_created' \in [Runs -> BOOLEAN]
    BY <1>4 DEF CreateBranch, TypeOK
  <2> QED  BY <1>4, <2>1, <2>2, <2>3 DEF CreateBranch, TypeOK, RefsOK
<1>5. ASSUME NEW r \in Runs, CreateCatalog(r) PROVE TypeOK'
  <2>1. pc' \in [Runs -> Locations] /\ exit' \in [Runs -> 0..8]
    BY <1>5, ControlType DEF CreateCatalog, Goto, TypeOK, Locations, Stages
  <2>2. catalogs' \subseteq Runs /\ catalog_created' \in [Runs -> BOOLEAN]
    BY <1>5 DEF CreateCatalog, TypeOK
  <2> QED  BY <1>5, <2>1, <2>2 DEF CreateCatalog, TypeOK
<1>6. ASSUME NEW r \in Runs, DbtRunTable(r) PROVE TypeOK'
  <2>0. r \in DOMAIN refs
    BY <1>6 DEF DbtRunTable, ControlInv, Building
  <2>1. PICK t \in Scope[r], v \in Values :
          refs' = SetRef(refs, r,
                    Append(refs[r], [by |-> r, puts |-> [x \in {t} |-> v]]))
    BY <1>6 DEF DbtRunTable
  <2>2. t \in Tables /\ v \in Values /\ r \in Writers
    BY ScopeAssumption, WritersAssumption
  <2>3. Append(refs[r], [by |-> r, puts |-> [x \in {t} |-> v]]) \in Hash
    <3>1. [by |-> r, puts |-> [x \in {t} |-> v]] \in Commit
      BY <2>2, SmallCommits
    <3>2. refs[r] \in Seq(Commit)
      BY <2>0 DEF TypeOK, Hash
    <3> QED  BY <3>1, <3>2, AppendProperties DEF Hash
  <2>4. RefsOK(refs')
    BY <1>0, <2>1, <2>3, SetRefOK
  <2> QED  BY <1>6, <2>4 DEF DbtRunTable, TypeOK, RefsOK
<1>7. ASSUME NEW r \in Runs, DbtRunEnds(r) PROVE TypeOK'
  <2>1. pc' \in [Runs -> Locations] /\ exit' \in [Runs -> 0..8]
    BY <1>7, ControlType DEF DbtRunEnds, Goto, TypeOK, Locations, Stages
  <2> QED  BY <1>7, <2>1 DEF DbtRunEnds, TypeOK
<1>8. ASSUME NEW r \in Runs, DbtTest(r) PROVE TypeOK'
  <2>1. pc' \in [Runs -> Locations] /\ exit' \in [Runs -> 0..8]
    BY <1>8, ControlType DEF DbtTest, Goto, TypeOK, Locations, Stages
  <2>2. r \in DOMAIN refs
    BY <1>8 DEF DbtTest, ControlInv, Building
  <2>3. DOMAIN audited' \subseteq Runs /\ \A q \in DOMAIN audited' : audited'[q] \in Hash
    BY <1>8, <2>2 DEF DbtTest, TypeOK, SetRef
  <2> QED  BY <1>8, <2>1, <2>3 DEF DbtTest, TypeOK
<1>9. ASSUME NEW r \in Runs, ReadBranch(r) PROVE TypeOK'
  <2>1. pc' \in [Runs -> Locations] /\ exit' \in [Runs -> 0..8]
    BY <1>9, ControlType DEF ReadBranch, Goto, TypeOK, Locations, Stages
  <2>2. r \in DOMAIN refs
    BY <1>9 DEF ReadBranch, ControlInv
  <2>3. built_branch_ref' \in [Runs -> Hash]
    BY <1>9, <2>2 DEF ReadBranch, TypeOK
  <2> QED  BY <1>9, <2>1, <2>3 DEF ReadBranch, TypeOK
<1>10. ASSUME NEW r \in Runs, ReadTarget(r) PROVE TypeOK'
  <2>1. pc' \in [Runs -> Locations] /\ exit' \in [Runs -> 0..8]
    BY <1>10, ControlType DEF ReadTarget, Goto, TypeOK, Locations, Stages
  <2>2. current_main_ref' \in [Runs -> Hash]
    BY <1>0, <1>10 DEF ReadTarget, TypeOK
  <2> QED  BY <1>10, <2>1, <2>2 DEF ReadTarget, TypeOK
<1>11. ASSUME NEW r \in Runs, Merge(r) PROVE TypeOK'
  <2>1. pc' \in [Runs -> Locations] /\ exit' \in [Runs -> 0..8]
    BY <1>11, ControlType DEF Merge, Goto, TypeOK, Locations, Stages
  <2>2. RefsOK(refs')
    BY <1>0, <1>11, CallsOK DEF Merge, MergeOf, TypeOK
  <2>3. late' \subseteq Runs
    BY <1>11 DEF Merge, TypeOK
  <2> QED  BY <1>11, <2>1, <2>2, <2>3 DEF Merge, TypeOK, RefsOK
<1>12. ASSUME NEW r \in Runs, DeleteBranch(r) PROVE TypeOK'
  <2>1. pc' \in [Runs -> Locations] /\ exit' \in [Runs -> 0..8]
    BY <1>12, ControlType DEF DeleteBranch, Goto, TypeOK, Locations, Stages
  <2>2. RefsOK(refs')
    BY <1>0, <1>12, CallsOK DEF DeleteBranch, TypeOK
  <2>3. branch_created' \in [Runs -> BOOLEAN]
    BY <1>12 DEF DeleteBranch, TypeOK
  <2> QED  BY <1>12, <2>1, <2>2, <2>3 DEF DeleteBranch, TypeOK, RefsOK
<1>13. ASSUME NEW r \in Runs, CleanupBranch(r) PROVE TypeOK'
  <2>1. pc' \in [Runs -> Locations] /\ exit' \in [Runs -> 0..8]
    BY <1>13 DEF CleanupBranch, Goto, TypeOK, Locations, Uncaught
  <2>2. RefsOK(refs')
    <3>1. CASE UNCHANGED refs
      BY <1>0, <3>1
    <3>2. CASE \E o \in delete_reference(r \in Unreliable, refs, r, refs[r]) : refs' = o.refs
      <4>1. CASE r \in DOMAIN refs
        BY <1>0, <3>2, <4>1, CallsOK DEF RefsOK
      <4>2. CASE r \notin DOMAIN refs
        BY <1>0, <3>2, <4>2 DEF delete_reference, Checked, CallOutcomes
      <4> QED  BY <4>1, <4>2
    <3> QED  BY <1>13, <3>1, <3>2 DEF CleanupBranch
  <2> QED  BY <1>13, <2>1, <2>2 DEF CleanupBranch, TypeOK, RefsOK
<1>14. ASSUME NEW r \in Runs, Finally(r) PROVE TypeOK'
  <2>1. pc' \in [Runs -> Locations] /\ catalogs' \subseteq Runs
    BY <1>14 DEF Finally, Goto, TypeOK, Locations
  <2> QED  BY <1>14, <2>1 DEF Finally, TypeOK
<1>15. ASSUME NEW r \in Runs, Crash(r) PROVE TypeOK'
  <2>1. pc' \in [Runs -> Locations]
    BY <1>15 DEF Crash, Goto, TypeOK, Locations
  <2> QED  BY <1>15, <2>1 DEF Crash, TypeOK
<1>16. ASSUME NEW r \in Runs, LandMerge(r) PROVE TypeOK'
  <2>1. RefsOK(refs') /\ late' \subseteq Runs
    BY <1>0, <1>16, CallsOK DEF LandMerge, MergeOf, TypeOK
  <2> QED  BY <1>16, <2>1 DEF LandMerge, TypeOK, RefsOK
<1>17. CASE DirectWrite
  <2>1. PICK t \in Tables, v \in Values :
          refs' = SetRef(refs, "main",
                    Append(Main, [by |-> DirectBuild, puts |-> [x \in {t} |-> v]]))
    BY <1>17 DEF DirectWrite
  <2>2. Append(Main, [by |-> DirectBuild, puts |-> [x \in {t} |-> v]]) \in Hash
    <3>1. [by |-> DirectBuild, puts |-> [x \in {t} |-> v]] \in Commit
      BY SmallCommits, WritersAssumption
    <3> QED  BY <1>0, <3>1, AppendProperties DEF Hash
  <2>3. RefsOK(refs')
    BY <1>0, <2>1, <2>2, SetRefOK
  <2> QED  BY <1>17, <2>3 DEF DirectWrite, TypeOK, RefsOK
<1>18. CASE UNCHANGED vars
  BY <1>18 DEF vars, TypeOK
<1> QED
  BY <1>1, <1>2, <1>3, <1>4, <1>5, <1>6, <1>7, <1>8, <1>9, <1>10, <1>11,
     <1>12, <1>13, <1>14, <1>15, <1>16, <1>17, <1>18
     DEF Next, RunStep, AllEnded
(***************************************************************************)
(* What a step does to the reference table, and to whom.                   *)
(***************************************************************************)
StepOf(r) == RunStep(r) \/ Crash(r) \/ LandMerge(r)

BootstrapCommit == [by |-> BootstrapNamespace, puts |-> [t \in {} |-> t]]
MergeCommit(r) ==
    [by |-> r, puts |-> Gained(built_branch_ref[r], CommonLen(Main, built_branch_ref[r]))]

MergeApplies(r) ==
    /\ Merge(r) \/ LandMerge(r)
    /\ Mergeable(Main, built_branch_ref[r])
    /\ refs' = SetRef(refs, "main", Append(Main, MergeCommit(r)))

TableBuilt(r) ==
    /\ DbtRunTable(r)
    /\ \E t \in Scope[r], v \in Values :
        refs' = SetRef(refs, r,
                  Append(refs[r], [by |-> r, puts |-> [x \in {t} |-> v]]))

LEMMA RefsEffect ==
    ASSUME TypeOK, NEW r \in Runs, StepOf(r)
    PROVE  \/ refs' = refs
           \/ BootstrapMain(r) /\ refs' = SetRef(refs, "main", Append(Main, BootstrapCommit))
           \/ CreateBranch(r) /\ refs' = SetRef(refs, r, main_ref[r])
           \/ TableBuilt(r)
           \/ MergeApplies(r)
           \/ (DeleteBranch(r) \/ CleanupBranch(r)) /\ refs' = DropRef(refs, r)
<1> USE DEF nessieVars
<1>1. CASE BootstrapMain(r)
  <2> DEFINE created == Append(Main, BootstrapCommit)
  <2>1. PICK o \in bootstrap_main_if_empty(r \in Unreliable, refs, BootstrapNamespace) : refs' = o.refs
    BY <1>1 DEF BootstrapMain
  <2>2. o \in CallOutcomes(r \in Unreliable, TRUE, refs, refs)
        \/ o \in CallOutcomes(r \in Unreliable, TRUE, refs, SetRef(refs, "main", created))
    BY <2>1 DEF bootstrap_main_if_empty, Main, BootstrapCommit
  <2>3. o.refs \in {refs, SetRef(refs, "main", created)}
    <3>1. CASE o \in CallOutcomes(r \in Unreliable, TRUE, refs, refs)
      <4>1. o.refs \in {refs, refs}
        BY <3>1, Outcome, TRUE \in BOOLEAN
      <4> QED  BY <4>1
    <3>2. CASE o \in CallOutcomes(r \in Unreliable, TRUE, refs, SetRef(refs, "main", created))
      <4> HIDE DEF created
      <4> QED  BY <3>2, Outcome, TRUE \in BOOLEAN
    <3> QED  BY <2>2, <3>1, <3>2
  <2> QED  BY <1>1, <2>1, <2>3
<1>2. CASE CreateBranch(r)
  <2>1. PICK o \in create_branch(r \in Unreliable, refs, r, main_ref[r]) : refs' = o.refs
    BY <1>2 DEF CreateBranch
  <2>2. o.refs \in {refs, SetRef(refs, r, main_ref[r])}
    BY <2>1, Outcome, (r \notin DOMAIN refs) \in BOOLEAN DEF create_branch
  <2> QED  BY <1>2, <2>1, <2>2
<1>3. CASE DbtRunTable(r)
  BY <1>3 DEF DbtRunTable, TableBuilt
<1>4. ASSUME \E o \in MergeOf(r) : refs' = o.refs, Merge(r) \/ LandMerge(r)
      PROVE  refs' = refs \/ MergeApplies(r)
  <2> DEFINE accepted == /\ Checked(refs, "main", current_main_ref[r])
                         /\ r \in DOMAIN refs
                         /\ Mergeable(current_main_ref[r], built_branch_ref[r])
             merged == SetRef(refs, "main",
                         Merged(current_main_ref[r], built_branch_ref[r], r))
  <2>1. PICK o \in CallOutcomes(r \in Unreliable, accepted, refs, merged) : refs' = o.refs
    BY <1>4 DEF MergeOf, merge_branch
  <2>2. accepted \in BOOLEAN
    OBVIOUS
  <2>3. refs' = refs \/ (accepted /\ refs' = merged)
    <3> HIDE DEF accepted, merged
    <3> QED  BY <2>1, <2>2, Outcome
  <2>4. ASSUME accepted, refs' = merged PROVE MergeApplies(r)
    <3>1. current_main_ref[r] = Main
      BY <2>4 DEF Checked, Main
    <3> QED  BY <1>4, <2>4, <3>1 DEF MergeApplies, MergeCommit, Merged
  <2> QED  BY <2>3, <2>4
<1>5. CASE Merge(r)
  BY <1>4, <1>5 DEF Merge
<1>6. CASE LandMerge(r)
  BY <1>4, <1>6 DEF LandMerge
<1>7. ASSUME NEW h, \E o \in delete_reference(r \in Unreliable, refs, r, h) : refs' = o.refs
      PROVE  refs' = refs \/ refs' = DropRef(refs, r)
  <2>1. PICK o \in delete_reference(r \in Unreliable, refs, r, h) : refs' = o.refs
    BY <1>7
  <2>2. o.refs \in {refs, DropRef(refs, r)}
    BY <2>1, Outcome, Checked(refs, r, h) \in BOOLEAN DEF delete_reference, Checked
  <2> QED  BY <2>1, <2>2
<1>8. CASE DeleteBranch(r)
  BY <1>7, <1>8 DEF DeleteBranch
<1>9. CASE CleanupBranch(r)
  BY <1>7, <1>9 DEF CleanupBranch
<1>10. CASE \/ EnsureDbtDeps(r) \/ ReadMain(r) \/ CreateCatalog(r) \/ DbtRunEnds(r)
            \/ DbtTest(r) \/ ReadBranch(r) \/ ReadTarget(r) \/ Finally(r) \/ Crash(r)
  BY <1>10 DEF EnsureDbtDeps, ReadMain, CreateCatalog, DbtRunEnds, DbtTest,
               ReadBranch, ReadTarget, Finally, Crash
<1> QED
  BY <1>1, <1>2, <1>3, <1>5, <1>6, <1>8, <1>9, <1>10 DEF StepOf, RunStep

(* A step of one run leaves every other run, its branch and its records    *)
(* alone.                                                                  *)
LEMMA OthersUntouched ==
    ASSUME TypeOK, NEW r \in Runs, StepOf(r), NEW q \in Runs, q # r
    PROVE  /\ pc'[q] = pc[q] /\ exit'[q] = exit[q]
           /\ main_ref'[q] = main_ref[q]
           /\ built_branch_ref'[q] = built_branch_ref[q]
           /\ q \in late' <=> q \in late
           /\ q \in DOMAIN refs' <=> q \in DOMAIN refs
           /\ q \in DOMAIN refs => refs'[q] = refs[q]
           /\ q \in DOMAIN audited' <=> q \in DOMAIN audited
           /\ q \in DOMAIN audited => audited'[q] = audited[q]
<1> USE DEF nessieVars, localVars
<1>1. pc'[q] = pc[q] /\ exit'[q] = exit[q]
  BY DEF StepOf, RunStep, EnsureDbtDeps, BootstrapMain, ReadMain, CreateBranch,
         CreateCatalog, DbtRunTable, DbtRunEnds, DbtTest, ReadBranch, ReadTarget,
         Merge, LandMerge, DeleteBranch, CleanupBranch, Finally, Crash,
         Goto, RaiseStage, RaiseRaw, Raise, TypeOK
<1>2. /\ main_ref'[q] = main_ref[q]
      /\ built_branch_ref'[q] = built_branch_ref[q]
      /\ q \in late' <=> q \in late
  BY DEF StepOf, RunStep, EnsureDbtDeps, BootstrapMain, ReadMain, CreateBranch,
         CreateCatalog, DbtRunTable, DbtRunEnds, DbtTest, ReadBranch, ReadTarget,
         Merge, LandMerge, DeleteBranch, CleanupBranch, Finally, Crash, TypeOK
<1>3. /\ q \in DOMAIN refs' <=> q \in DOMAIN refs
      /\ q \in DOMAIN refs => refs'[q] = refs[q]
  <2>1. q # "main"
    BY WritersAssumption
  <2>2. ASSUME NEW n, n # q, NEW h, refs' = SetRef(refs, n, h)
        PROVE  /\ q \in DOMAIN refs' <=> q \in DOMAIN refs
               /\ q \in DOMAIN refs => refs'[q] = refs[q]
    BY <2>2 DEF SetRef
  <2>3. ASSUME refs' = DropRef(refs, r)
        PROVE  /\ q \in DOMAIN refs' <=> q \in DOMAIN refs
               /\ q \in DOMAIN refs => refs'[q] = refs[q]
    BY <2>3 DEF DropRef
  <2>4. CASE TableBuilt(r)
    BY <2>2, <2>4 DEF TableBuilt
  <2>5. CASE MergeApplies(r)
    BY <2>1, <2>2, <2>5 DEF MergeApplies
  <2> QED  BY <2>1, <2>2, <2>3, <2>4, <2>5, RefsEffect
<1>4. /\ q \in DOMAIN audited' <=> q \in DOMAIN audited
      /\ q \in DOMAIN audited => audited'[q] = audited[q]
  BY DEF StepOf, RunStep, EnsureDbtDeps, BootstrapMain, ReadMain, CreateBranch,
         CreateCatalog, DbtRunTable, DbtRunEnds, DbtTest, ReadBranch, ReadTarget,
         Merge, LandMerge, DeleteBranch, CleanupBranch, Finally, Crash, SetRef
<1> QED  BY <1>1, <1>2, <1>3, <1>4
(***************************************************************************)
(* What a step does to main: nothing, a commit of no run, or one merge.    *)
(***************************************************************************)
LEMMA MainEffect ==
    ASSUME TypeOK, [Next]_vars
    PROVE  \/ Main' = Main
           \/ \E c \in Commit : c.by \notin Runs /\ Main' = Append(Main, c)
           \/ \E r \in Runs : /\ MergeApplies(r)
                            /\ MergeCommit(r) \in Commit
                            /\ Main' = Append(Main, MergeCommit(r))
<1>0. Main \in Hash
  BY DEF TypeOK, Main
<1>1. ASSUME NEW h, refs' = SetRef(refs, "main", h) PROVE Main' = h
  BY <1>1 DEF SetRef, Main
<1>2. ASSUME NEW r \in Runs, NEW h, refs' = SetRef(refs, r, h) PROVE Main' = Main
  BY <1>2, WritersAssumption DEF SetRef, Main, TypeOK
<1>3. ASSUME NEW r \in Runs, refs' = DropRef(refs, r) PROVE Main' = Main
  BY <1>3, WritersAssumption DEF DropRef, Main, TypeOK
<1>4. BootstrapCommit \in Commit /\ BootstrapCommit.by \notin Runs
  BY SmallCommits, WritersAssumption DEF BootstrapCommit
<1>5. ASSUME NEW r \in Runs PROVE MergeCommit(r) \in Commit
  BY <1>0, MergedType, WritersAssumption DEF MergeCommit, TypeOK
<1>6. CASE \E r \in Runs : StepOf(r)
  <2>1. PICK r \in Runs : StepOf(r)
    BY <1>6
  <2>2. CASE refs' = refs
    BY <2>2 DEF Main
  <2>3. CASE refs' = SetRef(refs, "main", Append(Main, BootstrapCommit))
    BY <1>1, <1>4, <2>3
  <2>4. CASE refs' = SetRef(refs, r, main_ref[r]) \/ TableBuilt(r)
    BY <1>2, <2>4 DEF TableBuilt
  <2>5. CASE MergeApplies(r)
    BY <1>1, <1>5, <2>5 DEF MergeApplies
  <2>6. CASE refs' = DropRef(refs, r)
    BY <1>3, <2>6
  <2> QED  BY <2>1, <2>2, <2>3, <2>4, <2>5, <2>6, RefsEffect
<1>7. CASE DirectWrite
  <2>1. PICK t \in Tables, v \in Values :
          refs' = SetRef(refs, "main",
                    Append(Main, [by |-> DirectBuild, puts |-> [x \in {t} |-> v]]))
    BY <1>7 DEF DirectWrite
  <2> DEFINE c == [by |-> DirectBuild, puts |-> [x \in {t} |-> v]]
  <2>2. c \in Commit /\ c.by \notin Runs
    BY SmallCommits, WritersAssumption
  <2> QED  BY <1>1, <2>1, <2>2
<1>8. CASE UNCHANGED vars
  BY <1>8 DEF vars, Main
<1> QED  BY <1>6, <1>7, <1>8 DEF Next, AllEnded, StepOf

LEMMA MainExtends ==
    ASSUME TypeOK, [Next]_vars, NEW a \in Hash, AgreeUpTo(a, Main, Len(a))
    PROVE  AgreeUpTo(a, Main', Len(a))
<1>1. Main \in Hash
  BY DEF TypeOK, Main
<1>2. ASSUME NEW c \in Commit, Main' = Append(Main, c)
      PROVE  AgreeUpTo(a, Main', Len(a))
  BY <1>1, <1>2, AppendAgrees
<1> QED  BY <1>2, MainEffect

(* What a step of a run does to its own branch.                            *)
LEMMA BranchEffect ==
    ASSUME TypeOK, ControlInv, NEW r \in Runs, StepOf(r)
    PROVE  /\ r \in DOMAIN refs' =>
                \/ r \in DOMAIN refs /\ refs'[r] = refs[r]
                \/ CreateBranch(r) /\ refs'[r] = main_ref[r]
                \/ TableBuilt(r) /\ r \in DOMAIN refs
           /\ r \in DOMAIN refs =>
                \/ r \in DOMAIN refs'
                \/ DeleteBranch(r) \/ CleanupBranch(r)
<1>1. r # "main"
  BY WritersAssumption
<1>2. ASSUME NEW h, refs' = SetRef(refs, "main", h)
      PROVE  /\ r \in DOMAIN refs' <=> r \in DOMAIN refs
             /\ r \in DOMAIN refs => refs'[r] = refs[r]
  BY <1>1, <1>2 DEF SetRef
<1>3. ASSUME NEW h, refs' = SetRef(refs, r, h)
      PROVE  r \in DOMAIN refs' /\ refs'[r] = h
  BY <1>3 DEF SetRef
<1>4. CASE TableBuilt(r)
  <2>1. r \in DOMAIN refs
    BY <1>4 DEF TableBuilt, DbtRunTable, ControlInv, Building
  <2> QED  BY <1>3, <1>4, <2>1 DEF TableBuilt
<1>5. CASE MergeApplies(r)
  BY <1>2, <1>5 DEF MergeApplies
<1>6. CASE (DeleteBranch(r) \/ CleanupBranch(r)) /\ refs' = DropRef(refs, r)
  BY <1>6 DEF DropRef
<1>7. CASE refs' = refs
  BY <1>7
<1>8. CASE BootstrapMain(r) /\ refs' = SetRef(refs, "main", Append(Main, BootstrapCommit))
  BY <1>2, <1>8
<1>9. CASE CreateBranch(r) /\ refs' = SetRef(refs, r, main_ref[r])
  BY <1>3, <1>9
<1> QED  BY <1>4, <1>5, <1>6, <1>7, <1>8, <1>9, RefsEffect

(***************************************************************************)
(* Preservation of the parts of WapInv, one lemma each.                    *)
(***************************************************************************)
LEMMA NextControl == TypeOK /\ ControlInv /\ [Next]_vars => ControlInv'
<1> SUFFICES ASSUME TypeOK, ControlInv, [Next]_vars, NEW q \in Runs
             PROVE  /\ pc'[q] \in Unbranched => q \notin DOMAIN refs'
                    /\ pc'[q] \in Building \cup {"read_branch"} => q \in DOMAIN refs'
                    /\ pc'[q] \in BeforeMerge => exit'[q] = 0 /\ q \notin late'
                    /\ q \in late' => /\ exit'[q] = Uncaught
                                      /\ pc'[q] \in Ended \cup {"finally"}
  BY DEF ControlInv
<1> USE DEF nessieVars, localVars, Unbranched, Building, Publishing, BeforeMerge,
            Ended
<1> DEFINE Goal == /\ pc'[q] \in Unbranched => q \notin DOMAIN refs'
                   /\ pc'[q] \in Building \cup {"read_branch"} => q \in DOMAIN refs'
                   /\ pc'[q] \in BeforeMerge => exit'[q] = 0 /\ q \notin late'
                   /\ q \in late' => /\ exit'[q] = Uncaught
                                     /\ pc'[q] \in Ended \cup {"finally"}
<1>1. ASSUME NEW r \in Runs, StepOf(r), r # q PROVE Goal
  BY <1>1, OthersUntouched DEF ControlInv
<1>2. ASSUME StepOf(q), NEW b, pc[q] = b,
             b \notin {"create_branch", "delete_branch", "cleanup"}
      PROVE  q \in DOMAIN refs' <=> q \in DOMAIN refs
  BY <1>2, BranchEffect DEF CreateBranch, TableBuilt, DeleteBranch, CleanupBranch
<1>3. CASE EnsureDbtDeps(q)
  BY <1>3 DEF EnsureDbtDeps, Goto, RaiseStage, TypeOK, ControlInv
<1>4. CASE BootstrapMain(q)
  <2>1. q \in DOMAIN refs' <=> q \in DOMAIN refs
    BY <1>2, <1>4 DEF StepOf, RunStep, BootstrapMain
  <2> QED
    BY <1>4, <2>1 DEF BootstrapMain, Goto, Raise, RaiseStage, RaiseRaw, TypeOK, ControlInv
<1>5. CASE ReadMain(q)
  BY <1>5 DEF ReadMain, Goto, RaiseRaw, TypeOK, ControlInv
<1>6. CASE CreateBranch(q)
  <2>1. PICK o \in create_branch(q \in Unreliable, refs, q, main_ref[q]) :
          /\ refs' = o.refs
          /\ \/ o.reply = "ok" /\ Goto(q, "create_catalog") /\ UNCHANGED exit
             \/ Raise(q, o.reply, "branch-create")
    BY <1>6 DEF CreateBranch
  <2>2. o.reply = "ok" => o.refs = SetRef(refs, q, main_ref[q])
    BY <2>1, Outcome, (q \notin DOMAIN refs) \in BOOLEAN DEF create_branch
  <2>3. o.reply = "ok" => q \in DOMAIN refs'
    BY <2>1, <2>2 DEF SetRef
  <2> QED
    BY <1>6, <2>1, <2>3
       DEF CreateBranch, Goto, Raise, RaiseStage, RaiseRaw, TypeOK, ControlInv
<1>7. CASE CreateCatalog(q)
  BY <1>7 DEF CreateCatalog, Goto, RaiseStage, TypeOK, ControlInv
<1>8. CASE DbtRunTable(q)
  <2>1. q \in DOMAIN refs' <=> q \in DOMAIN refs
    BY <1>2, <1>8 DEF StepOf, RunStep, DbtRunTable
  <2> QED  BY <1>8, <2>1 DEF DbtRunTable, ControlInv
<1>9. CASE DbtRunEnds(q)
  BY <1>9 DEF DbtRunEnds, Goto, RaiseStage, TypeOK, ControlInv
<1>10. CASE DbtTest(q)
  BY <1>10 DEF DbtTest, Goto, RaiseStage, TypeOK, ControlInv
<1>11. CASE ReadBranch(q)
  BY <1>11 DEF ReadBranch, Goto, RaiseRaw, TypeOK, ControlInv
<1>12. CASE ReadTarget(q)
  BY <1>12 DEF ReadTarget, Goto, RaiseRaw, TypeOK, ControlInv
<1>13. CASE Merge(q)
  BY <1>13 DEF Merge, Goto, Raise, RaiseStage, RaiseRaw, TypeOK, ControlInv
<1>14. CASE DeleteBranch(q)
  BY <1>14 DEF DeleteBranch, Goto, RaiseRaw, TypeOK, ControlInv
<1>15. CASE CleanupBranch(q)
  BY <1>15 DEF CleanupBranch, Goto, TypeOK, ControlInv
<1>16. CASE Finally(q)
  BY <1>16 DEF Finally, Goto, TypeOK, ControlInv
<1>17. CASE Crash(q)
  BY <1>17 DEF Crash, Goto, TypeOK, ControlInv
<1>18. CASE LandMerge(q)
  BY <1>18 DEF LandMerge, TypeOK, ControlInv
<1>19. CASE DirectWrite
  <2>1. q \in DOMAIN refs' <=> q \in DOMAIN refs
    BY <1>19, WritersAssumption DEF DirectWrite, SetRef
  <2> QED  BY <1>19, <2>1 DEF DirectWrite, ControlInv
<1>20. CASE UNCHANGED vars
  BY <1>20 DEF vars, ControlInv
<1>21. ASSUME StepOf(q) PROVE Goal
  BY <1>3, <1>4, <1>5, <1>6, <1>7, <1>8, <1>9, <1>10, <1>11, <1>12, <1>13,
     <1>14, <1>15, <1>16, <1>17, <1>18, <1>21 DEF StepOf, RunStep
<1>22. CASE \E r \in Runs : StepOf(r)
  BY <1>1, <1>21, <1>22
<1> QED  BY <1>19, <1>20, <1>22 DEF Next, AllEnded, StepOf
(* Only reading main sets main_ref, and it leaves main as it is.           *)
LEMMA MainRefEffect ==
    ASSUME TypeOK, [Next]_vars, NEW q \in Runs
    PROVE  \/ main_ref'[q] = main_ref[q]
           \/ pc[q] = "read_main" /\ main_ref'[q] = Main /\ Main' = Main
<1> USE DEF nessieVars, localVars
<1>1. CASE \E r \in Runs : ReadMain(r)
  BY <1>1 DEF ReadMain, TypeOK, Main
<1>2. CASE ~ \E r \in Runs : ReadMain(r)
  <2>1. UNCHANGED main_ref
    BY <1>2 DEF Next, RunStep, EnsureDbtDeps, BootstrapMain, CreateBranch,
       CreateCatalog, DbtRunTable, DbtRunEnds, DbtTest, ReadBranch, ReadTarget,
       Merge, LandMerge, DeleteBranch, CleanupBranch, Finally, Crash,
       DirectWrite, AllEnded, vars
  <2> QED  BY <2>1
<1> QED  BY <1>1, <1>2

LEMMA NextSeen == TypeOK /\ SeenInv /\ [Next]_vars => SeenInv'
<1> SUFFICES ASSUME TypeOK, SeenInv, [Next]_vars, NEW q \in Runs
             PROVE  AgreeUpTo(main_ref'[q], Main', Len(main_ref'[q]))
  BY DEF SeenInv
<1>1. Main \in Hash /\ main_ref[q] \in Hash
  BY DEF TypeOK, Main
<1>2. CASE main_ref'[q] = main_ref[q]
  BY <1>1, <1>2, MainExtends DEF SeenInv
<1>3. CASE main_ref'[q] = Main /\ Main' = Main
  BY <1>1, <1>3, LenProperties DEF AgreeUpTo, Hash
<1> QED  BY <1>2, <1>3, MainRefEffect

(* Who has commits on main after a step.                                   *)
LEMMA PublishedEffect ==
    ASSUME TypeOK, [Next]_vars, NEW q \in Runs, ~ Published(q)
    PROVE  Published(q)' => MergeApplies(q)
<1>1. Main \in Hash /\ Len(Main) \in Nat
  BY LenProperties DEF TypeOK, Main, Hash
<1>2. ASSUME NEW c \in Commit, Main' = Append(Main, c), c.by # q
      PROVE  ~ Published(q)'
  <2>1. /\ Len(Main') = Len(Main) + 1
        /\ \A i \in 1..Len(Main) : Main'[i] = Main[i]
        /\ Main'[Len(Main) + 1] = c
    BY <1>1, <1>2, AppendProperties DEF Hash
  <2> QED  BY <1>1, <1>2, <2>1 DEF Published, CommitsOf
<1>3. ASSUME NEW r \in Runs, MergeApplies(r), MergeCommit(r) \in Commit,
             Main' = Append(Main, MergeCommit(r)), r # q
      PROVE  ~ Published(q)'
  <2>1. MergeCommit(r).by # q
    BY <1>3 DEF MergeCommit
  <2> QED  BY <1>2, <1>3, <2>1
<1>4. ASSUME Main' = Main PROVE ~ Published(q)'
  BY <1>4 DEF Published, CommitsOf
<1> QED  BY <1>2, <1>3, <1>4, MainEffect
EarlyExit == {2, 3, 4, 5, 7, 8}

LEMMA NextUnmerged ==
    TypeOK /\ ControlInv /\ UnmergedInv /\ [Next]_vars => UnmergedInv'
<1> DEFINE Ante(q) == pc[q] \in BeforeMerge \/ q \in late \/ exit[q] \in EarlyExit
<1> SUFFICES ASSUME TypeOK, ControlInv, UnmergedInv, [Next]_vars,
                    NEW q \in Runs, Ante(q)'
             PROVE  ~ Published(q)'
  BY DEF UnmergedInv, EarlyExit, BeforeMerge
<1> USE DEF nessieVars, localVars
<1>1. CASE \E r \in Runs : StepOf(r) /\ r # q
  <2>1. Ante(q)
    BY <1>1, OthersUntouched
  <2>2. ~ Published(q)
    BY <2>1 DEF UnmergedInv, EarlyExit
  <2>3. CASE ~ MergeApplies(q)
    BY <2>2, <2>3, PublishedEffect
  <2>4. CASE MergeApplies(q)
    \* two runs cannot step at once: the step would change both counters
    <3>1. PICK r \in Runs : StepOf(r) /\ r # q
      BY <1>1
    <3>2. pc'[q] = pc[q] /\ (q \in late' <=> q \in late)
      BY <3>1, OthersUntouched
    <3>3. CASE Merge(q)
      BY <3>2, <3>3 DEF Merge, Goto, Raise, RaiseStage, RaiseRaw, TypeOK
    <3>4. CASE LandMerge(q)
      BY <3>2, <3>4 DEF LandMerge
    <3> QED  BY <2>4, <3>3, <3>4 DEF MergeApplies
  <2> QED  BY <2>3, <2>4
<1>2. ASSUME Ante(q), ~ MergeApplies(q) PROVE ~ Published(q)'
  BY <1>2, PublishedEffect DEF UnmergedInv, EarlyExit
<1>3. ASSUME Ante(q), Main' = Main PROVE ~ Published(q)'
  BY <1>3 DEF UnmergedInv, EarlyExit, Published, CommitsOf
<1>4. CASE Merge(q)
  <2>1. Ante(q)
    BY <1>4 DEF Merge, BeforeMerge, Publishing
  <2>2. CASE UNCHANGED refs
    BY <1>3, <2>1, <2>2 DEF Main
  <2>3. CASE /\ late' = late
             /\ \E reply \in {"ok", "error", "raw"} :
                  IF reply = "ok" THEN Goto(q, "delete_branch") /\ UNCHANGED exit
                  ELSE Raise(q, reply, "merge")
    \* an answered merge leaves no early exit code behind
    BY <1>4, <2>3, StageCodes
       DEF Merge, Goto, Raise, RaiseStage, RaiseRaw, StageExitCode, Uncaught,
           TypeOK, ControlInv, BeforeMerge, Unbranched, Building, Publishing,
           EarlyExit
  <2>4. ASSUME NEW o \in MergeOf(q) PROVE o.reply \in {"ok", "error", "raw"}
    <3> DEFINE accepted == /\ Checked(refs, "main", current_main_ref[q])
                           /\ q \in DOMAIN refs
                           /\ Mergeable(current_main_ref[q], built_branch_ref[q])
               merged == SetRef(refs, "main",
                           Merged(current_main_ref[q], built_branch_ref[q], q))
    <3>1. o \in CallOutcomes(q \in Unreliable, accepted, refs, merged)
      BY <2>4 DEF MergeOf, merge_branch
    <3>2. accepted \in BOOLEAN
      OBVIOUS
    <3> HIDE DEF accepted, merged
    <3> QED  BY <3>1, <3>2, Outcome
  <2> QED  BY <1>4, <2>2, <2>3, <2>4 DEF Merge
<1>5. CASE LandMerge(q)
  BY <1>5 DEF LandMerge, TypeOK, ControlInv, BeforeMerge, Unbranched, Building,
             Publishing, Ended, EarlyExit, Uncaught
<1>6. CASE StepOf(q) /\ pc[q] \in BeforeMerge /\ ~ Merge(q) /\ ~ LandMerge(q)
  BY <1>2, <1>6 DEF MergeApplies
<1>7. CASE StepOf(q) /\ pc[q] \notin BeforeMerge /\ ~ Merge(q) /\ ~ LandMerge(q)
  <2>1. DeleteBranch(q) \/ CleanupBranch(q) \/ Finally(q) \/ Crash(q)
    BY <1>7 DEF StepOf, RunStep, EnsureDbtDeps, BootstrapMain, ReadMain,
       CreateBranch, CreateCatalog, DbtRunTable, DbtRunEnds, DbtTest, ReadBranch,
       ReadTarget, BeforeMerge, Unbranched, Building, Publishing
  <2>2. Ante(q)
    BY <2>1 DEF DeleteBranch, CleanupBranch, Finally, Crash, Goto, RaiseRaw,
       Uncaught, TypeOK, BeforeMerge, Unbranched, Building, Publishing, EarlyExit
  <2> QED  BY <1>2, <1>7, <2>2 DEF MergeApplies
<1>8. CASE DirectWrite
  <2>1. Ante(q)
    BY <1>8 DEF DirectWrite
  <2>2. CASE MergeApplies(q)
    BY <1>8, <2>2 DEF MergeApplies, DirectWrite, Merge, LandMerge, Goto, Raise,
       RaiseStage, RaiseRaw, TypeOK
  <2> QED  BY <1>2, <2>1, <2>2
<1>9. CASE UNCHANGED vars
  BY <1>3, <1>9 DEF vars, Main
<1> QED
  BY <1>1, <1>4, <1>5, <1>6, <1>7, <1>8, <1>9 DEF Next, AllEnded, StepOf
(* Building one more table on a branch keeps it the run's own work.        *)
LEMMA OwnWorkAppend ==
    ASSUME TypeOK, NEW r \in Runs, NEW h \in Hash, OwnWork(r, h),
           NEW c \in Commit, c.by = r
    PROVE  /\ AgreeUpTo(main_ref[r], Append(h, c), Len(main_ref[r]))
           /\ \A i \in (Len(main_ref[r]) + 1)..Len(Append(h, c)) :
                Append(h, c)[i].by = r
<1>1. main_ref[r] \in Hash /\ Len(main_ref[r]) \in Nat /\ Len(h) \in Nat
  BY LenProperties DEF TypeOK, Hash
<1>2. AgreeUpTo(main_ref[r], Append(h, c), Len(main_ref[r]))
  BY <1>1, AppendAgrees DEF OwnWork
<1>3. /\ Len(Append(h, c)) = Len(h) + 1
      /\ \A i \in 1..Len(h) : Append(h, c)[i] = h[i]
      /\ Append(h, c)[Len(h) + 1] = c
  BY AppendProperties DEF Hash
<1>4. ASSUME NEW i \in (Len(main_ref[r]) + 1)..Len(Append(h, c))
      PROVE  Append(h, c)[i].by = r
  <2>1. CASE i = Len(h) + 1
    BY <1>3, <2>1
  <2>2. CASE i \in (Len(main_ref[r]) + 1)..Len(h)
    BY <1>1, <1>3, <2>2 DEF OwnWork
  <2> QED  BY <1>1, <1>3, <2>1, <2>2
<1> QED  BY <1>2, <1>4

BranchInvOf(q) ==
    /\ q \in DOMAIN refs => OwnWork(q, refs[q])
    /\ pc[q] = "create_catalog" => refs[q] = main_ref[q]
    /\ pc[q] \in {"dbt_run", "dbt_test"} => BuiltSoFar(q) \subseteq Scope[q]
    /\ pc[q] = "dbt_test" => Scope[q] \subseteq BuiltSoFar(q)

LEMMA NextBranch ==
    TypeOK /\ ControlInv /\ BranchInv /\ [Next]_vars => BranchInv'
<1> SUFFICES ASSUME TypeOK, ControlInv, BranchInv, [Next]_vars, NEW q \in Runs
             PROVE  BranchInvOf(q)'
  BY DEF BranchInv, BranchInvOf
<1>0. BranchInvOf(q)
  BY DEF BranchInv, BranchInvOf
<1> USE DEF nessieVars, localVars
<1>1. ASSUME pc'[q] = pc[q], main_ref'[q] = main_ref[q],
             q \in DOMAIN refs' <=> q \in DOMAIN refs,
             q \in DOMAIN refs => refs'[q] = refs[q]
      PROVE  BranchInvOf(q)'
  BY <1>0, <1>1 DEF BranchInvOf, OwnWork, BuiltSoFar, ControlInv, Building
<1>2. ASSUME NEW r \in Runs, StepOf(r), r # q PROVE BranchInvOf(q)'
  BY <1>1, <1>2, OthersUntouched
<1>3. CASE DirectWrite
  BY <1>1, <1>3, WritersAssumption DEF DirectWrite, SetRef
<1>4. CASE UNCHANGED vars
  BY <1>1, <1>4 DEF vars
<1>5. CASE ReadMain(q)
  BY <1>5 DEF ReadMain, Goto, RaiseRaw, TypeOK, ControlInv, Unbranched, BranchInvOf
<1>6. CASE CreateBranch(q)
  <2>1. main_ref' = main_ref /\ main_ref[q] \in Hash
    BY <1>6 DEF CreateBranch, TypeOK
  <2>2. q \in DOMAIN refs' => refs'[q] = main_ref[q]
    BY <1>6, BranchEffect DEF StepOf, RunStep, CreateBranch, TableBuilt, DbtRunTable,
       ControlInv, Unbranched
  <2>3. OwnWork(q, main_ref[q])
    BY <2>1, LenProperties DEF OwnWork, AgreeUpTo, Hash
  <2>4. pc'[q] \in {"create_catalog", "cleanup", "finally"}
    BY <1>6 DEF CreateBranch, Goto, Raise, RaiseStage, RaiseRaw, TypeOK
  <2>5. pc'[q] = "create_catalog" => q \in DOMAIN refs'
    BY NextControl DEF ControlInv, Building
  <2> QED  BY <2>1, <2>2, <2>3, <2>4, <2>5 DEF BranchInvOf, OwnWork
<1>7. CASE CreateCatalog(q)
  <2>1. refs' = refs /\ main_ref' = main_ref
    BY <1>7 DEF CreateCatalog
  <2>2. pc'[q] \in {"dbt_run", "cleanup", "finally"}
    BY <1>7 DEF CreateCatalog, Goto, RaiseStage, TypeOK
  <2>3. refs[q] = main_ref[q] /\ Len(main_ref[q]) \in Nat
    BY <1>0, <1>7, LenProperties DEF CreateCatalog, BranchInvOf, TypeOK, Hash
  <2>4. BuiltSoFar(q) = {}
    BY <2>3 DEF BuiltSoFar, TablesPut
  <2> QED  BY <1>0, <2>1, <2>2, <2>4 DEF BranchInvOf, OwnWork, BuiltSoFar
<1>8. CASE DbtRunTable(q)
  <2>1. PICK t \in Scope[q], v \in Values :
          refs' = SetRef(refs, q,
                    Append(refs[q], [by |-> q, puts |-> [x \in {t} |-> v]]))
    BY <1>8 DEF DbtRunTable
  <2> DEFINE c == [by |-> q, puts |-> [x \in {t} |-> v]]
  <2>2. c \in Commit /\ c.by = q /\ DOMAIN c.puts = {t}
    BY SmallCommits, ScopeAssumption, WritersAssumption
  <2>3. q \in DOMAIN refs /\ refs[q] \in Hash /\ main_ref[q] \in Hash
    BY <1>8 DEF DbtRunTable, ControlInv, Building, TypeOK
  <2>4. /\ main_ref' = main_ref /\ pc' = pc /\ pc[q] = "dbt_run"
        /\ refs'[q] = Append(refs[q], c)
    BY <1>8, <2>1 DEF DbtRunTable, SetRef
  <2> HIDE DEF c
  <2>5. OwnWork(q, refs[q]) /\ BuiltSoFar(q) \subseteq Scope[q]
    BY <1>0, <2>3, <2>4 DEF BranchInvOf
  <2>6. OwnWork(q, refs[q])'
    BY <2>2, <2>3, <2>4, <2>5, OwnWorkAppend DEF OwnWork
  <2>7. Len(main_ref[q]) \in Nat /\ Len(main_ref[q]) <= Len(refs[q]) /\ Len(refs[q]) \in Nat
    BY <2>3, <2>5, LenProperties DEF OwnWork, AgreeUpTo, Hash
  <2>8. BuiltSoFar(q)' = BuiltSoFar(q) \cup {t}
    <3>1. Len(main_ref[q]) + 1 \in Nat \ {0} /\ Len(main_ref[q]) + 1 <= Len(refs[q]) + 1
      BY <2>7
    <3> QED  BY <2>2, <2>3, <2>4, <3>1, TablesPutAppend DEF BuiltSoFar
  <2> QED  BY <2>4, <2>5, <2>6, <2>8 DEF BranchInvOf
<1>9. CASE DbtRunEnds(q)
  <2>1. refs' = refs /\ main_ref' = main_ref /\ pc[q] = "dbt_run"
    BY <1>9 DEF DbtRunEnds
  <2>2. \/ pc'[q] \in {"cleanup", "finally"}
        \/ pc'[q] = "dbt_test" /\ Scope[q] \subseteq BuiltSoFar(q)
    BY <1>9 DEF DbtRunEnds, Goto, RaiseStage, TypeOK
  <2> QED  BY <1>0, <2>1, <2>2 DEF BranchInvOf, OwnWork, BuiltSoFar
<1>10. ASSUME StepOf(q), main_ref'[q] = main_ref[q],
              q \in DOMAIN refs' => q \in DOMAIN refs /\ refs'[q] = refs[q],
              pc'[q] \notin {"create_catalog", "dbt_run", "dbt_test"}
       PROVE  BranchInvOf(q)'
  BY <1>0, <1>10 DEF BranchInvOf, OwnWork
<1>11. CASE \/ EnsureDbtDeps(q) \/ BootstrapMain(q) \/ DbtTest(q) \/ ReadBranch(q)
            \/ ReadTarget(q) \/ Merge(q) \/ DeleteBranch(q) \/ CleanupBranch(q)
            \/ Finally(q) \/ Crash(q)
  <2>1. main_ref' = main_ref /\ pc'[q] \notin {"create_catalog", "dbt_run", "dbt_test"}
    BY <1>11 DEF EnsureDbtDeps, BootstrapMain, DbtTest, ReadBranch, ReadTarget, Merge,
       DeleteBranch, CleanupBranch, Finally, Crash, Goto, Raise, RaiseStage, RaiseRaw,
       TypeOK
  <2>2. ~ CreateBranch(q) /\ ~ TableBuilt(q)
    <3>1. CASE Crash(q)
      BY <3>1 DEF Crash, CreateBranch, TableBuilt, DbtRunTable, Goto, Raise, RaiseStage,
         RaiseRaw, TypeOK, Ended
    <3>2. CASE ~ Crash(q)
      BY <1>11, <3>2 DEF EnsureDbtDeps, BootstrapMain, DbtTest, ReadBranch, ReadTarget,
         Merge, DeleteBranch, CleanupBranch, Finally, CreateBranch, TableBuilt,
         DbtRunTable
    <3> QED  BY <3>1, <3>2
  <2> QED  BY <1>10, <1>11, <2>1, <2>2, BranchEffect DEF StepOf, RunStep
<1>12. CASE LandMerge(q)
  <2>1. pc' = pc /\ main_ref' = main_ref
    BY <1>12 DEF LandMerge
  <2>2. ~ CreateBranch(q) /\ ~ TableBuilt(q) /\ ~ DeleteBranch(q) /\ ~ CleanupBranch(q)
    BY <1>12, <2>1 DEF LandMerge, CreateBranch, TableBuilt, DbtRunTable, DeleteBranch,
       CleanupBranch, ControlInv, Ended
  <2> QED  BY <1>1, <1>12, <2>1, <2>2, BranchEffect DEF StepOf
<1>13. CASE StepOf(q)
  BY <1>5, <1>6, <1>7, <1>8, <1>9, <1>11, <1>12, <1>13 DEF StepOf, RunStep
<1> QED  BY <1>2, <1>3, <1>4, <1>13 DEF Next, AllEnded, StepOf
(* An audit is final: neither it nor the main it was based on changes.     *)
LEMMA AuditedStable ==
    ASSUME TypeOK, AuditInv, [Next]_vars, NEW q \in DOMAIN audited
    PROVE  /\ q \in DOMAIN audited' /\ audited'[q] = audited[q]
           /\ main_ref'[q] = main_ref[q]
<1> USE DEF nessieVars, localVars
<1>0. q \in Runs /\ pc[q] \notin Unbranched \cup Building
  BY DEF TypeOK, AuditInv
<1>1. main_ref'[q] = main_ref[q]
  BY <1>0, MainRefEffect DEF Unbranched
<1>2. ASSUME NEW r \in Runs, DbtTest(r)
      PROVE  q \in DOMAIN audited' /\ audited'[q] = audited[q]
  BY <1>0, <1>2 DEF DbtTest, SetRef, Building
<1>3. ASSUME ~ \E r \in Runs : DbtTest(r)
      PROVE  q \in DOMAIN audited' /\ audited'[q] = audited[q]
  <2>1. audited' = audited
    BY <1>3 DEF Next, RunStep, EnsureDbtDeps, BootstrapMain, ReadMain, CreateBranch,
       CreateCatalog, DbtRunTable, DbtRunEnds, ReadBranch, ReadTarget, Merge, LandMerge,
       DeleteBranch, CleanupBranch, Finally, Crash, DirectWrite, AllEnded, vars
  <2> QED  BY <2>1
<1> QED  BY <1>1, <1>2, <1>3

AuditInvOf(q) ==
    /\ q \in DOMAIN audited =>
        /\ pc[q] \notin Unbranched \cup Building
        /\ OwnWork(q, audited[q])
        /\ AuditPasses(Scope[q], Content(audited[q]))
        /\ TablesPut(audited[q], Len(main_ref[q]) + 1, Len(audited[q])) = Scope[q]
    /\ pc[q] = "read_branch" => q \in DOMAIN audited /\ refs[q] = audited[q]
    /\ pc[q] \in {"read_target", "merge"} \/ q \in late
        => q \in DOMAIN audited /\ built_branch_ref[q] = audited[q]

LEMMA NextAudit ==
    TypeOK /\ ControlInv /\ BranchInv /\ AuditInv /\ [Next]_vars => AuditInv'
<1> SUFFICES ASSUME TypeOK, ControlInv, BranchInv, AuditInv, [Next]_vars, NEW q \in Runs
             PROVE  AuditInvOf(q)'
  BY DEF AuditInv, AuditInvOf
<1>0. AuditInvOf(q)
  BY DEF AuditInv, AuditInvOf
<1> USE DEF nessieVars, localVars
\* the record of an audit carries over; what is left is where control is
<1>1. ASSUME pc'[q] \notin Unbranched \cup Building \/ q \notin DOMAIN audited',
             q \in DOMAIN audited' => q \in DOMAIN audited,
             pc'[q] = "read_branch" => q \in DOMAIN audited /\ refs'[q] = audited[q],
             pc'[q] \in {"read_target", "merge"} \/ q \in late'
               => q \in DOMAIN audited /\ built_branch_ref'[q] = audited[q]
      PROVE  AuditInvOf(q)'
  <2>1. CASE q \in DOMAIN audited
    <3>1. /\ q \in DOMAIN audited' /\ audited'[q] = audited[q]
          /\ main_ref'[q] = main_ref[q]
      BY <2>1, AuditedStable
    <3> QED  BY <1>0, <1>1, <2>1, <3>1 DEF AuditInvOf, OwnWork
  <2>2. CASE q \notin DOMAIN audited
    BY <1>1, <2>2 DEF AuditInvOf
  <2> QED  BY <2>1, <2>2
<1>2. ASSUME NEW r \in Runs, StepOf(r), r # q PROVE AuditInvOf(q)'
  <2>1. pc[q] = "read_branch" => q \in DOMAIN refs
    BY DEF ControlInv
  <2>2. /\ pc'[q] = pc[q]
        /\ built_branch_ref'[q] = built_branch_ref[q]
        /\ q \in late' <=> q \in late
        /\ q \in DOMAIN refs => refs'[q] = refs[q]
        /\ q \in DOMAIN audited' <=> q \in DOMAIN audited
    BY <1>2, OthersUntouched
  <2> QED  BY <1>0, <1>1, <2>1, <2>2 DEF AuditInvOf
<1>3. CASE DirectWrite
  <2>1. q # "main"
    BY WritersAssumption
  <2>2. refs'[q] = refs[q] \/ q \notin DOMAIN refs
    BY <1>3, <2>1 DEF DirectWrite, SetRef
  <2> QED
    BY <1>0, <1>1, <1>3, <2>2 DEF DirectWrite, AuditInvOf, ControlInv
<1>4. CASE UNCHANGED vars
  BY <1>0, <1>1, <1>4 DEF vars, AuditInvOf
<1>5. CASE \/ EnsureDbtDeps(q) \/ BootstrapMain(q) \/ ReadMain(q) \/ CreateBranch(q)
           \/ CreateCatalog(q) \/ DbtRunTable(q) \/ DbtRunEnds(q)
  <2>1. /\ audited' = audited /\ late' = late
        /\ pc[q] \in Unbranched \cup Building
        /\ pc'[q] \notin {"read_branch", "read_target", "merge"}
    BY <1>5 DEF EnsureDbtDeps, BootstrapMain, ReadMain, CreateBranch, CreateCatalog,
       DbtRunTable, DbtRunEnds, Goto, Raise, RaiseStage, RaiseRaw, TypeOK, Unbranched,
       Building
  <2>2. q \notin late
    BY <2>1 DEF ControlInv, BeforeMerge
  <2> QED  BY <1>0, <1>1, <2>1, <2>2 DEF AuditInvOf
<1>6. CASE DbtTest(q)
  <2>0. q \notin late /\ q \notin DOMAIN audited /\ q \in DOMAIN refs
    BY <1>0, <1>6 DEF DbtTest, ControlInv, BeforeMerge, Building, AuditInvOf
  <2>1. CASE /\ AuditPasses(Scope[q], Content(refs[q]))
             /\ audited' = SetRef(audited, q, refs[q])
             /\ Goto(q, "read_branch")
    <3>1. /\ q \in DOMAIN audited' /\ audited'[q] = refs[q]
          /\ pc'[q] = "read_branch" /\ refs' = refs /\ main_ref' = main_ref
          /\ late' = late
      BY <1>6, <2>1 DEF DbtTest, SetRef, Goto, TypeOK
    <3>2. OwnWork(q, refs[q]) /\ BuiltSoFar(q) = Scope[q]
      BY <1>6, <2>0 DEF DbtTest, BranchInv
    <3>3. OwnWork(q, audited[q])'
      BY <3>1, <3>2 DEF OwnWork
    <3> QED
      BY <2>0, <2>1, <3>1, <3>2, <3>3 DEF AuditInvOf, BuiltSoFar, Unbranched, Building
  <2>2. CASE RaiseStage(q, "dbt-test") /\ UNCHANGED audited
    <3>1. pc'[q] \in {"cleanup", "finally"} /\ late' = late
      BY <1>6, <2>2 DEF DbtTest, RaiseStage, Goto, TypeOK
    <3> QED  BY <1>1, <2>0, <2>2, <3>1
  <2> QED  BY <1>6, <2>1, <2>2 DEF DbtTest
<1>7. CASE ReadBranch(q)
  <2>1. /\ audited' = audited /\ late' = late /\ pc[q] = "read_branch"
        /\ \/ pc'[q] = "read_target" /\ built_branch_ref'[q] = refs[q]
           \/ pc'[q] = "finally"
    BY <1>7 DEF ReadBranch, Goto, RaiseRaw, TypeOK
  <2>2. q \notin late
    BY <2>1 DEF ControlInv, BeforeMerge, Publishing
  <2> QED  BY <1>0, <1>1, <2>1, <2>2 DEF AuditInvOf, Unbranched, Building
<1>8. CASE ReadTarget(q) \/ Merge(q)
  <2>1. /\ audited' = audited /\ pc[q] \in {"read_target", "merge"}
        /\ built_branch_ref' = built_branch_ref
        /\ pc'[q] \in {"merge", "delete_branch", "cleanup", "finally"}
    BY <1>8 DEF ReadTarget, Merge, Goto, Raise, RaiseStage, RaiseRaw, TypeOK
  <2> QED  BY <1>0, <1>1, <2>1 DEF AuditInvOf, Unbranched, Building
<1>9. CASE DeleteBranch(q) \/ CleanupBranch(q) \/ Finally(q) \/ Crash(q)
  <2>1. /\ audited' = audited /\ late' = late /\ built_branch_ref' = built_branch_ref
        /\ pc'[q] \in {"finally", "done", "crashed"}
    BY <1>9 DEF DeleteBranch, CleanupBranch, Finally, Crash, Goto, RaiseRaw, TypeOK
  <2> QED  BY <1>0, <1>1, <2>1 DEF AuditInvOf, Unbranched, Building
<1>10. CASE LandMerge(q)
  <2>1. /\ audited' = audited /\ late' \subseteq late /\ pc' = pc
        /\ built_branch_ref' = built_branch_ref
        /\ pc[q] \in Ended \cup {"finally"}
    BY <1>10 DEF LandMerge, ControlInv
  <2> QED  BY <1>0, <1>1, <2>1 DEF AuditInvOf, Unbranched, Building, Ended
<1>11. CASE StepOf(q)
  BY <1>5, <1>6, <1>7, <1>8, <1>9, <1>10, <1>11 DEF StepOf, RunStep
<1> QED  BY <1>2, <1>3, <1>4, <1>11 DEF Next, AllEnded, StepOf

(* The merge that goes through: it moves what was audited, the whole of    *)
(* it, and no commit since the branch was cut touched those tables.        *)
LEMMA MergeBase ==
    ASSUME WapInv, NEW r \in Runs, MergeApplies(r)
    PROVE  /\ r \in DOMAIN audited
           /\ AuditPasses(Scope[r], Content(audited[r]))
           /\ DOMAIN MergeCommit(r).puts = Scope[r]
           /\ MergeCommit(r).puts = Gained(audited[r], Len(main_ref[r]))
           /\ MergeCommit(r).by = r
           /\ \A j \in 1..Len(Main) :
                DOMAIN Main[j].puts \cap Scope[r] # {} => j <= Len(main_ref[r])
<1> DEFINE n == Len(main_ref[r])
<1>1. pc[r] = "merge" \/ r \in late
  BY DEF MergeApplies, Merge, LandMerge
<1>2. /\ r \in DOMAIN audited /\ built_branch_ref[r] = audited[r]
      /\ OwnWork(r, audited[r])
      /\ AuditPasses(Scope[r], Content(audited[r]))
      /\ TablesPut(audited[r], n + 1, Len(audited[r])) = Scope[r]
  BY <1>1 DEF WapInv, AuditInv
<1>3. ~ Published(r)
  BY <1>1 DEF WapInv, UnmergedInv, BeforeMerge, Publishing
<1>4. /\ Main \in Hash /\ audited[r] \in Hash /\ main_ref[r] \in Hash
      /\ n \in Nat /\ Len(Main) \in Nat /\ Len(audited[r]) \in Nat
  BY <1>2, LenProperties DEF WapInv, TypeOK, Main, Hash
<1>5. AgreeUpTo(Main, audited[r], n)
  BY <1>2, <1>4 DEF WapInv, SeenInv, OwnWork, AgreeUpTo
<1>6. ~ AgreeUpTo(Main, audited[r], n + 1)
  <2> SUFFICES ASSUME AgreeUpTo(Main, audited[r], n + 1) PROVE FALSE
    OBVIOUS
  <2>1. /\ n + 1 \in 1..Len(Main) /\ n + 1 \in (n + 1)..Len(audited[r])
        /\ Main[n + 1] = audited[r][n + 1]
    BY <1>4 DEF AgreeUpTo
  <2>2. Main[n + 1].by = r
    BY <1>2, <2>1 DEF OwnWork
  <2> QED  BY <1>3, <2>1, <2>2 DEF Published, CommitsOf
<1>7. CommonLen(Main, audited[r]) = n
  BY <1>4, <1>5, <1>6, CommonLenIs
<1>8. /\ MergeCommit(r).puts = Gained(audited[r], n)
      /\ MergeCommit(r).by = r
  BY <1>2, <1>7 DEF MergeCommit
<1>9. DOMAIN Gained(audited[r], n) = Scope[r]
  BY <1>2, <1>4, GainedType
<1>10. ASSUME NEW j \in 1..Len(Main), DOMAIN Main[j].puts \cap Scope[r] # {}
       PROVE  j <= n
  <2>1. TablesPut(Main, n + 1, Len(Main)) \cap Scope[r] = {}
    BY <1>2, <1>7 DEF MergeApplies, Mergeable, KeyConflict
  <2>2. j \notin (n + 1)..Len(Main)
    BY <1>10, <2>1 DEF TablesPut
  <2> QED  BY <1>4, <1>10, <2>2
<1> QED  BY <1>2, <1>8, <1>9, <1>10

(* The records a run's published commits refer to are final.               *)
LEMMA NextPublished == WapInv /\ [Next]_vars => PublishedWasAudited'
<1> SUFFICES ASSUME WapInv, [Next]_vars, NEW q \in Runs, NEW i \in CommitsOf(q)'
             PROVE  /\ q \in DOMAIN audited'
                    /\ AuditPasses(Scope[q], Content(audited'[q]))
                    /\ DOMAIN Main'[i].puts = Scope[q]
                    /\ Main'[i].puts = Gained(audited'[q], Len(main_ref'[q]))
  BY DEF PublishedWasAudited
<1> USE DEF WapInv
<1>1. Main \in Hash /\ Len(Main) \in Nat
  BY LenProperties DEF TypeOK, Main, Hash
<1>2. i \in 1..Len(Main') /\ Main'[i].by = q
  BY DEF CommitsOf
<1>3. ASSUME i \in 1..Len(Main), Main'[i] = Main[i]
      PROVE  /\ q \in DOMAIN audited
             /\ AuditPasses(Scope[q], Content(audited[q]))
             /\ DOMAIN Main'[i].puts = Scope[q]
             /\ Main'[i].puts = Gained(audited[q], Len(main_ref[q]))
  BY <1>2, <1>3 DEF PublishedWasAudited, CommitsOf
<1>4. ASSUME NEW c \in Commit, Main' = Append(Main, c), i = Len(Main) + 1
      PROVE  Main'[i] = c
  BY <1>1, <1>4, AppendProperties DEF Hash
<1>5. ASSUME NEW c \in Commit, Main' = Append(Main, c), i # Len(Main) + 1
      PROVE  i \in 1..Len(Main) /\ Main'[i] = Main[i]
  BY <1>1, <1>2, <1>5, AppendProperties DEF Hash
<1>6. /\ q \in DOMAIN audited
      /\ AuditPasses(Scope[q], Content(audited[q]))
      /\ DOMAIN Main'[i].puts = Scope[q]
      /\ Main'[i].puts = Gained(audited[q], Len(main_ref[q]))
  <2>1. CASE Main' = Main
    BY <1>2, <1>3, <2>1
  <2>2. ASSUME NEW c \in Commit, c.by \notin Runs, Main' = Append(Main, c)
        PROVE  i \in 1..Len(Main) /\ Main'[i] = Main[i]
    BY <1>2, <1>4, <1>5, <2>2
  <2>3. ASSUME NEW r \in Runs, MergeApplies(r), MergeCommit(r) \in Commit,
               Main' = Append(Main, MergeCommit(r)), i = Len(Main) + 1
        PROVE  /\ q \in DOMAIN audited
               /\ AuditPasses(Scope[q], Content(audited[q]))
               /\ DOMAIN Main'[i].puts = Scope[q]
               /\ Main'[i].puts = Gained(audited[q], Len(main_ref[q]))
    <3>1. Main'[i] = MergeCommit(r)
      BY <1>4, <2>3
    <3>2. r = q
      BY <1>2, <2>3, <3>1, MergeBase
    <3> QED  BY <2>3, <3>1, <3>2, MergeBase
  <2> QED  BY <1>3, <1>5, <2>1, <2>2, <2>3, MainEffect
<1>7. audited'[q] = audited[q] /\ q \in DOMAIN audited' /\ main_ref'[q] = main_ref[q]
  BY <1>6, AuditedStable
<1> QED  BY <1>6, <1>7

LEMMA NextNoLostUpdate == WapInv /\ [Next]_vars => NoLostUpdate'
<1> SUFFICES ASSUME WapInv, [Next]_vars, NEW q \in Runs, NEW i \in CommitsOf(q)',
                    NEW j \in 1..(i - 1),
                    DOMAIN Main'[j].puts \cap DOMAIN Main'[i].puts # {}
             PROVE  j <= Len(main_ref'[q])
  BY DEF NoLostUpdate
<1> USE DEF WapInv
<1>1. Main \in Hash /\ Len(Main) \in Nat
  BY LenProperties DEF TypeOK, Main, Hash
<1>2. i \in 1..Len(Main') /\ Main'[i].by = q
  BY DEF CommitsOf
<1>3. ASSUME i \in 1..Len(Main), Main'[i] = Main[i], Main'[j] = Main[j]
      PROVE  j <= Len(main_ref[q]) /\ q \in DOMAIN audited
  BY <1>2, <1>3 DEF NoLostUpdate, PublishedWasAudited, CommitsOf
<1>4. ASSUME NEW c \in Commit, Main' = Append(Main, c)
      PROVE  /\ i = Len(Main) + 1 => Main'[i] = c
             /\ i # Len(Main) + 1 => i \in 1..Len(Main) /\ Main'[i] = Main[i]
             /\ j \in 1..Len(Main) /\ Main'[j] = Main[j]
  BY <1>1, <1>2, <1>4, AppendProperties DEF Hash
<1>5. j <= Len(main_ref[q]) /\ q \in DOMAIN audited
  <2>1. CASE Main' = Main
    BY <1>2, <1>3, <2>1
  <2>2. ASSUME NEW c \in Commit, c.by \notin Runs, Main' = Append(Main, c)
        PROVE  j <= Len(main_ref[q]) /\ q \in DOMAIN audited
    BY <1>2, <1>3, <1>4, <2>2
  <2>3. ASSUME NEW r \in Runs, MergeApplies(r), MergeCommit(r) \in Commit,
               Main' = Append(Main, MergeCommit(r))
        PROVE  j <= Len(main_ref[q]) /\ q \in DOMAIN audited
    <3>1. CASE i = Len(Main) + 1
      <4>1. Main'[i] = MergeCommit(r) /\ j \in 1..Len(Main) /\ Main'[j] = Main[j]
        BY <1>4, <2>3, <3>1
      <4>2. r = q
        BY <1>2, <2>3, <4>1, MergeBase
      <4> QED  BY <2>3, <4>1, <4>2, MergeBase
    <3>2. CASE i # Len(Main) + 1
      BY <1>3, <1>4, <2>3, <3>2
    <3> QED  BY <3>1, <3>2
  <2> QED  BY <2>1, <2>2, <2>3, MainEffect
<1>6. main_ref'[q] = main_ref[q]
  BY <1>5, AuditedStable
<1> QED  BY <1>5, <1>6

LEMMA InitWapInv == Init => WapInv
<1> SUFFICES ASSUME Init PROVE WapInv
  OBVIOUS
<1>1. TypeOK
  BY InitTypeOK
<1>2. PICK h \in InitialHashes : refs = [n \in {"main"} |-> h]
  BY DEF Init
<1>3. \A r \in Runs : CommitsOf(r) = {}
  BY <1>2, InitialAssumption DEF CommitsOf, Main
<1>4. \A r \in Runs :
        /\ r \notin DOMAIN refs /\ r \notin DOMAIN audited /\ r \notin late
        /\ pc[r] = "start" /\ exit[r] = 0 /\ main_ref[r] = << >>
  BY <1>2, WritersAssumption DEF Init, Genesis
<1>5. ControlInv
  BY <1>4 DEF ControlInv, Unbranched, Building, Publishing, BeforeMerge
<1>6. UnmergedInv /\ PublishedWasAudited /\ NoLostUpdate
  BY <1>3 DEF UnmergedInv, Published, PublishedWasAudited, NoLostUpdate
<1>7. SeenInv
  <2>1. Len(Main) \in Nat
    BY <1>1, LenProperties DEF TypeOK, Main, Hash
  <2> QED  BY <1>4, <2>1 DEF SeenInv, AgreeUpTo
<1>8. BranchInv
  BY <1>4 DEF BranchInv
<1>9. AuditInv
  BY <1>4 DEF AuditInv
<1> QED  BY <1>1, <1>5, <1>6, <1>7, <1>8, <1>9 DEF WapInv

LEMMA NextWapInv == WapInv /\ [Next]_vars => WapInv'
BY NextTypeOK, NextControl, NextUnmerged, NextSeen, NextBranch, NextAudit,
   NextPublished, NextNoLostUpdate DEF WapInv

(***************************************************************************)
(* The theorems.                                                           *)
(***************************************************************************)
(* The inductive invariant of run_wap holds in every reachable state.      *)
THEOREM WapInvariant == Spec => []WapInv
<1>1. WapInv /\ UNCHANGED vars => WapInv'
  BY NextWapInv
<1> QED  BY <1>1, InitWapInv, NextWapInv, PTL DEF Spec

(* Every variable of run_wap keeps its type: hashes stay histories, exit   *)
(* codes stay within the documented 0 to 8.                                *)
THEOREM TypeCorrect == Spec => []TypeOK
BY WapInvariant, PTL DEF WapInv

(* What run_wap merges into main is exactly what its run of `dbt test`     *)
(* passed on, complete, whatever runs, builds and failures surround it.    *)
THEOREM OnlyAuditedIsPublished == Spec => []PublishedWasAudited
BY WapInvariant, PTL DEF WapInv

(* The merge of run_wap never overwrites a version of a table that its     *)
(* run did not start from.                                                 *)
THEOREM NoUpdateIsLost == Spec => []NoLostUpdate
BY WapInvariant, PTL DEF WapInv

(* The exit codes of the stages before the merge guarantee an untouched    *)
(* main.                                                                   *)
THEOREM EarlyExitIsSafe == Spec => []EarlyExitMeansUnpublished
<1>1. WapInv => EarlyExitMeansUnpublished
  BY DEF WapInv, UnmergedInv, EarlyExitMeansUnpublished
<1> QED  BY <1>1, WapInvariant, PTL

(* No step of any run, of a late merge or of a direct build rewrites what  *)
(* a reader of main has already seen.                                      *)
THEOREM HistoryIsKept == Spec => MainOnlyGrows
<1>1. TypeOK /\ [Next]_vars => /\ Len(Main) <= Len(Main')
                               /\ AgreeUpTo(Main, Main', Len(Main))
  <2> SUFFICES ASSUME TypeOK, [Next]_vars
               PROVE  /\ Len(Main) <= Len(Main')
                      /\ AgreeUpTo(Main, Main', Len(Main))
    OBVIOUS
  <2>1. Main \in Hash /\ Len(Main) \in Nat
    BY LenProperties DEF TypeOK, Main, Hash
  <2>2. AgreeUpTo(Main, Main, Len(Main))
    BY <2>1 DEF AgreeUpTo
  <2>3. AgreeUpTo(Main, Main', Len(Main))
    BY <2>1, <2>2, MainExtends
  <2> QED  BY <2>3 DEF AgreeUpTo
<1> QED  BY <1>1, TypeCorrect, PTL DEF Spec, MainOnlyGrows

(***************************************************************************)
(* The exit code tells what became of a run and of its branch.             *)
(***************************************************************************)
(* A branch is there until the run's own delete; a run that gets to it has *)
(* published; the cleanup is only for runs that may not keep their branch. *)
ExitInvOf(r) ==
    /\ pc[r] \in {"read_target", "merge", "delete_branch"} => r \in DOMAIN refs
    /\ pc[r] = "delete_branch" => exit[r] = 0 /\ Published(r)
    /\ pc[r] = "cleanup" => r \notin keep_failed_branch /\ exit[r] # 0
    /\ pc[r] \in {"finally", "done"} =>
          /\ exit[r] = 0 => Published(r) /\ r \notin DOMAIN refs
          /\ r \in keep_failed_branch /\ exit[r] \in 3..6 => r \in DOMAIN refs
ExitInv == \A r \in Runs : ExitInvOf(r)

(* main only grows, so what is published stays published.                *)
LEMMA PublishedStays ==
    ASSUME TypeOK, [Next]_vars, NEW q \in Runs, Published(q)
    PROVE  Published(q)'
<1>1. Main \in Hash /\ Len(Main) \in Nat
  BY LenProperties DEF TypeOK, Main, Hash
<1>2. ASSUME NEW c \in Commit, Main' = Append(Main, c) PROVE Published(q)'
  BY <1>1, <1>2, AppendProperties DEF Hash, Published, CommitsOf
<1>3. ASSUME Main' = Main PROVE Published(q)'
  BY <1>3 DEF Published, CommitsOf
<1> QED  BY <1>2, <1>3, MainEffect

(* --keep-failed-branch is an argument: no step changes it.                *)
LEMMA FlagsStay == [Next]_vars => keep_failed_branch' = keep_failed_branch
<1> SUFFICES ASSUME [Next]_vars PROVE keep_failed_branch' = keep_failed_branch
  OBVIOUS
<1>1. ASSUME NEW r \in Runs, RunStep(r) \/ Crash(r) \/ LandMerge(r)
      PROVE  keep_failed_branch' = keep_failed_branch
  BY <1>1 DEF RunStep, EnsureDbtDeps, BootstrapMain, ReadMain, CreateBranch, CreateCatalog,
     DbtRunTable, DbtRunEnds, DbtTest, ReadBranch, ReadTarget, Merge, DeleteBranch,
     CleanupBranch, Finally, Crash, LandMerge, localVars
<1> QED  BY <1>1 DEF Next, DirectWrite, AllEnded, vars, localVars

(* No step makes an exit code wrong.                                       *)
LEMMA NextExit == WapInv /\ ExitInv /\ [Next]_vars => ExitInv'
<1> SUFFICES ASSUME WapInv, ExitInv, [Next]_vars, NEW q \in Runs PROVE ExitInvOf(q)'
  BY DEF ExitInv
<1>0. /\ TypeOK /\ ControlInv /\ ExitInvOf(q)
      /\ Published(q) => Published(q)'
      /\ keep_failed_branch' = keep_failed_branch
  BY PublishedStays, FlagsStay DEF WapInv, ExitInv
<1> USE DEF nessieVars, localVars
<1>1. ASSUME pc'[q] = pc[q], exit'[q] = exit[q], q \in DOMAIN refs' <=> q \in DOMAIN refs
      PROVE  ExitInvOf(q)'
  BY <1>0, <1>1 DEF ExitInvOf
<1>2. ASSUME NEW r \in Runs, StepOf(r), r # q PROVE ExitInvOf(q)'
  BY <1>0, <1>1, <1>2, OthersUntouched
<1>3. ASSUME StepOf(q), NEW b, pc[q] = b,
             b \notin {"create_branch", "delete_branch", "cleanup"}
      PROVE  q \in DOMAIN refs' <=> q \in DOMAIN refs
  BY <1>0, <1>3, BranchEffect DEF CreateBranch, TableBuilt, DeleteBranch, CleanupBranch
<1>4. ASSUME EnsureDbtDeps(q) \/ BootstrapMain(q) \/ ReadMain(q)
      PROVE  ExitInvOf(q)'
  BY <1>0, <1>4 DEF EnsureDbtDeps, BootstrapMain, ReadMain, Goto, Raise, RaiseStage, RaiseRaw,
     StageExitCode, Uncaught, TypeOK, ExitInvOf
<1>5. CASE CreateBranch(q)
  BY <1>0, <1>5 DEF CreateBranch, Goto, Raise, RaiseStage, RaiseRaw, StageExitCode, Uncaught,
     TypeOK, ExitInvOf
<1>6. ASSUME CreateCatalog(q) \/ DbtRunEnds(q) \/ DbtTest(q) PROVE ExitInvOf(q)'
  <2>1. q \in DOMAIN refs /\ refs' = refs
    BY <1>0, <1>6 DEF CreateCatalog, DbtRunEnds, DbtTest, ControlInv, Building
  <2> QED
    BY <1>0, <1>6, <2>1 DEF CreateCatalog, DbtRunEnds, DbtTest, Goto, RaiseStage,
       StageExitCode, TypeOK, ExitInvOf
<1>7. CASE DbtRunTable(q)
  <2>1. pc'[q] = pc[q] /\ exit'[q] = exit[q] /\ pc[q] = "dbt_run"
    BY <1>7 DEF DbtRunTable
  <2> QED  BY <1>1, <1>3, <1>7, <2>1 DEF StepOf, RunStep
<1>8. ASSUME ReadBranch(q) \/ ReadTarget(q) PROVE ExitInvOf(q)'
  <2>1. q \in DOMAIN refs /\ refs' = refs
    BY <1>0, <1>8 DEF ReadBranch, ReadTarget, ControlInv, ExitInvOf
  <2> QED
    BY <1>0, <1>8, <2>1 DEF ReadBranch, ReadTarget, Goto, RaiseRaw, Uncaught, TypeOK, ExitInvOf
<1>9. CASE Merge(q)
  <2>1. q \in DOMAIN refs /\ q \in DOMAIN refs' /\ pc[q] = "merge" /\ exit[q] = 0
    BY <1>0, <1>3, <1>9 DEF Merge, StepOf, RunStep, ExitInvOf, ControlInv, BeforeMerge,
       Publishing
  <2>2. ASSUME pc'[q] = "delete_branch" PROVE exit'[q] = 0 /\ Published(q)'
    <3>1. /\ \E o \in MergeOf(q) : refs' = o.refs /\ o.reply = "ok"
          /\ UNCHANGED exit
      BY <1>0, <1>9, <2>2 DEF Merge, Goto, Raise, RaiseStage, RaiseRaw, TypeOK
    <3>2. PICK o \in MergeOf(q) : refs' = o.refs /\ o.reply = "ok"
      BY <3>1
    <3>3. /\ Checked(refs, "main", current_main_ref[q])
          /\ refs' = SetRef(refs, "main", Merged(current_main_ref[q], built_branch_ref[q], q))
      <4> DEFINE accepted == /\ Checked(refs, "main", current_main_ref[q])
                             /\ q \in DOMAIN refs
                             /\ Mergeable(current_main_ref[q], built_branch_ref[q])
                 merged == SetRef(refs, "main",
                             Merged(current_main_ref[q], built_branch_ref[q], q))
      <4>1. o \in CallOutcomes(q \in Unreliable, accepted, refs, merged)
        BY DEF MergeOf, merge_branch
      <4>2. accepted \in BOOLEAN
        OBVIOUS
      <4>3. accepted /\ o.refs = merged
        <5> HIDE DEF accepted, merged
        <5> QED  BY <3>2, <4>1, <4>2, Outcome
      <4> QED  BY <3>2, <4>3
    <3>4. /\ current_main_ref[q] = Main
          /\ Main' = Merged(Main, built_branch_ref[q], q)
      BY <3>3 DEF Checked, SetRef, Main
    <3>5. Main \in Hash /\ Len(Main) \in Nat /\ built_branch_ref[q] \in Hash
      BY <1>0, LenProperties DEF TypeOK, Main, Hash
    <3>6. MergeCommit(q) \in Commit
      BY <3>5, MergedType, WritersAssumption DEF MergeCommit
    <3>7. Main' = Append(Main, MergeCommit(q)) /\ MergeCommit(q).by = q
      BY <3>4 DEF Merged, MergeCommit
    <3>8. Published(q)'
      BY <3>5, <3>6, <3>7, AppendProperties DEF Hash, Published, CommitsOf
    <3> QED  BY <2>1, <3>1, <3>8
  <2>3. \/ pc'[q] = "delete_branch"
        \/ pc'[q] = "cleanup" /\ q \notin keep_failed_branch /\ exit'[q] # 0
        \/ pc'[q] = "finally" /\ exit'[q] # 0
    BY <1>0, <1>9 DEF Merge, Goto, Raise, RaiseStage, RaiseRaw, StageExitCode, Uncaught, TypeOK
  <2> QED  BY <1>0, <2>1, <2>2, <2>3 DEF ExitInvOf
<1>10. CASE DeleteBranch(q)
  <2>1. PICK o \in delete_reference(q \in Unreliable, refs, q, built_branch_ref[q]) :
          /\ refs' = o.refs
          /\ IF o.reply = "ok" THEN Goto(q, "finally") /\ UNCHANGED exit ELSE RaiseRaw(q)
    BY <1>10 DEF DeleteBranch
  <2>2. Checked(refs, q, built_branch_ref[q]) \in BOOLEAN
    BY DEF Checked
  <2>3. o.reply = "ok" => refs' = DropRef(refs, q)
    BY <2>1, <2>2, Outcome DEF delete_reference
  <2>4. o.reply = "ok" => q \notin DOMAIN refs'
    BY <2>3 DEF DropRef
  <2>5. pc[q] = "delete_branch" /\ exit[q] = 0 /\ Published(q)
    BY <1>0, <1>10 DEF DeleteBranch, ExitInvOf
  <2> QED
    BY <1>0, <2>1, <2>4, <2>5 DEF Goto, RaiseRaw, Uncaught, TypeOK, ExitInvOf
<1>11. CASE CleanupBranch(q)
  <2>1. q \notin keep_failed_branch /\ exit[q] # 0
    BY <1>0, <1>11 DEF CleanupBranch, ExitInvOf
  <2>2. pc'[q] = "finally" /\ exit'[q] # 0
    BY <1>0, <1>11, <2>1 DEF CleanupBranch, Goto, Uncaught, TypeOK
  <2> QED  BY <1>0, <2>1, <2>2 DEF ExitInvOf
<1>12. CASE Finally(q)
  BY <1>0, <1>12 DEF Finally, Goto, TypeOK, ExitInvOf
<1>13. CASE Crash(q)
  BY <1>0, <1>13 DEF Crash, Goto, TypeOK, ExitInvOf
<1>14. CASE LandMerge(q)
  <2>1. q \in late /\ pc[q] \in Ended \cup {"finally"} /\ pc' = pc /\ exit' = exit
    BY <1>0, <1>14 DEF LandMerge, ControlInv
  <2> QED  BY <1>1, <1>3, <1>14, <2>1 DEF StepOf, Ended
<1>15. CASE DirectWrite
  <2>1. q \in DOMAIN refs' <=> q \in DOMAIN refs
    BY <1>15, WritersAssumption DEF DirectWrite, SetRef, WapInv, TypeOK
  <2> QED  BY <1>1, <1>15, <2>1 DEF DirectWrite
<1>16. CASE UNCHANGED vars
  BY <1>1, <1>16 DEF vars
<1>17. CASE StepOf(q)
  BY <1>4, <1>5, <1>6, <1>7, <1>8, <1>9, <1>10, <1>11, <1>12, <1>13, <1>14, <1>17
     DEF StepOf, RunStep
<1> QED  BY <1>2, <1>15, <1>16, <1>17 DEF Next, AllEnded, StepOf

(* Exit code 0 means published and the branch gone; under                  *)
(* --keep-failed-branch a stage's failure leaves the branch to inspect, on *)
(* top of the main it was cut from; whatever calls failed or lost a reply. *)
THEOREM ExitCodeIsTruthful == Spec => []ExitCodeTruthful
<1>1. Init => ExitInv
  BY DEF Init, ExitInv, ExitInvOf
<1>2. WapInv /\ ExitInv => ExitCodeTruthful
  <2> SUFFICES ASSUME WapInv, ExitInv, NEW r \in Runs, pc[r] = "done"
               PROVE  /\ exit[r] = 0 => Published(r) /\ r \notin DOMAIN refs
                      /\ r \in keep_failed_branch /\ exit[r] \in 3..6 =>
                            /\ r \in DOMAIN refs
                            /\ AgreeUpTo(refs[r], main_ref[r], Len(main_ref[r]))
    BY DEF ExitCodeTruthful
  <2>1. r \in DOMAIN refs => AgreeUpTo(refs[r], main_ref[r], Len(main_ref[r]))
    BY DEF WapInv, BranchInv, OwnWork, AgreeUpTo
  <2> QED  BY <2>1 DEF ExitInv, ExitInvOf
<1>3. WapInv /\ ExitInv /\ UNCHANGED vars => ExitInv'
  BY NextExit
<1> QED  BY <1>1, <1>2, <1>3, NextExit, WapInvariant, PTL DEF Spec

(***************************************************************************)
(* A run whose own calls are all answered: the two promises of the         *)
(* docstring that a lost reply of its own can break.  Nothing is assumed   *)
(* of the runs next to it.                                                 *)
(***************************************************************************)
(* The flags of run_wap say what exists; the branch a run merged is still  *)
(* the one it deletes; only a run that did not publish fails.              *)
CleanInvOf(r) ==
    /\ r \notin late
    /\ pc[r] \in Unbranched => ~ branch_created[r]
    /\ pc[r] \in Building \cup Publishing \cup {"delete_branch", "cleanup"} =>
          branch_created[r] /\ r \in DOMAIN refs
    /\ pc[r] \in {"read_target", "merge", "delete_branch"} => refs[r] = built_branch_ref[r]
    /\ pc[r] \in {"cleanup", "finally", "done"} =>
          /\ exit[r] # 0 => ~ Published(r)
          /\ pc[r] # "cleanup" /\ r \notin keep_failed_branch => r \notin DOMAIN refs
    /\ r \in catalogs => catalog_created[r] /\ pc[r] # "done"
CleanInv == \A r \in Runs \ Unreliable : CleanInvOf(r)

LEMMA AnsweredCall ==
    ASSUME NEW accepted \in BOOLEAN, NEW before, NEW after,
           NEW q, q \notin Unreliable,
           NEW o \in CallOutcomes(q \in Unreliable, accepted, before, after)
    PROVE  /\ accepted  => o.reply = "ok" /\ o.refs = after
           /\ ~ accepted => o.reply = "error" /\ o.refs = before
BY DEF CallOutcomes

LEMMA AnsweredRead ==
    ASSUME NEW name, NEW q, q \notin Unreliable, name \in DOMAIN refs,
           NEW reply \in ReadOutcomes(q \in Unreliable, refs, name)
    PROVE  reply = "ok"
BY DEF ReadOutcomes

(* Nobody else publishes for a run that does not merge.                    *)
LEMMA StaysUnpublished ==
    ASSUME TypeOK, [Next]_vars, NEW q \in Runs, ~ Published(q), ~ Merge(q), ~ LandMerge(q)
    PROVE  ~ Published(q)'
BY PublishedEffect DEF MergeApplies

LEMMA NextClean ==
    ASSUME WapInv, ExitInv, CleanInv, [Next]_vars
    PROVE  CleanInv'
<1> USE DEF nessieVars, localVars
<1> SUFFICES ASSUME NEW q \in Runs, q \notin Unreliable PROVE CleanInvOf(q)'
  BY DEF CleanInv
<1>0. TypeOK /\ ControlInv
  BY DEF WapInv
<1>2. CleanInvOf(q) /\ ExitInvOf(q)
  BY DEF CleanInv, ExitInv
<1>1. q \notin late' /\ keep_failed_branch' = keep_failed_branch
  <2>1. q \notin late
    BY <1>2 DEF CleanInvOf
  <2>2. ASSUME NEW r \in Runs, RunStep(r) PROVE q \notin late'
    BY <2>1, <2>2 DEF RunStep, EnsureDbtDeps, BootstrapMain, ReadMain, CreateBranch,
       CreateCatalog, DbtRunTable, DbtRunEnds, DbtTest, ReadBranch, ReadTarget, Merge,
       DeleteBranch, CleanupBranch, Finally
  <2> QED  BY <2>1, <2>2, FlagsStay DEF Next, Crash, LandMerge, DirectWrite, AllEnded, vars
<1>3. ASSUME pc'[q] = pc[q], exit'[q] = exit[q], q \in DOMAIN refs' <=> q \in DOMAIN refs,
             q \in DOMAIN refs => refs'[q] = refs[q],
             built_branch_ref'[q] = built_branch_ref[q],
             branch_created'[q] = branch_created[q], catalog_created'[q] = catalog_created[q],
             q \in catalogs' <=> q \in catalogs, ~ Merge(q)
      PROVE  CleanInvOf(q)'
  <2>1. ~ Published(q) => ~ Published(q)'
    BY <1>0, <1>2, <1>3, StaysUnpublished DEF LandMerge, CleanInvOf
  <2> QED  BY <1>1, <1>2, <1>3, <2>1 DEF CleanInvOf, Building, Publishing
<1>4. ASSUME NEW r \in Runs, RunStep(r), r # q PROVE CleanInvOf(q)'
  <2>1. /\ branch_created'[q] = branch_created[q] /\ catalog_created'[q] = catalog_created[q]
        /\ q \in catalogs' <=> q \in catalogs
    BY <1>0, <1>4 DEF RunStep, EnsureDbtDeps, BootstrapMain, ReadMain, CreateBranch,
       CreateCatalog, DbtRunTable, DbtRunEnds, DbtTest, ReadBranch, ReadTarget, Merge,
       DeleteBranch, CleanupBranch, Finally, TypeOK
  <2>2. StepOf(r)
    BY <1>4 DEF StepOf
  <2>3. ~ Merge(q)
    \* a merge moves the counter of its run
    <3>1. pc'[q] = pc[q]
      BY <1>0, <1>4, <2>2, OthersUntouched
    <3> QED  BY <1>0, <3>1 DEF Merge, Goto, Raise, RaiseStage, RaiseRaw, TypeOK
  <2> QED  BY <1>0, <1>3, <1>4, <2>1, <2>2, <2>3, OthersUntouched
<1>5. CASE EnsureDbtDeps(q)
  <2> QED
    BY <1>1, <1>2, <1>5 DEF EnsureDbtDeps, Goto, TypeOK, CleanInvOf, WapInv,
       Unbranched, Building, Publishing
<1>6. CASE BootstrapMain(q)
  <2>1. PICK o \in bootstrap_main_if_empty(q \in Unreliable, refs, BootstrapNamespace) :
           IF o.reply = "ok" THEN Goto(q, "read_main") /\ UNCHANGED exit
           ELSE Raise(q, o.reply, "bootstrap")
    BY <1>6 DEF BootstrapMain
  <2>2. \E after : o \in CallOutcomes(q \in Unreliable, TRUE, refs, after)
    BY DEF bootstrap_main_if_empty
  <2>3. o.reply = "ok"
    BY <2>2, AnsweredCall
  <2> QED
    BY <1>0, <1>1, <1>2, <1>6, <2>1, <2>3 DEF BootstrapMain, Goto, TypeOK, CleanInvOf, Unbranched,
       Building, Publishing
<1>7. CASE ReadMain(q)
  <2>1. \A reply \in ReadOutcomes(q \in Unreliable, refs, "main") : reply = "ok"
    BY <1>0, AnsweredRead DEF TypeOK
  <2> QED
    BY <1>0, <1>1, <1>2, <1>7, <2>1 DEF ReadMain, Goto, TypeOK, CleanInvOf, Unbranched,
       Building, Publishing
<1>8. CASE CreateBranch(q)
  <2>1. PICK o \in create_branch(q \in Unreliable, refs, q, main_ref[q]) :
           /\ refs' = o.refs
           /\ IF o.reply = "ok"
              THEN /\ branch_created' = [branch_created EXCEPT ![q] = TRUE]
                   /\ Goto(q, "create_catalog")
                   /\ UNCHANGED exit
              ELSE Raise(q, o.reply, "branch-create") /\ UNCHANGED branch_created
    BY <1>8 DEF CreateBranch
  <2>2. (q \notin DOMAIN refs) = TRUE
    BY <1>0, <1>8 DEF CreateBranch, ControlInv, Unbranched
  <2>3. o.reply = "ok" /\ refs' = SetRef(refs, q, main_ref[q])
    <3>1. o \in CallOutcomes(q \in Unreliable, TRUE, refs, SetRef(refs, q, main_ref[q]))
      BY <2>2 DEF create_branch
    <3>2. o.reply = "ok" /\ o.refs = SetRef(refs, q, main_ref[q])
      BY <3>1, AnsweredCall
    <3> QED  BY <2>1, <3>2
  <2>4. q \in DOMAIN refs'
    BY <2>3 DEF SetRef
  <2> QED
    BY <1>0, <1>1, <1>2, <1>8, <2>1, <2>3, <2>4 DEF CreateBranch, Goto, TypeOK, CleanInvOf,
       Unbranched, Building, Publishing
<1>9. CASE CreateCatalog(q)
  <2> QED
    BY <1>0, <1>1, <1>2, <1>9 DEF CreateCatalog, Goto, TypeOK, CleanInvOf, Unbranched,
       Building, Publishing
<1>10. CASE DbtRunTable(q)
  <2>1. q \in DOMAIN refs'
    BY <1>10 DEF DbtRunTable, SetRef
  <2> QED
    BY <1>0, <1>1, <1>2, <1>10, <2>1 DEF DbtRunTable, CleanInvOf, Unbranched, Building, Publishing
<1>11. CASE DbtRunEnds(q) \/ DbtTest(q)
  <2>1. ~ Published(q)
    BY <1>11 DEF DbtRunEnds, DbtTest, BeforeMerge, Building, WapInv, UnmergedInv
  <2>2. ~ Published(q)'
    BY <1>0, <1>11, <2>1, StaysUnpublished DEF DbtRunEnds, DbtTest, Merge, LandMerge
  <2>3. UNCHANGED refs /\ q \in DOMAIN refs /\ branch_created[q]
    BY <1>2, <1>11 DEF DbtRunEnds, DbtTest, CleanInvOf, Building
  <2> QED
    BY <1>0, <1>1, <1>2, <1>11, <2>2, <2>3 DEF DbtRunEnds, DbtTest, RaiseStage, Goto, TypeOK,
       CleanInvOf, Unbranched, Building, Publishing
<1>12. CASE ReadBranch(q) \/ ReadTarget(q)
  <2>1. "main" \in DOMAIN refs /\ q \in DOMAIN refs
    BY <1>0, <1>1, <1>2, <1>12 DEF ReadBranch, ReadTarget, CleanInvOf, Publishing, TypeOK
  <2>2. \A name \in {"main", q} : \A reply \in ReadOutcomes(q \in Unreliable, refs, name) : reply = "ok"
    BY <2>1, AnsweredRead
  <2> QED
    BY <1>0, <1>1, <1>2, <1>12, <2>1, <2>2 DEF ReadBranch, ReadTarget, Goto, TypeOK, CleanInvOf,
       Unbranched, Building, Publishing
<1>13. CASE Merge(q)
  <2>1. PICK o \in MergeOf(q) :
           /\ refs' = o.refs
           /\ IF o.reply = "ok" THEN Goto(q, "delete_branch") /\ UNCHANGED exit
              ELSE Raise(q, o.reply, "merge")
    BY <1>13 DEF Merge
  <2> DEFINE accepted == /\ Checked(refs, "main", current_main_ref[q])
                         /\ q \in DOMAIN refs
                         /\ Mergeable(current_main_ref[q], built_branch_ref[q])
             merged == SetRef(refs, "main",
                              Merged(current_main_ref[q], built_branch_ref[q], q))
  <2>2. o \in CallOutcomes(q \in Unreliable, accepted, refs, merged) /\ accepted \in BOOLEAN
    BY DEF MergeOf, merge_branch
  <2>3. \/ o.reply = "ok" /\ refs' = merged
        \/ o.reply = "error" /\ refs' = refs
    <3> HIDE DEF accepted, merged
    <3> QED  BY <2>1, <2>2, AnsweredCall
  <2>4. pc[q] = "merge" /\ UNCHANGED << catalogs, localVars >>
    BY <1>13 DEF Merge
  <2>5. q \in DOMAIN refs /\ refs[q] = built_branch_ref[q] /\ branch_created[q]
    BY <1>1, <1>2, <2>4 DEF CleanInvOf, Publishing
  <2>6. q \in DOMAIN refs' /\ refs'[q] = refs[q]
    BY <2>3, <2>5, WritersAssumption DEF SetRef
  <2>7. CASE o.reply = "ok"
    BY <1>0, <1>1, <1>2, <2>1, <2>4, <2>5, <2>6, <2>7 DEF Goto, TypeOK, CleanInvOf, Unbranched,
       Building, Publishing
  <2>8. CASE o.reply = "error" /\ refs' = refs
    <3>1. ~ Published(q)
      BY <2>4 DEF BeforeMerge, Publishing, WapInv, UnmergedInv
    <3>2. ~ Published(q)'
      BY <2>8, <3>1 DEF Published, CommitsOf, Main
    <3> QED
      BY <1>0, <1>1, <1>2, <2>1, <2>4, <2>5, <2>6, <2>8, <3>2 DEF Raise, RaiseStage, Goto, TypeOK,
         CleanInvOf, Unbranched, Building, Publishing
  <2> QED  BY <2>3, <2>7, <2>8
<1>14. CASE DeleteBranch(q)
  <2>1. PICK o \in delete_reference(q \in Unreliable, refs, q, built_branch_ref[q]) :
           /\ refs' = o.refs
           /\ IF o.reply = "ok" THEN Goto(q, "finally") /\ UNCHANGED exit ELSE RaiseRaw(q)
    BY <1>14 DEF DeleteBranch
  <2>2. Checked(refs, q, built_branch_ref[q]) = TRUE
    BY <1>2, <1>14 DEF DeleteBranch, CleanInvOf, Checked
  <2>3. o.reply = "ok" /\ refs' = DropRef(refs, q)
    <3>1. o \in CallOutcomes(q \in Unreliable, TRUE, refs, DropRef(refs, q))
      BY <2>2 DEF delete_reference
    <3>2. o.reply = "ok" /\ o.refs = DropRef(refs, q)
      BY <3>1, AnsweredCall
    <3> QED  BY <2>1, <3>2
  <2>4. q \notin DOMAIN refs'
    BY <2>3 DEF DropRef
  <2>5. exit'[q] = 0 /\ pc'[q] = "finally" /\ UNCHANGED << catalogs, catalog_created >>
    BY <1>0, <1>1, <1>2, <1>14, <2>1, <2>3 DEF DeleteBranch, ExitInvOf, Goto, TypeOK
  <2> QED
    BY <1>1, <1>2, <2>4, <2>5 DEF CleanInvOf, Unbranched, Building, Publishing
<1>15. CASE CleanupBranch(q)
  <2>1. q \in DOMAIN refs /\ ~ Published(q)
    BY <1>2, <1>15 DEF CleanupBranch, CleanInvOf, ExitInvOf
  <2>2. \A reply \in ReadOutcomes(q \in Unreliable, refs, q) : reply = "ok"
    BY <2>1, AnsweredRead
  <2>3. PICK o \in delete_reference(q \in Unreliable, refs, q, refs[q]) :
           refs' = o.refs /\ exit' = IF o.reply = "raw" THEN [exit EXCEPT ![q] = Uncaught] ELSE exit
    BY <1>15, <2>2 DEF CleanupBranch
  <2>4. Checked(refs, q, refs[q]) = TRUE
    BY <2>1 DEF Checked
  <2>5. refs' = DropRef(refs, q)
    BY <2>3, <2>4, AnsweredCall DEF delete_reference
  <2>6. q \notin DOMAIN refs'
    BY <2>5 DEF DropRef
  <2>7. ~ Published(q)'
    BY <1>0, <1>15, <2>1, StaysUnpublished DEF CleanupBranch, Merge, LandMerge
  <2>8. pc'[q] = "finally" /\ UNCHANGED << catalogs, catalog_created >>
    BY <1>0, <1>15 DEF CleanupBranch, Goto, TypeOK
  <2> QED
    BY <1>1, <1>2, <2>6, <2>7, <2>8 DEF CleanInvOf, Unbranched, Building, Publishing
<1>16. CASE Finally(q)
  <2>1. pc[q] = "finally" /\ pc'[q] = "done" /\ UNCHANGED << refs, exit >>
    BY <1>0, <1>16 DEF Finally, Goto, TypeOK
  <2>2. q \notin catalogs'
    BY <1>2, <1>16 DEF Finally, CleanInvOf
  <2>3. ~ Published(q) => ~ Published(q)'
    BY <2>1 DEF Published, CommitsOf, Main
  <2> QED
    BY <1>1, <1>2, <2>1, <2>2, <2>3 DEF CleanInvOf, Unbranched, Building, Publishing
<1>17. CASE DirectWrite
  <2>1. /\ q \in DOMAIN refs' <=> q \in DOMAIN refs
        /\ q \in DOMAIN refs => refs'[q] = refs[q]
    BY <1>0, <1>17, WritersAssumption DEF DirectWrite, SetRef, TypeOK
  <2>2. ~ Merge(q)
    BY <1>0, <1>17 DEF DirectWrite, Merge, Goto, Raise, RaiseStage, RaiseRaw, TypeOK
  <2> QED  BY <1>3, <1>17, <2>1, <2>2 DEF DirectWrite
<1>18. CASE UNCHANGED vars
  BY <1>0, <1>3, <1>18 DEF vars, Merge, Goto, Raise, RaiseStage, RaiseRaw, TypeOK
<1>19. CASE RunStep(q)
  BY <1>5, <1>6, <1>7, <1>8, <1>9, <1>10, <1>11, <1>12, <1>13, <1>14, <1>15, <1>16, <1>19
     DEF RunStep
<1>20. ASSUME NEW r \in Runs, Crash(r) \/ LandMerge(r) PROVE CleanInvOf(q)'
  <2>1. r # q
    BY <1>2, <1>20 DEF Crash, LandMerge, CleanInvOf
  <2>2. ~ Merge(q)
    BY <1>0, <1>20 DEF Crash, LandMerge, Merge, Goto, Raise, RaiseStage, RaiseRaw, TypeOK,
       Ended
  <2>3. StepOf(r)
    BY <1>20 DEF StepOf
  <2> QED
    BY <1>0, <1>3, <1>20, <2>1, <2>2, <2>3, OthersUntouched DEF Crash, LandMerge
<1> QED
  BY <1>4, <1>17, <1>18, <1>19, <1>20 DEF Next, AllEnded

(* The docstring's step 6, "if anything failed: main is never touched":    *)
(* true of a run whose own replies all arrive, next to any number of       *)
(* concurrent runs, answered or not, and to direct builds.                 *)
THEOREM FailureIsClean == Spec => []AnsweredFailureLeavesMainUntouched
<1>1. Init => CleanInv /\ ExitInv
  BY DEF Init, CleanInv, CleanInvOf, ExitInv, ExitInvOf, Unbranched, Building, Publishing
<1>2. WapInv /\ ExitInv /\ CleanInv /\ [Next]_vars => CleanInv' /\ ExitInv'
  BY NextClean, NextExit
<1>3. CleanInv => AnsweredFailureLeavesMainUntouched
  BY DEF CleanInv, CleanInvOf, AnsweredFailureLeavesMainUntouched, FailsClean
<1> QED  BY <1>1, <1>2, <1>3, WapInvariant, PTL DEF Spec

(* "The Trino catalog registration is always dropped, success or failure", *)
(* and without --keep-failed-branch the branch too, under the same         *)
(* condition.                                                              *)
THEOREM RunsLeaveNothing == Spec => []NothingLeftBehind
<1>1. Init => CleanInv /\ ExitInv
  BY DEF Init, CleanInv, CleanInvOf, ExitInv, ExitInvOf, Unbranched, Building, Publishing
<1>2. WapInv /\ ExitInv /\ CleanInv /\ [Next]_vars => CleanInv' /\ ExitInv'
  BY NextClean, NextExit
<1>3. CleanInv => NothingLeftBehind
  BY DEF CleanInv, CleanInvOf, NothingLeftBehind
<1> QED  BY <1>1, <1>2, <1>3, WapInvariant, PTL DEF Spec

(***************************************************************************)
(* run_wap implements PublishGate: a reader of main sees nothing of its    *)
(* branches, retries, failures and leftovers but whole publications of     *)
(* what an audit approved.  And, from the same view of a merge as an       *)
(* overlay: a publication nothing raced breaks no test that main passed.   *)
(***************************************************************************)

(***************************************************************************)
(* The operators the two levels share are the same.                        *)
(***************************************************************************)
LEMMA GateContent ==
    ASSUME NEW h
    PROVE  Gate!Content(h) = Content(h)
BY DEF Gate!Content, Gate!TablesPut, Gate!LastPut, Content, TablesPut, LastPut

LEMMA GateAudit ==
    ASSUME NEW scope, NEW content
    PROVE  Gate!AuditPasses(scope, content) = AuditPasses(scope, content)
BY DEF Gate!AuditPasses, Gate!Selected, Gate!TestPasses, AuditPasses, Selected, TestPasses

(***************************************************************************)
(* A history on top of another shows its content, overlaid with what it    *)
(* gained.                                                                 *)
(***************************************************************************)
LEMMA ContentOverlay ==
    ASSUME NEW b \in Hash, NEW h \in Hash, AgreeUpTo(b, h, Len(b))
    PROVE  Content(h) = Gate!Overlay(Content(b), Gained(h, Len(b)))
<1> DEFINE puts == Gained(h, Len(b))
           new == TablesPut(h, Len(b) + 1, Len(h))
           old == TablesPut(b, 1, Len(b))
<1>1. Len(b) \in Nat /\ Len(h) \in Nat /\ Len(b) <= Len(h)
  BY LenProperties DEF Hash, AgreeUpTo
<1>2. DOMAIN puts = new /\ DOMAIN Content(b) = old /\ DOMAIN Content(h) = old \cup new
  BY TablesPutSplit DEF Gained, Content
<1>3. ASSUME NEW t \in new PROVE Content(h)[t] = puts[t]
  BY <1>3 DEF Gained
<1>4. ASSUME NEW t \in old, t \notin new PROVE Content(h)[t] = Content(b)[t]
  <2> DEFINE i == LastPut(b, t)
  <2>1. /\ i \in 1..Len(b) /\ t \in DOMAIN b[i].puts
        /\ \A j \in (i + 1)..Len(b) : t \notin DOMAIN b[j].puts
    BY LastPutExists
  <2>2. i \in 1..Len(h) /\ h[i] = b[i]
    BY <1>1, <2>1 DEF AgreeUpTo
  <2>3. ASSUME NEW j \in (i + 1)..Len(h) PROVE t \notin DOMAIN h[j].puts
    <3>1. CASE j \in (i + 1)..Len(b)
      <4>1. b[j] = h[j]
        BY <1>1, <2>1, <3>1 DEF AgreeUpTo
      <4> QED  BY <2>1, <3>1, <4>1
    <3>2. CASE j \in (Len(b) + 1)..Len(h)
      BY <1>4, <3>2 DEF TablesPut
    <3> HIDE DEF i
    <3> QED  BY <1>1, <2>1, <2>3, <3>1, <3>2
  <2>4. LastPut(h, t) = i
    <3> HIDE DEF i
    <3> QED  BY <2>1, <2>2, <2>3, LastPutIs
  <2>5. t \in TablesPut(h, 1, Len(h))
    BY TablesPutSplit
  <2> QED  BY <2>2, <2>4, <2>5 DEF Content
<1>5. Content(h) = [t \in old \cup new |-> Content(h)[t]]
  BY <1>2 DEF Content
<1> HIDE DEF puts, old, new
<1>6. Gate!Overlay(Content(b), puts)
        = [t \in old \cup new |-> IF t \in new THEN puts[t] ELSE Content(b)[t]]
  BY <1>2 DEF Gate!Overlay
<1>7. \A t \in old \cup new :
         Content(h)[t] = IF t \in new THEN puts[t] ELSE Content(b)[t]
  BY <1>3, <1>4
<1> QED  BY <1>5, <1>6, <1>7 DEF puts

(***************************************************************************)
(* What a run publishes, seen from the main it was cut from.               *)
(***************************************************************************)
LEMMA AuditedOverlay ==
    ASSUME WapInv, NEW r \in DOMAIN audited
    PROVE  /\ r \in Runs
           /\ DOMAIN Gained(audited[r], Len(main_ref[r])) = Scope[r]
           /\ Content(audited[r]) = Gate!Overlay(Content(main_ref[r]),
                                                Gained(audited[r], Len(main_ref[r])))
<1>1. r \in Runs /\ main_ref[r] \in Hash /\ audited[r] \in Hash
  BY DEF WapInv, TypeOK
<1>2. /\ OwnWork(r, audited[r])
      /\ TablesPut(audited[r], Len(main_ref[r]) + 1, Len(audited[r])) = Scope[r]
  BY <1>1 DEF WapInv, AuditInv
<1> QED  BY <1>1, <1>2, ContentOverlay DEF OwnWork, Gained

(* The main a run was cut from, one commit on.                             *)
LEMMA OneCommitOn ==
    ASSUME NEW b \in Hash, NEW h \in Hash, AgreeUpTo(b, h, Len(b)), Len(b) + 1 <= Len(h)
    PROVE  LET g == SubSeq(h, 1, Len(b) + 1)
               c == h[Len(b) + 1]
           IN  /\ g \in Hash /\ AgreeUpTo(b, g, Len(b))
               /\ Gained(g, Len(b)) = c.puts
<1> DEFINE g == SubSeq(h, 1, Len(b) + 1)
           c == h[Len(b) + 1]
<1>1. Len(b) \in Nat /\ Len(h) \in Nat
  BY LenProperties DEF Hash
<1>2. /\ g \in Hash /\ Len(g) = Len(b) + 1
      /\ \A i \in 1..(Len(b) + 1) : g[i] = h[i]
  BY <1>1, SubSeqProperties DEF Hash
<1>3. c \in Commit
  BY <1>1, ElementOfSeq DEF Hash
<1> HIDE DEF g
<1>4. AgreeUpTo(b, g, Len(b))
  BY <1>1, <1>2 DEF AgreeUpTo
<1>5. g[Len(b) + 1] = c
  BY <1>1, <1>2
<1> HIDE DEF c
<1>6. TablesPut(g, Len(b) + 1, Len(g)) = DOMAIN c.puts
  <2>1. (Len(b) + 1)..Len(g) = {Len(b) + 1}
    BY <1>1, <1>2
  <2> QED  BY <1>5, <2>1 DEF TablesPut
<1>7. ASSUME NEW t \in DOMAIN c.puts PROVE Content(g)[t] = c.puts[t]
  <2>1. Len(b) + 1 \in 1..Len(g) /\ \A j \in (Len(b) + 1 + 1)..Len(g) : FALSE
    BY <1>1, <1>2
  <2>2. LastPut(g, t) = Len(b) + 1
    BY <1>2, <1>5, <1>7, <2>1, LastPutIs
  <2>3. t \in TablesPut(g, 1, Len(g))
    BY <1>5, <1>7, <2>1 DEF TablesPut
  <2> QED  BY <1>5, <2>2, <2>3 DEF Content
<1>8. c.puts = [t \in DOMAIN c.puts |-> c.puts[t]]
  BY <1>3, CommitPuts
<1>9. Gained(g, Len(b)) = c.puts
  BY <1>6, <1>7, <1>8 DEF Gained
<1> QED  BY <1>2, <1>4, <1>9 DEF g, c

(* An overlay that passes its audit breaks no test the content below it    *)
(* did not break: what the audit did not run does not see the overlay.     *)
LEMMA OverlayIsSound ==
    ASSUME NEW content, NEW puts, NEW q \in Tests,
           AuditPasses(DOMAIN puts, Gate!Overlay(content, puts)),
           ~ Broken(q, content)
    PROVE  ~ Broken(q, Gate!Overlay(content, puts))
<1> DEFINE over == Gate!Overlay(content, puts)
<1>1. CASE q \in Selected(DOMAIN puts)
  BY <1>1 DEF AuditPasses, Broken
<1>2. CASE q \notin Selected(DOMAIN puts)
  <2>1. q.over \cap DOMAIN puts = {}
    BY <1>2 DEF Selected
  <2>2. DOMAIN over = DOMAIN content \cup DOMAIN puts
    BY DEF Gate!Overlay
  <2>3. \A t \in q.over : t \in DOMAIN over => t \in DOMAIN content /\ over[t] = content[t]
    BY <2>1 DEF Gate!Overlay
  <2> HIDE DEF over
  <2>4. ASSUME Broken(q, over) PROVE Broken(q, content)
    <3>1. q.over \subseteq DOMAIN over /\ [t \in q.over |-> over[t]] \notin q.accepts
      BY <2>4 DEF Broken, TestPasses
    <3>2. q.over \subseteq DOMAIN content
      BY <2>3, <3>1
    <3>3. [t \in q.over |-> over[t]] = [t \in q.over |-> content[t]]
      BY <2>3, <3>1
    <3> QED  BY <3>1, <3>2, <3>3 DEF Broken, TestPasses
  <2> QED  BY <2>4 DEF over
<1> QED  BY <1>1, <1>2

(* A publication that lands on the main it was cut from breaks no test     *)
(* that main passed, for any tests, scopes and contents.                   *)
THEOREM UncontestedIsSound == Spec => []UncontestedPublishIsSound
<1>1. WapInv => UncontestedPublishIsSound
  <2> SUFFICES ASSUME WapInv, NEW r \in Runs, NEW i \in CommitsOf(r),
                      i = Len(main_ref[r]) + 1, Sound(main_ref[r]), NEW q \in Tests
               PROVE  ~ Broken(q, Content(SubSeq(Main, 1, i)))
    BY DEF UncontestedPublishIsSound, Sound
  <2> DEFINE b == main_ref[r]
             puts == Gained(audited[r], Len(b))
             g == SubSeq(Main, 1, i)
  <2>1. /\ r \in DOMAIN audited /\ AuditPasses(Scope[r], Content(audited[r]))
        /\ Main[i].puts = puts /\ DOMAIN puts = Scope[r]
    BY DEF WapInv, PublishedWasAudited
  <2>2. b \in Hash /\ Main \in Hash /\ AgreeUpTo(b, Main, Len(b)) /\ i <= Len(Main)
    BY DEF WapInv, TypeOK, SeenInv, Main, CommitsOf
  <2>3. g \in Hash /\ AgreeUpTo(b, g, Len(b)) /\ Gained(g, Len(b)) = puts
    <3> HIDE DEF b, puts
    <3> QED  BY <2>1, <2>2, OneCommitOn DEF b
  <2>4. Content(g) = Gate!Overlay(Content(b), puts)
    <3> HIDE DEF puts, g, b
    <3> QED  BY <2>2, <2>3, ContentOverlay
  <2>5. Content(audited[r]) = Gate!Overlay(Content(b), puts)
    BY <2>1, AuditedOverlay
  <2>6. ~ Broken(q, Content(b))
    BY DEF Sound
  <2> HIDE DEF puts, g, b
  <2>7. ~ Broken(q, Content(g))
    BY <2>1, <2>4, <2>5, <2>6, OverlayIsSound
  <2> QED  BY <2>7 DEF g
<1> QED  BY <1>1, WapInvariant, PTL

(***************************************************************************)
(* The refinement.                                                         *)
(***************************************************************************)
approvedBar ==
    [r \in DOMAIN audited |-> [base |-> Len(main_ref[r]),
                               puts |-> Gained(audited[r], Len(main_ref[r]))]]

(* Approvals are final, so they only change where a new one is added.      *)
LEMMA ApprovedStable ==
    ASSUME TypeOK, AuditInv, [Next]_vars, audited' = audited
    PROVE  approvedBar' = approvedBar
<1>1. \A q \in DOMAIN audited : main_ref'[q] = main_ref[q]
  BY AuditedStable
<1> QED  BY <1>1 DEF approvedBar

LEMMA InitGate == Init => Gate!Init
<1> SUFFICES ASSUME Init PROVE Gate!Init
  OBVIOUS
<1>1. Main \in InitialHashes
  BY DEF Init, Main
<1>2. DOMAIN audited = {}
  BY DEF Init
<1> QED  BY <1>1, <1>2 DEF Gate!Init

(* A passed audit is an approval.                                          *)
LEMMA AuditApproves ==
    ASSUME WapInv, [Next]_vars, NEW r \in Runs, DbtTest(r),
           audited' = SetRef(audited, r, refs[r]), AuditPasses(Scope[r], Content(refs[r]))
    PROVE  Gate!Approve(r)
<1> DEFINE n == Len(main_ref[r])
           puts == Gained(refs[r], n)
<1>1. /\ pc[r] = "dbt_test" /\ refs' = refs /\ main_ref' = main_ref
      /\ r \notin DOMAIN audited
  BY DEF DbtTest, nessieVars, localVars, WapInv, AuditInv, Building
<1>2. /\ r \in DOMAIN refs /\ refs[r] \in Hash /\ main_ref[r] \in Hash /\ Main \in Hash
      /\ AgreeUpTo(main_ref[r], refs[r], n) /\ AgreeUpTo(main_ref[r], Main, n)
  BY <1>1 DEF WapInv, TypeOK, ControlInv, Building, BranchInv, OwnWork, SeenInv, Main
<1>3. n \in Nat /\ n \in 0..Len(Main)
  BY <1>2, LenProperties DEF Hash, AgreeUpTo
<1>4. puts \in [Scope[r] -> Values]
  <2>1. TablesPut(refs[r], n + 1, Len(refs[r])) = Scope[r]
    BY <1>1 DEF WapInv, BranchInv, BuiltSoFar
  <2> QED  BY <1>2, <1>3, <2>1, GainedType
<1>5. SubSeq(Main, 1, n) = main_ref[r]
  <2>1. Len(Main) \in Nat /\ main_ref[r] \in Seq(Commit) /\ Main \in Seq(Commit)
    BY <1>2, LenProperties DEF Hash
  <2>2. /\ SubSeq(Main, 1, n) \in Seq(Commit) /\ Len(SubSeq(Main, 1, n)) = n
        /\ \A i \in 1..n : SubSeq(Main, 1, n)[i] = Main[i]
    BY <1>3, <2>1, SubSeqProperties
  <2>3. \A i \in 1..n : SubSeq(Main, 1, n)[i] = main_ref[r][i]
    BY <1>2, <2>2 DEF AgreeUpTo
  <2> QED  BY <2>1, <2>2, <2>3, SeqEqual
<1>6. Content(refs[r]) = Gate!Overlay(Content(main_ref[r]), puts)
  BY <1>2, ContentOverlay
<1>7. Gate!AuditPasses(Scope[r], Gate!Overlay(Gate!Content(SubSeq(Main, 1, n)), puts))
  BY <1>5, <1>6, GateAudit, GateContent
<1>8. approvedBar' = Gate!SetRef(approvedBar, r, [base |-> n, puts |-> puts])
  <2>1. /\ DOMAIN audited' = DOMAIN audited \cup {r}
        /\ \A q \in DOMAIN audited' : audited'[q] = IF q = r THEN refs[r] ELSE audited[q]
    BY DEF SetRef
  <2> QED  BY <1>1, <2>1 DEF approvedBar, Gate!SetRef
<1> HIDE DEF n, puts
<1>9. r \in DOMAIN approvedBar' \ DOMAIN approvedBar
  BY <1>1 DEF approvedBar, SetRef
<1> QED  BY <1>1, <1>3, <1>4, <1>7, <1>8, <1>9 DEF Gate!Approve, approvedBar, Main

(* A merge that is applied, in time or late, is a publication.             *)
LEMMA MergePublishes ==
    ASSUME WapInv, [Next]_vars, NEW r \in Runs, MergeApplies(r)
    PROVE  Gate!Publish(r)
<1>1. audited' = audited
  BY DEF MergeApplies, Merge, LandMerge
<1>2. approvedBar' = approvedBar
  BY <1>1, ApprovedStable DEF WapInv
<1>3. /\ r \in DOMAIN audited
      /\ MergeCommit(r).puts = Gained(audited[r], Len(main_ref[r]))
      /\ \A j \in 1..Len(Main) :
            DOMAIN Main[j].puts \cap Scope[r] # {} => j <= Len(main_ref[r])
  BY MergeBase
<1>4. ~ Published(r)
  <2>1. pc[r] = "merge" \/ r \in late
    BY DEF MergeApplies, Merge, LandMerge
  <2> QED  BY <2>1 DEF WapInv, UnmergedInv, BeforeMerge, Publishing
<1>5. \A i \in 1..Len(Main) : Main[i].by # r
  BY <1>4 DEF Published, CommitsOf
<1>6. /\ r \in DOMAIN approvedBar
      /\ approvedBar[r].base = Len(main_ref[r])
      /\ approvedBar[r].puts = Gained(audited[r], Len(main_ref[r]))
  BY <1>3 DEF approvedBar
<1>7. Gate!TablesPut(Main, approvedBar[r].base + 1, Len(Main)) \cap Scope[r] = {}
  <2>1. Len(main_ref[r]) \in Nat /\ Len(Main) \in Nat
    BY LenProperties DEF WapInv, TypeOK, Hash, Main
  <2>2. ASSUME NEW j \in (Len(main_ref[r]) + 1)..Len(Main)
        PROVE  DOMAIN Main[j].puts \cap Scope[r] = {}
    <3>1. j \in 1..Len(Main) /\ ~ (j <= Len(main_ref[r]))
      BY <2>1
    <3> QED  BY <1>3, <3>1
  <2> QED  BY <1>6, <2>2 DEF Gate!TablesPut
<1>8. Main' = Append(Main, [by |-> r, puts |-> approvedBar[r].puts])
  <2>1. Main' = Append(Main, MergeCommit(r))
    BY DEF MergeApplies, SetRef, Main
  <2> QED  BY <1>3, <1>6, <2>1 DEF MergeCommit
<1> QED  BY <1>2, <1>5, <1>6, <1>7, <1>8 DEF Gate!Publish, approvedBar

LEMMA NextGate == WapInv /\ [Next]_vars => [Gate!Next]_<< Main, approvedBar >>
<1> SUFFICES ASSUME WapInv, [Next]_vars PROVE [Gate!Next]_<< Main, approvedBar >>
  OBVIOUS
<1>0. TypeOK /\ AuditInv
  BY DEF WapInv
<1>1. ASSUME NEW r \in Runs, StepOf(r) PROVE [Gate!Next]_<< Main, approvedBar >>
  <2>1. CASE MergeApplies(r)
    BY <2>1, MergePublishes DEF Gate!Next
  <2>2. CASE DbtTest(r)
    <3>1. refs' = refs
      BY <2>2 DEF DbtTest, nessieVars
    <3>2. CASE audited' = audited
      BY <1>0, <3>1, <3>2, ApprovedStable DEF Main
    <3>3. CASE audited' # audited
      <4>1. audited' = SetRef(audited, r, refs[r]) /\ AuditPasses(Scope[r], Content(refs[r]))
        BY <2>2, <3>3 DEF DbtTest
      <4> QED  BY <2>2, <4>1, AuditApproves DEF Gate!Next
    <3> QED  BY <3>2, <3>3
  <2>3. CASE ~ DbtTest(r) /\ ~ MergeApplies(r)
    <3>1. audited' = audited
      BY <1>1, <2>3 DEF StepOf, RunStep, EnsureDbtDeps, BootstrapMain, ReadMain, CreateBranch,
         CreateCatalog, DbtRunTable, DbtRunEnds, ReadBranch, ReadTarget, Merge, LandMerge,
         DeleteBranch, CleanupBranch, Finally, Crash
    <3>2. approvedBar' = approvedBar
      BY <1>0, <3>1, ApprovedStable
    <3>3. CASE BootstrapMain(r) /\ Main' # Main
      <4>1. ~ Bootstrapped(Main, BootstrapNamespace)
        <5> SUFFICES ASSUME Bootstrapped(Main, BootstrapNamespace) PROVE refs' = refs
          BY <3>3 DEF Main
        <5>1. bootstrap_main_if_empty(r \in Unreliable, refs, BootstrapNamespace) = CallOutcomes(r \in Unreliable, TRUE, refs, refs)
          BY DEF bootstrap_main_if_empty, Main
        <5>2. PICK o \in CallOutcomes(r \in Unreliable, TRUE, refs, refs) : refs' = o.refs
          BY <3>3, <5>1 DEF BootstrapMain
        <5> QED  BY <5>2 DEF CallOutcomes
      <4>2. Main' = Append(Main, BootstrapCommit)
        BY <1>0, <1>1, <3>3, RefsEffect, WritersAssumption
           DEF SetRef, DropRef, Main, TableBuilt, BootstrapMain, CreateBranch, DbtRunTable,
               DeleteBranch, CleanupBranch, MergeApplies, Merge, LandMerge
      <4>3. Gate!Bootstrap
        BY <3>2, <4>1, <4>2 DEF Gate!Bootstrap, Gate!Bootstrapped, Bootstrapped,
           BootstrapCommit, approvedBar
      <4> QED  BY <4>3 DEF Gate!Next
    <3>4. CASE Main' = Main
      BY <3>2, <3>4
    <3>5. CASE ~ BootstrapMain(r)
      <4>1. Main' = Main
        BY <1>0, <1>1, <2>3, <3>5, RefsEffect, WritersAssumption
           DEF SetRef, DropRef, Main, TableBuilt, TypeOK
      <4> QED  BY <3>2, <4>1
    <3> QED  BY <3>3, <3>4, <3>5
  <2> QED  BY <2>1, <2>2, <2>3
<1>2. CASE DirectWrite
  <2>1. PICK t \in Tables, v \in Values :
          refs' = SetRef(refs, "main",
                    Append(Main, [by |-> DirectBuild, puts |-> [x \in {t} |-> v]]))
    BY <1>2 DEF DirectWrite
  <2>2. Main' = Append(Main, [by |-> DirectBuild, puts |-> [x \in {t} |-> v]])
    BY <2>1 DEF SetRef, Main
  <2>3. approvedBar' = approvedBar
    BY <1>0, <1>2, ApprovedStable DEF DirectWrite
  <2> QED  BY <2>2, <2>3 DEF Gate!Next, Gate!DirectWrite, approvedBar
<1>3. CASE UNCHANGED vars
  BY <1>3 DEF vars, Main, approvedBar
<1> QED  BY <1>1, <1>2, <1>3 DEF Next, AllEnded, StepOf

(* run_wap, crashes, lost replies, late merges and direct builds included, *)
(* implements the abstract gate.                                           *)
THEOREM WapImplementsGate == Spec => ImplementsGate
<1>1. WapInv /\ [Next]_vars => [Gate!Next]_Gate!gateVars
  BY NextGate DEF Gate!gateVars, approvedBar
<1> QED  BY <1>1, InitGate, WapInvariant, PTL DEF Spec, ImplementsGate, Gate!Spec
=============================================================================
