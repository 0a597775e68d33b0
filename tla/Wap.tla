-------------------------------- MODULE Wap --------------------------------
(***************************************************************************)
(* Write-audit-publish: concurrent invocations of ops/wap.py:run_wap over  *)
(* one Nessie server and one Trino server, next to direct `dbt build`s on  *)
(* main (make build, the Dagster assets).                                  *)
(*                                                                         *)
(* Branch and catalog names are unique per run (a timestamp and a uuid),   *)
(* so a run names its own branch and its own catalog.  The program counter *)
(* of a run is the statement of run_wap it is about to execute.            *)
(***************************************************************************)
EXTENDS DbtAudit, FiniteSets

CONSTANTS
    Runs,                \* invocations of ops/wap.py
    Scope,               \* the tables each run selects
    Unreliable,          \* the runs that may be killed or see a call fail
    KeepChoices,         \* which runs may be the --keep-failed-branch ones
    InitialHashes,       \* what main may hold before the first run
    MaxConcurrentRuns,   \* runs in flight at once
    MaxDirectWrites,     \* bound on table writes of direct dbt builds
    BootstrapNamespace,  \* nessie.BOOTSTRAP_NAMESPACE
    DirectBuild          \* the author of direct writes to main

ASSUME WritersAssumption ==
    /\ Writers = Runs \cup {BootstrapNamespace, DirectBuild}
    /\ {BootstrapNamespace, DirectBuild, "main"} \cap Runs = {}
    /\ BootstrapNamespace # DirectBuild
ASSUME UnreliableAssumption == Unreliable \subseteq Runs
ASSUME KeepAssumption == KeepChoices \subseteq SUBSET Runs
ASSUME ScopeAssumption == Scope \in [Runs -> (SUBSET Tables) \ {{}}]
ASSUME InitialAssumption ==
    \A h \in InitialHashes :
        h \in Hash /\ \A i \in 1..Len(h) : h[i].by \notin Runs

VARIABLES
    keep_failed_branch,  \* the runs started with --keep-failed-branch
    refs,              \* the Nessie reference table
    late,              \* runs whose merge timed out and is still with the server
    catalogs,          \* runs whose Trino catalog is registered
    pc,                \* where each run is
    branch_created,    \* the flag of run_wap
    catalog_created,   \* the flag of run_wap
    main_ref,          \* main's hash when the run read it first
    built_branch_ref,  \* the branch's hash, re-read before the merge
    current_main_ref,  \* main's hash, re-read before the merge
    exit,              \* the process exit code so far
    audited            \* history: the branch hash `dbt test` passed on

nessieVars == << refs, late >>
localVars == << keep_failed_branch, branch_created, catalog_created, main_ref,
                built_branch_ref, current_main_ref >>
vars == << refs, late, catalogs, pc, keep_failed_branch, branch_created,
           catalog_created, main_ref, built_branch_ref, current_main_ref, exit,
           audited >>

Main == refs["main"]

StageExitCode(stage) ==
    CASE stage = "branch-create"  -> 2
      [] stage = "catalog-create" -> 3
      [] stage = "dbt-run"        -> 4
      [] stage = "dbt-test"       -> 5
      [] stage = "merge"          -> 6
      [] stage = "dbt-deps"       -> 7
      [] stage = "bootstrap"      -> 8

(* Exit code of an exception run_wap does not catch: Python's traceback.   *)
Uncaught == 1

Locations ==
    {"start", "bootstrap", "read_main", "create_branch", "create_catalog",
     "dbt_run", "dbt_test", "read_branch", "read_target", "merge",
     "delete_branch", "cleanup", "finally", "done", "crashed"}
Ended == {"done", "crashed"}
InFlight == {r \in Runs : pc[r] \notin Ended \cup {"start"}}

TypeOK ==
    /\ keep_failed_branch \subseteq Runs
    /\ DOMAIN refs \subseteq Runs \cup {"main"}
    /\ "main" \in DOMAIN refs
    /\ \A n \in DOMAIN refs : refs[n] \in Hash
    /\ late \subseteq Runs
    /\ catalogs \subseteq Runs
    /\ pc \in [Runs -> Locations]
    /\ branch_created \in [Runs -> BOOLEAN]
    /\ catalog_created \in [Runs -> BOOLEAN]
    /\ main_ref \in [Runs -> Hash]
    /\ built_branch_ref \in [Runs -> Hash]
    /\ current_main_ref \in [Runs -> Hash]
    /\ exit \in [Runs -> 0..8]
    /\ DOMAIN audited \subseteq Runs
    /\ \A r \in DOMAIN audited : audited[r] \in Hash

Init ==
    /\ keep_failed_branch \in KeepChoices
    /\ \E h \in InitialHashes : refs = [n \in {"main"} |-> h]
    /\ late = {}
    /\ catalogs = {}
    /\ pc = [r \in Runs |-> "start"]
    /\ branch_created = [r \in Runs |-> FALSE]
    /\ catalog_created = [r \in Runs |-> FALSE]
    /\ main_ref = [r \in Runs |-> Genesis]
    /\ built_branch_ref = [r \in Runs |-> Genesis]
    /\ current_main_ref = [r \in Runs |-> Genesis]
    /\ exit = [r \in Runs |-> 0]
    /\ audited = [r \in {} |-> r]

(***************************************************************************)
(* Control flow: the next statement, a WapStageError, any other exception. *)
(***************************************************************************)
Goto(r, statement) == pc' = [pc EXCEPT ![r] = statement]

(* `except WapStageError`: choose the exit code; a created branch is       *)
(* deleted only under --no-keep-failed-branch; then `finally`.             *)
RaiseStage(r, stage) ==
    /\ exit' = [exit EXCEPT ![r] = StageExitCode(stage)]
    /\ Goto(r, IF branch_created[r] /\ r \notin keep_failed_branch
               THEN "cleanup" ELSE "finally")

(* Anything else propagates past the handler: only `finally` runs.         *)
RaiseRaw(r) ==
    /\ exit' = [exit EXCEPT ![r] = Uncaught]
    /\ Goto(r, "finally")

(* Seeded fault: a failed merge reports the audit stage.                   *)
RaiseMergeAsTest(r, reply, stage) ==
    IF reply = "raw" THEN RaiseRaw(r)
    ELSE RaiseStage(r, IF stage = "merge" THEN "dbt-test" ELSE stage)

(* A Nessie call inside `try: ... except NessieError: raise WapStageError`. *)
Raise(r, reply, stage) ==
    IF reply = "raw" THEN RaiseRaw(r) ELSE RaiseStage(r, stage)

(***************************************************************************)
(* Stage 0.  _ensure_dbt_deps installs the dbt packages if the directory   *)
(* is missing; a failing install is a WapStageError.                       *)
(***************************************************************************)
EnsureDbtDeps(r) ==
    /\ pc[r] = "start"
    /\ Cardinality(InFlight) < MaxConcurrentRuns
    /\ \/ Goto(r, "bootstrap") /\ UNCHANGED exit
       \/ r \in Unreliable /\ RaiseStage(r, "dbt-deps")
    /\ UNCHANGED << nessieVars, catalogs, localVars, audited >>

BootstrapMain(r) ==
    /\ pc[r] = "bootstrap"
    /\ \E o \in bootstrap_main_if_empty(r \in Unreliable, refs,
                                        BootstrapNamespace) :
        /\ refs' = o.refs
        /\ IF o.reply = "ok"
           THEN Goto(r, "read_main") /\ UNCHANGED exit
           ELSE Raise(r, o.reply, "bootstrap")
    /\ UNCHANGED << late, catalogs, localVars, audited >>

(* get_reference outside any `except NessieError`: every failure is raw.   *)
ReadMain(r) ==
    /\ pc[r] = "read_main"
    /\ \E reply \in ReadOutcomes(r \in Unreliable, refs, "main") :
        IF reply = "ok"
        THEN /\ main_ref' = [main_ref EXCEPT ![r] = Main]
             /\ Goto(r, "create_branch")
             /\ UNCHANGED exit
        ELSE RaiseRaw(r) /\ UNCHANGED main_ref
    /\ UNCHANGED << nessieVars, catalogs, keep_failed_branch, branch_created,
                    catalog_created, built_branch_ref, current_main_ref, audited >>

CreateBranch(r) ==
    /\ pc[r] = "create_branch"
    /\ \E o \in create_branch(r \in Unreliable, refs, r, main_ref[r]) :
        /\ refs' = o.refs
        /\ IF o.reply = "ok"
           THEN /\ branch_created' = [branch_created EXCEPT ![r] = TRUE]
                /\ Goto(r, "create_catalog")
                /\ UNCHANGED exit
           ELSE Raise(r, o.reply, "branch-create") /\ UNCHANGED branch_created
    /\ UNCHANGED << late, catalogs, keep_failed_branch, catalog_created, main_ref,
                    built_branch_ref, current_main_ref, audited >>

(* _create_catalog turns every exception into a WapStageError; a CREATE    *)
(* CATALOG that raises may still have been executed.                       *)
CreateCatalog(r) ==
    /\ pc[r] = "create_catalog"
    /\ \/ /\ catalogs' = catalogs \cup {r}
          /\ catalog_created' = [catalog_created EXCEPT ![r] = TRUE]
          /\ Goto(r, "dbt_run")
          /\ UNCHANGED exit
       \/ /\ r \in Unreliable
          /\ catalogs' \in {catalogs, catalogs \cup {r}}
          /\ RaiseStage(r, "catalog-create")
          /\ UNCHANGED catalog_created
    /\ UNCHANGED << nessieVars, keep_failed_branch, branch_created, main_ref,
                    built_branch_ref, current_main_ref, audited >>

(***************************************************************************)
(* Write.  `dbt run` replaces the selected tables one by one, each as one  *)
(* commit on the branch the run's catalog is bound to.  It may stop with   *)
(* an error after any of them.                                             *)
(***************************************************************************)
BuiltSoFar(r) == TablesPut(refs[r], Len(main_ref[r]) + 1, Len(refs[r]))

DbtRunTable(r) ==
    /\ pc[r] = "dbt_run"
    /\ r \in catalogs
    /\ \E t \in Scope[r] \ BuiltSoFar(r), v \in Values :
        refs' = SetRef(refs, r,
                       Append(refs[r], [by |-> r, puts |-> [x \in {t} |-> v]]))
    /\ UNCHANGED << late, catalogs, pc, localVars, exit, audited >>

DbtRunEnds(r) ==
    /\ pc[r] = "dbt_run"
    /\ \/ /\ Scope[r] \subseteq BuiltSoFar(r)
          /\ Goto(r, "dbt_test")
          /\ UNCHANGED exit
       \/ RaiseStage(r, "dbt-run")
    /\ UNCHANGED << nessieVars, catalogs, localVars, audited >>

(* Seeded fault: the exit code of `dbt test` is not looked at.             *)
DbtTestIgnored(r) ==
    /\ pc[r] = "dbt_test"
    /\ audited' = IF AuditPasses(Scope[r], Content(refs[r]))
                  THEN SetRef(audited, r, refs[r]) ELSE audited
    /\ Goto(r, "read_branch")
    /\ UNCHANGED << nessieVars, catalogs, localVars, exit >>

(***************************************************************************)
(* Audit.  `dbt test` reads the branch through the same catalog.  A test   *)
(* that fails, or with faults a test that cannot run, is a WapStageError.  *)
(***************************************************************************)
DbtTest(r) ==
    /\ pc[r] = "dbt_test"
    /\ \/ /\ AuditPasses(Scope[r], Content(refs[r]))
          /\ audited' = SetRef(audited, r, refs[r])
          /\ Goto(r, "read_branch")
          /\ UNCHANGED exit
       \/ /\ r \in Unreliable \/ ~ AuditPasses(Scope[r], Content(refs[r]))
          /\ RaiseStage(r, "dbt-test")
          /\ UNCHANGED audited
    /\ UNCHANGED << nessieVars, catalogs, localVars >>

(* Seeded fault: the hash returned when the branch was created is merged.  *)
ReadBranchNotReread(r) ==
    /\ pc[r] = "read_branch"
    /\ built_branch_ref' = [built_branch_ref EXCEPT ![r] = main_ref[r]]
    /\ Goto(r, "read_target")
    /\ UNCHANGED << nessieVars, catalogs, keep_failed_branch, branch_created,
                    catalog_created, main_ref, current_main_ref, exit, audited >>

(***************************************************************************)
(* Publish.  Both references are re-read, then main is merged into under   *)
(* the hash just read; between the reads and the merge main may move.      *)
(***************************************************************************)
ReadBranch(r) ==
    /\ pc[r] = "read_branch"
    /\ \E reply \in ReadOutcomes(r \in Unreliable, refs, r) :
        IF reply = "ok"
        THEN /\ built_branch_ref' = [built_branch_ref EXCEPT ![r] = refs[r]]
             /\ Goto(r, "read_target")
             /\ UNCHANGED exit
        ELSE RaiseRaw(r) /\ UNCHANGED built_branch_ref
    /\ UNCHANGED << nessieVars, catalogs, keep_failed_branch, branch_created,
                    catalog_created, main_ref, current_main_ref, audited >>

ReadTarget(r) ==
    /\ pc[r] = "read_target"
    /\ \E reply \in ReadOutcomes(r \in Unreliable, refs, "main") :
        IF reply = "ok"
        THEN /\ current_main_ref' = [current_main_ref EXCEPT ![r] = Main]
             /\ Goto(r, "merge")
             /\ UNCHANGED exit
        ELSE RaiseRaw(r) /\ UNCHANGED current_main_ref
    /\ UNCHANGED << nessieVars, catalogs, keep_failed_branch, branch_created,
                    catalog_created, main_ref, built_branch_ref, audited >>

(* A merge the server reports as not applied and one it rejects end in the *)
(* same stage.  The client gives up after 30 seconds; the request may then *)
(* still be with the server and be answered to nobody later.  That, too,   *)
(* is a call that failed.                                                  *)
MergeOf(r) ==
    merge_branch(r \in Unreliable, refs, "main", current_main_ref[r], r,
                 built_branch_ref[r], r)

Merge(r) ==
    /\ pc[r] = "merge"
    /\ \/ \E o \in MergeOf(r) :
            /\ refs' = o.refs
            /\ IF o.reply = "ok"
               THEN Goto(r, "delete_branch") /\ UNCHANGED exit
               ELSE Raise(r, o.reply, "merge")
            /\ UNCHANGED late
       \/ /\ r \in Unreliable
          /\ late' = late \cup {r}
          /\ RaiseRaw(r)
          /\ UNCHANGED refs
    /\ UNCHANGED << catalogs, localVars, audited >>

LandMerge(r) ==
    /\ r \in late
    /\ late' = late \ {r}
    /\ \E o \in MergeOf(r) : refs' = o.refs
    /\ UNCHANGED << catalogs, pc, localVars, exit, audited >>

(* Seeded faults: the delete names the hash the branch was created at; a   *)
(* failing delete is swallowed and the run reports success.                *)
DeleteBranchAtStaleHash(r) ==
    /\ pc[r] = "delete_branch"
    /\ \E o \in delete_reference(r \in Unreliable, refs, r, main_ref[r]) :
        /\ refs' = o.refs
        /\ IF o.reply = "ok" THEN Goto(r, "finally") /\ UNCHANGED exit
                             ELSE RaiseRaw(r)
    /\ UNCHANGED << late, catalogs, localVars, audited >>

DeleteBranchSwallows(r) ==
    /\ pc[r] = "delete_branch"
    /\ \E o \in delete_reference(r \in Unreliable, refs, r, built_branch_ref[r]) :
        refs' = o.refs
    /\ Goto(r, "finally")
    /\ UNCHANGED << late, catalogs, localVars, exit, audited >>

(* The delete is outside any `except NessieError`: when it fails the       *)
(* exception leaves run_wap although main has already moved.               *)
DeleteBranch(r) ==
    /\ pc[r] = "delete_branch"
    /\ \E o \in delete_reference(r \in Unreliable, refs, r, built_branch_ref[r]) :
        /\ refs' = o.refs
        /\ IF o.reply = "ok"
           THEN /\ branch_created' = [branch_created EXCEPT ![r] = FALSE]
                /\ Goto(r, "finally")
                /\ UNCHANGED exit
           ELSE RaiseRaw(r) /\ UNCHANGED branch_created
    /\ UNCHANGED << late, catalogs, keep_failed_branch, catalog_created, main_ref,
                    built_branch_ref, current_main_ref, audited >>

(* Seeded fault: cleanup deletes at the creation hash instead of re-reading. *)
CleanupBranchAtStaleHash(r) ==
    /\ pc[r] = "cleanup"
    /\ \E o \in delete_reference(r \in Unreliable, refs, r, main_ref[r]) :
        refs' = o.refs
    /\ Goto(r, "finally")
    /\ UNCHANGED << late, catalogs, localVars, exit, audited >>

(* Seeded fault: cleanup re-reads and deletes the target reference.         *)
CleanupBranchDropsTarget(r) ==
    /\ pc[r] = "cleanup"
    /\ \E o \in delete_reference(r \in Unreliable, refs, "main", Main) :
        refs' = o.refs
    /\ Goto(r, "finally")
    /\ UNCHANGED << late, catalogs, localVars, exit, audited >>

(***************************************************************************)
(* The handler's cleanup under --no-keep-failed-branch: re-read the branch *)
(* and delete it.  A NessieError of either call is logged and dropped, any *)
(* other exception replaces the stage's exit code.                         *)
(***************************************************************************)
CleanupBranch(r) ==
    /\ pc[r] = "cleanup"
    /\ \E reply \in ReadOutcomes(r \in Unreliable, refs, r) :
        IF reply = "ok"
        THEN \E o \in delete_reference(r \in Unreliable, refs, r, refs[r]) :
                /\ refs' = o.refs
                /\ exit' = IF o.reply = "raw"
                           THEN [exit EXCEPT ![r] = Uncaught] ELSE exit
        ELSE /\ exit' = IF reply = "raw"
                        THEN [exit EXCEPT ![r] = Uncaught] ELSE exit
             /\ UNCHANGED refs
    /\ Goto(r, "finally")
    /\ UNCHANGED << late, catalogs, localVars, audited >>

(* `finally`: a registered catalog is dropped; a DROP CATALOG that raises, *)
(* executed or not, is logged and does not change the outcome.             *)
Finally(r) ==
    /\ pc[r] = "finally"
    /\ \/ /\ catalog_created[r]
          /\ catalogs' = catalogs \ {r}
       \/ /\ catalog_created[r]
          /\ r \in Unreliable
          /\ catalogs' = catalogs
       \/ /\ ~ catalog_created[r]
          /\ catalogs' = catalogs
    /\ Goto(r, "done")
    /\ UNCHANGED << nessieVars, localVars, exit, audited >>

(***************************************************************************)
(* The environment: a run is killed, leaving everything as it stands; a    *)
(* direct build commits one table to main without any audit.               *)
(***************************************************************************)
Crash(r) ==
    /\ r \in Unreliable
    /\ pc[r] \notin Ended \cup {"start"}
    /\ Goto(r, "crashed")
    /\ UNCHANGED << nessieVars, catalogs, localVars, exit, audited >>

DirectWrites == {i \in 1..Len(Main) : Main[i].by = DirectBuild}

DirectWrite ==
    /\ Cardinality(DirectWrites) < MaxDirectWrites
    /\ \E t \in Tables, v \in Values :
        refs' = SetRef(refs, "main",
                       Append(Main, [by |-> DirectBuild, puts |-> [x \in {t} |-> v]]))
    /\ UNCHANGED << late, catalogs, pc, localVars, exit, audited >>

RunStep(r) ==
    \/ EnsureDbtDeps(r) \/ BootstrapMain(r) \/ ReadMain(r) \/ CreateBranch(r)
    \/ CreateCatalog(r) \/ DbtRunTable(r) \/ DbtRunEnds(r) \/ DbtTest(r)
    \/ ReadBranch(r) \/ ReadTarget(r) \/ Merge(r) \/ DeleteBranch(r)
    \/ CleanupBranch(r) \/ Finally(r)

(* Every process has ended; anything else without a successor is stuck.    *)
AllEnded ==
    /\ \A r \in Runs : pc[r] \in Ended
    /\ UNCHANGED vars

Next ==
    \/ \E r \in Runs : RunStep(r) \/ Crash(r) \/ LandMerge(r)
    \/ DirectWrite
    \/ AllEnded

Spec == Init /\ [][Next]_vars

(* run_wap is a straight line of blocking calls; each is assumed to return *)
(* eventually, with a result or an exception.                              *)
Fairness == \A r \in Runs : WF_vars(RunStep(r))
FairSpec == Spec /\ Fairness

(***************************************************************************)
(* Correctness.                                                            *)
(***************************************************************************)
CommitsOf(r) == {i \in 1..Len(Main) : Main[i].by = r}
Published(r) == CommitsOf(r) # {}

(* What reaches main from a run is exactly what that run built on its      *)
(* branch and what its `dbt test` passed on: nothing of a failed build, no *)
(* part of a build, nothing written after the test.                        *)
PublishedWasAudited ==
    \A r \in Runs : \A i \in CommitsOf(r) :
        /\ r \in DOMAIN audited
        /\ AuditPasses(Scope[r], Content(audited[r]))
        /\ DOMAIN Main[i].puts = Scope[r]
        /\ Main[i].puts = Gained(audited[r], Len(main_ref[r]))

(* A run never overwrites a version of a table it has not seen: whatever   *)
(* wrote the table on main before the run's merge did so before the run    *)
(* cut its branch, runs merging concurrently and direct builds included.   *)
NoLostUpdate ==
    \A r \in Runs : \A i \in CommitsOf(r) :
        \A j \in 1..(i - 1) :
            DOMAIN Main[j].puts \cap DOMAIN Main[i].puts # {}
                => j <= Len(main_ref[r])

(* Exit codes 2 to 5, 7 and 8 name a stage before the merge: a caller that *)
(* sees one may rely on main not holding anything of the run, whatever     *)
(* calls failed or lost their reply.                                       *)
EarlyExitMeansUnpublished ==
    \A r \in Runs : exit[r] \in {2, 3, 4, 5, 7, 8} => ~ Published(r)

(* The exit code of an ended run says where its work is.  0: it is on main *)
(* and the branch is gone.  3 to 6 under --keep-failed-branch: the branch  *)
(* is there for inspection, still on top of the main it was cut from.      *)
ExitCodeTruthful ==
    \A r \in Runs : pc[r] = "done" =>
        /\ exit[r] = 0 => Published(r) /\ r \notin DOMAIN refs
        /\ r \in keep_failed_branch /\ exit[r] \in 3..6 =>
              /\ r \in DOMAIN refs
              /\ AgreeUpTo(refs[r], main_ref[r], Len(main_ref[r]))

(* The docstring's step 6, "if anything failed: main is never touched":    *)
(* an ended run with a nonzero exit code has published nothing.            *)
FailsClean(r) == pc[r] = "done" /\ exit[r] # 0 => ~ Published(r)
FailureLeavesMainUntouched == \A r \in Runs : FailsClean(r)

(* The same promise to the runs none of whose own calls fails: what other  *)
(* runs do, killed, failing or merging late, cannot break it.              *)
AnsweredFailureLeavesMainUntouched == \A r \in Runs \ Unreliable : FailsClean(r)

(* The docstring's "The Trino catalog registration is always dropped,      *)
(* success or failure", and under --no-keep-failed-branch no branch        *)
(* outlives its run, whichever stage it failed in: for the runs whose own  *)
(* calls do not fail, next to runs whose calls do.                         *)
NothingLeftBehind ==
    \A r \in Runs \ Unreliable : pc[r] = "done" =>
        /\ r \notin catalogs
        /\ r \notin keep_failed_branch => r \notin DOMAIN refs

(* "There is no sequence of events that leads to that consumer seeing the  *)
(* bad data": no dbt test that could be run on main would fail there.      *)
Sound(h) == \A q \in Tests : ~ Broken(q, Content(h))
MainPassesEveryTest == Sound(Main)

(* The same for one run that nothing raced: a publication that lands on the *)
(* very main it was cut from does not break a test that main passed.       *)
UncontestedPublishIsSound ==
    \A r \in Runs : \A i \in CommitsOf(r) :
        i = Len(main_ref[r]) + 1 /\ Sound(main_ref[r]) => Sound(SubSeq(Main, 1, i))

(* main is only ever extended: no merge, bootstrap or cleanup rewrites or  *)
(* drops a commit a reader of main could already have seen.                *)
MainOnlyGrows ==
    [][/\ Len(Main) <= Len(Main')
       /\ AgreeUpTo(Main, Main', Len(Main))]_vars

(* A run whose own calls are answered ends, and if it passed its audit it  *)
(* has published or has lost a race: something else moved main after the   *)
(* run cut its branch.  Other runs may fail, be killed or merge late.      *)
MovedSince(r) == Len(Main) > Len(main_ref[r])
AuditedPublishesOrLosesRace ==
    \A r \in Runs \ Unreliable :
        pc[r] = "bootstrap" ~>
            /\ pc[r] = "done"
            /\ r \in DOMAIN audited =>
                  exit[r] = 0 \/ (exit[r] = 6 /\ MovedSince(r))

(***************************************************************************)
(* The inductive invariant behind the safety properties.                   *)
(***************************************************************************)
Unbranched == {"start", "bootstrap", "read_main", "create_branch"}
Building == {"create_catalog", "dbt_run", "dbt_test"}
Publishing == {"read_branch", "read_target", "merge"}
BeforeMerge == Unbranched \cup Building \cup Publishing

(* A branch exists while a run works on it; a run has no exit code before  *)
(* its merge; a merge is late only after its run has given up.             *)
ControlInv ==
    \A r \in Runs :
        /\ pc[r] \in Unbranched => r \notin DOMAIN refs
        /\ pc[r] \in Building \cup {"read_branch"} => r \in DOMAIN refs
        /\ pc[r] \in BeforeMerge => exit[r] = 0 /\ r \notin late
        /\ r \in late => exit[r] = Uncaught /\ pc[r] \in Ended \cup {"finally"}

(* Nothing of a run is on main before its merge, after an early failure,   *)
(* or while its merge is late.                                             *)
UnmergedInv ==
    \A r \in Runs :
        pc[r] \in BeforeMerge \/ r \in late \/ exit[r] \in {2, 3, 4, 5, 7, 8}
            => ~ Published(r)

(* The main a run was cut from is still the beginning of main.             *)
SeenInv == \A r \in Runs : AgreeUpTo(main_ref[r], Main, Len(main_ref[r]))

(* On top of the main it was cut from, a branch holds its run's work only. *)
OwnWork(r, h) ==
    /\ AgreeUpTo(main_ref[r], h, Len(main_ref[r]))
    /\ \A i \in (Len(main_ref[r]) + 1)..Len(h) : h[i].by = r

BranchInv ==
    \A r \in Runs :
        /\ r \in DOMAIN refs => OwnWork(r, refs[r])
        /\ pc[r] = "create_catalog" => refs[r] = main_ref[r]
        /\ pc[r] \in {"dbt_run", "dbt_test"} => BuiltSoFar(r) \subseteq Scope[r]
        /\ pc[r] = "dbt_test" => Scope[r] \subseteq BuiltSoFar(r)

(* What was audited is a whole build, and it is what will be merged.       *)
AuditInv ==
    \A r \in Runs :
        /\ r \in DOMAIN audited =>
            /\ pc[r] \notin Unbranched \cup Building
            /\ OwnWork(r, audited[r])
            /\ AuditPasses(Scope[r], Content(audited[r]))
            /\ TablesPut(audited[r], Len(main_ref[r]) + 1, Len(audited[r]))
                 = Scope[r]
        /\ pc[r] = "read_branch" => r \in DOMAIN audited /\ refs[r] = audited[r]
        /\ pc[r] \in {"read_target", "merge"} \/ r \in late
            => r \in DOMAIN audited /\ built_branch_ref[r] = audited[r]

WapInv ==
    /\ TypeOK
    /\ ControlInv
    /\ UnmergedInv
    /\ SeenInv
    /\ BranchInv
    /\ AuditInv
    /\ PublishedWasAudited
    /\ NoLostUpdate

(***************************************************************************)
(* The abstract gate.  A reader of main cannot tell run_wap's branches,    *)
(* reads, failures and retained flags from one atomic publication.         *)
(***************************************************************************)
Gate ==
    INSTANCE PublishGate WITH
        main <- Main,
        approved <- [r \in DOMAIN audited |->
                        [base |-> Len(main_ref[r]),
                         puts |-> Gained(audited[r], Len(main_ref[r]))]]

(* run_wap implements the publish gate: every step of a run is either      *)
(* invisible to readers of main or one approval or one whole publication.  *)
ImplementsGate == Gate!Spec
=============================================================================
