----------------------------- MODULE Ingestion -----------------------------
(***************************************************************************)
(* Bronze ingestion: ingestion/pipeline.py:run and the dlt resources of    *)
(* ingestion/sources.py, loading generation/output/ file by file into one  *)
(* append-only Iceberg table per entity.                                   *)
(*                                                                         *)
(* dlt is external.  A run extracts every resource into one load package   *)
(* on local disk, together with the resource state, and then loads the     *)
(* package job by job, one table commit per entity, and stores the state   *)
(* in the destination when all are done.  A package left behind by a       *)
(* killed run is finished by the next run, which then extracts nothing of  *)
(* its own.                                                                *)
(*                                                                         *)
(* One run at a time (they share dlt's working directory).  A file stands  *)
(* for its rows; a bronze table is, per file, the sequence of _ingested_at *)
(* stamps its rows were appended with.                                     *)
(***************************************************************************)
EXTENDS Naturals, Sequences, FiniteSets

CONSTANTS
    Entities,      \* settings.ENTITIES
    Files,         \* parquet files the generator ever writes
    EntityOf,      \* the entity directory of each file
    Failures,      \* the kinds of failures that can happen
    MaxFailures    \* how many of them

ASSUME EntityOfAssumption == EntityOf \in [Files -> Entities]
ASSUME FailuresAssumption ==
    /\ Failures \subseteq {"crash", "mid_commit", "lost_dir", "lost_package"}
    /\ MaxFailures \in Nat

NoPackage == [files |-> {}, stamp |-> 0, jobs |-> {}]

VARIABLES
    clock,       \* the current time; every batch takes one tick
    present,     \* files under generation/output/
    process,     \* what the ingestion process is doing
    stamp,       \* run_started_at of the process, its rows' _ingested_at
    selected,    \* resources the process has yet to extract
    extracted,   \* files yielded so far, still in memory
    package,     \* the load package on local disk
    workdir,     \* dlt's working directory exists
    local,       \* processed_files in it
    remote,      \* processed_files as committed to the destination
    bronze,      \* file -> stamps its rows were appended with
    failures     \* history: the kinds of failures so far

processVars == << process, stamp, selected, extracted >>
ingestVars == << clock, present, processVars, package, workdir, local, remote,
                 bronze, failures >>

TypeOK ==
    /\ clock \in Nat
    /\ present \subseteq Files
    /\ process \in {"idle", "extracting", "loading"}
    /\ stamp \in Nat
    /\ selected \subseteq Entities
    /\ extracted \subseteq Files
    /\ package \in [files : SUBSET Files, stamp : Nat,
                    jobs : SUBSET Entities]
    /\ workdir \in BOOLEAN
    /\ local \subseteq Files
    /\ remote \subseteq Files
    /\ bronze \in [Files -> Seq(Nat)]
    /\ failures \in Seq(Failures) /\ Len(failures) <= MaxFailures

(* A fresh clone pointed at an empty warehouse.                            *)
Init ==
    /\ clock = 1
    /\ present = {}
    /\ process = "idle"
    /\ stamp = 0
    /\ selected = {}
    /\ extracted = {}
    /\ package = NoPackage
    /\ workdir = FALSE
    /\ local = {}
    /\ remote = {}
    /\ bronze = [f \in Files |-> << >>]
    /\ failures = << >>

FilesOf(e) == {f \in Files : EntityOf[f] = e}

(* The generator writes a new file.                                        *)
DropFile(f) ==
    /\ f \notin present
    /\ present' = present \cup {f}
    /\ UNCHANGED << clock, processVars, package, workdir, local, remote, bronze,
                    failures >>

(* Seeded fault: a package left behind is thrown away, its state is not.   *)
StartDiscardsPending(E) ==
    /\ process = "idle"
    /\ stamp' = clock
    /\ local' = IF workdir THEN local ELSE remote
    /\ workdir' = TRUE
    /\ process' = "extracting"
    /\ selected' = E
    /\ extracted' = {}
    /\ package' = NoPackage
    /\ UNCHANGED << clock, present, remote, bronze, failures >>

(* Seeded fault: run_started_at is computed once, not once per run.        *)
StartStampedOnce(E) ==
    /\ process = "idle"
    /\ stamp' = IF stamp = 0 THEN clock ELSE stamp
    /\ local' = IF workdir THEN local ELSE remote
    /\ workdir' = TRUE
    /\ process' = IF package = NoPackage THEN "extracting" ELSE "loading"
    /\ selected' = IF package = NoPackage THEN E ELSE {}
    /\ extracted' = {}
    /\ UNCHANGED << clock, present, package, remote, bronze, failures >>

(***************************************************************************)
(* run(): stamp the run, restore the state from the destination if this    *)
(* machine has none, finish a pending package if there is one.             *)
(***************************************************************************)
Start(E) ==
    /\ process = "idle"
    /\ stamp' = clock
    /\ local' = IF workdir THEN local ELSE remote
    /\ workdir' = TRUE
    /\ \/ /\ package # NoPackage
          /\ process' = "loading"
          /\ selected' = {}
       \/ /\ package = NoPackage
          /\ process' = "extracting"
          /\ selected' = E
    /\ extracted' = {}
    /\ UNCHANGED << clock, present, package, remote, bronze, failures >>

(* Seeded fault: the resource does not look at what it has processed.      *)
ExtractEverything(e) ==
    /\ process = "extracting"
    /\ e \in selected
    /\ selected' = selected \ {e}
    /\ extracted' = extracted \cup {f \in present : EntityOf[f] = e}
    /\ UNCHANGED << clock, present, process, stamp, package, workdir, local, remote,
                    bronze, failures >>

(* _resource(): yield the files of one directory that are not processed.   *)
Extract(e) ==
    /\ process = "extracting"
    /\ e \in selected
    /\ selected' = selected \ {e}
    /\ extracted' = extracted \cup {f \in present \ local : EntityOf[f] = e}
    /\ UNCHANGED << clock, present, process, stamp, package, workdir, local, remote,
                    bronze, failures >>

(* Seeded fault: a job per file instead of a job per table.                *)
EndExtractJobPerFile ==
    /\ process = "extracting"
    /\ selected = {}
    /\ process' = "loading"
    /\ package' = [files |-> extracted, stamp |-> stamp, jobs |-> extracted]
    /\ local' = local \cup extracted
    /\ clock' = clock + 1
    /\ extracted' = {}
    /\ UNCHANGED << present, stamp, selected, workdir, remote, bronze, failures >>

(* The extracted rows and the new state become one package on disk.        *)
EndExtract ==
    /\ process = "extracting"
    /\ selected = {}
    /\ \/ /\ extracted = {}
          /\ process' = "idle"
          /\ UNCHANGED << clock, package, local >>
       \/ /\ extracted # {}
          /\ process' = "loading"
          /\ package' = [files |-> extracted, stamp |-> stamp,
                         jobs |-> {EntityOf[f] : f \in extracted}]
          /\ local' = local \cup extracted
          /\ clock' = clock + 1
    /\ extracted' = {}
    /\ UNCHANGED << present, stamp, selected, workdir, remote, bronze, failures >>

(* One job: the rows of one table are appended in one Iceberg commit.      *)
Appended(e) ==
    [f \in Files |-> IF f \in package.files /\ EntityOf[f] = e
                     THEN Append(bronze[f], package.stamp) ELSE bronze[f]]

LoadJob(e) ==
    /\ process = "loading"
    /\ e \in package.jobs
    /\ bronze' = Appended(e)
    /\ package' = [package EXCEPT !.jobs = @ \ {e}]
    /\ UNCHANGED << clock, present, processVars, workdir, local, remote, failures >>

(* Seeded fault: the state is stored by whichever job finishes first.      *)
EndLoadEarly ==
    /\ process = "loading"
    /\ remote' = local
    /\ \/ package.jobs = {} /\ package' = NoPackage /\ process' = "idle"
       \/ package.jobs # {} /\ UNCHANGED << package, process >>
    /\ UNCHANGED << clock, present, stamp, selected, extracted, workdir, local,
                    bronze, failures >>

(* The package is complete: its state is stored in the destination.        *)
EndLoad ==
    /\ process = "loading"
    /\ package.jobs = {}
    /\ remote' = local
    /\ package' = NoPackage
    /\ process' = "idle"
    /\ UNCHANGED << clock, present, stamp, selected, extracted, workdir, local,
                    bronze, failures >>

(***************************************************************************)
(* Failures.  A killed process leaves the working directory as it is.  A   *)
(* job killed while committing may have committed without being marked     *)
(* done.  On another machine, or a clean one, there is no working          *)
(* directory: neither state nor pending package.                           *)
(***************************************************************************)
Fails(kind) ==
    /\ kind \in Failures
    /\ Len(failures) < MaxFailures
    /\ failures' = Append(failures, kind)

Crash ==
    /\ Fails("crash")
    /\ process # "idle"
    /\ process' = "idle"
    /\ selected' = {}
    /\ extracted' = {}
    /\ UNCHANGED << clock, present, stamp, package, workdir, local, remote, bronze >>

MidCommit(e) ==
    /\ Fails("mid_commit")
    /\ process = "loading"
    /\ e \in package.jobs
    /\ bronze' = Appended(e)
    /\ process' = "idle"
    /\ UNCHANGED << clock, present, stamp, selected, extracted, package, workdir,
                    local, remote >>

LoseDir ==
    /\ Fails(IF package = NoPackage THEN "lost_dir" ELSE "lost_package")
    /\ process = "idle"
    /\ workdir' = FALSE
    /\ local' = {}
    /\ package' = NoPackage
    /\ UNCHANGED << clock, present, processVars, remote, bronze >>

RunStep ==
    \/ \E e \in Entities : Extract(e)
    \/ EndExtract
    \/ \E e \in Entities : LoadJob(e)
    \/ EndLoad

Failure == Crash \/ (\E e \in Entities : MidCommit(e)) \/ LoseDir

Next ==
    \/ \E f \in Files : DropFile(f)
    \/ \E E \in (SUBSET Entities) \ {{}} : Start(E)
    \/ RunStep
    \/ Failure

Spec == Init /\ [][Next]_ingestVars

(* A started run goes on; somebody runs the full pipeline again and again. *)
Fairness == WF_ingestVars(RunStep) /\ SF_ingestVars(Start(Entities))
FairSpec == Spec /\ Fairness

(***************************************************************************)
(* Correctness.                                                            *)
(***************************************************************************)
Loaded == {f \in Files : bronze[f] # << >>}

(* The failures dlt's pending packages and stored state are built for: a   *)
(* killed run that the next one resumes, a fresh clone with nothing pending.*)
Resumable == \A i \in 1..Len(failures) : failures[i] \in {"crash", "lost_dir"}

(* "Re-running against unchanged files is a no-op": however often runs are *)
(* started, killed and resumed, here or from a fresh clone, no file's rows *)
(* are in bronze twice.                                                    *)
LoadedOnce == Resumable => \A f \in Files : Len(bronze[f]) <= 1

(* "A file is marked processed if and only if its rows actually committed",*)
(* for the state in the destination, which is what a fresh clone restores. *)
(* Stated for the moments no run and no package is half way.               *)
AtRest == process = "idle" /\ package = NoPackage
ProcessedIffCommitted == AtRest => remote = Loaded

(* The docstring's claim as far as it holds.                               *)
InStepWhenResumable == Resumable => ProcessedIffCommitted

(* The "only if" half, at every moment and whatever fails: no run, on this *)
(* machine or on another, will skip a file whose rows are nowhere.         *)
SkippedMeansSafe ==
    /\ remote \subseteq Loaded
    /\ local \subseteq Loaded \cup package.files

(* The batches of a table become visible in the order of their stamps: a   *)
(* new one is stamped later than everything already there.  The watermarks *)
(* of the facts rest on it.                                                *)
Stamps(f) == {bronze[f][i] : i \in 1..Len(bronze[f])}
VisibleInOrder ==
    [][Resumable => \A f, g \in Files :
         EntityOf[f] = EntityOf[g] /\ Len(bronze'[f]) > Len(bronze[f])
           => \A s \in Stamps(g) : s < bronze'[f][Len(bronze'[f])]]_ingestVars

(* Every file that was written is eventually loaded, runs being killed or  *)
(* not, and stays so.                                                      *)
EveryFileLoaded == <>[](present \subseteq Loaded)

(***************************************************************************)
(* The inductive invariant behind the safety properties.                   *)
(***************************************************************************)
(* A package is complete on disk before its first job runs, and what of it *)
(* is not a job any more is loaded.                                        *)
PackageInv ==
    /\ process = "extracting" => package = NoPackage /\ workdir
    /\ process = "loading" => package # NoPackage
    /\ package # NoPackage => workdir /\ package.files # {}
    /\ package.files \subseteq local
    /\ \A f \in package.files : EntityOf[f] \in package.jobs \/ f \in Loaded

(* Every stamp is of the past, and older than the run that extracts.       *)
ClockInv ==
    /\ stamp <= clock
    /\ package.stamp < clock
    /\ \A f \in Files : \A s \in Stamps(f) :
          s < clock /\ (process = "extracting" => s < stamp)

(* As long as runs can resume, whatever is loaded is processed, and a job  *)
(* that is left has yet to append the first rows of its files, the latest  *)
(* of their table.                                                         *)
ResumeInv ==
    Resumable =>
        /\ \A f \in Files : Len(bronze[f]) <= 1
        /\ Loaded \subseteq (IF workdir THEN local ELSE remote)
        /\ workdir /\ package = NoPackage => local = remote
        /\ process = "extracting" => extracted \cap local = {}
        /\ \A f \in package.files : EntityOf[f] \in package.jobs => f \notin Loaded
        /\ \A f \in Files : EntityOf[f] \in package.jobs =>
              \A s \in Stamps(f) : s < package.stamp

(* Stamps count from 1; whatever fails, a job that is left has its rows    *)
(* later than all in its table but those of its own a killed run appended. *)
StampInv ==
    /\ clock >= 1
    /\ process = "extracting" => stamp >= 1
    /\ package # NoPackage => package.stamp >= 1
    /\ \A f \in Files : \A s \in Stamps(f) :
          /\ s >= 1
          /\ EntityOf[f] \in package.jobs =>
                s < package.stamp \/ (s = package.stamp /\ f \in package.files)

IngestInv ==
    TypeOK /\ PackageInv /\ ClockInv /\ StampInv /\ ResumeInv /\ SkippedMeansSafe
=============================================================================
