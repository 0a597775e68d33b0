-------------------------- MODULE Ingestion_proofs --------------------------
(***************************************************************************)
(* The safety of bronze ingestion, for every set of entities and files,    *)
(* every failure and any number of them.  Time may also pass, by a tick,   *)
(* in steps that are not Ingestion's own: IncrementalFacts commits to      *)
(* tables of its own while ingestion runs.                                 *)
(***************************************************************************)
EXTENDS Ingestion, Integers, TLAPS, SequenceTheorems

(* A step of ingestion, or a tick of the clock, or neither.                *)
IngestStep ==
    \/ Next
    \/ clock' \in {clock, clock + 1} /\ UNCHANGED << present, processVars, package,
                                    workdir, local, remote, bronze, failures >>

(* What appending a stamp does to a file's stamps.                         *)
LEMMA AppendStamp ==
    ASSUME NEW b \in Seq(Nat), NEW s \in Nat
    PROVE  /\ Append(b, s) \in Seq(Nat)
           /\ Append(b, s) # << >>
           /\ Len(Append(b, s)) = Len(b) + 1
           /\ Append(b, s)[Len(b) + 1] = s
           /\ \A i \in 1..Len(b) : Append(b, s)[i] = b[i]
<1>1. Len(b) \in Nat
  BY LenProperties
<1>2. /\ Append(b, s) \in Seq(Nat)
      /\ Len(Append(b, s)) = Len(b) + 1
      /\ \A i \in 1..Len(b) + 1 : Append(b, s)[i] = IF i <= Len(b) THEN b[i] ELSE s
  BY AppendProperties
<1>3. Append(b, s) # << >>
  BY <1>1, <1>2, EmptySeq
<1> QED  BY <1>1, <1>2, <1>3

(* A file is loaded when it has a stamp.                                   *)
LEMMA LoadedLen ==
    ASSUME TypeOK, NEW f \in Files
    PROVE  /\ Len(bronze[f]) \in Nat
           /\ f \in Loaded <=> Len(bronze[f]) # 0
<1>1. bronze[f] \in Seq(Nat)
  BY DEF TypeOK
<1> QED  BY <1>1, EmptySeq, LenProperties DEF Loaded

(* One table's job appends the package's stamp to its files, nothing else. *)
LEMMA AppendedIs ==
    ASSUME TypeOK, NEW e \in Entities, bronze' = Appended(e)
    PROVE  /\ bronze' \in [Files -> Seq(Nat)]
           /\ \A f \in Files :
                IF f \in package.files /\ EntityOf[f] = e
                THEN /\ Len(bronze'[f]) = Len(bronze[f]) + 1
                     /\ bronze'[f] # << >>
                     /\ bronze'[f][Len(bronze[f]) + 1] = package.stamp
                     /\ \A i \in 1..Len(bronze[f]) : bronze'[f][i] = bronze[f][i]
                ELSE bronze'[f] = bronze[f]
<1>1. package.stamp \in Nat /\ \A f \in Files : bronze[f] \in Seq(Nat)
  BY DEF TypeOK
<1>2. \A f \in Files : bronze'[f] = IF f \in package.files /\ EntityOf[f] = e
                                   THEN Append(bronze[f], package.stamp) ELSE bronze[f]
  BY DEF Appended
<1>3. ASSUME NEW f \in Files
      PROVE  /\ bronze'[f] \in Seq(Nat)
             /\ IF f \in package.files /\ EntityOf[f] = e
                THEN /\ Len(bronze'[f]) = Len(bronze[f]) + 1
                     /\ bronze'[f] # << >>
                     /\ bronze'[f][Len(bronze[f]) + 1] = package.stamp
                     /\ \A i \in 1..Len(bronze[f]) : bronze'[f][i] = bronze[f][i]
                ELSE bronze'[f] = bronze[f]
  <2>1. CASE f \in package.files /\ EntityOf[f] = e
    <3>1. bronze'[f] = Append(bronze[f], package.stamp)
      BY <1>2, <2>1
    <3>2. bronze[f] \in Seq(Nat) /\ package.stamp \in Nat
      BY <1>1
    <3> QED  BY <2>1, <3>1, <3>2, AppendStamp
  <2>2. CASE ~ (f \in package.files /\ EntityOf[f] = e)
    BY <1>1, <1>2, <2>2
  <2> QED  BY <2>1, <2>2
<1>4. bronze' = [f \in Files |-> bronze'[f]]
  BY DEF Appended
<1> QED  BY <1>3, <1>4

(* The stamps after a job: those before and, for its files, the package's; *)
(* and what is loaded after it.                                            *)
LEMMA AppendedStamps ==
    ASSUME TypeOK, NEW e \in Entities, bronze' = Appended(e), NEW f \in Files
    PROVE  Stamps(f)' = IF f \in package.files /\ EntityOf[f] = e
                        THEN Stamps(f) \cup {package.stamp} ELSE Stamps(f)
<1>1. Len(bronze[f]) \in Nat
  BY LoadedLen
<1>2. CASE f \in package.files /\ EntityOf[f] = e
  <2>1. /\ Len(bronze'[f]) = Len(bronze[f]) + 1
        /\ bronze'[f][Len(bronze[f]) + 1] = package.stamp
        /\ \A i \in 1..Len(bronze[f]) : bronze'[f][i] = bronze[f][i]
    BY <1>2, AppendedIs
  <2> QED  BY <1>1, <1>2, <2>1 DEF Stamps
<1>3. CASE ~ (f \in package.files /\ EntityOf[f] = e)
  BY <1>3, AppendedIs DEF Stamps
<1> QED  BY <1>2, <1>3

LEMMA AppendedLoaded ==
    ASSUME TypeOK, NEW e \in Entities, bronze' = Appended(e)
    PROVE  Loaded' = Loaded \cup {g \in package.files : EntityOf[g] = e}
<1>1. ASSUME NEW g \in Files
      PROVE  g \in Loaded' <=> g \in Loaded \/ (g \in package.files /\ EntityOf[g] = e)
  BY AppendedIs DEF Loaded
<1>2. Loaded \subseteq Files /\ Loaded' \subseteq Files /\ package.files \subseteq Files
  BY DEF Loaded, TypeOK
<1> QED  BY <1>1, <1>2

(* A further failure of a kind.                                            *)
LEMMA FailsType ==
    ASSUME TypeOK, NEW kind, Fails(kind)
    PROVE  /\ failures' \in Seq(Failures) /\ Len(failures') <= MaxFailures
           /\ Resumable' => Resumable /\ kind \in {"crash", "lost_dir"}
<1>1. /\ failures \in Seq(Failures) /\ kind \in Failures
      /\ Len(failures) < MaxFailures /\ Len(failures) \in Nat /\ MaxFailures \in Nat
  BY LenProperties, FailuresAssumption DEF TypeOK, Fails
<1>2. /\ failures' \in Seq(Failures)
      /\ Len(failures') = Len(failures) + 1
      /\ \A i \in 1..Len(failures) + 1 :
            failures'[i] = IF i <= Len(failures) THEN failures[i] ELSE kind
  BY <1>1, AppendProperties DEF Fails
<1>3. ASSUME Resumable' PROVE Resumable /\ kind \in {"crash", "lost_dir"}
  <2>1. \A i \in 1..Len(failures) + 1 : failures'[i] \in {"crash", "lost_dir"}
    BY <1>2, <1>3 DEF Resumable
  <2>2. \A i \in 1..Len(failures) : failures[i] = failures'[i]
    BY <1>1, <1>2
  <2>3. \A i \in 1..Len(failures) : i \in 1..Len(failures) + 1
    BY <1>1
  <2>4. failures'[Len(failures) + 1] = kind
    BY <1>1, <1>2
  <2> QED  BY <1>1, <2>1, <2>2, <2>3, <2>4 DEF Resumable
<1> QED  BY <1>1, <1>2, <1>3

(* Types, in every step.                                                   *)
LEMMA StepTypeOK == TypeOK /\ IngestStep => TypeOK'
<1> SUFFICES ASSUME TypeOK, IngestStep PROVE TypeOK'
  OBVIOUS
<1> USE DEF processVars
<1>1. ASSUME NEW f \in Files, DropFile(f) PROVE TypeOK'
  BY <1>1 DEF TypeOK, DropFile
<1>2. ASSUME NEW E \in (SUBSET Entities) \ {{}}, Start(E) PROVE TypeOK'
  BY <1>2 DEF TypeOK, Start
<1>3. ASSUME NEW e \in Entities, Extract(e) PROVE TypeOK'
  BY <1>3 DEF TypeOK, Extract
<1>4. ASSUME EndExtract PROVE TypeOK'
  BY <1>4, EntityOfAssumption DEF TypeOK, EndExtract
<1>5. ASSUME NEW e \in Entities, LoadJob(e) PROVE TypeOK'
  <2>1. bronze' \in [Files -> Seq(Nat)]
    BY <1>5, AppendedIs DEF LoadJob
  <2> QED  BY <1>5, <2>1 DEF TypeOK, LoadJob
<1>6. ASSUME EndLoad PROVE TypeOK'
  BY <1>6 DEF TypeOK, EndLoad, NoPackage
<1>7. ASSUME Crash PROVE TypeOK'
  BY <1>7, FailsType DEF TypeOK, Crash
<1>8. ASSUME NEW e \in Entities, MidCommit(e) PROVE TypeOK'
  <2>1. bronze' \in [Files -> Seq(Nat)]
    BY <1>8, AppendedIs DEF MidCommit
  <2> QED  BY <1>8, <2>1, FailsType DEF TypeOK, MidCommit
<1>9. ASSUME LoseDir PROVE TypeOK'
  BY <1>9, FailsType DEF TypeOK, LoseDir, NoPackage
<1>10. ASSUME clock' \in {clock, clock + 1},
              UNCHANGED << present, processVars, package, workdir, local, remote,
                           bronze, failures >>
       PROVE  TypeOK'
  BY <1>10 DEF TypeOK
<1> QED
  BY <1>1, <1>2, <1>3, <1>4, <1>5, <1>6, <1>7, <1>8, <1>9, <1>10
     DEF IngestStep, Next, RunStep, Failure

(* What a job leaves on disk, whole or killed at its commit.               *)
LEMMA JobStep ==
    ASSUME TypeOK, NEW e \in Entities, LoadJob(e) \/ MidCommit(e)
    PROVE  /\ bronze' = Appended(e)
           /\ e \in package.jobs
           /\ process = "loading" /\ process' # "extracting"
           /\ package'.files = package.files /\ package'.stamp = package.stamp
           /\ package'.jobs \subseteq package.jobs
           /\ package.jobs \ {e} \subseteq package'.jobs
           /\ UNCHANGED << clock, stamp, workdir, local, remote >>
BY DEF TypeOK, LoadJob, MidCommit, processVars

LEMMA StepPackageInv == TypeOK /\ PackageInv /\ IngestStep => PackageInv'
<1> SUFFICES ASSUME TypeOK, PackageInv, IngestStep PROVE PackageInv'
  OBVIOUS
<1> USE DEF processVars
<1>1. ASSUME NEW f \in Files, DropFile(f) PROVE PackageInv'
  BY <1>1 DEF PackageInv, Loaded, DropFile
<1>2. ASSUME NEW E \in (SUBSET Entities) \ {{}}, Start(E) PROVE PackageInv'
  <2>1. CASE package = NoPackage
    BY <1>2, <2>1 DEF PackageInv, Loaded, Start, NoPackage
  <2>2. CASE package # NoPackage
    BY <1>2, <2>2 DEF PackageInv, Loaded, Start
  <2> QED  BY <2>1, <2>2
<1>3. ASSUME NEW e \in Entities, Extract(e) PROVE PackageInv'
  BY <1>3 DEF PackageInv, Loaded, Extract
<1>4. ASSUME EndExtract PROVE PackageInv'
  <2>1. CASE extracted = {}
    BY <1>4, <2>1 DEF PackageInv, Loaded, EndExtract
  <2>2. CASE extracted # {}
    <3>1. /\ process' = "loading" /\ workdir' = workdir
          /\ package' = [files |-> extracted, stamp |-> stamp,
                         jobs |-> {EntityOf[f] : f \in extracted}]
          /\ local' = local \cup extracted
      BY <1>4, <2>2 DEF EndExtract
    <3>2. package'.files = extracted /\ package'.jobs = {EntityOf[f] : f \in extracted}
      BY <3>1
    <3>3. package' # NoPackage
      BY <2>2, <3>2 DEF NoPackage
    <3>4. workdir
      BY <1>4 DEF EndExtract, PackageInv
    <3> QED  BY <2>2, <3>1, <3>2, <3>3, <3>4 DEF PackageInv
  <2> QED  BY <2>1, <2>2
<1>5. ASSUME NEW e \in Entities, LoadJob(e) PROVE PackageInv'
  <2>1. Loaded' = Loaded \cup {g \in package.files : EntityOf[g] = e}
    BY <1>5, JobStep, AppendedLoaded
  <2>2. package # NoPackage
    BY <1>5 DEF LoadJob, NoPackage
  <2>3. \A f \in package'.files : EntityOf[f] \in package'.jobs \/ f \in Loaded'
    BY <1>5, <2>1, JobStep DEF PackageInv
  <2>4. package.files # {} => package' # NoPackage
    BY <1>5, JobStep DEF NoPackage
  <2> QED  BY <1>5, <2>2, <2>3, <2>4, JobStep DEF PackageInv
<1>6. ASSUME EndLoad PROVE PackageInv'
  BY <1>6 DEF PackageInv, Loaded, EndLoad, NoPackage
<1>7. ASSUME Crash PROVE PackageInv'
  BY <1>7 DEF PackageInv, Loaded, Crash
<1>8. ASSUME NEW e \in Entities, MidCommit(e) PROVE PackageInv'
  <2>1. Loaded \subseteq Loaded'
    BY <1>8, JobStep, AppendedIs DEF Loaded
  <2> QED  BY <1>8, <2>1, JobStep DEF PackageInv, MidCommit
<1>9. ASSUME LoseDir PROVE PackageInv'
  BY <1>9 DEF PackageInv, Loaded, LoseDir, NoPackage
<1>10. ASSUME UNCHANGED << present, processVars, package, workdir, local, remote,
                           bronze, failures >>
       PROVE  PackageInv'
  BY <1>10 DEF PackageInv, Loaded
<1> QED
  BY <1>1, <1>2, <1>3, <1>4, <1>5, <1>6, <1>7, <1>8, <1>9, <1>10
     DEF IngestStep, Next, RunStep, Failure

LEMMA StepClockInv == TypeOK /\ PackageInv /\ ClockInv /\ IngestStep => ClockInv'
<1> SUFFICES ASSUME TypeOK, PackageInv, ClockInv, IngestStep PROVE ClockInv'
  OBVIOUS
<1> USE DEF processVars
<1>0. /\ clock \in Nat /\ stamp \in Nat /\ package.stamp \in Nat
      /\ \A f \in Files : Stamps(f) \subseteq Nat
  BY ElementOfSeq DEF TypeOK, Stamps
<1>1. ASSUME NEW f \in Files, DropFile(f) PROVE ClockInv'
  BY <1>1 DEF ClockInv, Stamps, DropFile
<1>2. ASSUME NEW E \in (SUBSET Entities) \ {{}}, Start(E) PROVE ClockInv'
  BY <1>0, <1>2 DEF ClockInv, Stamps, Start
<1>3. ASSUME NEW e \in Entities, Extract(e) PROVE ClockInv'
  BY <1>3 DEF ClockInv, Stamps, Extract
<1>4. ASSUME EndExtract PROVE ClockInv'
  <2>1. \A f \in Files : Stamps(f)' = Stamps(f)
    BY <1>4 DEF Stamps, EndExtract
  <2> QED  BY <1>0, <1>4, <2>1 DEF ClockInv, EndExtract
<1>5. ASSUME NEW e \in Entities, LoadJob(e) \/ MidCommit(e) PROVE ClockInv'
  <2>1. bronze' = Appended(e) /\ process' # "extracting" /\ package'.stamp = package.stamp
        /\ clock' = clock /\ stamp' = stamp
    BY <1>5, JobStep
  <2>2. \A f \in Files : Stamps(f)' \subseteq Stamps(f) \cup {package.stamp}
    BY <2>1, AppendedStamps
  <2> QED  BY <1>0, <2>1, <2>2 DEF ClockInv
<1>6. ASSUME EndLoad PROVE ClockInv'
  BY <1>0, <1>6 DEF ClockInv, Stamps, EndLoad, NoPackage
<1>7. ASSUME Crash PROVE ClockInv'
  BY <1>7 DEF ClockInv, Stamps, Crash
<1>9. ASSUME LoseDir PROVE ClockInv'
  BY <1>0, <1>9 DEF ClockInv, Stamps, LoseDir, NoPackage
<1>10. ASSUME clock' \in {clock, clock + 1},
              UNCHANGED << present, processVars, package, workdir, local, remote,
                           bronze, failures >>
       PROVE  ClockInv'
  <2>1. \A f \in Files : Stamps(f)' = Stamps(f)
    BY <1>10 DEF Stamps
  <2> QED  BY <1>0, <1>10, <2>1 DEF ClockInv
<1> QED
  BY <1>1, <1>2, <1>3, <1>4, <1>5, <1>6, <1>7, <1>9, <1>10
     DEF IngestStep, Next, RunStep, Failure

(* A job's rows are the latest of their table, whatever fails.             *)
LEMMA StepStampInv == TypeOK /\ PackageInv /\ ClockInv /\ StampInv /\ IngestStep => StampInv'
<1> SUFFICES ASSUME TypeOK, PackageInv, ClockInv, StampInv, IngestStep PROVE StampInv'
  OBVIOUS
<1> USE DEF processVars
<1>0. /\ clock \in Nat /\ stamp \in Nat /\ package.stamp \in Nat
      /\ \A f \in Files : Stamps(f) \subseteq Nat
  BY ElementOfSeq DEF TypeOK, Stamps
<1>1. ASSUME NEW f \in Files, DropFile(f) PROVE StampInv'
  BY <1>1 DEF StampInv, Stamps, DropFile
<1>2. ASSUME NEW E \in (SUBSET Entities) \ {{}}, Start(E) PROVE StampInv'
  BY <1>0, <1>2 DEF StampInv, Stamps, Start
<1>3. ASSUME NEW e \in Entities, Extract(e) PROVE StampInv'
  BY <1>3 DEF StampInv, Stamps, Extract
<1>4. ASSUME EndExtract PROVE StampInv'
  <2>1. \A f \in Files : Stamps(f)' = Stamps(f)
    BY <1>4 DEF Stamps, EndExtract
  <2>2. CASE extracted = {}
    BY <1>4, <2>1, <2>2 DEF StampInv, EndExtract
  <2>3. CASE extracted # {}
    <3>1. package'.stamp = stamp /\ clock' = clock + 1 /\ process' = "loading"
      BY <1>4, <2>3 DEF EndExtract
    <3>2. stamp >= 1 /\ \A f \in Files : \A s \in Stamps(f) : s < stamp
      BY <1>4 DEF EndExtract, ClockInv, StampInv
    <3> QED  BY <1>0, <2>1, <3>1, <3>2 DEF StampInv
  <2> QED  BY <2>2, <2>3
<1>5. ASSUME NEW e \in Entities, LoadJob(e) \/ MidCommit(e) PROVE StampInv'
  <2>1. /\ bronze' = Appended(e) /\ process = "loading" /\ process' # "extracting"
        /\ package'.files = package.files /\ package'.stamp = package.stamp
        /\ package'.jobs \subseteq package.jobs /\ clock' = clock
    BY <1>5, JobStep
  <2>2. package.stamp >= 1
    BY <2>1 DEF PackageInv, StampInv
  <2>3. ASSUME NEW f \in Files, NEW s \in Stamps(f)'
        PROVE  /\ s >= 1
               /\ EntityOf[f] \in package'.jobs =>
                     s < package.stamp \/ (s = package.stamp /\ f \in package.files)
    <3>1. s \in Stamps(f) \/ (s = package.stamp /\ f \in package.files)
      BY <2>1, AppendedStamps
    <3> QED  BY <2>1, <2>2, <3>1 DEF StampInv
  <2> QED  BY <2>1, <2>2, <2>3 DEF StampInv
<1>6. ASSUME EndLoad PROVE StampInv'
  BY <1>6 DEF StampInv, Stamps, EndLoad, NoPackage
<1>7. ASSUME Crash PROVE StampInv'
  BY <1>7 DEF StampInv, Stamps, Crash
<1>8. ASSUME LoseDir PROVE StampInv'
  BY <1>8 DEF StampInv, Stamps, LoseDir, NoPackage
<1>9. ASSUME clock' \in {clock, clock + 1},
             UNCHANGED << present, processVars, package, workdir, local, remote,
                          bronze, failures >>
      PROVE  StampInv'
  <2>1. \A f \in Files : Stamps(f)' = Stamps(f)
    BY <1>9 DEF Stamps
  <2> QED  BY <1>0, <1>9, <2>1 DEF StampInv
<1> QED
  BY <1>1, <1>2, <1>3, <1>4, <1>5, <1>6, <1>7, <1>8, <1>9
     DEF IngestStep, Next, RunStep, Failure

(* The stored state is never ahead of the rows, whatever fails.            *)
LEMMA StepSkippedMeansSafe ==
    TypeOK /\ PackageInv /\ SkippedMeansSafe /\ IngestStep => SkippedMeansSafe'
<1> SUFFICES ASSUME TypeOK, PackageInv, SkippedMeansSafe, IngestStep
             PROVE  SkippedMeansSafe'
  OBVIOUS
<1> USE DEF processVars
<1>1. ASSUME NEW f \in Files, DropFile(f) PROVE SkippedMeansSafe'
  BY <1>1 DEF SkippedMeansSafe, Loaded, DropFile
<1>2. ASSUME NEW E \in (SUBSET Entities) \ {{}}, Start(E) PROVE SkippedMeansSafe'
  BY <1>2 DEF SkippedMeansSafe, Loaded, Start
<1>3. ASSUME NEW e \in Entities, Extract(e) PROVE SkippedMeansSafe'
  BY <1>3 DEF SkippedMeansSafe, Loaded, Extract
<1>4. ASSUME EndExtract PROVE SkippedMeansSafe'
  BY <1>4 DEF SkippedMeansSafe, PackageInv, Loaded, EndExtract, NoPackage
<1>5. ASSUME NEW e \in Entities, LoadJob(e) \/ MidCommit(e) PROVE SkippedMeansSafe'
  <2>1. bronze' = Appended(e) /\ package'.files = package.files
        /\ UNCHANGED << local, remote >>
    BY <1>5, JobStep
  <2>2. Loaded \subseteq Loaded'
    BY <2>1, AppendedIs DEF Loaded
  <2> QED  BY <2>1, <2>2 DEF SkippedMeansSafe
<1>6. ASSUME EndLoad PROVE SkippedMeansSafe'
  <2>1. package.files \subseteq Loaded
    BY <1>6 DEF PackageInv, EndLoad
  <2> QED  BY <1>6, <2>1 DEF SkippedMeansSafe, Loaded, EndLoad
<1>7. ASSUME Crash PROVE SkippedMeansSafe'
  BY <1>7 DEF SkippedMeansSafe, Loaded, Crash
<1>9. ASSUME LoseDir PROVE SkippedMeansSafe'
  BY <1>9 DEF SkippedMeansSafe, Loaded, LoseDir
<1>10. ASSUME UNCHANGED << present, processVars, package, workdir, local, remote,
                           bronze, failures >>
       PROVE  SkippedMeansSafe'
  BY <1>10 DEF SkippedMeansSafe, Loaded
<1> QED
  BY <1>1, <1>2, <1>3, <1>4, <1>5, <1>6, <1>7, <1>9, <1>10
     DEF IngestStep, Next, RunStep, Failure

LEMMA StepResumeInv ==
    TypeOK /\ PackageInv /\ ClockInv /\ ResumeInv /\ IngestStep => ResumeInv'
<1> SUFFICES ASSUME TypeOK, PackageInv, ClockInv, ResumeInv, IngestStep
             PROVE  ResumeInv'
  OBVIOUS
<1> USE DEF processVars
<1>0. package.stamp \in Nat /\ \A f \in Files : Len(bronze[f]) \in Nat
  BY LoadedLen DEF TypeOK
<1>1. ASSUME NEW f \in Files, DropFile(f) PROVE ResumeInv'
  BY <1>1 DEF ResumeInv, Resumable, Loaded, Stamps, DropFile
<1>2. ASSUME NEW E \in (SUBSET Entities) \ {{}}, Start(E) PROVE ResumeInv'
  BY <1>2 DEF ResumeInv, PackageInv, Resumable, Loaded, Stamps, Start
<1>3. ASSUME NEW e \in Entities, Extract(e) PROVE ResumeInv'
  BY <1>3 DEF ResumeInv, PackageInv, Resumable, Loaded, Stamps, Extract
<1>4. ASSUME EndExtract PROVE ResumeInv'
  <2>1. CASE extracted = {}
    BY <1>4, <2>1 DEF ResumeInv, Resumable, Loaded, Stamps, EndExtract
  <2>2. CASE extracted # {}
    <3>1. /\ package' = [files |-> extracted, stamp |-> stamp,
                         jobs |-> {EntityOf[f] : f \in extracted}]
          /\ local' = local \cup extracted
          /\ package = NoPackage /\ workdir /\ process' = "loading"
          /\ UNCHANGED << bronze, workdir, remote, failures >>
          /\ process = "extracting"
      BY <1>4, <2>2 DEF EndExtract, PackageInv
    <3>2. /\ \A f \in Files : Stamps(f)' = Stamps(f) /\ \A s \in Stamps(f) : s < stamp
          /\ Loaded' = Loaded /\ (Resumable' <=> Resumable)
          /\ package' # NoPackage
      BY <2>2, <3>1 DEF ClockInv, Stamps, Loaded, Resumable, NoPackage
    <3>3. Resumable => Loaded \subseteq local /\ extracted \cap local = {}
      BY <3>1 DEF ResumeInv
    <3>4. package'.files = extracted /\ package'.stamp = stamp
      BY <3>1
    <3> QED  BY <3>1, <3>2, <3>3, <3>4 DEF ResumeInv
  <2> QED  BY <2>1, <2>2
<1>5. ASSUME NEW e \in Entities, LoadJob(e), Resumable PROVE ResumeInv'
  <2>1. /\ bronze' = Appended(e) /\ e \in package.jobs
        /\ package' = [package EXCEPT !.jobs = @ \ {e}]
        /\ process = "loading" /\ process' = "loading"
        /\ UNCHANGED << workdir, local, remote >>
        /\ package'.files = package.files /\ package'.stamp = package.stamp
        /\ package'.jobs = package.jobs \ {e}
    BY <1>5 DEF LoadJob, TypeOK
  <2>2. Loaded' = Loaded \cup {g \in package.files : EntityOf[g] = e}
    BY <2>1, AppendedLoaded
  <2>3. package # NoPackage
    BY <2>1 DEF NoPackage
  <2>4. workdir /\ package.files # {} /\ package' # NoPackage
    BY <2>1, <2>3 DEF PackageInv, NoPackage
  <2>5. ASSUME NEW f \in Files PROVE Len(bronze'[f]) <= 1
    <3>1. CASE f \in package.files /\ EntityOf[f] = e
      <4>1. Len(bronze[f]) = 0
        BY <1>5, <2>1, <3>1, LoadedLen DEF ResumeInv
      <4> QED  BY <2>1, <3>1, <4>1, AppendedIs
    <3>2. CASE ~ (f \in package.files /\ EntityOf[f] = e)
      BY <1>5, <2>1, <3>2, AppendedIs DEF ResumeInv
    <3> QED  BY <3>1, <3>2
  <2>6. Loaded' \subseteq local
    BY <1>5, <2>2, <2>4 DEF ResumeInv, PackageInv
  <2>7. \A f \in package'.files : EntityOf[f] \in package'.jobs => f \notin Loaded'
    BY <1>5, <2>1, <2>2 DEF ResumeInv
  <2>8. \A f \in Files : EntityOf[f] \in package'.jobs =>
          \A s \in Stamps(f)' : s < package'.stamp
    BY <1>5, <2>1, AppendedStamps DEF ResumeInv
  <2> QED  BY <2>1, <2>4, <2>5, <2>6, <2>7, <2>8 DEF ResumeInv
<1>6. ASSUME EndLoad PROVE ResumeInv'
  <2>1. package # NoPackage /\ workdir
    BY <1>6 DEF EndLoad, PackageInv
  <2>2. package'.files = {} /\ package'.jobs = {}
    BY <1>6 DEF EndLoad, NoPackage
  <2> QED
    BY <1>6, <2>1, <2>2 DEF ResumeInv, Resumable, Loaded, Stamps, EndLoad
<1>7. ASSUME Crash PROVE ResumeInv'
  BY <1>7, FailsType DEF ResumeInv, Loaded, Stamps, Crash
<1>8. ASSUME NEW e \in Entities, MidCommit(e) PROVE ResumeInv'
  BY <1>8, FailsType DEF ResumeInv, MidCommit
<1>9. ASSUME LoseDir PROVE ResumeInv'
  <2> SUFFICES ASSUME Resumable' PROVE ResumeInv'
    BY DEF ResumeInv
  <2>1. Resumable /\ package = NoPackage
    BY <1>9, FailsType DEF LoseDir
  <2>2. package'.files = {} /\ package'.jobs = {}
    BY <1>9 DEF LoseDir, NoPackage
  <2> QED  BY <1>9, <2>1, <2>2 DEF ResumeInv, Loaded, Stamps, LoseDir
<1>10. ASSUME UNCHANGED << present, processVars, package, workdir, local, remote,
                           bronze, failures >>
       PROVE  ResumeInv'
  BY <1>10 DEF ResumeInv, Resumable, Loaded, Stamps
<1>11. ASSUME NEW e \in Entities, LoadJob(e), ~ Resumable PROVE ResumeInv'
  BY <1>11 DEF ResumeInv, Resumable, LoadJob
<1> QED
  BY <1>1, <1>2, <1>3, <1>4, <1>5, <1>6, <1>7, <1>8, <1>9, <1>10, <1>11
     DEF IngestStep, Next, RunStep, Failure

LEMMA InitIngestInv == Init => IngestInv
<1> SUFFICES ASSUME Init PROVE IngestInv
  OBVIOUS
<1>1. TypeOK
  <2>1. << >> \in Seq(Nat) /\ << >> \in Seq(Failures) /\ Len(<< >>) = 0
    BY EmptySeq
  <2>2. NoPackage \in [files : SUBSET Files, stamp : Nat, jobs : SUBSET Entities]
    BY DEF NoPackage
  <2>3. bronze \in [Files -> Seq(Nat)]
    BY <2>1 DEF Init
  <2>4. failures \in Seq(Failures) /\ Len(failures) <= MaxFailures
    BY <2>1, FailuresAssumption DEF Init
  <2> QED  BY <2>2, <2>3, <2>4 DEF Init, TypeOK
<1>2. \A f \in Files : Len(bronze[f]) = 0 /\ Stamps(f) = {}
  BY DEF Init, Stamps
<1>3. Loaded = {} /\ package.files = {} /\ package.jobs = {} /\ package.stamp = 0
  BY DEF Init, Loaded, NoPackage
<1>4. PackageInv
  BY <1>3 DEF Init, PackageInv
<1>5. ClockInv
  BY <1>2, <1>3 DEF Init, ClockInv
<1>6. ResumeInv
  BY <1>2, <1>3 DEF Init, ResumeInv
<1>7. SkippedMeansSafe
  BY DEF Init, SkippedMeansSafe
<1>8. StampInv
  BY <1>2 DEF Init, StampInv
<1> QED  BY <1>1, <1>4, <1>5, <1>6, <1>7, <1>8 DEF IngestInv

LEMMA StepIngestInv == IngestInv /\ IngestStep => IngestInv'
BY StepTypeOK, StepPackageInv, StepClockInv, StepStampInv, StepResumeInv,
   StepSkippedMeansSafe DEF IngestInv

(* What the invariant says of the properties.                              *)
LEMMA IngestInvImplies == IngestInv => LoadedOnce /\ InStepWhenResumable
BY DEF IngestInv, ResumeInv, SkippedMeansSafe, PackageInv, LoadedOnce, InStepWhenResumable,
       ProcessedIffCommitted, AtRest, Loaded, NoPackage

(* A batch is appended with a stamp later than all of its table's.         *)
LEMMA AppendsInOrder ==
    ASSUME IngestInv, IngestStep, Resumable,
           NEW f \in Files, NEW g \in Files, EntityOf[f] = EntityOf[g],
           Len(bronze'[f]) > Len(bronze[f])
    PROVE  \A s \in Stamps(g) : s < bronze'[f][Len(bronze'[f])]
<1> USE DEF processVars
<1>1. PICK e \in Entities : LoadJob(e) \/ MidCommit(e)
  <2>1. Len(bronze[f]) \in Nat
    BY LoadedLen DEF IngestInv
  <2>2. bronze' # bronze
    BY <2>1
  <2> QED
    BY <2>2 DEF IngestStep, Next, RunStep, Failure, DropFile, Start, Extract, EndExtract,
                EndLoad, Crash, LoseDir
<1>2. bronze' = Appended(e) /\ e \in package.jobs /\ TypeOK
  BY <1>1, JobStep DEF IngestInv
<1>3. EntityOf[f] = e /\ bronze'[f][Len(bronze'[f])] = package.stamp
  <2>1. Len(bronze[f]) \in Nat
    BY LoadedLen DEF IngestInv
  <2>2. f \in package.files /\ EntityOf[f] = e
    BY <1>2, <2>1, AppendedIs
  <2> QED  BY <1>2, <2>2, AppendedIs
<1> QED  BY <1>2, <1>3 DEF IngestInv, ResumeInv
=============================================================================
