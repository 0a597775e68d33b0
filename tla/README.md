# Verification of the Iceberg lakehouse platform

TLA+ modules, TLC configurations and TLAPS proofs for the parts of this repository whose
correctness depends on order, failure or concurrency: publishing to the shared `main` branch and
demonstrating time travel next to it (`ops/`), loading files into bronze (`ingestion/`), the quality
gate and the incremental facts behind it, the versioned dimensions with the keys that outlive them, the
daily snapshot (`transform/lakehouse/models/`), and the generator of all the data (`generation/`).

Run `tlc -config X.cfg M` for a run of `PROJECT.json` and `tlapm M_proofs.tla` for a proof module.

## 1. Inventory

| Component | State it keeps | Operations | What is hard |
|---|---|---|---|
| Nessie client, `ops/nessie.py` | none; the server's references and commit history | get, create, delete, assign, merge a reference; bootstrap `main` | optimistic hash checks; a lost reply or a 30 s timeout leaves the caller not knowing |
| Write-audit-publish, `ops/wap.py` | a branch, a Trino catalog and local flags per run | branch, register, `dbt run`, `dbt test`, merge, delete, drop | concurrent runs; partial failure at every call; cleanup in a handler and in `finally` |
| Bronze ingestion, `ingestion/` | `processed_files` in dlt's state, the load package on disk, bronze tables | extract, load table by table, store state | killed runs, resumed packages, lost working directory, duplicate appends |
| Silver, `models/intermediate/` | one table per entity, rebuilt in full | rebuild, deduplicate | built from live bronze |
| Playback, billing, watchlist facts | fact table, its Iceberg snapshots | create, MERGE behind a watermark, backfill, full refresh | a watermark derived from something that changes; interleaving with ingestion |
| Daily subscription snapshot | fact table keyed (day, `subscriber_sk`) | regenerate a rolling window, MERGE | keys that corrections change; gaps and stale rows |
| Subscriber dimension | SCD versions, rebuilt in full | version an event stream, infer missing members | late and simultaneous events; keys stored in facts |
| Title dimension | SCD versions, rebuilt in full | version metadata events | simultaneous events, attributes that return |
| Bridge, small dimensions | tables, rebuilt in full | lookups | none |
| Signup funnel | accumulating snapshot, rebuilt in full | status from milestones and the clock | a status that changes without new data |
| Playback quality gate | a clean table, three reject tables, their union | split the staged rows by one predicate | tables built at different moments from live bronze |
| Time travel demo, `ops/time_travel_demo.py` | one branch and two catalogs with fixed names | load, query as of a hash, reassign the branch | invocations that overlap; leftovers of a crashed one |
| Generator, `generation/` | part files and manifests under `generation/output/` | draw lives, write batches, delay stragglers, construct targets | each row written exactly once; pathologies that contradict each other; boundaries of lives and slices |
| Orchestration, CI, infrastructure | none | one asset graph; two sequential gate runs | no lock between ingestion and builds |

How they interact: the generator writes part files; ingestion lists them and appends their rows, with
the run's start time as `_ingested_at`, to bronze tables; dbt rebuilds silver from bronze and merges
into the facts; all tables live on Nessie's `main`. `ops/wap.py` writes on a branch of its own and
publishes by a Nessie merge. Nothing locks: any of these may run at the same time (`make build`, the
Dagster assets and `ops/wap.py` all reach the same `main`).

What makes each correct:

* **Publishing.** Only whole, audited builds reach `main`; no committed version of a table is
  overwritten unseen; `main` only grows; exit codes mean what they say; cleanup leaves nothing behind.
* **Ingestion.** Every file's rows reach bronze, once; no file is skipped whose rows are nowhere; what
  becomes visible later carries a later stamp.
* **Facts.** An incremental build never skips a row it has not merged; one row per key; never an older
  delivery over a newer one; nothing already published disappears.
* **Dimension and snapshot.** Versions agree with the state as of every instant, in whatever order the
  events came; every fact row finds its version, and a stored key stays that version's; one snapshot row
  per subscriber and day, none missing, the recent ones right.
* **Quality gate.** No row is in two of its tables; when all are fresh their counts add up; nothing
  malformed reaches the fact.
* **Demonstration.** It never moves `main`; what it writes as evidence is true whoever shares its branch;
  an undisturbed invocation completes.
* **Generator.** Every row issued is in the files once; nothing of a subscriber lies outside its life;
  the manifests say what the files hold.

## 2. Modules

| Module | Models | Used by |
|---|---|---|
| `Nessie` | the reference store as the client calls it; operators, no variables | `DbtAudit`, `Wap`, `TimeTravelDemo` |
| `DbtAudit` | what `dbt test --select` decides over a set of tables | `Wap`, `PublishGate` |
| `PublishGate` | abstract: approve a candidate against a past `main`, append it once, first committer wins | refined by `Wap` |
| `Wap` | `run_wap` for concurrent runs, direct builds, crashes and late merges | `MCWap`, `Wap_proofs` |
| `TimeTravelDemo` | the demonstration script for invocations that share its branch and catalogs | `MCDemo`, `TimeTravelDemo_proofs` |
| `Ingestion` | `pipeline.run` and the dlt resources, failures of the process and the machine | `IncrementalFacts`, `MCIngestion` |
| `QualityGate` | the predicate of the playback gate and its three parts; operators | `IncrementalFacts`, `Generator` |
| `IncrementalFacts` | silver, the quality gate and the three keyed facts on top of `Ingestion` | `MCFacts` |
| `PointInTime` | time, and the exact and the whole-second join of facts to versions; operators | `DimSubscriber`, `DimTitle` |
| `DimSubscriber` | `dim_subscriber.sql`: the versions of an event stream; operators | `DailySnapshot` |
| `DimTitle` | `dim_title.sql`: the same for titles, without self-heal; operators | `SubscriberMarts` |
| `DailySnapshot` | `fct_daily_subscription_snapshot.sql`: the rows a build generates; operators | `SubscriberMarts` |
| `SubscriberMarts` | events arriving in batches, builds of the dimensions, of a fact and of the snapshot | `MCMarts` |
| `ChangeStreams` | `subscribers.py`, `titles.py`: the lives and change events the draws allow; operators | `Generator` |
| `Generator` | `generate.py`, the fact generators, the manifests and the sanity checks | `MCGenerator` |
| `MCWap`, `MCDemo`, `MCIngestion`, `MCFacts`, `MCMarts`, `MCGenerator` | instances for TLC | the runs |
| `Nessie_proofs`, `Wap_proofs` | histories; run_wap's invariants and its refinement of the gate | |
| `TimeTravelDemo_proofs` | the demonstration: `main`, its evidence, undisturbed invocations | |
| `SubscriberMarts_proofs` | the dimensions, the joins, the stored keys and the snapshot | |
| `Ingestion_proofs`, `IncrementalFacts_proofs` | bronze; the gate, the facts and the watermarks | |
| `ChangeStreams_proofs`, `Generator_proofs` | filters, walks, lives, gaps; every invariant of the generator | |

### State and actions against the code

**Nessie.** A hash is the sequence of commits below it, so that "main has not moved" and "common
ancestor" are statements about sequences. Every mutating call returns the set of its outcomes, pairs of
a reply and a reference table: `ok`; `error`, the `NessieError` that `_call` makes of an HTTP status or
a connection failure; `raw`, an exception it lets through, such as a read timeout. Each call says by its
first argument, `mayFail`, whether an `error` or `raw` may come back whether or not the server applied
it. A merge squashes what the source gained since the common ancestor, and is refused if a table changed
on both sides, if there is nothing to merge or if the ancestor is the genesis commit, the defect
`bootstrap_main_if_empty` is for.

**Wap.** One process per run; `pc[r]` is the statement `run_wap` executes next. One action per
statement, with its handler: `EnsureDbtDeps`, `BootstrapMain`, `ReadMain`, `CreateBranch`,
`CreateCatalog`, `DbtRunTable` (one commit per table) and `DbtRunEnds`, `DbtTest`, `ReadBranch`,
`ReadTarget`, `Merge`, `DeleteBranch`, then `CleanupBranch` (the `except WapStageError` block) and
`Finally`. `RaiseStage` and `RaiseRaw` are the two ways out of a statement. `Crash` kills a process
anywhere; `LandMerge` applies a merge whose caller has timed out; `DirectWrite` is one table commit of
a dbt build on `main`. `keep_failed_branch` holds the runs given that option, chosen in `Init`. `audited`
is a history variable: the branch hash the audit passed on. The constant `Unreliable` names the runs whose
calls may fail, lose their reply or land late, and which may be killed. The other runs are answered every
call, next to them, so that what the docstring promises such a run can be stated in any company.

**TimeTravelDemo.** The same store; one action per statement of `run()`. Branch and catalogs have fixed
names, so invocations share them, and nothing cleans up: an invocation that raises and one that is
killed (`Abort`) leave the same behind. A pinned catalog resolves as long as its hash is in the branch's
history. `evidence` is what an invocation has written; `faulty`, `overlapped` and `barred` are history
variables: who saw a fault, who ran next to another, who started with the live catalog registered.

**Ingestion.** `Start` is `run()` up to `pipeline.run`, `Extract(e)` the generator function of one
resource, `EndExtract` the moment dlt seals data and state into one package, `LoadJob(e)` one table's
append, `EndLoad` the package's completion, when dlt stores the state in the destination. dlt's part is
external, modelled from how `ingestion/` relies on it. `Crash`, `MidCommit` (committed, not marked
done) and `LoseDir` (no working directory: fresh clone, CI runner) are the failures; `failures` records
their kinds, so that a property can say under which of them it holds.

**QualityGate, IncrementalFacts.** `BuildSilver(e)` rebuilds: without malformed rows for playback,
deduplicated for billing. `BuildRejects(t)` builds one of the reject tables, or their union once they
exist, at a moment of its own. `BuildFact(e)` creates the fact or merges the silver rows behind
`Watermark(e)`; `Backfill` replaces the watermark by a window; `FullRefresh` recreates. A row is
identified by its key and the copy of the file that delivered it, so `fact[e]` says both which rows were
inserted and which delivery each shows now. `gaps` is a history variable: the facts a backfill took past
rows it left out. A `dbt build` is some of these one after the other, with whatever happens in between.
`scenario` bounds a behaviour and has no counterpart in the code; with `scenario.serial` a fact is only
built on silver that is current, ingestion at rest.

**PointInTime, DimSubscriber, DimTitle, DailySnapshot.** One operator per CTE that decides something:
the ordering of simultaneous events, the changes of status and of the row hash, the previous plan, the
start of a churn spell, the inferred members; the start of the range, the horizon, the days of a life,
the MERGE by (day, key). A surrogate key, a hash in the code, is the pair it hashes: subscriber and
start.

**SubscriberMarts.** `MartsInit` chooses what the sources will send (`feed`); `DeliverChange`,
`DeliverTitle` and `DeliverActivity` bring it to bronze in any order, `NextBatch` separates ingestion
runs. `BuildDim` is silver and both dimensions, rebuilt in full; `MergeFact` resolves the key of new
fact rows against the dimension of the moment, by the exact join or, for the watchlist, the whole-second
one; `BuildSnapshot` is a normal run of the snapshot; `RefreshFact`, `BackfillSnapshot` and
`RefreshSnapshot` are the runs an operator starts. Rows of the fact and of the snapshot carry `seen`,
the history they were computed from, so that a property can tell a row that is wrong from one whose past
was corrected afterwards. The reference the properties compare with (`Past`, `LastChange`, `StatusAt`,
`Expected`) reads the events instant by instant and shares no window function with the model.

**ChangeStreams, Generator.** A life is the sequence of a subscriber's change times with its role
(late, same day, soft or hard delete, plain). `stage` and `batch` are where `run()` is; an action is one
batch of a fact, or the function that ends a fact, and `files` maps the names of the files to their rows.
Three actions write several files: `GenerateSubscribers` two event files and four manifests,
`EndPlayback` the rows left over and the constructed ones, `WriteManifests` the other manifests.
`delayed` is the pool of held-back playback rows,
`found` the manifests in memory, `manifests` those on disk. What the code draws from a seeded generator
is a choice from the small sets of a run configuration: whole percentages of the interval it draws from, a
boolean for a pathology that may or may not strike a row. A row of a fact is a *place*, a file and a line
of it (`Places`, `RowAt`), so that a row written twice counts twice. Filtering by a mask is `Picked`,
which names the places it keeps (`InOrder`) and recurses over nothing; the same-day changes are put in
order by placing two times among times that are in order already (`Placed`). A run may be killed after
any action, which leaves what it wrote, and `Run(c)` starts over and deletes it; an output cut off between
two files of one action is not among the states.

## 3. Runs

| Run | Expect | Shows |
|---|---|---|
| `wap` | pass | two concurrent runs and a direct build, the calls of one run failing, lost or late and itself killed anywhere: what is merged was audited whole (`PublishedWasAudited`), no update is lost (`NoLostUpdate`), early exit codes and exit codes in general are true (`EarlyExitMeansUnpublished`, `ExitCodeTruthful`), a publication nothing raced is sound (`UncontestedPublishIsSound`), `MainOnlyGrows`, and `ImplementsGate`; the run whose calls are answered publishes nothing when it fails (`AnsweredFailureLeavesMainUntouched`), leaves nothing (`NothingLeftBehind`), ends, and publishes what it audited or lost a race (`AuditedPublishesOrLosesRace`) |
| `wap_failed_delete` | violation | a failing branch deletion, or a lost merge reply, ends a published run as a failure |
| `wap_merged_untested` | violation | two audited publications combine into a `main` that fails a test |
| `bronze_to_facts` | pass | ingestion killed anywhere and resumed, here or from a fresh clone, with the gate and the three facts behind it: `LoadedOnce`, `ProcessedStateSound`, `VisibleInOrder`, `EveryFileLoaded`; `WatermarkSkipsNothing`, `OneRowPerId`, `FactNeverGoesBack`, `RowsJudgedOnce`, `EveryRowReachesItsFact` |
| `ingest_clean_machine` | violation | rows and `processed_files` drift apart when a half-loaded package is lost |
| `facts_playback_overlap` | violation | a build during an ingestion run makes the watermark skip that run's rows |
| `marts` | pass | events in any order: `AsOfCorrect` for both dimensions, `OverlaidColumnsCorrect`, `WholeSecondJoinExact`; keys resolve (`ResolvesUnlessEarly`) and stay (`KeyStableUnlessCorrected`); the snapshot keeps its grain and leaves no day out (`SnapshotGrainKept`), is right in its window (`RecentDaysCorrect`) and after a full refresh (`RefreshExact`) |
| `marts_keys` | violation | a key stored while a subscriber was inferred names no row once its events arrive |
| `marts_grain` | violation | a correction within the window leaves two snapshot rows for a subscriber's day |
| `demo` | pass | three invocations, one after the other or overlapping, one cut short anywhere: `EvidenceIsTrue`, `UndisturbedRunSucceeds`, `MainUntouched` |
| `generator` | pass | every draw of seven configurations, killed and started over anywhere: `RowsConserved`, `FactsInsideLifetimes`, `GateMatchesManifest`, `TargetsInsideTheirGap`, `CertainChecksPass` |
| `generator_documented` | violation | a finished output in which a constructed fact is not inside its gap and a hard-deleted subscriber's funnel goes on |

Each passing run also checks its module's type invariant. Each violation is a finding of `PROJECT.json`,
with the line of a doc or comment that says otherwise; that of `generator_documented` is two, since
`AnyPathologyAsDocumented` asks that *one* of two documented promises be kept, and is refuted by an output
that keeps neither:

* `TargetsStrictlyInside`. The two same-day changes are redrawn anywhere on their day
  (`subscribers.py:239-256`), also before a signup of that day. The gap recorded for the constructed fact
  then runs backwards, and `playback.py:381` puts the fact into the signup's second or the next one; when
  both changes precede the signup, that is the newest version, which `playback.py:362-365` rules out.
* `HardDeletedDisappear`. `signup_funnel.py:57-63` adds up to 1.8 days to the signup and reads no cutoff,
  while the cutoff of a hard-deleted subscriber is its last change, which may be its signup.
  `docs/02-data.md:216-218` says that every fact generator truncates at the cutoff.

Every property of a passing run has a mutant, an operator marked "Seeded fault" next to the definition it
replaces, under which TLC finds the property violated.

Some properties carry a condition because TLC showed what happens without it:

* `WatermarkSkipsNothing` leaves out facts in `gaps` (a backfill can move the watermark past a batch that
  was never merged), for the commit-time watermark behaviours that are not `serial` (the finding
  `facts_playback_overlap`), and for the join-recovered one entities whose keys are delivered twice: a
  batch that redelivers a key the fact holds, together with a new key, moves the watermark onto itself
  before the new key is merged.
* `OneRowPerId` asks of the watchlist, whose silver is not deduplicated, that keys come once: otherwise
  the engine refuses the MERGE from then on.
* `NothingLeftBehind` fails for a run whose `CREATE CATALOG` is executed but raises, or whose `DROP`
  fails, and `FailureLeavesMainUntouched` for one whose branch deletion fails (`wap_failed_delete`): both
  are claimed of runs outside of `Unreliable`. The hazards that consist of such a fault are not caught by
  them.
* `SnapshotGrainKept` and `KeyStableUnlessCorrected` are what remains of the two claims `marts_grain` and
  `marts_keys` refute; no day left out is claimed for subscribers that never churned, since a
  reactivation leaves the churned days out until they are regenerated, and only where no backfill or
  refresh was run by hand: a backfill ahead of the last written day does leave the days between out.
* `UndisturbedRunSucceeds` excuses an invocation that found the live catalog registered: nobody drops
  the catalog a killed invocation left, and each later one is refused at `CREATE CATALOG`. The module's
  comment "safely rerunnable" (`time_travel_demo.py:127`) holds for the branch only.
* `TargetsInsideTheirGap` claims a place strictly inside only of gaps of ten seconds or more. The others
  are of same-day subscribers, short or backwards by up to a day, and their facts lie in the signup's
  second or at most eight seconds later.
* `FactsInsideLifetimes` speaks of sessions, transactions and watchlist entries. The milestones of the
  signup funnel are not cut off, at a hard delete or at `now` (`HardDeletedDisappear`).
* `GateMatchesManifest` compares at the one fixed `now`; a row from the generator's future stops being one
  for a gate that runs late enough.
* `RowsConserved` does not ask that playback and billing target different subscribers:
  `billing.py:150-153` says its slice is disjoint, and falls back on the whole pool when it is not.
* `CertainChecksPass` asks for three playback batches for the schema-drift check, and excuses the
  same-day check where the second change was moved to the next day.

### Bounds, and why they are enough

* `wap`: two runs that share one of two tables (`SharedFact`): one conflicting table and one that does not
  is what the merge rules distinguish. One run is `Unreliable`, and keeps failed branches or does not
  (`EitherKept`); the other is neither, so its promises are checked next to the first one's faults.
  Contents are
  `{}` and `{"k"}`, enough for a referential test to pass and to fail. `main` starts at genesis or loaded.
  One direct table write. 583,594 distinct states.
* The single-run violations use one run; `wap_merged_untested` gives each run its own table, which is
  all that is needed to pass the conflict check.
* `bronze_to_facts` has one scenario per question. `Failing`: two tables, a package with jobs in either
  order and a second batch, two failures of any kind, so that one can hit the recovery from another.
  `Serially`: three playback files, one with a malformed row, builds and ingestion taking turns, for the
  liveness of every row. `Revised`: two files, a backfill or full refresh and an append repeated by a
  killed run, in the same regime. `Retried`: a file that delivers a known key with a new one, a repeated
  append and a manual build, overlapping anyhow. `Backfilled`: three watchlist files, every backfill
  window. `Undeduplicated`: a key delivered twice to a model that keeps both. Sessions are sane, from the
  future of one run but not of the next, and malformed in one and in two ways.
* `marts`: `Histories` has every sequence of a signup and two changes of plan and status, with the second
  earlier than, later than or at the instant of the third and sent again in a second batch: the shapes
  that window functions over two neighbours distinguish. `Lives` adds billing before and after the
  changes, a watchlist row, a change earlier on the day of the signup and a subscriber without any
  change event. `Releases` are three metadata events of a title, with ties and a value that returns, in
  two batches. Three days of two instants, so that a day has a change at its end and in its middle; a
  window of two days leaves one day outside it. One backfill or refresh. Two instants to a second as well
  as to a day: the two scales are used by different tables. No change shares the signup's instant: the dbt
  model's comment reports no such tie in the data (`dim_subscriber.sql:66`). Nothing in the generator
  prevents it (`subscribers.py:241-256` draws same-day changes over the whole day, and the fifth
  configuration of `MCGenerator` contains the tie). Activity is delivered once, one dbt build runs at a
  time, and rebuilds silver and both dimensions in one step.
* `demo`: three interchangeable invocations (a symmetry set), so that a third meets the leftovers of an
  overlap of two; one of them killed or hit by a failing call, one direct write. 629,923 distinct states.
* `generator`: three days of platform life with the real constants (seconds, days, minimum and maximum
  delays). Each of the seven configurations gives room to one part: delays that are clamped at the last
  batch, across the schema cutoff, malformed rows next to a hard delete, lives that end in their first
  second or in their first batch, same-day changes at the ends of their day, mid-stream targets for more
  and for fewer candidates than both facts want, duplicates. Draws are the ends of their ranges.
  `generator_documented` has one configuration of its own, `MorningChanges`: one subscriber with same-day
  changes on the morning of the signup's day and one hard-deleted soon after its signup.
* `clock` and histories are bounded by these: each batch and each fact commit takes one tick.

### Fairness

`Wap`: weak fairness of each run's statements: `run_wap` is a straight line of blocking calls, each of
which returns or raises. Nothing is assumed of crashes, late merges or direct writes. `IncrementalFacts`:
weak fairness of a started ingestion run and strong fairness of starting the full pipeline: it is run
again and again (`make seed`, the Dagster asset), never a particular subset; weak fairness of the silver
and reject builds of playback and strong fairness of its fact build, which in the serial regime another
run may keep waiting. Backfills and full refreshes are never assumed. Failures are bounded and not fair.
`SubscriberMarts`, `TimeTravelDemo` and `Generator` state safety only.

## 4. Proofs

**Publishing.** `Nessie_proofs` states what `SetRef`, `DropRef`, `CommonLen`, `AgreeUpTo`, `LastPut`,
`Gained` and `Merged` do to histories. `Wap_proofs` proves for every number of runs,
tables, tests and commits, with faults, crashes and late merges of whichever runs are `Unreliable`:

* `WapInvariant`: `Spec => []WapInv`; from it `TypeCorrect`, `OnlyAuditedIsPublished`
  (`PublishedWasAudited`), `NoUpdateIsLost` (`NoLostUpdate`), `EarlyExitIsSafe`
  (`EarlyExitMeansUnpublished`), `HistoryIsKept` (`MainOnlyGrows`);
* `ExitCodeIsTruthful` (`ExitCodeTruthful`), with `ExitInv` on top;
* of runs outside of `Unreliable`, next to any number of runs inside of it: `FailureIsClean`
  (`AnsweredFailureLeavesMainUntouched`) and `RunsLeaveNothing` (`NothingLeftBehind`);
* `UncontestedIsSound` (`UncontestedPublishIsSound`) and `WapImplementsGate` (`ImplementsGate`).

A published commit is what was audited only if the hash that is merged is the audited one (`AuditInv`),
which holds because nobody but the run writes to its branch (`BranchInv`) and because nothing of the run
is on `main` before (`UnmergedInv`). That the squashed commit replaces exactly the run's scope needs the
branch to share precisely the main it was cut from: that main is still a prefix of `main` (`SeenInv`) and
everything above it on the branch is the run's own (`OwnWork`), so the common ancestor is known and lies
below every conflicting commit, from which `NoLostUpdate` follows. `ControlInv` ties the program counter
to the branch, the exit code and late merges, so that a merge that lands after its caller gave up is
still covered. The last two theorems rest on one lemma, `ContentOverlay`: what a history shows is what
the one below it shows, overlaid with what it gained. So the audited branch is the approved overlay of
`PublishGate`, a passed `dbt test` is `Approve`, an applied merge, in time or late, `Publish`, and every
other step of a run a stutter; and a test the audit did not select does not see the overlay. The two
theorems about cleanup rest on `CleanInv`: the local flags say what exists, the branch that was merged is
still the one `DeleteBranch` names, so the delete after a publication is never refused, and only a run
that did not publish reaches the handler.

**The demonstration.** `MainNeverMoves` (`MainUntouched`): every statement leaves the references alone or
writes the demonstration's own branch, for any number of invocations. `DemoTypeCorrect` (`DemoTypeOK`),
`EvidenceAlwaysTrue` (`EvidenceIsTrue`) and `UndisturbedSucceeds` (`UndisturbedRunSucceeds`) rest on one
observation: nothing in the script is a lock, but `CREATE CATALOG` on a fixed name acts as one. Only one
invocation is between registering the live catalog and dropping it (`HolderInv`), and all that moves the
branch or reads evidence happens there, so the branch and the hashes that invocation captured keep the
shape its program counter says, although every earlier statement may have been overtaken. `CatalogInv`
adds that the as-of catalog is only registered under that lock, and `Progress` what an invocation nobody
disturbed finds at each of its statements; the one way it ends early is a live catalog left behind.

**Bronze to facts.** `FactsInvariant`: `FactSpec => []FactsInv`, for any entities, files, keys, sessions,
policies, failures and scenarios; from it `TypeSafety` (`FactTypeOK`), `NoFileLoadedTwice`
(`LoadedOnce`), `StateIsSound` (`ProcessedStateSound`), `BatchesInOrder` (`VisibleInOrder`),
`FactsKeepOneRow` (`OneRowPerId`), `NothingGoesBack` (`FactNeverGoesBack`) and `GateJudgesOnce`
(`RowsJudgedOnce`). For ingestion the invariant says that a package is complete before its first job runs
and that what is no job any more is loaded (`PackageInv`); that stamps are of the past and that a job
left has rows later than all of its table, but for its own repeated ones (`ClockInv`, `StampInv`); and
that while runs can resume, a file is loaded at most once and only if processed (`ResumeInv`). Behind
bronze it says that silver, the rejects and the facts hold bronze rows the predicate puts there
(`SilverInv`, `RejectsInv`), and that silver holds of each key of a fact a delivery no older than the one
shown (`FactInv`), which is why no merge can go back or be refused.

`WatermarkIsSafe` (`WatermarkSkipsNothing`) adds `WatermarkInv`: rows that come once leave silver no hole
below its newest row, because batches become visible in the order of their stamps (`SilverWhole`, from
`StampInv`); so a fact has none below the newest row it holds, unless a backfill made one (`JoinInv`);
and in the serial regime a batch under way is stamped after every commit of a fact, so that all bronze
rows up to the commit are in it (`CommitInv`).

**Dimensions, stored keys, snapshot.** `SubscriberMarts_proofs` proves every property of the `marts`
run, for any feeds, batches, days, seconds and windows:

* `MartsTypeCorrect` (`MartsTypeOK`), `DimensionsAsOf` (`AsOfCorrect`), `OverlaidColumns`
  (`OverlaidColumnsCorrect`), `WholeSecondJoin` (`WholeSecondJoinExact`), `JoinsResolve`
  (`ResolvesUnlessEarly`), `StoredKeysStable` (`KeyStableUnlessCorrected`);
* under `SignupsUntied`: `SnapshotGrain` (`SnapshotGrainKept`), `RecentDaysTrue` (`RecentDaysCorrect`),
  `RefreshIsExact` (`RefreshExact`).

The state part is short: `MartsInv` says that silver is one copy per id of what the feed sent, and the
dimensions are what the last build made of it. The work is in what that build computes. `NoChange` (a
value that no step of its own changes between two times is the same at both) turns the running counts of
the SQL into order: `VersionsAreOpenings` shows that the versions are the events that differ from their
predecessor, `KnownChained` that each ends where the next begins, and `VersionAt` that the one that covers
an instant says what the last event by then says, which the tie-break makes the last change
(`LastChangeIs`). The overlaid columns compare segment numbers, and `SegmentOrder` and `SameSegment` read
those as times. Of a chain of versions the exact join takes the last one begun (`ChainedCovers`) and so
does the widened one (`ChainedClosest`), from which the two theorems about joins follow.

A stored key is a subscriber and the start of a version. `KeyFromSeen` shows that the version an event
joins begins at the last *turn* of what was known of the subscriber up to then, a function of the history
column `seen` alone. So `FactInv` and `SnapInv`, which say that each stored key is the turn of the `seen`
next to it, survive every rebuild of the dimension, and equal histories mean equal keys. That is the
claim of `KeyStableUnlessCorrected`, and the grain of the snapshot: two rows of a subscriber's day with
one history would have one key, which the MERGE keeps unique (`MergeKeeps`).

`GeneratedIs` and `GeneratedExact` show that a run writes exactly the reference's rows for the days of its
range. That no day is left out needs `GapInv`: the days of a subscriber that never churned are an interval
which reaches the day before the next run's start and begins by its signup or by that start
(`JoinsOn`). It is inductive although the horizon can move *back* (a late event can undo the latest
version), because the start moves with the last day written and not with the horizon (`NoGap`), and
because silver forgets no event (`SilverGrows`), so the roster keeps the subscriber. That last step, and
the exactness of the roster, need `SignupsUntied`: a change at the very instant of a signup, ingested
later, makes the tie-break drop the signup, and the subscriber leaves the snapshot. The dbt model's comment
reports no such tie in the data (`dim_subscriber.sql:66`), and the instance TLC checks assumes the same.

All rest on the assumptions named in the modules and on nothing else: authors of commits are distinct,
scopes are non-empty sets of tables, the initial `main` holds no commit of a run, `Files` and `Ids` are
finite, policies name entities, the gated entity is not deduplicated, scenarios are records. Of the
change events (`FeedAssumption`): ids are places in the stream, no source uses the id of the unknown
member, a subscriber signs up once and the signup carries its own date (`subscribers.py:260-273`).
`MartsBounds` ends the modelled history with the end of a day.

**The generator.** `Generator_proofs` proves every invariant of the `generator` run, for every run
configuration `RunConfigsAssumption` allows, any number of subscribers, titles and rows, any batch sizes
and delays, and any sequence of runs that are killed and started over: `GeneratorInvariant`,
`Spec => []GeneratorInv`, and from it `GeneratorTypeCorrect` (`GenTypeOK`), `NoRowLost`
(`RowsConserved`), `FactsInLifetimes` (`FactsInsideLifetimes`), `GateAgreesWithManifest`
(`GateMatchesManifest`), `TargetsInTheirGap` (`TargetsInsideTheirGap`) and `ChecksPass`
(`CertainChecksPass`).

None of the six is inductive by itself. `GeneratorInv` is:

* `Progress`, `Listings`, `Named`: what has been produced when `run()` is at a stage. Nothing is delayed
  outside of playback, the manifests on disk are the ones that stage has written, and the last regular
  file of a fact is that of the batch before. `Named` is what makes a new file a *new* one (`Fresh`):
  were a name used twice, the rows under it would be overwritten, and no property about rows in files
  would survive the write.
* `Streams`: what the draws make of a life. `WalkPath` shows that the follow-on events rise and stay at or
  below the upper bound, and `DayIs` that a day which begins before a midnight ends by it, so that changes
  redrawn on the day of an earlier one are not after `now` (`SameDayIs`).
* `Held`, `FilesFit`: a delayed row has its own batch's schema and a target within its delays; a row that
  has landed has its file's schema. That no row is left over after the last batch is `Held` at that
  point: every target is at most the last batch, and the pool keeps targets from the next batch on.
* `SessionsFine`, `EventsFine`, `TargetsFine`: rows refer to subscribers there are, lie inside their
  lives, and are malformed the way the manifest in memory says. Ids the manifest names are below the
  number issued, without which a later session could inherit an earlier one's verdict.
* `IdsCounted`: below the number issued every id is counted once, over files and pool, plus its
  repetitions; `CountedMore` is what adding one file does to the count, and `TimesPicked` that a mask and
  its complement share a sequence out between them, which is why peeling, landing and keeping neither
  lose nor repeat a row.
* `SoftDeletesWritten`: the event that says so is in a file, for the soft-delete check.

`StepKeeps` has one lemma per action (`PlaybackBatchKeeps`, `EndBillingKeeps`, ...). The property that
took most is `TargetsInsideTheirGap`: between 10% and 90% of a gap, rounded down twice, is strictly inside
it from ten seconds on, and at most eight seconds from the beginning of a shorter one (`InTheGap`); a
shorter gap can only be made by same-day changes, because a gap is the one between the signup and the
first change, a signup is at least a day before `now`, a hard delete
at least 30% of what remains after it, and the first step 5% of that: more than twenty minutes
(`RunwayIs`, `DrawnIs`).

What this needs of a configuration, with where the code says so: the clocks are in the order of
`config.py:24-58` and `now` is a midnight (`config.py:24`, `GENERATION_NOW`), since a same-day change
can otherwise fall after `now`; the draws lie in the ranges of the calls that make them
(`subscribers.py:193-249`, `titles.py`, `playback.py`); the drift cutoff is 34% to 99%, of which the
presets use 40%; a delay is at least one batch. That the draws are whole percentages is a limit of the
model, and of the theorems.

**Only model-checked:** everything under fairness (`AuditedPublishesOrLosesRace`, `EveryFileLoaded`,
`EveryRowReachesItsFact`), which is out of the prover's reach. Every other property of a passing run is
a theorem. The library's induction theorems cannot be used here, so where a proof is about
a recursive function (the walk of the follow-on events) it takes the least counterexample of a stated set
(`LeastOf`); recursions no property needs, such as the milestones of a signup attempt, TLC evaluates on
its instances only.

## 5. Not modelled

* Contents and formats: hashing, schemas, measures, names and amounts, the evidence's files and summary,
  credentials and network aliases; null device ids; the snapshot's prices and tenure; two billing rows at
  the same instant.
* The generator's seeded draws themselves and its reference tables, and the sanity checks 1, 6, 7 and 11,
  whose outcome depends on luck or on attributes left out. The file for rows still delayed after the last
  batch is modelled and, as `RowsConserved` shows, never written.
* The signup funnel's status, which compares the milestones of one row with the clock; the small
  dimensions, the bridge and the calendar, which are stateless.
* Orchestration, CI and infrastructure: no lock, one graph, two sequential runs of `wap.py`. What may
  overlap for lack of a lock is covered by `Overlapping` and `Wap`'s direct writes.
* A file regenerated under its old name (the generator deletes its output first), two first runs that
  install dbt's packages at once (file system state; a broken install ends in the `dbt-run` stage), the
  internals of Nessie, Trino, dlt and dbt beyond what the code relies on, and the servers' own failures
  other than lost calls. A server restart that loses data is not assumed.

## 6. Plan

1. `SignupFunnel`: status against the clock, rebuilt without new data, and that its milestones rise.
2. The snapshot of a subscriber that comes back after a churn, once the source says what is meant.
3. Real-valued draws in `ChangeStreams`, as any tick between the bounds instead of a whole percentage.
