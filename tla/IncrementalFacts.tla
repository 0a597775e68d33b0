-------------------------- MODULE IncrementalFacts --------------------------
(***************************************************************************)
(* The incremental facts keyed by a degenerate dimension, downstream of    *)
(* Ingestion: fct_playback_events, fct_billing_transactions and            *)
(* fct_watchlist_adds, each with the silver model it reads.                *)
(*                                                                         *)
(* Silver is rebuilt in full from bronze.  A fact is created from all of   *)
(* silver and from then on MERGEd, by id, with the silver rows ingested    *)
(* after a watermark.  fct_playback_events takes its own last commit time  *)
(* ($snapshots) for the watermark; the other two the latest _ingested_at   *)
(* among the silver rows whose id the fact already holds.  One dbt build   *)
(* of a model runs at a time.                                              *)
(*                                                                         *)
(* Between bronze and the playback silver model stands the quality gate:   *)
(* what its predicate keeps out goes to one of three reject tables, each a *)
(* model built at a time of its own, and from them to their union.         *)
(*                                                                         *)
(* A behaviour is in one of Scenarios, which bounds what is delivered,     *)
(* what fails and what is built by hand; nothing in the code has it.       *)
(***************************************************************************)
EXTENDS Ingestion, FiniteSetsExt, QualityGate

CONSTANTS
    Ids,            \* natural keys of rows
    IdsIn,          \* the keys of the rows in each file
    CommitTime,     \* entities whose fact reads its watermark from $snapshots
    Deduplicated,   \* entities whose silver model keeps one row per key
    BothBounds,     \* entities whose fact ignores a one-sided backfill
    Gated,          \* the entity with the quality gate, playback_sessions
    SessionOf,      \* what the gate judges of each of its rows
    Scenarios

ASSUME IdsInAssumption ==
    /\ IdsIn \in [Files -> SUBSET Ids]
    /\ IsFiniteSet(Files) /\ IsFiniteSet(Ids)
ASSUME PolicyAssumption ==
    /\ CommitTime \cup Deduplicated \cup BothBounds \cup {Gated} \subseteq Entities
    /\ Gated \notin Deduplicated
    /\ SessionOf \in [Ids -> [started : Int, ended : Int, duration : Int]]
(* serial: facts are only built on fresh silver, ingestion at rest; manual *)
(* is the number of backfills and full refreshes.                          *)
ASSUME ScenariosAssumption ==
    Scenarios \subseteq [files : SUBSET Files, entities : SUBSET Entities,
                         builds : SUBSET Entities, serial : BOOLEAN, manual : Nat,
                         failures : SUBSET Failures, max_failures : 0..MaxFailures]

VARIABLES
    scenario,
    silver,      \* the rows of each silver model that was ever built
    rejects,     \* the rows of the reject tables, and of "all", their union
    fact,        \* each fact: the row that inserted it -> the row it now shows
    committed,   \* commit time of each fact's last snapshot; 0: no such table
    manual,      \* backfills and full refreshes so far
    gaps         \* history: facts a backfill took past rows it left out

factVars == << scenario, silver, rejects, fact, committed, manual, gaps >>
allVars == << ingestVars, factVars >>

(* A bronze row: a key, and the copy of the file that delivered it.        *)
Row == [id : Ids, file : Files, copy : Nat]
IngestedAt(r) == bronze[r.file][r.copy]
LatestOf(rows) == Max({0} \cup {IngestedAt(r) : r \in rows})

FactTypeOK ==
    /\ TypeOK
    /\ scenario \in Scenarios
    /\ DOMAIN silver \subseteq Entities /\ \A e \in DOMAIN silver : silver[e] \subseteq Row
    /\ DOMAIN rejects \subseteq RejectionReasons \cup {"all"}
    /\ \A t \in DOMAIN rejects : rejects[t] \subseteq Row
    /\ DOMAIN fact = Entities
    /\ \A e \in Entities : fact[e] \in [DOMAIN fact[e] -> Row] /\ DOMAIN fact[e] \subseteq Row
    /\ committed \in [Entities -> Nat]
    /\ manual \in 0..scenario.manual
    /\ gaps \subseteq Entities

FactInit ==
    /\ Init
    /\ scenario \in Scenarios
    /\ silver = [e \in {} |-> {}]
    /\ rejects = [t \in {} |-> {}]
    /\ fact = [e \in Entities |-> [r \in {} |-> r]]
    /\ committed = [e \in Entities |-> 0]
    /\ manual = 0
    /\ gaps = {}

(***************************************************************************)
(* Silver.  silver_billing_ledger keeps, per key, the row ingested last    *)
(* (of the copies one batch delivered, any: they are the same row);        *)
(* silver_playback_sessions keeps what is not malformed.                   *)
(***************************************************************************)
BronzeRows(e) ==
    UNION {[id : IdsIn[f], file : {f}, copy : 1..Len(bronze[f])] : f \in FilesOf(e)}

SilverRows(e) ==
    IF e = Gated THEN {r \in BronzeRows(e) : ~ Malformed(SessionOf[r.id], IngestedAt(r))}
    ELSE IF e \notin Deduplicated THEN BronzeRows(e)
    ELSE {CHOOSE r \in BronzeRows(e) :
             /\ r.id = i
             /\ \A s \in BronzeRows(e) : s.id = i => IngestedAt(s) <= IngestedAt(r)
          : i \in {r.id : r \in BronzeRows(e)}}

(* A view on a bronze table that was never loaded is an error.             *)
BuildSilver(e) ==
    /\ BronzeRows(e) # {}
    /\ silver' = [t \in DOMAIN silver \cup {e} |->
                      IF t = e THEN SilverRows(e) ELSE silver[t]]
    /\ UNCHANGED << ingestVars, scenario, rejects, fact, committed, manual, gaps >>

(* The int_playback_rejected_* models, and silver_playback_sessions_rejected. *)
RejectRows(table) ==
    IF table = "all" THEN UNION {rejects[reason] : reason \in RejectionReasons}
    ELSE {r \in BronzeRows(Gated) : RejectedFor(table, SessionOf[r.id], IngestedAt(r))}

BuildRejects(table) ==
    /\ IF table = "all" THEN RejectionReasons \subseteq DOMAIN rejects
                        ELSE BronzeRows(Gated) # {}
    /\ rejects' = [t \in DOMAIN rejects \cup {table} |->
                       IF t = table THEN RejectRows(table) ELSE rejects[t]]
    /\ UNCHANGED << ingestVars, scenario, silver, fact, committed, manual, gaps >>

(***************************************************************************)
(* Facts.                                                                  *)
(***************************************************************************)
Holds(f, i) == \E slot \in DOMAIN f : slot.id = i

(* Seeded fault: the watermark is the newest silver row.                   *)
WatermarkOfSilver(e) == LatestOf(silver[e])

Watermark(e) ==
    IF e \in CommitTime THEN committed[e]
    ELSE LatestOf({s \in silver[e] : Holds(fact[e], s.id)})

(* WHEN MATCHED THEN UPDATE, WHEN NOT MATCHED THEN INSERT.                 *)
Upsert(f, rows) ==
    [slot \in DOMAIN f \cup {r \in rows : ~ Holds(f, r.id)} |->
        IF slot \notin DOMAIN f THEN slot
        ELSE IF \E r \in rows : r.id = slot.id
             THEN CHOOSE r \in rows : r.id = slot.id
             ELSE f[slot]]

(* Two source rows on one target row: the engine refuses the statement.    *)
WellDefined(f, rows) ==
    \A r, s \in rows : r.id = s.id /\ Holds(f, r.id) => r = s

(* Seeded fault: incremental_strategy='append'.                            *)
MergeAppends(e, rows) ==
    /\ fact' = [fact EXCEPT ![e] =
                    [slot \in DOMAIN fact[e] \cup rows |->
                        IF slot \in DOMAIN fact[e] THEN fact[e][slot] ELSE slot]]
    /\ committed' = [committed EXCEPT ![e] = IF rows = {} THEN @ ELSE clock]
    /\ clock' = IF rows = {} THEN clock ELSE clock + 1

(* A merge of nothing commits no snapshot.                                 *)
Merge(e, rows) ==
    /\ WellDefined(fact[e], rows)
    /\ fact' = [fact EXCEPT ![e] = Upsert(@, rows)]
    /\ \/ rows = {} /\ UNCHANGED << clock, committed >>
       \/ /\ rows # {}
          /\ committed' = [committed EXCEPT ![e] = clock]
          /\ clock' = clock + 1

AtFactBuild(e) ==
    /\ e \in DOMAIN silver
    /\ scenario.serial => AtRest /\ silver[e] = SilverRows(e)
    /\ UNCHANGED << present, processVars, package, workdir, local, remote, bronze,
                    failures, scenario, silver, rejects >>

(* Seeded fault: a first load is filtered too.                             *)
CreateWatermarked(e) ==
    /\ fact' = [fact EXCEPT ![e] =
                    [r \in {s \in silver[e] : IngestedAt(s) > Watermark(e)} |-> r]]
    /\ committed' = [committed EXCEPT ![e] = clock]
    /\ clock' = clock + 1

Create(e) ==
    /\ fact' = [fact EXCEPT ![e] = [r \in silver[e] |-> r]]
    /\ committed' = [committed EXCEPT ![e] = clock]
    /\ clock' = clock + 1

BuildFact(e) ==
    /\ AtFactBuild(e)
    /\ \/ committed[e] = 0 /\ Create(e)
       \/ /\ committed[e] # 0
          /\ Merge(e, {r \in silver[e] : IngestedAt(r) > Watermark(e)})
    /\ UNCHANGED << manual, gaps >>

Manual ==
    /\ manual < scenario.manual
    /\ manual' = manual + 1

FullRefresh(e) ==
    /\ AtFactBuild(e)
    /\ Manual
    /\ Create(e)
    /\ gaps' = gaps \ {e}

(***************************************************************************)
(* backfill_start and backfill_end: a half-open window replaces the        *)
(* watermark; Omitted leaves a side open.  fct_watchlist_adds falls back   *)
(* on the watermark unless both are given, which BuildFact is.             *)
(***************************************************************************)
Omitted == 0
Window(lo, hi) == {t \in 1..clock : lo <= t /\ (hi = Omitted \/ t < hi)}

Backfill(e, lo, hi) ==
    /\ AtFactBuild(e)
    /\ committed[e] # 0
    /\ IF e \in BothBounds THEN lo # Omitted /\ hi # Omitted
                           ELSE lo # Omitted \/ hi # Omitted
    /\ Manual
    /\ LET rows == {r \in silver[e] : IngestedAt(r) \in Window(lo, hi)}
           next == IF e \in CommitTime /\ rows # {} THEN clock ELSE LatestOf(rows)
           below == {t \in Watermark(e) + 1..next : t \notin Window(lo, hi)}
       IN  /\ Merge(e, rows)
           /\ gaps' = IF \E r \in silver[e] : IngestedAt(r) \in below
                      THEN gaps \cup {e} ELSE gaps

FactStep ==
    \/ \E e \in scenario.builds :
        \/ BuildSilver(e)
        \/ BuildFact(e)
        \/ FullRefresh(e)
        \/ \E lo, hi \in Omitted..clock : Backfill(e, lo, hi)
    \/ \E table \in RejectionReasons \cup {"all"} :
        Gated \in scenario.builds /\ BuildRejects(table)

InScenario ==
    /\ present' \subseteq scenario.files
    /\ selected' \subseteq scenario.entities
    /\ Len(failures') <= scenario.max_failures
    /\ \A k \in DOMAIN failures' : failures'[k] \in scenario.failures

FactNext == (Next /\ InScenario /\ UNCHANGED factVars) \/ FactStep
FactSpec == FactInit /\ [][FactNext]_allVars

(* The pipeline and the models of the gated entity are run again and       *)
(* again, whatever happens between; some of it can only be when nothing    *)
(* else runs.                                                              *)
FactFairness ==
    /\ WF_allVars(RunStep /\ UNCHANGED factVars)
    /\ SF_allVars(Start(scenario.entities) /\ UNCHANGED factVars)
    /\ Gated \in scenario.builds =>
          /\ WF_allVars(BuildSilver(Gated))
          /\ SF_allVars(BuildFact(Gated))
          /\ \A table \in RejectionReasons \cup {"all"} : WF_allVars(BuildRejects(table))
FairFactSpec == FactSpec /\ FactFairness

(***************************************************************************)
(* Correctness.                                                            *)
(***************************************************************************)
(* "The watermark must never skip a row that is genuinely new": what a     *)
(* normal incremental run will not look at, the fact already holds.        *)
NothingSkipped ==
    \A e \in Entities : committed[e] # 0 =>
        \A r \in silver[e] : IngestedAt(r) <= Watermark(e) => Holds(fact[e], r.id)

(* So it is, while no backfill moved the watermark past rows it left out,  *)
(* for a fact with a commit-time watermark that is only built on fresh     *)
(* silver, ingestion at rest, whatever fails and is delivered twice; and   *)
(* for one with a join-recovered watermark also when its builds overlap    *)
(* ingestion in any way, as long as nothing was delivered twice.           *)
DeliveredOnce(e) == \A r, s \in BronzeRows(e) : r.id = s.id => r = s
WatermarkSkipsNothing ==
    \A e \in Entities \ gaps :
        /\ committed[e] # 0
        /\ IF e \in CommitTime THEN scenario.serial ELSE DeliveredOnce(e)
        => \A r \in silver[e] : IngestedAt(r) <= Watermark(e) => Holds(fact[e], r.id)

(* A fact over a deduplicated silver model has one row per natural key and *)
(* its MERGE is never refused, however often the same rows are delivered,  *)
(* merged or backfilled; any other fact as long as they come only once.    *)
OneRowPerId ==
    \A e \in Entities : e \in Deduplicated \/ DeliveredOnce(e) =>
        /\ \A a, b \in DOMAIN fact[e] : a.id = b.id => a = b
        /\ e \in DOMAIN silver => WellDefined(fact[e], silver[e])

(* A merge or a backfill never puts an older delivery of a row back, and a *)
(* row once in a fact never leaves it: not by a merge, a backfill of any   *)
(* window, or a full refresh, which "always loads every silver row".       *)
FactNeverGoesBack ==
    [][/\ \A e \in Deduplicated : \A a \in DOMAIN fact[e], b \in DOMAIN fact'[e] :
             a.id = b.id => IngestedAt(fact[e][a]) <= IngestedAt(fact'[e][b])
       /\ \A e \in Entities : \A a \in DOMAIN fact[e] : Holds(fact'[e], a.id)]_allVars

(* "Every row staged lands in exactly one of the clean model or the        *)
(* rejects model": whenever each of the tables was built, no row is in two *)
(* of them; the counts of the conservation test differ only while one of   *)
(* them is older than the staged rows; no malformed row is in the fact.    *)
GateFresh ==
    /\ Gated \in DOMAIN silver /\ silver[Gated] = SilverRows(Gated)
    /\ "all" \in DOMAIN rejects /\ \A t \in DOMAIN rejects : rejects[t] = RejectRows(t)
RowsJudgedOnce ==
    /\ \A t, u \in DOMAIN rejects \ {"all"} : t # u => rejects[t] \cap rejects[u] = {}
    /\ Gated \in DOMAIN silver =>
          \A t \in DOMAIN rejects : silver[Gated] \cap rejects[t] = {}
    /\ GateFresh => Cardinality(BronzeRows(Gated))
                       = Cardinality(silver[Gated]) + Cardinality(rejects["all"])
    /\ \A a \in DOMAIN fact[Gated] :
          LET r == fact[Gated][a] IN ~ Malformed(SessionOf[r.id], IngestedAt(r))

(* The state dlt keeps of processed files is true of bronze: in step with  *)
(* it once a run that failed was resumed, and never ahead of it.           *)
ProcessedStateSound == InStepWhenResumable /\ SkippedMeansSafe

(* In the serial regime every row of every file that was written is        *)
(* eventually in its fact, or among the rejects, for good, unless a        *)
(* backfill took the watermark past it.                                    *)
Arrived(f, i) ==
    \/ Holds(fact[EntityOf[f]], i)
    \/ "all" \in DOMAIN rejects /\ \E r \in rejects["all"] : r.id = i
EveryRowReachesItsFact ==
    <>[](scenario.serial => \A f \in present : \A i \in IdsIn[f] :
            Arrived(f, i) \/ EntityOf[f] \in gaps)

(***************************************************************************)
(* The inductive invariant behind the safety properties.                   *)
(***************************************************************************)
(* A row of a silver model or a fact is a bronze row the gate lets pass.   *)
Admitted(e, r) ==
    /\ r \in BronzeRows(e)
    /\ e = Gated => ~ Malformed(SessionOf[r.id], IngestedAt(r))

SilverInv ==
    \A e \in DOMAIN silver :
        /\ \A r \in silver[e] : Admitted(e, r)
        /\ e \in Deduplicated => \A r, s \in silver[e] : r.id = s.id => r = s

RejectsInv ==
    /\ "all" \in DOMAIN rejects => RejectionReasons \subseteq DOMAIN rejects
    /\ \A t \in DOMAIN rejects : \A r \in rejects[t] :
          /\ r \in BronzeRows(Gated)
          /\ IF t = "all" THEN Malformed(SessionOf[r.id], IngestedAt(r))
                          ELSE RejectedFor(t, SessionOf[r.id], IngestedAt(r))

(* What a fact shows of a key is a delivery of that key, and silver has    *)
(* one of it that is no older.                                             *)
FactOK(e, f) ==
    /\ \A a \in DOMAIN f :
          /\ a \in BronzeRows(e) /\ Admitted(e, f[a]) /\ f[a].id = a.id
          /\ e \in DOMAIN silver
          /\ \E s \in silver[e] :
                s.id = a.id /\ (e \in Deduplicated => IngestedAt(f[a]) <= IngestedAt(s))
    /\ e \in Deduplicated => \A a, b \in DOMAIN f : a.id = b.id => a = b
FactInv == \A e \in Entities : FactOK(e, fact[e])

(* Rows that come once leave silver no holes below its newest row, and a   *)
(* join-recovered watermark the fact none below its newest.                *)
SilverWhole ==
    \A e \in DOMAIN silver : DeliveredOnce(e) =>
        \A s \in silver[e], r \in BronzeRows(e) :
            Admitted(e, r) /\ IngestedAt(r) <= IngestedAt(s) => r \in silver[e]

JoinInv ==
    \A e \in Entities \ CommitTime : DeliveredOnce(e) /\ e \notin gaps =>
        \A s, r \in BronzeRows(e) :
            Admitted(e, r) /\ Holds(fact[e], s.id) /\ IngestedAt(r) <= IngestedAt(s)
                => Holds(fact[e], r.id)

(* In the serial regime a batch under way is later than every commit of a  *)
(* fact, so all that is not later is in a fact with a commit-time watermark.*)
CommitInv ==
    /\ \A e \in Entities : committed[e] < clock /\ (committed[e] # 0 => e \in DOMAIN silver)
    /\ scenario.serial => \A e \in CommitTime :
          /\ process = "extracting" => committed[e] < stamp
          /\ package # NoPackage => committed[e] < package.stamp
          /\ e \notin gaps => \A r \in BronzeRows(e) :
                Admitted(e, r) /\ IngestedAt(r) <= committed[e] => Holds(fact[e], r.id)

WatermarkInv == SilverWhole /\ JoinInv /\ CommitInv

FactsInv == FactTypeOK /\ IngestInv /\ SilverInv /\ RejectsInv /\ FactInv
=============================================================================
