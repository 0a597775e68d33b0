----------------------------- MODULE Generator -----------------------------
(***************************************************************************)
(* generation/generate.py:run: the change streams, the batches of the four *)
(* facts with their pathologies, and the manifests, one file after the     *)
(* other under generation/output/.  What the random generator draws is     *)
(* chosen from the small sets of a run configuration; a fraction is        *)
(* whether any row can have the pathology.                                 *)
(*                                                                         *)
(* An action is one batch, or one function of the generator that ends a    *)
(* fact: GenerateSubscribers writes its two event files and four manifests *)
(* together, EndPlayback the left-over and the constructed rows,           *)
(* WriteManifests the manifests of the facts.  A run may be killed between *)
(* any two actions, which leaves what it wrote: every state of a run is    *)
(* one an aborted run can leave behind, though not every such one is a     *)
(* state.  The next run starts by deleting it all.                         *)
(***************************************************************************)
EXTENDS ChangeStreams, QualityGate

CONSTANT RunConfigs

Facts == {"playback_sessions", "billing_ledger", "watchlist_adds", "signup_funnel"}

(* Both presets of config.py, and the clocks and fractions they share.     *)
ASSUME RunConfigsAssumption ==
    \A c \in RunConfigs :
        /\ DrawsInRange(c)
        /\ {c.late, c.same_day, c.soft, c.hard} \subseteq Nat
        /\ c.catalog_seed_buffer + c.catalog_seed_lead_time <= c.launch
        /\ c.catalog_seed_buffer > 0
        /\ c.launch + 2 * DaySeconds <= c.now /\ c.now % DaySeconds = 0
        /\ c.now + 2 * DaySeconds <= c.date_dim_upper_bound
        /\ c.date_dim_upper_bound \in Nat
        /\ c.rows \in [Facts -> Nat] /\ c.batch_size \in [Facts -> Nat \ {0}]
        /\ {c.midstream_playback, c.midstream_billing} \subseteq Nat
        /\ {c.duplicates, c.out_of_order, c.malformed_playback} \subseteq BOOLEAN
        /\ c.schema_drift_percent \in 34..99
        /\ c.draws \subseteq 0..99 /\ c.gap_draws \subseteq 10..89
        /\ c.durations \subseteq 30..14400 /\ c.far \subseteq BOOLEAN
        /\ {c.delay_batches_min, c.delay_batches_max} \subseteq Nat
        /\ 1 <= c.delay_batches_min /\ c.delay_batches_min <= c.delay_batches_max

VARIABLES
    config,      \* the RunConfig of the current run
    stage,       \* what run() is producing
    batch,       \* the next batch of the fact being produced
    lives,       \* the subscribers' change streams
    titles,      \* the titles' change streams
    files,       \* <<entity, prefix, part>> -> the rows of the file
    issued,      \* fact -> how many ids it has used up
    delayed,     \* delayed_pool: rows with the batch they are to land in
    found,       \* the manifests of the facts, in memory
    manifests    \* the manifests on disk

vars == << config, stage, batch, lives, titles, files, issued, delayed, found, manifests >>

Empty == [i \in {} |-> i]
NothingFound == [malformed |-> << >>, midstream |-> << >>, billing |-> << >>, signup |-> << >>]

(***************************************************************************)
(* What a run is about to produce.                                         *)
(***************************************************************************)
RowCount(fact) == config.rows[fact]
BatchSize(fact) == config.batch_size[fact]
NumBatches(fact) == (RowCount(fact) + BatchSize(fact) - 1) \div BatchSize(fact)
BatchRows(fact, i) == Min({BatchSize(fact), RowCount(fact) - i * BatchSize(fact)})
At(s, fact) == stage = s /\ batch < NumBatches(fact)
AllBatches(s, fact) == stage = s /\ batch = NumBatches(fact)

GoTo(next) == stage' = next /\ batch' = 0
NextBatch == batch' = batch + 1 /\ UNCHANGED stage
Issue(fact, n) == issued' = [issued EXCEPT ![fact] = @ + n]
(* write_batch                                                             *)
WithFile(fs, fact, prefix, part, rows) ==
    [name \in DOMAIN fs \cup {<< fact, prefix, part >>} |->
        IF name = << fact, prefix, part >> THEN rows ELSE fs[name]]
(* Every place a row of the fact is at, a file and a line of it.           *)
FilesOf(fact) == {name \in DOMAIN files : name[1] = fact}
Places(fact) == UNION {{name} \X DOMAIN files[name] : name \in FilesOf(fact)}
RowAt(place) == files[place[1]][place[2]]
Rows(fact) == {RowAt(place) : place \in Places(fact)}

(***************************************************************************)
(* Titles and subscribers.                                                 *)
(***************************************************************************)
GenerateTitles ==
    /\ stage = "titles"
    /\ titles' \in [1..config.titles -> TitleStreams(config)]
    /\ files' = WithFile(files, "title_events", "part", 0, titles')
    /\ GoTo("subscribers")
    /\ UNCHANGED << config, lives, issued, delayed, found, manifests >>

StreamOf(S) == FlattenSeq([i \in DOMAIN lives' |-> IF i \in S THEN EventsOf(i, lives'[i]) ELSE << >>])
Having(ls, role) == {i \in DOMAIN ls : ls[i].role = role}

(* The late subscribers' events go into a file of their own, the last.     *)
GenerateSubscribers ==
    /\ stage = "subscribers"
    /\ lives' \in [1..config.subscribers -> UNION {Lives(config, role) : role \in ToSet(Roles)}]
    /\ [i \in DOMAIN lives' |-> lives'[i].role] \in Assignments(config)
    /\ LET late == Having(lives', "late")
           normal == WithFile(files, "subscriber_events", "part", 0, StreamOf(DOMAIN lives' \ late))
       IN  files' = IF StreamOf(late) = << >> THEN normal
                    ELSE WithFile(normal, "subscriber_events", "part-late", 1, StreamOf(late))
    /\ manifests' = [late |-> Having(lives', "late"), same_day |-> Having(lives', "same_day"),
                     soft |-> Having(lives', "soft"), hard |-> Having(lives', "hard")]
    /\ GoTo("playback")
    /\ UNCHANGED << config, titles, issued, delayed, found >>

(***************************************************************************)
(* Playback: _build_batch_arrays.                                          *)
(***************************************************************************)
SliceStart(i) ==
    config.launch + (i * (config.now - config.launch)) \div NumBatches("playback_sessions")
(* int(lo + u * (hi - lo))                                                 *)
Between(lo, hi, u) == lo + ((Max({hi, lo + 1}) - lo) * u) \div 100

(* Seeded fault: an empty window is widened inside the slice.              *)
StartedInSlice(life, i, u) ==
    Between(Max({Lower(life), SliceStart(i)}), Min({Upper(config, life), SliceStart(i + 1)}), u)

(* Within the batch's time slice, or anywhere in a life outside of it.     *)
Started(life, i, u) ==
    LET lo == Max({Lower(life), SliceStart(i)})
        hi == Min({Upper(config, life), SliceStart(i + 1)})
    IN  IF lo >= hi THEN Between(Lower(life), Upper(config, life), u) ELSE Between(lo, hi, u)

CutoffBatch == (config.schema_drift_percent * NumBatches("playback_sessions")) \div 100
Quality(i) == IF i >= CutoffBatch THEN "drawn" ELSE "no column"

Session(i, id, d) ==
    LET started == Started(lives[d.sub], i, d.u)
    IN  [id |-> id, sub |-> d.sub, started |-> started, ended |-> started + d.duration,
         duration |-> d.duration, quality |-> Quality(i), batch |-> i]

(* Seeded fault: a future start is not kept from the hard-deleted.         *)
MalformationEverywhere(s, kind) == kind

(* Nothing of a hard-deleted subscriber may lie after its deletion.        *)
Malformation(s, kind) ==
    IF kind = "future_timestamp" /\ lives[s.sub].role = "hard" THEN "negative_duration" ELSE kind

(* Seeded fault: the offset is taken off the end, not off the start.       *)
MalformShortened(s, kind, far) ==
    CASE kind = "negative_duration" -> [s EXCEPT !.duration = -@]
      [] kind = "ended_before_started" -> [s EXCEPT !.ended = @ - (IF far THEN 3599 ELSE 60)]
      [] kind = "future_timestamp" ->
            LET start == Min({config.now + (IF far THEN 299 ELSE 1) * DaySeconds,
                              config.date_dim_upper_bound - 7200})
            IN  [s EXCEPT !.started = start, !.ended = start + Max({s.duration, 60})]
      [] OTHER -> s

(* _apply_malformed_rows, on one row; far: the offset drawn is the largest *)
Malform(s, kind, far) ==
    CASE kind = "negative_duration" -> [s EXCEPT !.duration = -@]
      [] kind = "ended_before_started" -> [s EXCEPT !.ended = s.started - (IF far THEN 3599 ELSE 60)]
      [] kind = "future_timestamp" ->
            LET start == Min({config.now + (IF far THEN 299 ELSE 1) * DaySeconds,
                              config.date_dim_upper_bound - 7200})
            IN  [s EXCEPT !.started = start, !.ended = start + Max({s.duration, 60})]
      [] OTHER -> s

(* Seeded fault: a delayed row keeps the schema of its own batch.          *)
FitAsItIs(s, i) == s

(* A delayed row takes on the schema of the batch it lands in.             *)
Fit(s, i) ==
    [s EXCEPT !.quality = IF i < CutoffBatch THEN "no column"
                          ELSE IF @ = "no column" THEN "null" ELSE @]

LastPlayback == NumBatches("playback_sessions") - 1
(* What is drawn for one row of batch i; no delay: the row stays.          *)
SessionDraws(i) ==
    [sub : DOMAIN lives, u : config.draws, duration : config.durations, far : config.far,
     kind : {"sane"} \cup (IF config.malformed_playback THEN RejectionReasons ELSE {}),
     delay : {0} \cup IF config.out_of_order /\ i < LastPlayback
                      THEN config.delay_batches_min..config.delay_batches_max ELSE {}]

(* Seeded fault: the stragglers are not taken out of their own batch.      *)
KeptAll(rows, draws) == rows
(* The rows that stay: table_i.filter(~straggler_mask).                    *)
Kept(rows, draws) == Picked(rows, {k \in DOMAIN rows : draws[k].delay = 0})
Peeled(rows, draws) ==
    Picked([k \in DOMAIN rows |->
               [row |-> rows[k], target |-> Min({batch + draws[k].delay, LastPlayback})]],
           {k \in DOMAIN rows : draws[k].delay > 0})
(* delayed_pool.pop(i), and what the pool is without it                    *)
Landing(pool, i) ==
    Picked([k \in DOMAIN pool |-> Fit(pool[k].row, i)], {k \in DOMAIN pool : pool[k].target = i})
Remaining(pool, i) == Picked(pool, {k \in DOMAIN pool : pool[k].target # i})

PlaybackBatch ==
    /\ At("playback", "playback_sessions")
    /\ \E draws \in [1..BatchRows("playback_sessions", batch) -> SessionDraws(batch)] :
        LET sane == [k \in DOMAIN draws |->
                        Session(batch, issued["playback_sessions"] + k - 1, draws[k])]
            kinds == [k \in DOMAIN draws |-> Malformation(sane[k], draws[k].kind)]
            rows == [k \in DOMAIN draws |-> Malform(sane[k], kinds[k], draws[k].far)]
            bad == [k \in DOMAIN draws |-> [id |-> rows[k].id, kind |-> kinds[k]]]
            pool == delayed \o Peeled(rows, draws)
        IN  /\ files' = WithFile(files, "playback_sessions", "part", batch,
                                 Kept(rows, draws) \o Landing(pool, batch))
            /\ delayed' = Remaining(pool, batch)
            /\ found' = [found EXCEPT !.malformed =
                             @ \o Picked(bad, {k \in DOMAIN kinds : kinds[k] # "sane"})]
            /\ Issue("playback_sessions", Len(draws))
    /\ NextBatch
    /\ UNCHANGED << config, lives, titles, manifests >>

(***************************************************************************)
(* _write_midstream_*_targets: facts put into a gap between two versions.  *)
(***************************************************************************)
(* Seeded fault: the span reaches to the newest version.                   *)
EventInLife(gap, u) ==
    LET from == EpochSecond(gap.from)
    IN  from + (Max({EpochSecond(gap.newer) - from, 2}) * u) \div 100

EventInGap(gap, u) ==
    LET from == EpochSecond(gap.from)
    IN  from + (Max({EpochSecond(gap.to) - from, 2}) * u) \div 100

(* rng.choice without replacement, and where in its gap each one falls     *)
TargetChoices(pool, wanted) ==
    LET count == Min({wanted, Len(pool)})
    IN  {[k \in 1..count |-> [gap |-> pool[which[k]], u |-> u[k]]] :
            which \in Injection(1..count, DOMAIN pool), u \in [1..count -> config.gap_draws]}

TargetId(fact, k) == issued[fact] + k - 1
Target(fact, k, choice) ==
    [fact |-> fact, id |-> TargetId(fact, k), sub |-> choice.gap.sub,
     at |-> EventInGap(choice.gap, choice.u), gap |-> choice.gap]

(* chosen is empty when there is no candidate: then no file is written.    *)
WithTargets(fs, fact, part, rows) ==
    IF rows = << >> THEN fs
    ELSE WithFile(fs, fact, "part-pathology-midstream", part, rows)

SessionAt(target) ==
    [id |-> target.id, sub |-> target.sub, started |-> target.at, ended |-> target.at + 30,
     duration |-> 30, quality |-> "drawn", batch |-> NumBatches("playback_sessions")]

(* Rows still delayed after the last batch go to one more file.            *)
EndPlayback ==
    LET num == NumBatches("playback_sessions")
        leftovers == IF delayed = << >> THEN files
                     ELSE WithFile(files, "playback_sessions", "part", num,
                                   [k \in DOMAIN delayed |-> Fit(delayed[k].row, num)])
    IN  /\ AllBatches("playback", "playback_sessions")
        /\ \E chosen \in TargetChoices(Candidates(lives), config.midstream_playback) :
            LET targets == [k \in DOMAIN chosen |-> Target("playback_sessions", k, chosen[k])]
            IN  /\ files' = WithTargets(leftovers, "playback_sessions", num + 1,
                                            [k \in DOMAIN targets |-> SessionAt(targets[k])])
                /\ found' = [found EXCEPT !.midstream = targets]
                /\ Issue("playback_sessions", Len(targets))
        /\ delayed' = << >>
        /\ GoTo("billing")
        /\ UNCHANGED << config, lives, titles, manifests >>

(***************************************************************************)
(* Billing and watchlist.                                                  *)
(***************************************************************************)
EventDraws(may_repeat) ==
    [sub : DOMAIN lives, u : config.draws,
     again : IF may_repeat THEN BOOLEAN ELSE {FALSE}]
(* A time anywhere between signup and the end of the life.                 *)
Event(id, d) ==
    [id |-> id, sub |-> d.sub,
     at |-> Between(Lower(lives[d.sub]), Upper(config, lives[d.sub]), d.u)]
EventBatch(fact, draws) == [k \in DOMAIN draws |-> Event(issued[fact] + k - 1, draws[k])]
Again(rows, draws) == Picked(rows, {k \in DOMAIN rows : draws[k].again})
Ids(rows) == [k \in DOMAIN rows |-> rows[k].id]

BillingBatch ==
    /\ At("billing", "billing_ledger")
    /\ \E draws \in [1..BatchRows("billing_ledger", batch) -> EventDraws(config.duplicates)] :
        LET rows == EventBatch("billing_ledger", draws)
        IN  /\ files' = WithFile(files, "billing_ledger", "part", batch, rows \o Again(rows, draws))
            /\ found' = [found EXCEPT !.billing = @ \o Ids(Again(rows, draws))]
            /\ Issue("billing_ledger", Len(draws))
    /\ NextBatch
    /\ UNCHANGED << config, lives, titles, delayed, manifests >>

TransactionAt(target) == [id |-> target.id, sub |-> target.sub, at |-> target.at]

(* The candidates after as many as playback wanted, or all of them if      *)
(* there are no more.                                                      *)
EndBilling ==
    LET all == Candidates(lives)
        wanted == config.midstream_playback
        pool == IF Len(all) > wanted THEN SubSeq(all, wanted + 1, Len(all)) ELSE all
    IN  /\ AllBatches("billing", "billing_ledger")
        /\ \E chosen \in TargetChoices(pool, config.midstream_billing) :
            LET targets == [k \in DOMAIN chosen |-> Target("billing_ledger", k, chosen[k])]
            IN  /\ files' = WithTargets(files, "billing_ledger", batch,
                                            [k \in DOMAIN targets |-> TransactionAt(targets[k])])
                /\ found' = [found EXCEPT !.midstream = @ \o targets]
                /\ Issue("billing_ledger", Len(targets))
        /\ GoTo("watchlist")
        /\ UNCHANGED << config, lives, titles, delayed, manifests >>

WatchlistBatch ==
    /\ At("watchlist", "watchlist_adds")
    /\ \E draws \in [1..BatchRows("watchlist_adds", batch) -> EventDraws(FALSE)] :
        /\ files' = WithFile(files, "watchlist_adds", "part", batch,
                             EventBatch("watchlist_adds", draws))
        /\ Issue("watchlist_adds", Len(draws))
    /\ NextBatch
    /\ UNCHANGED << config, lives, titles, delayed, found, manifests >>

(***************************************************************************)
(* The signup funnel, one batch: an attempt reaches its first few          *)
(* milestones, each some time after the one before.                        *)
(***************************************************************************)
Shortest == << 0, 60, 60, 30, 30 >>
Longest == << 0, 21599, 43199, 3599, 86399 >>
Milestones(registered, reached, slow) ==
    LET at[k \in 1..5] ==
            (IF k = 1 THEN registered ELSE at[k - 1]) + (IF slow THEN Longest ELSE Shortest)[k]
    IN  [k \in 1..reached |-> at[k]]
Attempt(id, d) ==
    LET registered == Lower(lives[d.sub])
    IN  [id |-> id, sub |-> IF d.reached > 0 THEN d.sub ELSE 0, at |-> registered,
         attempt_started |-> registered - 300,
         milestones |-> Milestones(registered, d.reached, d.slow)]

SignupFunnel ==
    /\ AllBatches("watchlist", "watchlist_adds")
    /\ \E draws \in [1..RowCount("signup_funnel") ->
                        [sub : DOMAIN lives, reached : 0..5, slow : BOOLEAN,
                         again : IF config.duplicates THEN BOOLEAN ELSE {FALSE}]] :
        LET rows == [k \in DOMAIN draws |-> Attempt(k - 1, draws[k])]
        IN  /\ files' = WithFile(files, "signup_funnel", "part", 0, rows \o Again(rows, draws))
            /\ found' = [found EXCEPT !.signup = Ids(Again(rows, draws))]
            /\ Issue("signup_funnel", Len(draws))
    /\ GoTo("manifests")
    /\ UNCHANGED << config, lives, titles, delayed, manifests >>

WriteManifests ==
    /\ stage = "manifests"
    /\ manifests' = [key \in DOMAIN found \cup DOMAIN manifests |->
                        IF key \in DOMAIN found THEN found[key] ELSE manifests[key]]
    /\ GoTo("done")
    /\ UNCHANGED << config, lives, titles, files, issued, delayed, found >>

(* _reset_output_dir: whatever there is of an earlier run is deleted.      *)
Run(c) ==
    /\ config' = c
    /\ stage' = "titles" /\ batch' = 0
    /\ lives' = << >> /\ titles' = << >>
    /\ files' = Empty
    /\ issued' = [fact \in Facts |-> 0]
    /\ delayed' = << >>
    /\ found' = NothingFound
    /\ manifests' = Empty

Init ==
    /\ config \in RunConfigs
    /\ stage = "absent" /\ batch = 0
    /\ lives = << >> /\ titles = << >>
    /\ files = Empty
    /\ issued = [fact \in Facts |-> 0]
    /\ delayed = << >>
    /\ found = NothingFound
    /\ manifests = Empty

Next ==
    \/ \E c \in RunConfigs : Run(c)
    \/ GenerateTitles \/ GenerateSubscribers
    \/ PlaybackBatch \/ EndPlayback
    \/ BillingBatch \/ EndBilling
    \/ WatchlistBatch \/ SignupFunnel
    \/ WriteManifests

Spec == Init /\ [][Next]_vars

(***************************************************************************)
(* sanity_check.py:run_checks, the checks whose outcome does not depend on *)
(* luck.  A manifest that is missing or empty skips its check.             *)
(***************************************************************************)
Listed(key, nothing) == key \in DOMAIN manifests /\ manifests[key] # nothing

MidstreamCheck ==
    Listed("midstream", << >>) => \A k \in DOMAIN manifests.midstream :
        LET t == manifests.midstream[k]
        IN  \/ \E r \in Rows("playback_sessions") : r.id = t.id /\ r.started = t.at
            \/ \E r \in Rows("billing_ledger") : r.id = t.id /\ r.at = t.at
DuplicateCheck(key, fact) ==
    Listed(key, << >>) => \E p, q \in Places(fact) : p # q /\ RowAt(p).id = RowAt(q).id
SameDayCheck ==
    Listed("same_day", {}) => \E i \in manifests.same_day : \E j, k \in DOMAIN lives[i].changes :
        j # k /\ DayStart(lives[i].changes[j]) = DayStart(lives[i].changes[k])
(* The first and the last regular file.                                    *)
DriftCheck == 0 < CutoffBatch /\ CutoffBatch <= LastPlayback
SoftDeleteCheck ==
    Listed("soft", {}) => \E e \in Rows("subscriber_events") :
        e.sub \in manifests.soft /\ e.deletes
HardDeleteCheck ==
    Listed("hard", {}) => \A r \in Rows("playback_sessions") :
        r.sub \in manifests.hard => Ticks(r.started) <= HardDeleteAt(lives[r.sub])

(***************************************************************************)
(* Correctness.                                                            *)
(***************************************************************************)
HeldBack == [k \in DOMAIN delayed |-> delayed[k].row]
Sessions == Rows("playback_sessions") \cup ToSet(HeldBack)

(* A file's rows all have the columns of its batch; only rows peeled off   *)
(* before the cutoff have a null in the new one.                           *)
GenTypeOK ==
    /\ stage \in {"absent", "titles", "subscribers", "playback", "billing", "watchlist",
                  "manifests", "done"}
    /\ DOMAIN manifests \subseteq {"late", "same_day", "soft", "hard"} \cup DOMAIN NothingFound
    /\ \A k \in DOMAIN delayed : delayed[k].target \in batch..LastPlayback
    /\ \A name \in FilesOf("playback_sessions") : \A k \in DOMAIN files[name] :
          LET r == files[name][k]
          IN  r.quality = IF name[3] < CutoffBatch THEN "no column"
                          ELSE IF r.batch < CutoffBatch THEN "null" ELSE "drawn"

(* Every id issued is in the files once, or still delayed, and once more   *)
(* for each time the manifest of duplicates names it, whatever was held    *)
(* back, clamped and constructed; a held-back row lands within the delay   *)
(* it may have, in a file of the regular batches.                          *)
RowsConserved ==
    LET Count(ids, id) == Cardinality({k \in DOMAIN ids : ids[k] = id})
        Ok(fact, held, again) ==
            LET issued_ids == 0..issued[fact] - 1
            IN  /\ \A row \in Rows(fact) : row.id \in issued_ids
                /\ ToSet(held) \cup ToSet(again) \subseteq issued_ids
                /\ \A id \in issued_ids :
                      Cardinality({p \in Places(fact) : RowAt(p).id = id}) + Count(held, id)
                          = 1 + Count(again, id)
    IN  /\ Ok("playback_sessions", Ids(HeldBack), << >>)
        /\ Ok("billing_ledger", << >>, found.billing)
        /\ Ok("watchlist_adds", << >>, << >>)
        /\ Ok("signup_funnel", << >>, found.signup)
        /\ \A name \in FilesOf("playback_sessions") : name[2] = "part" =>
              \A k \in DOMAIN files[name] :
                  LET behind == name[3] - files[name][k].batch
                  IN  /\ name[3] <= LastPlayback
                      /\ behind = 0 \/ behind >= config.delay_batches_min \/ name[3] = LastPlayback
                      /\ behind <= config.delay_batches_max

(* No playback session, billing transaction or watchlist entry of a        *)
(* subscriber lies before the second of its signup, after its hard delete  *)
(* or after now (a malformed future session apart, which no hard-deleted   *)
(* subscriber has), and every title is in the catalog before any session   *)
(* or watchlist entry: for batches outside of a life, for subscribers      *)
(* deleted as they sign up, for constructed facts.  The fourth fact is not *)
(* covered: a row of the signup funnel starts from the signup's second but *)
(* its later milestones run past a hard delete and past now, see           *)
(* HardDeletedDisappear.                                                   *)
FactsInsideLifetimes ==
    LET Inside(sub, second) ==
            /\ Lower(lives[sub]) <= second /\ second <= config.now
            /\ lives[sub].role = "hard" => Ticks(second) <= HardDeleteAt(lives[sub])
        AfterCatalog(second) == \A i \in DOMAIN titles : Head(titles[i]) < Ticks(second)
    IN  /\ \A s \in Sessions :
              /\ AfterCatalog(s.started)
              /\ Inside(s.sub, s.started) \/ (s.started > config.now /\ lives[s.sub].role # "hard")
        /\ \A b \in Rows("billing_ledger") : Inside(b.sub, b.at)
        /\ \A w \in Rows("watchlist_adds") : Inside(w.sub, w.at) /\ AfterCatalog(w.at)

(* The quality gate, fed at the extraction time, rejects exactly the       *)
(* sessions of the manifest, each for the reason the manifest gives.       *)
GateMatchesManifest ==
    \A s \in Sessions :
        LET kinds == {m.kind : m \in {x \in ToSet(found.malformed) : x.id = s.id}}
        IN  /\ Malformed(s, config.now) <=> kinds # {}
            /\ {reason \in RejectionReasons : RejectedFor(reason, s, config.now)} = kinds

(* A fact constructed for a point-in-time join lies strictly inside of its *)
(* gap, before a version that is still newer, whenever the gap is ten      *)
(* seconds long at least.  The others are gaps of same-day subscribers,    *)
(* whose redrawn changes can come up to a day before the signup or just    *)
(* after it: the gap then runs backwards or is too short, and the fact     *)
(* lands on the signup or at most eight seconds after it, wherever the     *)
(* second change is, see TargetsStrictlyInside.                            *)
TargetsInsideTheirGap ==
    \A k \in DOMAIN found.midstream :
        LET t == found.midstream[k]
        IN  /\ t.gap.to < t.gap.newer
            /\ IF t.gap.to - t.gap.from >= Ticks(10)
               THEN t.gap.from < Ticks(t.at) /\ Ticks(t.at) < t.gap.to
               ELSE /\ lives[t.sub].role = "same_day"
                    /\ t.at - EpochSecond(t.gap.from) \in 0..8

(* On every output that holds all the facts, also one whose run was killed *)
(* before its manifests, the checks that need no luck pass: with three     *)
(* batches at least, and unless both changes of a day were drawn at its    *)
(* last instant and the second one was moved to the next.                  *)
CertainChecksPass ==
    stage \in {"manifests", "done"} =>
        /\ MidstreamCheck
        /\ DuplicateCheck("billing", "billing_ledger") /\ DuplicateCheck("signup", "signup_funnel")
        /\ SameDayCheck \/ \A i \in manifests.same_day : \E k \in DOMAIN lives[i].changes :
                              k > 1 /\ lives[i].changes[k] = DayStart(lives[i].changes[k - 1]) + Day
        /\ NumBatches("playback_sessions") >= 3 => DriftCheck
        /\ SoftDeleteCheck
        /\ HardDeleteCheck

(* "Constructed with an event timestamp sampled strictly inside such a     *)
(* gap", which a correct join resolves to the older version and never to   *)
(* the newest.                                                             *)
TargetsStrictlyInside ==
    \A k \in DOMAIN found.midstream :
        LET t == found.midstream[k]
        IN  t.gap.from < Ticks(t.at) /\ Ticks(t.at) < t.gap.to

(* "Hard-deleted subscribers instead simply stop appearing in any output   *)
(* after a per-subscriber cutoff timestamp": of the signup funnel.         *)
HardDeletedDisappear ==
    \A a \in Rows("signup_funnel") : a.sub \in Having(lives, "hard") =>
        \A k \in DOMAIN a.milestones :
            Ticks(a.milestones[k]) <= HardDeleteAt(lives[a.sub])

(* A finished output keeps one of these two promises at least.  Weaker     *)
(* than either of them: an output that breaks it breaks both.              *)
AnyPathologyAsDocumented ==
    stage = "done" => TargetsStrictlyInside \/ HardDeletedDisappear
=============================================================================
