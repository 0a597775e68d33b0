---------------------------- MODULE SubscriberMarts ----------------------------
(***************************************************************************)
(* The tables built on change events: dim_subscriber and dim_title,        *)
(* rebuilt in full by every dbt build, and two kinds of tables that        *)
(* outlive the subscriber dimension whose keys they store: the facts keyed *)
(* by event, and fct_daily_subscription_snapshot.                          *)
(*                                                                         *)
(* Change events and activity (playback, billing, watchlist) reach bronze  *)
(* in batches, in any order and possibly again in a later batch.  A dbt    *)
(* build rebuilds silver and the dimensions, then what depends on them;    *)
(* each of these may fail or be left out, so they are actions of their     *)
(* own.  One build runs at a time.  Rows new to a fact are found as in    *)
(* IncrementalFacts.                                                       *)
(***************************************************************************)
EXTENDS DailySnapshot, DimTitle

CONSTANTS
    Feeds,        \* what the sources may send: change events, activity, title
                  \* events, the ids of change events sent again, and in how
                  \* many batches
    MaxManual     \* backfills and full refreshes

(* An event's id is its place in the stream.                               *)
OnePerId(rows) == \A r, q \in rows : r.id = q.id => r = q
Stream(E) ==
    /\ IsFiniteSet(E) /\ OnePerId(E)
    /\ \A e \in E : e.id \in 1..Cardinality(E) /\ e.at \in Instants

(* A subscriber signs up once, and the signup says on which day.           *)
SignupEvents(E) == {e \in E : e.type = "signup"}

(* No other change of a subscriber carries the very instant of its signup: *)
(* the tie-break could keep that one and drop the signup.                  *)
SignupsUntied ==
    \A f \in Feeds : \A e \in SignupEvents(f.changes), d \in f.changes :
        SameInstant(d, e) => d = e

ASSUME MartsBounds == MaxManual \in Nat /\ EndOfDay(Day(LastInstant)) = LastInstant
ASSUME FeedAssumption ==
    \A f \in Feeds :
        /\ f.batches \in Nat \ {0}
        /\ Stream(f.changes) /\ Stream(f.activity) /\ Stream(f.titles)
        /\ \A e \in f.changes \cup f.activity : e.sub # UnknownId
        /\ \A e \in f.titles : e.title # UnknownId
        /\ \A e \in SignupEvents(f.changes) : e.signup = Day(e.at)
        /\ \A e, d \in SignupEvents(f.changes) : e.sub = d.sub => e = d

VARIABLES
    feed,         \* what the sources send in this behaviour
    batch,        \* the running ingestion run
    bronze,       \* change events and activity delivered so far, by batch
    silver,       \* the same after deduplication, as of the last build
    dim,          \* dim_subscriber
    dimTitle,     \* dim_title
    fct,          \* activity id -> stored key, and what it was computed from
    snap,         \* fct_daily_subscription_snapshot, likewise
    snapExists,
    manual

vars == << feed, batch, bronze, silver, dim, dimTitle, fct, snap, snapExists, manual >>
tables == << silver, dim, dimTitle, fct, snap, snapExists >>

InBatch(e, b) == [id |-> e.id, sub |-> e.sub, at |-> e.at, type |-> e.type,
                  profile |-> e.profile, signup |-> e.signup,
                  plan |-> e.plan, status |-> e.status, batch |-> b]
ActivityInBatch(a, b) ==
    [id |-> a.id, sub |-> a.sub, at |-> a.at, kind |-> a.kind, plan |-> a.plan, batch |-> b]

SubscribersSent == {e.sub : e \in feed.changes \cup feed.activity}
TitleInBatch(e, b) ==
    [id |-> e.id, title |-> e.title, at |-> e.at, attributes |-> e.attributes, batch |-> b]
Empty == [changes |-> {}, activity |-> {}, titles |-> {}]

MartsInit ==
    /\ feed \in Feeds
    /\ batch = 1
    /\ bronze = Empty
    /\ silver = Empty
    /\ dim = {}
    /\ dimTitle = {}
    /\ fct = << >>
    /\ snap = {}
    /\ snapExists = FALSE
    /\ manual = 0

Key == (SubscribersSent \X (Instants \cup {Sentinel})) \cup {UnknownKey}

MartsTypeOK ==
    /\ feed \in Feeds
    /\ batch \in 1..feed.batches
    /\ bronze.changes \subseteq {InBatch(e, b) : e \in feed.changes, b \in 1..batch}
    /\ bronze.activity \subseteq {ActivityInBatch(a, b) : a \in feed.activity, b \in 1..batch}
    /\ silver.changes \subseteq bronze.changes /\ OnePerId(silver.changes)
    /\ silver.activity \subseteq bronze.activity /\ OnePerId(silver.activity)
    /\ bronze.titles \subseteq {TitleInBatch(e, b) : e \in feed.titles, b \in 1..batch}
    /\ silver.titles \subseteq bronze.titles /\ OnePerId(silver.titles)
    /\ \A r, q \in dimTitle : r.sk = q.sk => r = q
    /\ {r.sk : r \in dim} \subseteq Key
    /\ \A r, q \in dim : r.sk = q.sk => r = q
    /\ \A i \in DOMAIN fct : fct[i].sk \in Key
    /\ \A r \in snap : r.sk \in Key /\ r.day \in 0..Day(LastInstant)
    /\ snapExists \in BOOLEAN
    /\ manual \in 0..MaxManual

(***************************************************************************)
(* Ingestion.                                                              *)
(***************************************************************************)
Delivered(rows, e) == \E r \in rows : r.id = e.id

DeliverChange(e) ==
    /\ Delivered(bronze.changes, e) => e.id \in feed.retried
    /\ bronze' = [bronze EXCEPT !.changes = @ \cup {InBatch(e, batch)}]
    /\ UNCHANGED << feed, batch, tables, manual >>

DeliverActivity(a) ==
    /\ bronze' = [bronze EXCEPT !.activity = @ \cup {ActivityInBatch(a, batch)}]
    /\ UNCHANGED << feed, batch, tables, manual >>

DeliverTitle(e) ==
    /\ ~ Delivered(bronze.titles, e)
    /\ bronze' = [bronze EXCEPT !.titles = @ \cup {TitleInBatch(e, batch)}]
    /\ UNCHANGED << feed, batch, tables, manual >>

NextBatch ==
    /\ batch < feed.batches
    /\ batch' = batch + 1
    /\ UNCHANGED << feed, bronze, tables, manual >>

(***************************************************************************)
(* Silver and the dimensions.                                              *)
(***************************************************************************)
(* Seeded fault: every delivery is kept.                                   *)
NewestCopiesAll(rows) == rows

(* One row per id, the one ingested last.                                  *)
NewestCopies(rows) == {r \in rows : \A q \in rows : q.id = r.id => q.batch <= r.batch}

Subscribers(S) == {a.sub : a \in S.activity}
Billing(S) == {a \in S.activity : a.kind = "billing"}

BuildDim ==
    /\ silver' = [changes |-> NewestCopies(bronze.changes),
                  activity |-> NewestCopies(bronze.activity),
                  titles |-> NewestCopies(bronze.titles)]
    /\ dim' = DimRows(silver'.changes, Subscribers(silver'))
    /\ dimTitle' = TitleRows(silver'.titles)
    /\ UNCHANGED << feed, batch, bronze, fct, snap, snapExists, manual >>

(***************************************************************************)
(* What silver says of a subscriber up to an instant.  `seen` is a history *)
(* column: the state of affairs a stored row was computed from.            *)
(***************************************************************************)
Seen(S, s, t) == {[e EXCEPT !.batch = 0] : e \in {c \in Filtered(S.changes) : c.sub = s /\ c.at <= t}}

(***************************************************************************)
(* Facts keyed by event: subscriber_sk is resolved when the row is merged. *)
(***************************************************************************)
(* Seeded fault: the key of the current version, whatever the time.        *)
KeyOfCurrent(a) ==
    LET Version == {r \in dim : r.sub = a.sub /\ r.current}
    IN  IF Version = {} THEN UnknownKey ELSE (CHOOSE r \in Version : TRUE).sk

Joined(a) ==
    IF a.kind = "watchlist" THEN Closest(Of(dim, a.sub), a.at) ELSE Covering(Of(dim, a.sub), a.at)
KeyOf(a) ==
    LET Version == Joined(a)
    IN  IF Version = {} THEN UnknownKey ELSE (CHOOSE r \in Version : TRUE).sk

(* The last instant at which a change can matter to the row's join.        *)
JoinsUpto(a) == IF a.kind = "watchlist" THEN a.at + PerSecond ELSE a.at

Merged(rows) ==
    [i \in DOMAIN fct \cup {a.id : a \in rows} |->
        IF \E a \in rows : a.id = i
        THEN LET a == CHOOSE a \in rows : a.id = i
             IN  [sk |-> KeyOf(a), sub |-> a.sub, at |-> a.at, kind |-> a.kind,
                  seen |-> Seen(silver, a.sub, JoinsUpto(a))]
        ELSE fct[i]]

MergeFact ==
    /\ dim # {}
    /\ fct' = Merged({a \in silver.activity : a.id \notin DOMAIN fct})
    /\ UNCHANGED << feed, batch, bronze, silver, dim, dimTitle, snap, snapExists, manual >>

Manual ==
    /\ manual < MaxManual
    /\ manual' = manual + 1

(* --full-refresh, or a backfill window over everything.                   *)
RefreshFact ==
    /\ dim # {} /\ fct # << >>
    /\ Manual
    /\ fct' = Merged(silver.activity)
    /\ UNCHANGED << feed, batch, bronze, silver, dim, dimTitle, snap, snapExists >>

(***************************************************************************)
(* The daily snapshot.                                                     *)
(***************************************************************************)
WithSeen(rows) ==
    {[day |-> r.day, sk |-> r.sk, status |-> r.status, plan |-> r.plan,
      seen |-> Seen(silver, r.sk[1], EndOfDay(r.day))] : r \in rows}

Written == {r.day : r \in snap}
Generated(first, last) == WithSeen(SnapshotRows(dim, Billing(silver), first, last))
Horizon == HorizonDay(dim, Billing(silver))

SnapshotBuilt(rows) ==
    /\ dim # {}
    /\ snap' = rows
    /\ snapExists' = TRUE
    /\ UNCHANGED << feed, batch, bronze, silver, dim, dimTitle, fct >>

BuildSnapshot ==
    /\ SnapshotBuilt(IF snapExists THEN MergeRows(snap, Generated(RangeStart(Written), Horizon))
                                   ELSE Generated(NoDay, Horizon))
    /\ UNCHANGED manual

(* backfill_start_date and backfill_end_date, inclusive.                   *)
BackfillSnapshot(first, last) ==
    /\ snapExists
    /\ Manual
    /\ SnapshotBuilt(MergeRows(snap, Generated(first, last)))

RefreshSnapshot ==
    /\ snapExists
    /\ Manual
    /\ SnapshotBuilt(Generated(NoDay, Horizon))

MartsNext ==
    \/ \E e \in feed.changes : DeliverChange(e)
    \/ \E a \in feed.activity : DeliverActivity(a)
    \/ \E e \in feed.titles : DeliverTitle(e)
    \/ NextBatch
    \/ BuildDim
    \/ MergeFact
    \/ RefreshFact
    \/ BuildSnapshot
    \/ \E first, last \in 0..Day(LastInstant) : BackfillSnapshot(first, last)
    \/ RefreshSnapshot

MartsSpec == MartsInit /\ [][MartsNext]_vars

(***************************************************************************)
(* Reference: what the change events say, instant by instant.              *)
(***************************************************************************)
Past(s, t) == {c \in silver.changes : c.sub = s /\ c.at <= t}
LastChange(s, t) ==
    CHOOSE c \in Past(s, t) : \A d \in Past(s, t) :
        \/ d.at < c.at
        \/ d.at = c.at /\ d.batch < c.batch
        \/ d.at = c.at /\ d.batch = c.batch /\ d.id <= c.id
StatusAt(s, t) == GoldStatus(LastChange(s, t).status)
SubscribersKnown == {c.sub : c \in silver.changes}
IsChurned(s) == StatusAt(s, LastInstant) = "churned"
ChurnedSince(s) ==
    Min({t \in Instants : Past(s, t) # {} /\ \A u \in t..LastInstant : StatusAt(s, u) = "churned"})

ExpectedDays(s) ==
    UNION {c.signup..Min({Horizon, IF IsChurned(s) THEN Day(ChurnedSince(s)) ELSE Horizon})
           : c \in {e \in silver.changes : e.sub = s /\ e.type = "signup"}}
Expected ==
    UNION {{[day |-> d, sub |-> s, status |-> StatusAt(s, EndOfDay(d)),
             plan |-> PlanAt(Billing(silver), s, EndOfDay(d))] : d \in ExpectedDays(s)}
           : s \in SubscribersKnown}
BySubscriber(T) == {[day |-> r.day, sub |-> r.sk[1], status |-> r.status, plan |-> r.plan] : r \in T}

(***************************************************************************)
(* Correctness of the dimension.                                           *)
(***************************************************************************)
TitlePast(i, t) == {c \in silver.titles : c.title = i /\ c.at <= t}
LastTitleChange(i, t) ==
    CHOOSE c \in TitlePast(i, t) : \A d \in TitlePast(i, t) :
        \/ d.at < c.at
        \/ d.at = c.at /\ d.batch < c.batch
        \/ d.at = c.at /\ d.batch = c.batch /\ d.id <= c.id
TitlesKnown == {c.title : c \in silver.titles}

(* Whatever the order and the batches in which events arrive, exactly one  *)
(* version covers each instant from the first known change on, of a        *)
(* subscriber with the plan and status then in force, of a title with its  *)
(* attributes, through ties across batches and values that return; no      *)
(* version repeats the one before.                                         *)
AsOfCorrect ==
    /\ \A s \in SubscribersKnown : \A t \in Instants :
          IF Past(s, t) = {} THEN Covering(Of(dim, s), t) = {}
          ELSE \E r \in dim :
                  /\ Covering(Of(dim, s), t) = {r}
                  /\ r.plan = LastChange(s, t).plan
                  /\ r.status = StatusAt(s, t)
    /\ \A r, q \in dim : r.sub = q.sub /\ r.to = q.from => RowHash(r) # RowHash(q)
    /\ \A i \in TitlesKnown : \A t \in Instants :
          {r.attributes : r \in Covering(OfTitle(dimTitle, i), t)} =
             IF TitlePast(i, t) = {} THEN {} ELSE {LastTitleChange(i, t).attributes}
    /\ \A r, q \in dimTitle : r.title = q.title /\ r # q =>
          /\ r.to <= q.from \/ q.to <= r.from
          /\ r.to = q.from => r.attributes # q.attributes

(* The columns laid over the versions.  previous_plan_tier is the plan     *)
(* held before the current one, through any number of changes of status    *)
(* alone; churn_date_key is the day the present spell of being churned     *)
(* began, through cancellation and deletion, null after a reactivation.    *)
LastOtherPlan(r) ==
    LET Others == {c \in {LastChange(r.sub, t) :
                             t \in {u \in Instants : u <= r.from /\ Past(r.sub, u) # {}}} :
                     c.plan # r.plan}
    IN  IF Others = {} THEN None
        ELSE (CHOOSE c \in Others : \A d \in Others : d.at <= c.at).plan

OverlaidColumnsCorrect ==
    \A r \in dim : r.sub \in SubscribersKnown =>
        /\ r.previousPlan = LastOtherPlan(r)
        /\ r.churn = IF IsChurned(r.sub) THEN Day(ChurnedSince(r.sub)) ELSE NoDay

(* The join of events whose time was truncated to the second, in watchlist *)
(* and funnel: it finds the version in force at the event itself, also     *)
(* when that began after the truncated time, unless another one begins in  *)
(* what is left of the widened second.                                     *)
WholeSecondJoinExact ==
    \A V \in {Of(dim, s) : s \in SubscribersKnown} \cup {OfTitle(dimTitle, i) : i \in TitlesKnown} :
        \A t \in Instants :
            (\A r \in V : ~ (t < r.from /\ r.from <= WholeSecond(t) + PerSecond)) =>
                Closest(V, WholeSecond(t)) = Covering(V, t)

(***************************************************************************)
(* Correctness of the keys that outlive a build of the dimension.          *)
(***************************************************************************)
(* The self-heal: no row of a fact's source is without its subscriber, and *)
(* its point-in-time join finds exactly one version, unless the row is     *)
(* older than the subscriber's first known change.                         *)
ResolvesUnlessEarly ==
    \A a \in silver.activity :
        /\ \E r \in dim : r.sub = a.sub
        /\ \/ Cardinality(Joined(a)) = 1
           \/ a.sub \in SubscribersKnown /\ Past(a.sub, JoinsUpto(a)) = {}

(* A key stored in a fact still names the version that covers the event,   *)
(* however many builds and later changes followed, as long as what is      *)
(* known up to the event's time has not been corrected.                    *)
KeyStableUnlessCorrected ==
    \A i \in DOMAIN fct :
        LET f == fct[i] IN
        f.seen # {} /\ f.seen = Seen(silver, f.sub, JoinsUpto(f)) =>
            \E r \in Joined(f) : r.sk = f.sk

(* "So the point-in-time interval join in every downstream fact always     *)
(* resolves": every stored key names a row of the dimension.               *)
StoredKeysResolve ==
    \A i \in DOMAIN fct : \E r \in dim : r.sk = fct[i].sk

(***************************************************************************)
(* Correctness of the daily snapshot.                                      *)
(***************************************************************************)
(* Grain: "one row per subscriber per calendar day".                       *)
OneRowPerSubscriberDay ==
    \A r, q \in snap : r.day = q.day /\ r.sk[1] = q.sk[1] => r = q

(* A second row for a subscriber's day only comes from a correction of     *)
(* what was known of that day, and normal runs leave no day out between    *)
(* two of a subscriber that never churned, however far the horizon moves   *)
(* between runs.                                                           *)
NeverChurned(s) == \A c \in silver.changes : c.sub = s => GoldStatus(c.status) # "churned"
DaysOf(s) == {r.day : r \in {q \in snap : q.sk[1] = s}}
SnapshotGrainKept ==
    /\ \A r, q \in snap : r.day = q.day /\ r.sk[1] = q.sk[1] /\ r.seen = q.seen => r = q
    /\ manual = 0 =>
         \A s \in {u \in SubscribersKnown : NeverChurned(u)} :
            \A d1, d2 \in DaysOf(s) : d1..d2 \subseteq DaysOf(s)

(* After a normal run the days of the reprocess window and all later ones  *)
(* hold the true status and plan of every subscriber, whatever corrections *)
(* arrived.                                                                *)
RecentDaysCorrect ==
    [][BuildSnapshot =>
         \A x \in Expected :
            (\A d \in Written : d - x.day < ReprocessWindowDays) => x \in BySubscriber(snap')]_vars

(* A full refresh yields exactly the days of each subscriber's life with   *)
(* the status and plan then in force.                                      *)
RefreshExact ==
    [][RefreshSnapshot => BySubscriber(snap') = Expected]_vars
=============================================================================
