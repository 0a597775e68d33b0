--------------------------- MODULE ChangeStreams ---------------------------
(***************************************************************************)
(* generation/subscribers.py and titles.py: the change events of one       *)
(* subscriber and of one title, from the values the random generator       *)
(* draws.  Times are ticks, PerSecond of them to a second; what the facts  *)
(* see of them is cut down to whole seconds (timeutil.to_epoch_s).         *)
(*                                                                         *)
(* A run configuration c is a record of RunConfig's fields with, next to   *)
(* them, the small sets the draws are made from.                           *)
(***************************************************************************)
EXTENDS Integers, FiniteSetsExt, SequencesExt

CONSTANT PerSecond
ASSUME PerSecondAssumption == PerSecond \in Nat \ {0}

Ticks(seconds) == seconds * PerSecond
DaySeconds == 86400
Day == Ticks(DaySeconds)
DayStart(t) == t - (t % Day)
EpochSecond(t) == t \div PerSecond

(* The numbers of a finite set from the smallest on, and the items of a    *)
(* sequence at those places: what filtering it by a mask leaves.           *)
InOrder(S) == [k \in 1..Cardinality(S) |-> CHOOSE i \in S : Cardinality({j \in S : j <= i}) = k]
Picked(s, S) == LET places == InOrder(S) IN [k \in DOMAIN places |-> s[places[k]]]

(***************************************************************************)
(* Follow-on events: each a percentage of what remains until upper after   *)
(* the one before, until no more than a minute remains.                    *)
(***************************************************************************)
Walk(first, upper, percents) ==
    LET to[k \in 0..Len(percents)] ==
            IF k = 0 THEN << first >>
            ELSE LET remaining == upper - Last(to[k - 1])
                 IN  IF remaining <= Ticks(60) THEN to[k - 1]
                     ELSE Append(to[k - 1],
                                 Last(to[k - 1]) + (remaining * percents[k]) \div 100)
    IN  Tail(to[Len(percents)])

(***************************************************************************)
(* Subscribers.                                                            *)
(***************************************************************************)
(* take(): slices of one permutation, so nobody has two pathologies.       *)
Roles == << "late", "same_day", "soft", "hard", "plain" >>
Taken(c) ==
    LET wanted == << c.late, c.same_day, c.soft, c.hard, c.subscribers >>
        upto[k \in 0..5] == IF k = 0 THEN 0 ELSE Min({upto[k - 1] + wanted[k], c.subscribers})
    IN  [k \in 1..5 |-> upto[k] - upto[k - 1]]
Assignments(c) ==
    {roles \in [1..c.subscribers -> ToSet(Roles)] :
        \A k \in 1..5 : Quantify(1..c.subscribers, LAMBDA i : roles[i] = Roles[k]) = Taken(c)[k]}

(* The ranges of what is drawn for subscribers and titles: u in [0, 1),    *)
(* uniform(0.05, 0.6), uniform(0.1, 0.7), uniform(0.3, 0.9), poisson, and  *)
(* a time of day.                                                          *)
DrawsInRange(c) ==
    /\ {c.launch, c.now, c.catalog_seed_buffer, c.catalog_seed_lead_time} \subseteq Nat
    /\ {c.subscribers, c.titles} \subseteq Nat /\ c.follow_ons \subseteq Nat
    /\ c.signups \subseteq 0..99 /\ c.delete_percents \subseteq 30..90
    /\ c.step_percents \subseteq 5..60 /\ c.title_step_percents \subseteq 10..70
    /\ c.times_of_day \subseteq 0..Day - 1

SignupAt(c, percent) ==
    Min({Ticks(c.launch) + (Ticks(c.now - c.launch) * percent) \div 100, Ticks(c.now) - Day})

(* sorted(), for one time among times that are in order                    *)
Placed(t, times) == InsertAt(times, 1 + Cardinality({k \in DOMAIN times : times[k] < t}), t)

(* The first two changes are redrawn anywhere on the day of the first,     *)
(* which may be before the signup, and after some of the changes that are  *)
(* left.                                                                   *)
SameDay(timestamps, times) ==
    LET day == DayStart(timestamps[1])
        a == day + Min(times)
        b == day + Max(times)
    IN  Placed(a, Placed(IF a = b THEN b + 1 ELSE b, SubSeq(timestamps, 3, Len(timestamps))))

Life(c, role, signup, delete_percent, percents, times) ==
    LET upper == IF role = "hard"
                 THEN signup + ((Ticks(c.now) - signup) * delete_percent) \div 100
                 ELSE Ticks(c.now)
        drawn == Walk(signup, upper, percents)
    IN  [role |-> role,
         changes |-> << signup >> \o
             IF role = "same_day" /\ Len(drawn) >= 2 THEN SameDay(drawn, times) ELSE drawn]

AtLeast(role) == CASE role = "same_day" -> 2 [] role = "soft" -> 1 [] OTHER -> 0

(* Every life the draws allow a subscriber of that role.                   *)
Lives(c, role) ==
    {Life(c, role, SignupAt(c, signup), delete_percent, percents, times) :
        signup \in c.signups,
        delete_percent \in IF role = "hard" THEN c.delete_percents ELSE {0},
        percents \in UNION {[1..Max({count, AtLeast(role)}) -> c.step_percents] :
                                count \in c.follow_ons},
        times \in IF role = "same_day" THEN {{a, b} : a, b \in c.times_of_day} ELSE {{0}}}

Signup(life) == Head(life.changes)
HardDeleteAt(life) == Last(life.changes)
(* signup_epoch_s and upper_bound_epoch_s                                  *)
Lower(life) == EpochSecond(Signup(life))
Upper(c, life) == IF life.role = "hard" THEN EpochSecond(HardDeleteAt(life)) ELSE c.now

(* A subscriber with two changes at least: its first gap is one a fact can *)
(* be put into that must not resolve to the newest version.                *)
Candidate(i, life) ==
    [sub |-> i, from |-> life.changes[1], to |-> life.changes[2], newer |-> Last(life.changes)]
Candidates(lives) ==
    Picked([i \in DOMAIN lives |-> Candidate(i, lives[i])],
           {i \in DOMAIN lives : Len(lives[i].changes) >= 3})

(* The events as written: the last one of a soft-deleted subscriber says   *)
(* so, a signup never does.                                                *)
EventsOf(i, life) ==
    [k \in DOMAIN life.changes |->
        [sub |-> i, at |-> life.changes[k],
         deletes |-> life.role = "soft" /\ k > 1 /\ k = Len(life.changes)]]

(***************************************************************************)
(* Titles: added in a window that closes a buffer before the launch.       *)
(***************************************************************************)
CatalogAddAt(c, percent) ==
    LET end == Ticks(c.launch - c.catalog_seed_buffer)
        start == end - Ticks(c.catalog_seed_lead_time)
    IN  Min({start + ((end - start) * percent) \div 100, end})

TitleStreams(c) ==
    {<< CatalogAddAt(c, percent) >> \o Walk(CatalogAddAt(c, percent), Ticks(c.now), percents) :
        percent \in c.signups,
        percents \in UNION {[1..count -> c.title_step_percents] : count \in c.follow_ons}}
=============================================================================
