------------------------------ MODULE PointInTime ------------------------------
(***************************************************************************)
(* Time, and the two joins by which facts find the version of a dimension  *)
(* that was in force at an event.  V is the set of versions of one member, *)
(* each from its `from` up to, and not including, its `to`.                *)
(***************************************************************************)
EXTENDS Integers, FiniteSets, FiniteSetsExt

CONSTANTS
    LastInstant,     \* event times are 0..LastInstant
    PerDay,          \* instants in a calendar day
    PerSecond        \* instants in the second some sources truncate to

ASSUME TimeAssumption ==
    LastInstant \in Nat /\ PerDay \in Nat \ {0} /\ PerSecond \in Nat \ {0}

Instants == 0..LastInstant
Sentinel == -PerDay              \* 1900-01-01, before every event
HighDate == LastInstant + 1      \* 9999-12-31 23:59:59.999999
Day(t) == t \div PerDay
EndOfDay(d) == (d + 1) * PerDay - 1
WholeSecond(t) == t - (t % PerSecond)

(* SQL nulls.                                                              *)
NoDay == -1000
None == "null"

(* Playback, billing and the snapshot: half-open intervals.                *)
Covering(V, t) == {r \in V : r.from <= t /\ t < r.to}

(* Seeded fault: the lower bound is not widened.                           *)
ClosestExact(V, t) == Covering(V, t)

(* Watchlist and signup funnel, whose times are whole seconds: the lower   *)
(* bound is widened by a second, and of several candidates the one that    *)
(* began last is taken.                                                    *)
Candidates(V, t) == {r \in V : r.from <= t + PerSecond /\ t < r.to}
Closest(V, t) == {r \in Candidates(V, t) : \A q \in Candidates(V, t) : q.from <= r.from}
=============================================================================
