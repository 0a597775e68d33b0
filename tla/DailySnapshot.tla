----------------------------- MODULE DailySnapshot -----------------------------
(***************************************************************************)
(* fct_daily_subscription_snapshot: the rows one run generates from the    *)
(* dimension D and the billing rows B, for the days of its range.          *)
(* Operators only.                                                         *)
(***************************************************************************)
EXTENDS DimSubscriber

CONSTANT ReprocessWindowDays

ASSUME WindowAssumption == ReprocessWindowDays \in Nat

Known(D) == D \ {UnknownMember}

(* greatest() of a null is null, and no day is at most a null.             *)
HorizonDay(D, B) ==
    IF Known(D) = {} \/ B = {} THEN NoDay
    ELSE Max({Day(r.from) : r \in Known(D)} \cup {Day(b.at) : b \in B})

(* Seeded fault: the run resumes after the last day written.               *)
RangeStartNoWindow(written) ==
    IF written = {} THEN NoDay ELSE Max(written) + 1

(* The first day of a normal incremental run.                              *)
RangeStart(written) ==
    IF written = {} THEN NoDay ELSE Max(written) - (ReprocessWindowDays - 1)

Roster(D) == {r \in D : r.current /\ r.signup # NoDay}

(* Seeded fault: a churned subscriber's last day is left out.              *)
EndDayBeforeChurn(r, horizon) ==
    IF r.status = "churned" /\ r.churn # NoDay THEN Min({r.churn - 1, horizon}) ELSE horizon

EndDay(r, horizon) ==
    IF r.status = "churned" /\ r.churn # NoDay THEN Min({r.churn, horizon}) ELSE horizon

(* The days of each subscriber on the roster within first..last.           *)
SubscriberDays(D, B, first, last) ==
    UNION {{<< r.sub, d >> : d \in Max({r.signup, first})..Min({EndDay(r, HorizonDay(D, B)), last})}
           : r \in Roster(D)}

(* The plan of a subscriber's last billing row at or before t; of several  *)
(* at one instant, the row ingested last.                                  *)
BillingUpto(B, s, t) == {b \in B : b.sub = s /\ b.at <= t}
PlanAt(B, s, t) ==
    LET Past == BillingUpto(B, s, t)
    IN  IF Past = {} THEN UnknownId
        ELSE (CHOOSE b \in Past : \A c \in Past :
                c.at < b.at \/ (c.at = b.at /\ After(b, c))).plan

SnapshotRow(D, B, s, d) ==
    LET Version == Covering(Of(D, s), EndOfDay(d))
    IN  [day |-> d,
         sk |-> IF Version = {} THEN UnknownKey ELSE (CHOOSE r \in Version : TRUE).sk,
         status |-> IF Version = {} THEN "Unknown" ELSE (CHOOSE r \in Version : TRUE).status,
         plan |-> PlanAt(B, s, EndOfDay(d))]

SnapshotRows(D, B, first, last) ==
    {SnapshotRow(D, B, x[1], x[2]) : x \in SubscriberDays(D, B, first, last)}

(* Seeded fault: the plan is part of the unique key.                       *)
SameKeyWithPlan(r, q) == r.day = q.day /\ r.sk = q.sk /\ r.plan = q.plan

(* unique_key = ['snapshot_date_key', 'subscriber_sk']                     *)
SameKey(r, q) == r.day = q.day /\ r.sk = q.sk

MergeRows(T, rows) == {t \in T : ~ \E r \in rows : SameKey(t, r)} \cup rows
=============================================================================
