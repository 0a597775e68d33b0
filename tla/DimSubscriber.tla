----------------------------- MODULE DimSubscriber -----------------------------
(***************************************************************************)
(* dim_subscriber: the full-refresh Type 6 dimension built from the change *)
(* events of silver_subscriber_events and the ids the facts' silver tables *)
(* mention.  Operators only; each stands for a common table expression of  *)
(* the model, and window functions are sets of rows ordered by time.       *)
(***************************************************************************)
EXTENDS PointInTime

(***************************************************************************)
(* Events.  id orders the rows of a batch; profile stands for the Type 1   *)
(* attributes.  Gold calls a cancelled or deleted subscriber churned.      *)
(***************************************************************************)
GoldStatus(s) == IF s \in {"cancelled", "deleted"} THEN "churned" ELSE s
RawEvents(S) == {[e EXCEPT !.status = GoldStatus(@)] : e \in S}

SameInstant(d, e) == d.sub = e.sub /\ d.at = e.at

(* Seeded fault: the batch is left out of the tie-break.                   *)
AfterIdOnly(e, d) == d.id <= e.id

(* _batch_id first, then the row's position in the batch.                  *)
After(e, d) == d.batch < e.batch \/ (d.batch = e.batch /\ d.id <= e.id)
Filtered(S) ==
    {e \in RawEvents(S) : \A d \in RawEvents(S) : SameInstant(d, e) => After(e, d)}

RowHash(e) == << e.plan, e.status >>
Hashed(F) ==
    {[c \in DOMAIN e \cup {"row_hash"} |-> IF c = "row_hash" THEN RowHash(e) ELSE e[c]] : e \in F}

(***************************************************************************)
(* Versions.  F is a set of hashed events: one per subscriber and instant. *)
(* An event opens a segment of a column when its predecessor has another   *)
(* value there or there is none; the running count of the events that open *)
(* one numbers the segments.                                               *)
(***************************************************************************)
Upto(F, e) == {d \in F : d.sub = e.sub /\ d.at <= e.at}
Lag(F, e) == {d \in F : d.sub = e.sub /\ d.at < e.at /\
                        \A c \in F : c.sub = e.sub /\ c.at < e.at => c.at <= d.at}

Opens(F, e, column) == \A d \in Lag(F, e) : d[column] # e[column]
Segment(F, e, column) == Cardinality({d \in Upto(F, e) : Opens(F, d, column)})

VersionGroup(F, e) ==
    {d \in F : d.sub = e.sub /\ Segment(F, d, "row_hash") = Segment(F, e, "row_hash")}

Versions(F) ==
    {[sub |-> e.sub, plan |-> e.plan, status |-> e.status,
      from |-> Min({d.at : d \in VersionGroup(F, e)}),
      planSegment |-> Segment(F, e, "plan"),
      statusSegment |-> Segment(F, e, "status")] : e \in F}

(***************************************************************************)
(* The columns laid over the versions V of a subscriber.                   *)
(***************************************************************************)
Of(V, s) == {v \in V : v.sub = s}

NextFrom(V, v) == Min({HighDate} \cup {w.from : w \in {u \in Of(V, v.sub) : u.from > v.from}})
ScdVersion(V, v) == Cardinality({w \in Of(V, v.sub) : w.from <= v.from})

(* Seeded fault: lag over the versions, not over the plan segments.        *)
PreviousPlanByVersion(V, v) ==
    LET Prior == {w \in Of(V, v.sub) : w.from < v.from}
    IN  IF Prior = {} THEN None
        ELSE (CHOOSE w \in Prior : \A u \in Prior : u.from <= w.from).plan

PreviousPlan(V, v) ==
    LET Prior == {w \in Of(V, v.sub) : w.planSegment < v.planSegment}
    IN  IF Prior = {} THEN None
        ELSE (CHOOSE w \in Prior : \A u \in Prior : u.planSegment <= w.planSegment).plan

(* Start of the subscriber's last status segment, if that is churned.      *)
ChurnDay(V, s) ==
    LET Last == {v \in Of(V, s) : \A w \in Of(V, s) : w.statusSegment <= v.statusSegment}
    IN  IF \E v \in Last : v.status = "churned"
        THEN Day(Min({v.from : v \in Last})) ELSE NoDay

LatestEvent(F, s) ==
    CHOOSE e \in Of(F, s) : \A d \in Of(F, s) : d.at <= e.at

(* The signup date is that of the earliest signup event left by the        *)
(* tie-break.                                                              *)
SignupDay(F, s) ==
    LET Signups == {e \in Of(F, s) : e.type = "signup"}
    IN  IF Signups = {} THEN NoDay
        ELSE (CHOOSE e \in Signups : \A d \in Signups : e.at <= d.at).signup

(***************************************************************************)
(* The three kinds of rows.  A surrogate key is a hash of the natural key  *)
(* and effective_from.                                                     *)
(***************************************************************************)
RegularRows(S) ==
    LET F == Hashed(Filtered(S))
        V == Versions(F)
    IN  {[sk |-> << v.sub, v.from >>, sub |-> v.sub,
          profile |-> LatestEvent(F, v.sub).profile,
          signup |-> SignupDay(F, v.sub),
          plan |-> v.plan, status |-> v.status,
          currentPlan |-> LatestEvent(F, v.sub).plan,
          previousPlan |-> PreviousPlan(V, v),
          churn |-> ChurnDay(V, v.sub),
          from |-> v.from, to |-> NextFrom(V, v),
          current |-> NextFrom(V, v) = HighDate,
          version |-> ScdVersion(V, v), inferred |-> FALSE] : v \in V}

WholeTime(s, word, key, inferred) ==
    [sk |-> key, sub |-> s, profile |-> IF inferred THEN None ELSE word, signup |-> NoDay,
     plan |-> word, status |-> word, currentPlan |-> word, previousPlan |-> None,
     churn |-> NoDay, from |-> Sentinel, to |-> HighDate, current |-> TRUE,
     version |-> 1, inferred |-> inferred]

(* A subscriber the facts mention and no change event does.                *)
InferredRows(S, ids) ==
    {WholeTime(s, "unknown", << s, Sentinel >>, TRUE) : s \in ids \ {e.sub : e \in S}}

UnknownId == "-1"
UnknownKey == << UnknownId >>
UnknownMember == WholeTime(UnknownId, "Unknown", UnknownKey, FALSE)

(* Seeded fault: no self-heal.                                             *)
DimRowsNoSelfHeal(S, ids) == RegularRows(S) \cup {UnknownMember}

DimRows(S, ids) == RegularRows(S) \cup InferredRows(S, ids) \cup {UnknownMember}
=============================================================================
