---------------------------- MODULE QualityGate ----------------------------
(***************************************************************************)
(* The predicates of the playback quality gate: the macro that keeps a row *)
(* out of silver_playback_sessions and the three int_playback_rejected_*   *)
(* models that must take it instead.  A session is judged by its duration, *)
(* its start and end, and the stamp of the run that ingested it.           *)
(***************************************************************************)
EXTENDS Integers

NegativeDuration(s) == s.duration < 0
EndedBeforeStarted(s) == s.duration >= 0 /\ s.ended < s.started
FutureTimestamp(s, ingested) ==
    s.duration >= 0 /\ s.ended >= s.started /\ s.started > ingested

RejectionReasons == {"negative_duration", "ended_before_started", "future_timestamp"}

(* The rows each int_playback_rejected_* model selects.                    *)
RejectedFor(reason, s, ingested) ==
    \/ reason = "negative_duration" /\ NegativeDuration(s)
    \/ reason = "ended_before_started" /\ EndedBeforeStarted(s)
    \/ reason = "future_timestamp" /\ FutureTimestamp(s, ingested)

(* Seeded fault: a session that ends when it starts is malformed, too.     *)
MalformedAtEqualEnds(s, ingested) ==
    s.duration < 0 \/ s.ended <= s.started \/ s.started > ingested

(* playback_malformed_predicate()                                          *)
Malformed(s, ingested) ==
    s.duration < 0 \/ s.ended < s.started \/ s.started > ingested
=============================================================================
