---------------------------- MODULE MCIngestion ----------------------------
(* Instances of Ingestion for TLC: two tables with two files each.         *)
EXTENDS Ingestion, TLC

CONSTANTS billing, playback

MCEntities == {billing, playback}
MCFiles == MCEntities \X {1, 2}
MCEntityOf == [f \in MCFiles |-> f[1]]
CleanMachine == {"crash", "lost_package"}
AnyFailure == {"crash", "mid_commit", "lost_dir", "lost_package"}
=============================================================================
