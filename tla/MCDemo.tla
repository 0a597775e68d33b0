------------------------------- MODULE MCDemo -------------------------------
(* An instance of TimeTravelDemo for TLC: three invocations of the script, *)
(* one of which may be cut short, while main moves once.                   *)
EXTENDS TimeTravelDemo, TLC

CONSTANTS r1, r2, r3

MCRuns == {r1, r2, r3}
MCTables == {Demo}
MCValues == {<< >>, <<Good>>, <<Good, Bad>>}
MCWriters == MCRuns \cup {Schema, DirectBuild}
Interchangeable == Permutations(MCRuns)
=============================================================================
