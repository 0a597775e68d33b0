------------------------------- MODULE MCWap -------------------------------
(***************************************************************************)
(* Instances of Wap for TLC: a dimension and a fact that references it.    *)
(* A content is the set of keys a table holds, BadKey standing for the row *)
(* the wap_demo_inject_bad_row variable injects.                           *)
(***************************************************************************)
EXTENDS Wap, TLC

CONSTANTS r1, r2, dim, fact

MCTables == {dim, fact}
MCValues == {{}, {"k"}, {"bad"}}
SmallValues == {{}, {"k"}}
MCRuns == {r1, r2}
OneRun == {r1}
NoRun == {}
NoneKept == {{}}
EitherKept == {{}, {r1}}
MCWriters == Runs \cup {BootstrapNamespace, DirectBuild}

BothTables == [r \in MCRuns |-> MCTables]
EachOwnTable == [r \in MCRuns |-> IF r = r1 THEN {dim} ELSE {fact}]
SharedFact == [r \in MCRuns |-> IF r = r1 THEN {fact} ELSE {dim, fact}]
OnlyDim == [r \in OneRun |-> {dim}]

(* not_null on the dimension, relationships from the fact to it.           *)
NotNullDim ==
    [over |-> {dim}, accepts |-> {c \in [{dim} -> MCValues] : "bad" \notin c[dim]}]
Relationships ==
    [over |-> MCTables,
     accepts |-> {c \in [MCTables -> MCValues] : c[fact] \subseteq c[dim]}]
MCTests == {NotNullDim, Relationships}

(* A new repository, and a main holding a dimension and an empty fact.     *)
Loaded ==
    << [by |-> DirectBuild,
        puts |-> [t \in MCTables |-> IF t = dim THEN {"k"} ELSE {}]] >>
NewRepository == {Genesis}
LoadedMain == {Loaded}
EitherMain == {Genesis, Loaded}
=============================================================================
