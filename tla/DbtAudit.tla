------------------------------ MODULE DbtAudit ------------------------------
(***************************************************************************)
(* What `dbt test --select <scope>` decides (the audit of ops/wap.py).     *)
(*                                                                         *)
(* A test looks at some tables and accepts some of their joint contents: a *)
(* not_null looks at one table, a relationships test at two.  dbt selects  *)
(* a test when any table it looks at is selected (its default, eager,      *)
(* indirect selection), so a relationships test runs for either end.       *)
(***************************************************************************)
EXTENDS Nessie

CONSTANT Tests

ASSUME TestsAssumption == \A q \in Tests : q.over \subseteq Tables

(* Seeded fault: cautious selection, only tests wholly inside the scope.   *)
SelectedCautious(scope) == {q \in Tests : q.over \subseteq scope}

Selected(scope) == {q \in Tests : q.over \cap scope # {}}

(* A test over a table that was never built ends in an error, a failure.   *)
TestPasses(q, content) ==
    /\ q.over \subseteq DOMAIN content
    /\ [t \in q.over |-> content[t]] \in q.accepts

AuditPasses(scope, content) == \A q \in Selected(scope) : TestPasses(q, content)

(* A test fails in front of a reader only when all its tables are there.   *)
Broken(q, content) == q.over \subseteq DOMAIN content /\ ~ TestPasses(q, content)
=============================================================================
