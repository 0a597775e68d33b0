---------------------------- MODULE PublishGate ----------------------------
(***************************************************************************)
(* What write-audit-publish promises to a reader of main, without branches,*)
(* catalogs, processes or failures: main is a log; a run's candidate is    *)
(* approved as a whole against some state main has had, and is appended to *)
(* main as a whole, at most once, provided nobody has replaced one of its  *)
(* tables since that state (the first committer wins).                     *)
(***************************************************************************)
EXTENDS DbtAudit

CONSTANTS Runs, Scope, InitialHashes, BootstrapNamespace, DirectBuild

VARIABLES
    main,       \* the history of main
    approved    \* run -> the state of main it saw and the tables it replaces

gateVars == << main, approved >>

Overlay(content, puts) ==
    [t \in DOMAIN content \cup DOMAIN puts |->
        IF t \in DOMAIN puts THEN puts[t] ELSE content[t]]

Init ==
    /\ main \in InitialHashes
    /\ approved = [r \in {} |-> r]

Approve(r) ==
    /\ r \in DOMAIN approved' \ DOMAIN approved
    /\ \E n \in 0..Len(main), puts \in [Scope[r] -> Values] :
        /\ approved' = SetRef(approved, r, [base |-> n, puts |-> puts])
        /\ AuditPasses(Scope[r], Overlay(Content(SubSeq(main, 1, n)), puts))
    /\ UNCHANGED main

Publish(r) ==
    /\ r \in DOMAIN approved
    /\ \A i \in 1..Len(main) : main[i].by # r
    /\ TablesPut(main, approved[r].base + 1, Len(main)) \cap Scope[r] = {}
    /\ main' = Append(main, [by |-> r, puts |-> approved[r].puts])
    /\ UNCHANGED approved

(* Writes that do not pass the gate: the bootstrap namespace, once, and    *)
(* direct dbt builds.                                                      *)
Bootstrap ==
    /\ ~ Bootstrapped(main, BootstrapNamespace)
    /\ main' = Append(main, [by |-> BootstrapNamespace, puts |-> [t \in {} |-> t]])
    /\ UNCHANGED approved

DirectWrite ==
    /\ \E t \in Tables, v \in Values :
        main' = Append(main, [by |-> DirectBuild, puts |-> [x \in {t} |-> v]])
    /\ UNCHANGED approved

Next ==
    \/ \E r \in Runs : Approve(r) \/ Publish(r)
    \/ Bootstrap
    \/ DirectWrite

Spec == Init /\ [][Next]_gateVars
=============================================================================
