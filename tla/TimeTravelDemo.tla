--------------------------- MODULE TimeTravelDemo ---------------------------
(***************************************************************************)
(* ops/time_travel_demo.py:run, over the Nessie store: a branch off main   *)
(* gets a good and a bad batch, is queried as of the good one, and is      *)
(* rolled back to it.                                                      *)
(*                                                                         *)
(* The branch and both Trino catalogs have fixed names and nothing locks   *)
(* them, so the invocations in Runs, one after the other or overlapping,   *)
(* share them.  No exception is handled but a NessieError of the leftover  *)
(* lookup, and nothing cleans up: an invocation that raises and one that   *)
(* is killed leave the same state behind.  Trino is external.              *)
(***************************************************************************)
EXTENDS Nessie, FiniteSets

CONSTANTS
    Runs,              \* invocations of the script
    Demo,              \* TABLE_NAME; a table's content is its sequence of batches
    Schema,            \* SCHEMA_NAME, the author of the namespace commit
    DirectBuild,       \* a dbt build on main next to the demonstration
    Good, Bad,         \* the two batches
    MaxFaulty,         \* invocations that are killed or see a call fail
    MaxDirectWrites

ASSUME DemoAssumption ==
    /\ Demo \in Tables
    /\ Runs \cup {Schema, DirectBuild} \subseteq Writers
    /\ Runs \cap {Schema, DirectBuild} = {}
    /\ {<< >>, <<Good>>, <<Good, Bad>>} \subseteq Values
    /\ Good # Bad
    /\ MaxFaulty \in Nat /\ MaxDirectWrites \in Nat

BRANCH_NAME == "time_travel_demo"
LIVE_CATALOG == "iceberg_tt_live"
ASOF_CATALOG == "iceberg_tt_asof_good"

Nothing == [i \in {} |-> i]

VARIABLES
    refs,        \* the Nessie references
    catalogs,    \* Trino catalog -> the hash it is pinned to, or "head"
    pc,          \* the statement each invocation is at
    main_ref, existing, hash_good, hash_bad,
    evidence,    \* what each invocation has written to the evidence directory
    faulty,      \* history: invocations killed, or a call of theirs failed
    overlapped,  \* history: invocations that ran while another was running
    barred       \* history: those that found the live catalog registered

localVars == << main_ref, existing, hash_good, hash_bad >>
vars == << refs, catalogs, pc, localVars, evidence, faulty, overlapped, barred >>

Stopped == {"start", "done", "failed"}
Statements ==
    {"read_main", "find_leftover", "delete_leftover", "create_branch", "create_live",
     "create_schema", "create_table", "insert_good", "read_good", "insert_bad",
     "read_bad", "create_asof", "query_asof", "query_before", "rollback",
     "query_after", "history_after", "drop_asof", "drop_live"}
Pinned(h) == [pin |-> h]

DemoTypeOK ==
    /\ {"main"} \subseteq DOMAIN refs /\ DOMAIN refs \subseteq {"main", BRANCH_NAME}
    /\ \A n \in DOMAIN refs : refs[n] \in Hash
    /\ DOMAIN catalogs \subseteq {LIVE_CATALOG, ASOF_CATALOG}
    /\ pc \in [Runs -> Stopped \cup Statements]
    /\ main_ref \in [Runs -> Hash] /\ existing \in [Runs -> Hash]
    /\ hash_good \in [Runs -> Hash] /\ hash_bad \in [Runs -> Hash]
    /\ DOMAIN evidence = Runs
    /\ \A r \in Runs : DOMAIN evidence[r] \subseteq {"asof", "before", "after", "bad_reachable"}
    /\ faulty \subseteq Runs
    /\ overlapped \subseteq Runs /\ barred \subseteq Runs

Init ==
    /\ refs = [n \in {"main"} |-> << >>]
    /\ catalogs = Nothing
    /\ pc = [r \in Runs |-> "start"]
    /\ main_ref = [r \in Runs |-> Genesis]
    /\ existing = main_ref /\ hash_good = main_ref /\ hash_bad = main_ref
    /\ evidence = [r \in Runs |-> Nothing]
    /\ faulty = {}
    /\ overlapped = {} /\ barred = {}

Goto(r, label) == pc' = [pc EXCEPT ![r] = label]
Running(r) == pc[r] \notin Stopped

Start(r) ==
    /\ pc[r] = "start"
    /\ Goto(r, "read_main")
    /\ LET others == {q \in Runs : Running(q)}
       IN  overlapped' = overlapped \cup others \cup (IF others = {} THEN {} ELSE {r})
    /\ barred' = barred \cup (IF LIVE_CATALOG \in DOMAIN catalogs THEN {r} ELSE {})
    /\ UNCHANGED << refs, catalogs, localVars, evidence, faulty >>

(***************************************************************************)
(* A call either succeeds or raises; what raises outside the leftover      *)
(* lookup ends the invocation.  A server call may also fail, or lose its   *)
(* reply, for no reason of its own: that is a fault, "accepted" telling    *)
(* what the server itself answers.  Any invocation may meet one, so every  *)
(* call may fail; Answered counts the invocations that do.                 *)
(***************************************************************************)
At(r, label) == pc[r] = label /\ UNCHANGED << overlapped, barred >>
Statement(r, label) == At(r, label) /\ UNCHANGED faulty

Answered(r, reply, accepted) ==
    /\ faulty' = IF reply = "raw" \/ (reply = "error" /\ accepted)
                 THEN faulty \cup {r} ELSE faulty
    /\ Cardinality(faulty') <= MaxFaulty

ReadHash(r, label, next, name, var) ==
    /\ Statement(r, label)
    /\ IF name \in DOMAIN refs
       THEN var' = [var EXCEPT ![r] = refs[name]] /\ Goto(r, next)
       ELSE Goto(r, "failed") /\ UNCHANGED var
    /\ UNCHANGED << refs, catalogs, evidence >>

ReadMain(r) ==
    /\ ReadHash(r, "read_main", "find_leftover", "main", main_ref)
    /\ UNCHANGED << existing, hash_good, hash_bad >>

(* Seeded fault: a branch of an earlier run is taken over as it is.        *)
FindLeftoverReuses(r) ==
    /\ Statement(r, "find_leftover")
    /\ Goto(r, IF BRANCH_NAME \in DOMAIN refs THEN "create_live" ELSE "create_branch")
    /\ UNCHANGED << refs, catalogs, localVars, evidence >>

(* except nessie.NessieError: pass                                         *)
FindLeftover(r) ==
    /\ At(r, "find_leftover")
    /\ \E reply \in ReadOutcomes(TRUE, refs, BRANCH_NAME) :
        /\ Answered(r, reply, BRANCH_NAME \in DOMAIN refs)
        /\ \/ /\ reply = "ok"
              /\ existing' = [existing EXCEPT ![r] = refs[BRANCH_NAME]]
              /\ Goto(r, "delete_leftover")
           \/ reply = "error" /\ Goto(r, "create_branch") /\ UNCHANGED existing
           \/ reply = "raw" /\ Goto(r, "failed") /\ UNCHANGED existing
    /\ UNCHANGED << refs, catalogs, main_ref, hash_good, hash_bad, evidence >>

DeleteLeftover(r) ==
    /\ At(r, "delete_leftover")
    /\ \E out \in delete_reference(TRUE, refs, BRANCH_NAME, existing[r]) :
        /\ Answered(r, out.reply, Checked(refs, BRANCH_NAME, existing[r]))
        /\ refs' = out.refs
        /\ Goto(r, IF out.reply = "raw" THEN "failed" ELSE "create_branch")
    /\ UNCHANGED << catalogs, localVars, evidence >>

CreateBranch(r) ==
    /\ At(r, "create_branch")
    /\ \E out \in create_branch(TRUE, refs, BRANCH_NAME, main_ref[r]) :
        /\ Answered(r, out.reply, BRANCH_NAME \notin DOMAIN refs)
        /\ refs' = out.refs
        /\ Goto(r, IF out.reply = "ok" THEN "create_live" ELSE "failed")
    /\ UNCHANGED << catalogs, localVars, evidence >>

(* Seeded fault: CREATE CATALOG IF NOT EXISTS.                             *)
CreateCatalogIfMissing(r, label, next, name, target) ==
    /\ Statement(r, label)
    /\ Goto(r, next)
    /\ catalogs' = IF name \in DOMAIN catalogs THEN catalogs ELSE SetRef(catalogs, name, target)
    /\ UNCHANGED << refs, localVars, evidence >>

(* wap._create_catalog: CREATE CATALOG without IF NOT EXISTS.              *)
CreateCatalog(r, label, next, name, target) ==
    /\ Statement(r, label)
    /\ IF name \in DOMAIN catalogs
       THEN Goto(r, "failed") /\ UNCHANGED catalogs
       ELSE Goto(r, next) /\ catalogs' = SetRef(catalogs, name, target)
    /\ UNCHANGED << refs, localVars, evidence >>

(* wap._drop_catalog: DROP CATALOG IF EXISTS.                              *)
DropCatalog(r, label, next, name) ==
    /\ Statement(r, label)
    /\ catalogs' = [c \in DOMAIN catalogs \ {name} |-> catalogs[c]]
    /\ Goto(r, next)
    /\ UNCHANGED << refs, localVars, evidence >>

(***************************************************************************)
(* Statements through a catalog read or extend the history its URI names:  *)
(* the branch, or the branch at a hash that is in its history.             *)
(***************************************************************************)
Reachable(h) ==
    BRANCH_NAME \in DOMAIN refs /\ AgreeUpTo(h, refs[BRANCH_NAME], Len(h))
Resolves(name) ==
    /\ name \in DOMAIN catalogs
    /\ BRANCH_NAME \in DOMAIN refs
    /\ name = ASOF_CATALOG => Reachable(catalogs[name].pin)
Seen(name) == IF name = LIVE_CATALOG THEN refs[BRANCH_NAME] ELSE catalogs[name].pin
HasTable(h) == Demo \in DOMAIN Content(h)

(* Seeded fault: the live catalog's URI names no branch.                   *)
Commit1OnMain(author, puts) ==
    SetRef(refs, "main", Append(refs["main"], [by |-> author, puts |-> puts]))

Commit1(author, puts) ==
    SetRef(refs, BRANCH_NAME, Append(refs[BRANCH_NAME], [by |-> author, puts |-> puts]))

Execute(r, label, next, allowed, after) ==
    /\ Statement(r, label)
    /\ IF Resolves(LIVE_CATALOG) /\ allowed
       THEN refs' = after /\ Goto(r, next)
       ELSE Goto(r, "failed") /\ UNCHANGED refs
    /\ UNCHANGED << catalogs, localVars, evidence >>

CreateSchema(r) ==
    Execute(r, "create_schema", "create_table", TRUE,
            IF Bootstrapped(refs[BRANCH_NAME], Schema) THEN refs ELSE Commit1(Schema, Nothing))
CreateTable(r) ==
    Execute(r, "create_table", "insert_good", ~ HasTable(Seen(LIVE_CATALOG)),
            Commit1(r, [t \in {Demo} |-> << >>]))
(* Seeded fault: an insert is sent twice.                                  *)
InsertTwice(r, label, next, batch) ==
    Execute(r, label, next, HasTable(Seen(LIVE_CATALOG)),
            Commit1(r, [t \in {Demo} |-> Content(Seen(LIVE_CATALOG))[t] \o << batch, batch >>]))

Insert(r, label, next, batch) ==
    Execute(r, label, next, HasTable(Seen(LIVE_CATALOG)),
            Commit1(r, [t \in {Demo} |-> Append(Content(Seen(LIVE_CATALOG))[t], batch)]))

ReadGood(r) ==
    /\ ReadHash(r, "read_good", "insert_bad", BRANCH_NAME, hash_good)
    /\ UNCHANGED << main_ref, existing, hash_bad >>
ReadBad(r) ==
    /\ ReadHash(r, "read_bad", "create_asof", BRANCH_NAME, hash_bad)
    /\ UNCHANGED << main_ref, existing, hash_good >>

(* _trino_query and _write_json                                            *)
Query(r, label, next, name, key) ==
    /\ Statement(r, label)
    /\ IF Resolves(name) /\ HasTable(Seen(name))
       THEN /\ evidence' = [evidence EXCEPT ![r] = SetRef(@, key, Content(Seen(name))[Demo])]
            /\ Goto(r, next)
       ELSE Goto(r, "failed") /\ UNCHANGED evidence
    /\ UNCHANGED << refs, catalogs, localVars >>

Rollback(r) ==
    /\ At(r, "rollback")
    /\ \E out \in assign_reference(TRUE, refs, BRANCH_NAME, hash_bad[r], hash_good[r]) :
        /\ Answered(r, out.reply, Checked(refs, BRANCH_NAME, hash_bad[r]))
        /\ refs' = out.refs
        /\ Goto(r, IF out.reply = "ok" THEN "query_after" ELSE "failed")
    /\ UNCHANGED << catalogs, localVars, evidence >>

(* get_log from the head of the branch                                     *)
HistoryAfter(r) ==
    /\ Statement(r, "history_after")
    /\ IF BRANCH_NAME \in DOMAIN refs
       THEN /\ evidence' = [evidence EXCEPT ![r] =
                               SetRef(@, "bad_reachable", Reachable(hash_bad[r]))]
            /\ Goto(r, "drop_asof")
       ELSE Goto(r, "failed") /\ UNCHANGED evidence
    /\ UNCHANGED << refs, catalogs, localVars >>

(* An invocation is killed, or a call of its raises.                       *)
Abort(r) ==
    /\ Running(r)
    /\ faulty' = faulty \cup {r}
    /\ Cardinality(faulty') <= MaxFaulty
    /\ Goto(r, "failed")
    /\ UNCHANGED << refs, catalogs, localVars, evidence, overlapped, barred >>

DirectWrite ==
    /\ Len(refs["main"]) < MaxDirectWrites
    /\ refs' = SetRef(refs, "main", Append(refs["main"], [by |-> DirectBuild, puts |-> Nothing]))
    /\ UNCHANGED << catalogs, pc, localVars, evidence, faulty, overlapped, barred >>

Step(r) ==
    \/ ReadMain(r) \/ FindLeftover(r) \/ DeleteLeftover(r) \/ CreateBranch(r)
    \/ CreateCatalog(r, "create_live", "create_schema", LIVE_CATALOG, "head")
    \/ CreateSchema(r) \/ CreateTable(r)
    \/ Insert(r, "insert_good", "read_good", Good) \/ ReadGood(r)
    \/ Insert(r, "insert_bad", "read_bad", Bad) \/ ReadBad(r)
    \/ CreateCatalog(r, "create_asof", "query_asof", ASOF_CATALOG, Pinned(hash_good[r]))
    \/ Query(r, "query_asof", "query_before", ASOF_CATALOG, "asof")
    \/ Query(r, "query_before", "rollback", LIVE_CATALOG, "before")
    \/ Rollback(r)
    \/ Query(r, "query_after", "history_after", LIVE_CATALOG, "after")
    \/ HistoryAfter(r)
    \/ DropCatalog(r, "drop_asof", "drop_live", ASOF_CATALOG)
    \/ DropCatalog(r, "drop_live", "done", LIVE_CATALOG)

DemoStep == \E r \in Runs : Start(r) \/ Step(r) \/ Abort(r)
AllEnded == (\A r \in Runs : pc[r] \in {"done", "failed"}) /\ UNCHANGED vars
Next == DemoStep \/ DirectWrite \/ AllEnded

Spec == Init /\ [][Next]_vars

(***************************************************************************)
(* Correctness.                                                            *)
(***************************************************************************)
(* "Everything this script does happens on a dedicated branch, cut from    *)
(* main and never merged back": no step of any invocation moves main.      *)
MainUntouched == [][DemoStep => refs'["main"] = refs["main"]]_vars

(* The evidence an invocation writes is true whatever other invocations do *)
(* to its branch meanwhile: as of hash_good the good batch alone, the live *)
(* branch with the bad batch before the rollback and without it after, and *)
(* the bad commit out of the branch's history.                             *)
Expected == [asof |-> <<Good>>, before |-> <<Good, Bad>>, after |-> <<Good>>,
             bad_reachable |-> FALSE]
EvidenceIsTrue ==
    \A r \in Runs : \A key \in DOMAIN evidence[r] : evidence[r][key] = Expected[key]

(* "Idempotent: if BRANCH_NAME already exists from a previous run, it is   *)
(* deleted and recreated fresh": an invocation that no other overlaps and  *)
(* no fault hits completes its evidence, whatever earlier ones left on the *)
(* branch, unless they left the live catalog registered; then it is        *)
(* refused before it captured anything, and no invocation ever drops that. *)
UndisturbedRunSucceeds ==
    \A r \in Runs \ (faulty \cup overlapped) :
        /\ pc[r] = "failed" => r \in barred /\ evidence[r] = Nothing
        /\ pc[r] = "done" => r \notin barred /\ DOMAIN evidence[r] = DOMAIN Expected
=============================================================================
