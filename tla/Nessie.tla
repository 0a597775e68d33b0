------------------------------- MODULE Nessie -------------------------------
(***************************************************************************)
(* The Nessie reference store as ops/nessie.py calls it.                   *)
(*                                                                         *)
(* A Nessie hash names a commit and, through it, the whole history below   *)
(* it.  A hash is therefore represented BY that history: the sequence of   *)
(* commits from the server's genesis commit, the empty sequence, up to the *)
(* named one.  "refs" is a partial function from reference names to        *)
(* hashes; a name outside its domain does not exist on the server.  The    *)
(* module has no variables: Wap and TimeTravelDemo own the store.          *)
(*                                                                         *)
(* The server is external.  What it accepts is what the client's comments, *)
(* written against the running server, say it accepts.                     *)
(***************************************************************************)
EXTENDS Naturals, Sequences

CONSTANTS
    Tables,      \* table keys of the Iceberg catalog
    Values,      \* the contents a table can have
    Writers      \* who can author a commit

(* One commit: its author and the tables it replaces.                      *)
Commit == [by : Writers, puts : UNION {[S -> Values] : S \in SUBSET Tables}]
Hash == Seq(Commit)
Genesis == << >>

(* The tables a history puts at positions m..n, and the content a reader   *)
(* of a hash sees: for each table the last commit that put it.             *)
TablesPut(h, m, n) == UNION {DOMAIN h[i].puts : i \in m..n}
LastPut(h, t) ==
    CHOOSE i \in 1..Len(h) :
        /\ t \in DOMAIN h[i].puts
        /\ \A j \in (i + 1)..Len(h) : t \notin DOMAIN h[j].puts
Content(h) == [t \in TablesPut(h, 1, Len(h)) |-> h[LastPut(h, t)].puts[t]]

(* How many commits two histories share.                                   *)
AgreeUpTo(a, b, n) ==
    /\ n <= Len(a) /\ n <= Len(b)
    /\ \A i \in 1..n : a[i] = b[i]
CommonLen(a, b) ==
    CHOOSE n \in 0..Len(a) :
        AgreeUpTo(a, b, n) /\ ~ AgreeUpTo(a, b, n + 1)

(***************************************************************************)
(* The reference table.                                                    *)
(***************************************************************************)
SetRef(refs, name, h) ==
    [n \in DOMAIN refs \cup {name} |-> IF n = name THEN h ELSE refs[n]]
DropRef(refs, name) == [n \in DOMAIN refs \ {name} |-> refs[n]]

(* {ref}@{hash}: the reference exists and still points where the caller    *)
(* last saw it.                                                            *)
Checked(refs, name, expected) ==
    name \in DOMAIN refs /\ refs[name] = expected

(***************************************************************************)
(* A mutating call either succeeds or raises.  One that may fail can raise *)
(* whether or not the server applied it: "error" is a NessieError (any     *)
(* HTTP status or a connection failure), "raw" is an exception _call does  *)
(* not translate, such as a read timeout.  before and after are the        *)
(* reference tables without and with the call applied.  Whether a call may *)
(* fail is a matter of its caller, so every call is told by mayFail.       *)
(***************************************************************************)
CallOutcomes(mayFail, accepted, before, after) ==
    (IF accepted THEN {[reply |-> "ok", refs |-> after]}
                 ELSE {[reply |-> "error", refs |-> before]})
    \cup
    (IF mayFail
     THEN [reply : {"error", "raw"},
           refs : IF accepted THEN {before, after} ELSE {before}]
     ELSE {})

(* A read changes nothing and reports what the server holds, or raises.    *)
ReadOutcomes(mayFail, refs, name) ==
    (IF name \in DOMAIN refs THEN {"ok"} ELSE {"error"})
    \cup (IF mayFail THEN {"error", "raw"} ELSE {})

create_branch(mayFail, refs, name, source) ==
    CallOutcomes(mayFail, name \notin DOMAIN refs, refs,
                 SetRef(refs, name, source))

delete_reference(mayFail, refs, name, expected) ==
    CallOutcomes(mayFail, Checked(refs, name, expected), refs,
                 DropRef(refs, name))

assign_reference(mayFail, refs, name, expected, target) ==
    CallOutcomes(mayFail, Checked(refs, name, expected), refs,
                 SetRef(refs, name, target))

(***************************************************************************)
(* A merge squashes what the source gained since the common ancestor into  *)
(* one commit on the target.  It is refused when the target moved past the *)
(* hash the caller expects, when a table changed on both sides since the   *)
(* ancestor (REFERENCE_CONFLICT), when there is nothing to merge, and when *)
(* the ancestor is the genesis commit (the 0.108.4 defect that             *)
(* bootstrap_main_if_empty works around).                                  *)
(***************************************************************************)
Gained(h, base) ==
    [t \in TablesPut(h, base + 1, Len(h)) |-> Content(h)[t]]

(* Seeded fault: merging with Nessie's FORCE mode, conflicts overwritten.   *)
KeyConflictForced(target, source, base) == FALSE

KeyConflict(target, source, base) ==
    TablesPut(target, base + 1, Len(target))
        \cap TablesPut(source, base + 1, Len(source)) # {}

Mergeable(target, source) ==
    LET base == CommonLen(target, source) IN
    /\ base > 0
    /\ Len(source) > base
    /\ ~ KeyConflict(target, source, base)

Merged(target, source, author) ==
    Append(target, [by |-> author,
                    puts |-> Gained(source, CommonLen(target, source))])

(* Seeded fault: publishing by assigning main to the branch's hash.        *)
merge_branch_by_assign(mayFail, refs, target, expected, source, fromHash, author) ==
    assign_reference(mayFail, refs, target, expected, fromHash)

merge_branch(mayFail, refs, target, expected, source, fromHash, author) ==
    CallOutcomes(
        mayFail,
        /\ Checked(refs, target, expected)
        /\ source \in DOMAIN refs
        /\ Mergeable(expected, fromHash),
        refs,
        SetRef(refs, target, Merged(expected, fromHash, author)))

(***************************************************************************)
(* bootstrap_main_if_empty creates one namespace on main; HTTP 409, the    *)
(* namespace is already there, counts as success.                          *)
(***************************************************************************)
Bootstrapped(h, namespace) == \E i \in 1..Len(h) : h[i].by = namespace

bootstrap_main_if_empty(mayFail, refs, namespace) ==
    LET created == Append(refs["main"], [by |-> namespace, puts |-> [t \in {} |-> t]])
    IN  IF Bootstrapped(refs["main"], namespace)
        THEN CallOutcomes(mayFail, TRUE, refs, refs)
        ELSE CallOutcomes(mayFail, TRUE, refs, SetRef(refs, "main", created))
=============================================================================
