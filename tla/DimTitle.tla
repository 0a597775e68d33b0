------------------------------- MODULE DimTitle -------------------------------
(***************************************************************************)
(* dim_title: the full-refresh Type 2 dimension over the metadata events   *)
(* of silver_title_events.  Operators only.  The seven tracked attributes, *)
(* and the hash of them, are one value.                                    *)
(***************************************************************************)
EXTENDS PointInTime

(* The last event of a title at an instant: by batch, then by id.          *)
TitleDeduped(T) ==
    {e \in T : \A d \in T : d.title = e.title /\ d.at = e.at =>
        d.batch < e.batch \/ (d.batch = e.batch /\ d.id <= e.id)}

Predecessor(F, e) ==
    {d \in F : d.title = e.title /\ d.at < e.at /\
               \A c \in F : c.title = e.title /\ c.at < e.at => c.at <= d.at}

(* An event opens a version unless its predecessor has the same hash.      *)
TitleVersions(F) ==
    {e \in F : \A d \in Predecessor(F, e) : d.attributes # e.attributes}

Later(V, v) == {w \in V : w.title = v.title /\ w.at > v.at}

TitleHistory(V) ==
    {[sk |-> << v.title, v.at >>, title |-> v.title, attributes |-> v.attributes,
      from |-> v.at, to |-> Min({HighDate} \cup {w.at : w \in Later(V, v)}),
      current |-> Later(V, v) = {},
      version |-> Cardinality({w \in V : w.title = v.title /\ w.at <= v.at})] : v \in V}

UnknownTitle ==
    [sk |-> << "-1" >>, title |-> "-1", attributes |-> "Unknown",
     from |-> Sentinel, to |-> HighDate, current |-> TRUE, version |-> 1]

TitleRows(T) == TitleHistory(TitleVersions(TitleDeduped(T))) \cup {UnknownTitle}

OfTitle(D, i) == {r \in D : r.title = i}
=============================================================================
