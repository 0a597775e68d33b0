------------------------------- MODULE MCMarts -------------------------------
(* Instances of SubscriberMarts for TLC: one subscriber who signs up and   *)
(* changes twice, one whose change events never come, one title; three     *)
(* days of two instants.                                                   *)
EXTENDS SubscriberMarts, TLC

SignUp(t) == [id |-> 1, sub |-> "s", at |-> t, type |-> "signup", profile |-> "p1",
              signup |-> Day(t), plan |-> "basic", status |-> "trial"]
Change(i, t, p, st) == [id |-> i, sub |-> "s", at |-> t, type |-> "change",
                        profile |-> IF i = 2 THEN "p2" ELSE "p3",
                        signup |-> 0, plan |-> p, status |-> st]

Three(first, t, u, k) == {SignUp(first), Change(2, t, k[1], k[2]), Change(3, u, k[3], k[4])}

(* Every short history, to build the dimension from: later, earlier than   *)
(* and at the same instant as each other; a change of status, of plan, of  *)
(* both, of neither, back again; one event may be sent again in a later    *)
(* batch.                                                                  *)
AllKinds == {"basic", "pro"} \X {"active", "cancelled", "deleted"}
            \X {"basic", "pro"} \X {"trial", "active", "deleted"}
Histories ==
    {[changes |-> Three(0, t, u, k), activity |-> {}, titles |-> {}, retried |-> {2}, batches |-> 2] :
        t \in {1, 3}, u \in {3, 5}, k \in AllKinds}

(* Some of them with activity, for the tables that store keys; once with a *)
(* change earlier on the day of the signup, as the generator can draw it.   *)
Kinds == {<< "basic", "active", "basic", "deleted" >>,
          << "pro", "trial", "pro", "active" >>,
          << "basic", "cancelled", "basic", "deleted" >>,
          << "basic", "cancelled", "pro", "active" >>}
Active(t, kind) ==
    {[id |-> 1, sub |-> "s", at |-> t, kind |-> kind, plan |-> "m1"],
     [id |-> 2, sub |-> "r", at |-> 4, kind |-> "billing", plan |-> "m2"]}
Life(first, t, u, k, activity) ==
    [changes |-> Three(first, t, u, k), activity |-> activity, titles |-> {},
     retried |-> {}, batches |-> 1]
Lives ==
    {Life(0, t[1], t[2], k, Active(1, "billing")) : t \in {<< 1, 3 >>, << 3, 5 >>}, k \in Kinds}
    \cup {Life(0, 3, 5, << "pro", "trial", "pro", "active" >>, Active(2, "watchlist")),
          Life(1, 0, 4, << "pro", "trial", "pro", "deleted" >>, Active(3, "billing"))}

(* Titles: three metadata events at the same or at different instants, an  *)
(* attribute that returns, in two batches.                                 *)
Releases ==
    {[changes |-> {}, activity |-> {}, retried |-> {}, batches |-> 2,
      titles |-> {[id |-> i, title |-> "t", at |-> t[i], attributes |-> a[i]] : i \in 1..3}] :
        t \in [1..3 -> {1, 4}], a \in {<< "x", "y", "x" >>, << "x", "x", "y" >>, << "x", "y", "y" >>}}

AllFeeds == Histories \cup Lives \cup Releases

ASSUME FeedsUntied == SignupsUntied
=============================================================================
