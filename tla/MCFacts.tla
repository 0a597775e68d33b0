------------------------------ MODULE MCFacts ------------------------------
(* Instances of IncrementalFacts for TLC: three entities, of which each    *)
(* scenario delivers two or three files of one or two rows.                *)
EXTENDS IncrementalFacts, TLC

CONSTANTS billing, playback, watchlist

MCEntities == {billing, playback, watchlist}
MCFiles == MCEntities \X (1..4)
MCEntityOf == [f \in MCFiles |-> f[1]]
Of(e, n) == {f \in MCFiles : f[1] = e /\ f[2] <= n}
MCIds == 1..4
(* Playback rows come once, others again in a later file.                  *)
MCIdsIn ==
    [f \in MCFiles |->
        CASE f = << playback, 3 >> -> {3, 4}
          [] f = << billing, 3 >> -> {1, 3}
          [] f = << watchlist, 4 >> -> {1, 2}
          [] OTHER -> {f[2]}]
MCPlayback == {playback}
MCBilling == {billing}
MCWatchlist == {watchlist}

(* A sane session of no length, one that starts after the first run but    *)
(* before the second, one malformed in two ways, and one that ends before  *)
(* it starts.                                                              *)
MCSessionOf ==
    << [started |-> 1, ended |-> 1, duration |-> 0],
       [started |-> 2, ended |-> 3, duration |-> 1],
       [started |-> 1, ended |-> 0, duration |-> -1],
       [started |-> 1, ended |-> 0, duration |-> 1] >>

AnyFailure == {"crash", "mid_commit", "lost_dir", "lost_package"}
Quiet == [files |-> {}, entities |-> {}, builds |-> {}, serial |-> FALSE, manual |-> 0,
          failures |-> {}, max_failures |-> 0]

Failing == [Quiet EXCEPT !.files = Of(billing, 2) \cup Of(playback, 1),
                         !.entities = {billing, playback},
                         !.failures = AnyFailure, !.max_failures = 2]
Serially == [Quiet EXCEPT !.files = Of(playback, 3), !.entities = {playback},
                          !.builds = {playback}, !.serial = TRUE]
Revised == [Serially EXCEPT !.files = Of(playback, 2), !.manual = 1,
                            !.failures = {"mid_commit"}, !.max_failures = 1]
Retried == [Quiet EXCEPT !.files = {<< billing, 1 >>, << billing, 3 >>},
                         !.entities = {billing}, !.builds = {billing}, !.manual = 1,
                         !.failures = {"mid_commit"}, !.max_failures = 1]
Backfilled == [Quiet EXCEPT !.files = Of(watchlist, 3), !.entities = {watchlist},
                            !.builds = {watchlist}, !.manual = 1]
Undeduplicated == [Backfilled EXCEPT !.files = {<< watchlist, 1 >>, << watchlist, 4 >>}]
Overlapping == [Serially EXCEPT !.files = Of(playback, 2), !.serial = FALSE]

AllScenarios == {Failing, Serially, Revised, Retried, Backfilled, Undeduplicated}
OverlapOnly == {Overlapping}
=============================================================================
