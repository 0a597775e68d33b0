---------------------------- MODULE MCGenerator ----------------------------
(* Run configurations for TLC, three days of platform life, each giving    *)
(* room to one part of the generator: the held-back rows, the malformed    *)
(* rows, the pathologies of the subscribers, and the repeated rows.        *)
EXTENDS Generator

OneSession == [playback_sessions |-> 1, billing_ledger |-> 0, watchlist_adds |-> 0, signup_funnel |-> 0]
Twos == [f \in Facts |-> 2]
Plain ==
    [subscribers |-> 1, late |-> 0, same_day |-> 0, soft |-> 0, hard |-> 0, titles |-> 1,
     launch |-> 5 * DaySeconds, now |-> 8 * DaySeconds,
     date_dim_upper_bound |-> 522 * DaySeconds,
     catalog_seed_buffer |-> DaySeconds, catalog_seed_lead_time |-> 2 * DaySeconds,
     rows |-> OneSession, batch_size |-> Twos,
     midstream_playback |-> 0, midstream_billing |-> 0,
     duplicates |-> FALSE, out_of_order |-> FALSE, malformed_playback |-> FALSE,
     delay_batches_min |-> 1, delay_batches_max |-> 2, schema_drift_percent |-> 40,
     signups |-> {50}, step_percents |-> {60}, title_step_percents |-> {70}, delete_percents |-> {30},
     follow_ons |-> {0}, times_of_day |-> {0}, draws |-> {0}, gap_draws |-> {10, 89},
     durations |-> {30}, far |-> {FALSE}]

MCRunConfigs ==
    {[Plain EXCEPT !.rows.playback_sessions = 7, !.out_of_order = TRUE, !.draws = {99}],
     [Plain EXCEPT !.rows.playback_sessions = 4, !.batch_size.playback_sessions = 1,
                   !.out_of_order = TRUE, !.delay_batches_min = 2, !.delay_batches_max = 4,
                   !.draws = {0, 99}],
     [Plain EXCEPT !.rows.playback_sessions = 2, !.batch_size.playback_sessions = 1,
                   !.subscribers = 2, !.hard = 1, !.malformed_playback = TRUE,
                   !.draws = {0, 99}, !.durations = {30, 14400}, !.far = BOOLEAN],
     [Plain EXCEPT !.rows.playback_sessions = 3, !.batch_size.playback_sessions = 1,
                   !.hard = 1, !.follow_ons = {0, 1, 2}, !.signups = {0, 97},
                   !.step_percents = {5, 60}, !.delete_percents = {30, 89}, !.draws = {0, 99},
                   !.midstream_playback = 1, !.rows.watchlist_adds = 1, !.rows.billing_ledger = 1],
     [Plain EXCEPT !.same_day = 1, !.follow_ons = {0, 3},
                   !.signups = {0, 97}, !.step_percents = {5, 60},
                   !.times_of_day = {0, Ticks(5), Day - 1},
                   !.midstream_playback = 1, !.midstream_billing = 2],
     [Plain EXCEPT !.subscribers = 3, !.soft = 1, !.late = 1, !.follow_ons = {0, 2},
                   !.midstream_playback = 1, !.midstream_billing = 2,
                   !.rows.billing_ledger = 1],
     [Plain EXCEPT !.duplicates = TRUE, !.draws = {0, 99}, !.rows.billing_ledger = 3,
                   !.rows.watchlist_adds = 3, !.rows.signup_funnel = 1]}

(* One life of each kind: both changes of a same-day subscriber are redrawn *)
(* to the first seconds of the day it signs up at noon, and a subscriber is *)
(* deleted half an hour after its signup.                                   *)
MorningChanges ==
    {[Plain EXCEPT !.subscribers = 2, !.same_day = 1, !.hard = 1, !.follow_ons = {1},
                   !.step_percents = {5}, !.times_of_day = {Ticks(5)}, !.gap_draws = {10},
                   !.midstream_playback = 1, !.rows.signup_funnel = 2]}
=============================================================================
