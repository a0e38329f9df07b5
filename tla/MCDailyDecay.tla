---------------------------- MODULE MCDailyDecay ----------------------------
(* Instances of DailyDecay for TLC: a few days are enough, since the code   *)
(* compares dates only with today and with the day after the last run.      *)
EXTENDS DailyDecay
=============================================================================
