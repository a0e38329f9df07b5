------------------------------ MODULE DailyDecay ------------------------------
(***************************************************************************)
(* The daily decay of the memories' importance                             *)
(* (core/schedulers/decay_scheduler.py): once a day at 00:05, with a       *)
(* catch-up when the plugin starts, driven by the date in                  *)
(* decay_state.json.  The wall clock moves on between any two steps, and   *)
(* the plugin may be stopped or killed at any of them.                     *)
(*                                                                         *)
(* A run of d days that the code bases on day u is counted for the days    *)
(* u-d+1 .. u.  What is counted is compared with the days there were: the  *)
(* history sets `excused' and `lost' hold the days for which a cause known *)
(* to the reader of the code (below, at the action that has it) makes the  *)
(* count differ from one.                                                  *)
(***************************************************************************)
EXTENDS Integers

CONSTANTS
  CanStop,       \* the plugin may be stopped or killed
  CanFail,       \* decay, reading or writing the state file may fail
  CanOversleep,  \* the loop may wake up days late: the machine was suspended
  CanWakeEarly,  \* or before the time it computed: a slow or set-back clock
  MaxDay         \* bound: days

ASSUME DecayAssumption ==
  /\ MaxDay \in Nat \ {0}
  /\ CanStop \in BOOLEAN /\ CanFail \in BOOLEAN /\ CanOversleep \in BOOLEAN /\ CanWakeEarly \in BOOLEAN

Days == 1..MaxDay

VARIABLES
  day, late,   \* the wall clock: the date, and whether it is 00:05 or later
  file,        \* last_decay_date in the state file; 0 when there is none
  sched,       \* the scheduler's coroutine
  runs,        \* history: how often a day was decayed, 2 meaning more than once
  since,       \* history: the first day the scheduler ever accounted for, or 0
  excused,     \* history: days that may be decayed again
  lost         \* history: days that may never be decayed

clock   == <<day, late>>
history == <<runs, since, excused, lost>>
vars    == <<day, late, file, sched, runs, since, excused, lost>>

Off == [pc |-> "off", upto |-> 0, days |-> 0, stamp |-> 0, wake |-> 0]

Init ==
  /\ day = 1 /\ late \in BOOLEAN
  /\ file = 0 /\ sched = Off
  /\ runs = [d \in Days |-> 0] /\ since = 0 /\ excused = {} /\ lost = {}

\* The days the run in progress decays.
Range == sched.upto - sched.days + 1 .. sched.upto

Step(from) == sched.pc = from /\ UNCHANGED clock

-----------------------------------------------------------------------------
(* start(), _check_and_execute                                             *)

\* _load_state takes an unreadable file for an empty one.
Reading == {file} \cup (IF CanFail THEN {0} ELSE {})

Start ==
  /\ Step("off")
  /\ sched' = [Off EXCEPT !.pc = "check", !.upto = day]
  /\ UNCHANGED <<file, history>>

\* Today's decay was made: on to the loop.
CheckDate ==
  /\ Step("check")
  /\ \E last \in Reading :
       /\ sched' = IF last = sched.upto THEN [Off EXCEPT !.pc = "plan", !.stamp = last]
                                        ELSE [Off EXCEPT !.pc = "missed"]
       /\ excused' = IF last # file THEN excused \cup {day} ELSE excused
  /\ UNCHANGED <<file, runs, since, lost>>

\* Mutants: the day of the last run is missed as well, or no day ever is.
DaysMissed_LastToo(last) == IF last = 0 \/ last > day THEN 0 ELSE day - last
DaysMissed_Never(last)   == 0

\* _calculate_missed_days, whose `today' is read anew.
DaysMissed(last) == IF last = 0 \/ last >= day THEN 0 ELSE day - last - 1


\* Without the date only today is decayed; what was missed cannot be told.
Missed ==
  /\ Step("missed")
  /\ \E last \in Reading :
       /\ sched' = [Off EXCEPT !.pc = "decay", !.upto = day, !.days = DaysMissed(last) + 1]
       /\ lost' = IF last = 0 /\ since # 0 THEN lost \cup (since .. day - 1) ELSE lost
       /\ excused' = IF last # file THEN excused \cup {day} ELSE excused
  /\ UNCHANGED <<file, runs, since>>

-----------------------------------------------------------------------------
(* _execute_decay                                                          *)

Accounted == since' = IF since = 0 THEN sched.upto - sched.days + 1 ELSE since

Decay ==
  /\ Step("decay")
  /\ runs' = [d \in Days |-> IF d \in Range /\ runs[d] < 2 THEN runs[d] + 1 ELSE runs[d]]
  /\ sched' = [sched EXCEPT !.pc = "stamp"]
  /\ Accounted
  /\ UNCHANGED <<file, excused, lost>>

\* apply_daily_decay logs an exception and returns 0: the date is recorded as
\* if the decay had been made.
DecayFails ==
  /\ CanFail /\ Step("decay")
  /\ lost' = lost \cup Range
  /\ sched' = [sched EXCEPT !.pc = "stamp"]
  /\ Accounted
  /\ UNCHANGED <<file, runs, excused>>

\* The date is taken after decay and clean-up: past midnight it is that of a
\* day that was not decayed.
ReadStamp ==
  /\ Step("stamp")
  /\ sched' = [sched EXCEPT !.pc = "open", !.stamp = day]
  /\ lost' = lost \cup (sched.upto + 1 .. day)
  /\ UNCHANGED <<file, runs, since, excused>>

\* _save_state opens the file, which empties it, and writes.
SaveOpen ==
  /\ Step("open")
  /\ file' = 0
  /\ sched' = [sched EXCEPT !.pc = "write"]
  /\ UNCHANGED history

SaveWrite ==
  /\ Step("write")
  /\ file' = sched.stamp
  /\ sched' = [sched EXCEPT !.pc = "plan"]
  /\ UNCHANGED history

\* An OSError is only logged: the run is unknown to the next start.
SaveFails ==
  /\ CanFail /\ (Step("open") \/ Step("write"))
  /\ sched' = [sched EXCEPT !.pc = "plan"]
  /\ excused' = excused \cup Range
  /\ UNCHANGED <<file, runs, since, lost>>

-----------------------------------------------------------------------------
(* _scheduler_loop                                                         *)

\* _seconds_until_next_run: 00:05 of today, or of tomorrow once it has passed.
NextRun == IF late THEN day + 1 ELSE day

\* Between midnight and 00:05 that is today, even if it was decayed already; a
\* midnight that passed since the date was recorded skips the day it began.
Plan ==
  /\ Step("plan")
  /\ sched' = [Off EXCEPT !.pc = "sleep", !.wake = NextRun]
  /\ excused' = IF NextRun = sched.stamp THEN excused \cup {day} ELSE excused
  /\ lost' = lost \cup (sched.stamp + 1 .. NextRun - 1)
  /\ UNCHANGED <<file, runs, since>>

Due(d, l) == d > sched.wake \/ (d = sched.wake /\ l)

\* _execute_decay(1), whatever the date in the file and however late it is.
Wake ==
  /\ Step("sleep") /\ Due(day, late)
  /\ sched' = [Off EXCEPT !.pc = "decay", !.upto = day, !.days = 1]
  /\ lost' = lost \cup (sched.wake .. day - 1)
  /\ UNCHANGED <<file, runs, since, excused>>

WakeEarly ==
  /\ CanWakeEarly /\ Step("sleep") /\ ~Due(day, late)
  /\ sched' = [Off EXCEPT !.pc = "decay", !.upto = day, !.days = 1]
  /\ excused' = excused \cup {day}
  /\ UNCHANGED <<file, runs, since, lost>>

-----------------------------------------------------------------------------
(* The clock, and the end of the process: terminate, or a crash            *)

Tick ==
  /\ late => day < MaxDay
  /\ CanOversleep \/ ~(sched.pc = "sleep" /\ Due(day, late))
  /\ late' = ~late /\ day' = IF late THEN day + 1 ELSE day
  /\ UNCHANGED <<file, sched, history>>

\* What was decayed and not recorded yet is decayed again after the next start.
Stop ==
  /\ CanStop /\ sched.pc # "off"
  /\ sched' = Off
  /\ excused' = IF sched.pc \in {"stamp", "open", "write"} THEN excused \cup Range ELSE excused
  /\ UNCHANGED <<clock, file, runs, since, lost>>

Next ==
  \/ Start \/ CheckDate \/ Missed
  \/ Decay \/ DecayFails \/ ReadStamp \/ SaveOpen \/ SaveWrite \/ SaveFails
  \/ Plan \/ Wake \/ WakeEarly
  \/ Tick \/ Stop

Spec == Init /\ [][Next]_vars

-----------------------------------------------------------------------------
(* Properties                                                              *)

PC == {"off", "check", "missed", "decay", "stamp", "open", "write", "plan", "sleep"}

Sched == [pc : PC, upto : 0..MaxDay, days : 0..MaxDay, stamp : 0..MaxDay, wake : 0..MaxDay + 1]

\* The values the variables take.
Types ==
  /\ day \in Days /\ late \in BOOLEAN /\ file \in 0..MaxDay
  /\ sched \in Sched
  /\ runs \in [Days -> 0..2] /\ since \in 0..MaxDay
  /\ excused \subseteq Days /\ lost \subseteq Days

\* Every variable has its type; a run is of at least one day and of none before
\* the first or after today (_calculate_missed_days, lines 123-135).
TypeOK ==
  /\ Types
  /\ sched.pc \in {"decay", "stamp", "open", "write"} => Range # {} /\ Range \subseteq 1..day

\* However starts, stops, failures and midnights fall, a day is decayed more
\* than once only for one of the causes named at the actions: the process ended
\* or failed before the date was recorded, or the loop fired before 00:05 had
\* passed (decay_scheduler.py:123-135, 177, 260-273).
RepeatsExplained == \A d \in Days : runs[d] > 1 => d \in excused

\* Nor is a day up to the recorded date left out without a cause: the decay
\* failed, the date was unreadable, the date was taken after a midnight, or the
\* loop overslept.  The compensation at start accounts for all the others.
NoDayLost == \A d \in Days : since # 0 /\ since <= d /\ d <= file =>
               runs[d] > 0 \/ d \in lost

\* The module's docstring, point 3: the same day is not decayed twice
\* (decay_scheduler.py:27). TLC refutes it for a start between 00:00 and 00:05.
SameDayOnce == \A d \in Days : runs[d] <= 1
=============================================================================
