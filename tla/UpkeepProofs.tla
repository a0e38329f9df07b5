---------------------------- MODULE UpkeepProofs -----------------------------
(***************************************************************************)
(* What keeps the memory graph and the importance of memories right,       *)
(* proved for every value of the constants (Graph, DailyDecay).            *)
(*                                                                         *)
(* DailyDecay: for any number of days, whatever may stop, fail, oversleep  *)
(* or wake early, a day is decayed again or left out only for the causes   *)
(* the model names.  Neither property is inductive: between a run and its  *)
(* record what the file says is not what was done, and the scheduler knows *)
(* it only as upto, days, stamp or wake.  The invariant says, for each     *)
(* step of the coroutine, up to which day everything was decayed (Covered) *)
(* and beyond which nothing was (Ran).                                     *)
(*                                                                         *)
(* Graph: for any memories, texts, atoms and number of calls, foreign keys *)
(* hold, a settled memory's entries are what was extracted of it less      *)
(* those another memory's edge took away, reads find them, stray vectors   *)
(* have one of the named causes, and the tables implement GraphIndex.      *)
(* SettledWhole is not inductive: it speaks of memories no call is about.  *)
(* The invariant adds what a call that is alone with its memory knows of   *)
(* its entries at each await (StageInv), that no call is about a settled   *)
(* memory and no other about the memory of a call that is alone            *)
(* (AloneInv), and that the rows a call holds the ids of are there.        *)
(***************************************************************************)
EXTENDS Graph, DailyDecay, TLAPS

-----------------------------------------------------------------------------
(* DailyDecay.                                                             *)

Running == sched.pc \in {"decay", "stamp", "open", "write"}

\* Dates do not lie in the future, and a record follows the run it is of.
OrderInv ==
  /\ file <= day
  /\ sched.pc = "check" => 1 <= sched.upto /\ file <= sched.upto /\ sched.upto <= day
  /\ sched.pc = "missed" /\ file = day => day \in excused
  /\ Running => 1 <= sched.days /\ sched.days <= sched.upto /\ sched.upto <= day
  /\ Running /\ sched.pc # "write" => file <= sched.upto
  /\ sched.pc \in {"open", "write"} => sched.upto <= sched.stamp
  /\ sched.stamp <= day
  /\ sched.pc = "sleep" => 1 <= sched.wake

\* Up to day n no day was left out without a cause, ...
Covered(n) == \A d \in Days : since # 0 /\ since <= d /\ d <= n => runs[d] > 0 \/ d \in lost

\* ... and after it none was decayed already, but those that may be again.
Ran(n) == \A d \in Days : runs[d] > 0 => d \in excused \/ d <= n

\* What was decayed is on record, is about to be (S), or the record was lost.
OnRecord(S) == \A d \in Days : runs[d] > 0 =>
                 d \in excused \/ d \in S \/ d <= file \/ (file = 0 /\ d < day)

\* What the scheduler's coroutine has accounted for at each of its steps.
UpTo ==
  CASE sched.pc = "decay"                    -> sched.upto - sched.days
    [] sched.pc = "stamp"                    -> sched.upto
    [] sched.pc \in {"open", "write", "plan"} -> sched.stamp
    [] sched.pc = "sleep"                    -> sched.wake - 1
    [] OTHER                                 -> file

CoveredInv == Covered(file) /\ Covered(UpTo)

RanInv ==
  /\ \A d \in Days : runs[d] > 0 => d <= day
  /\ sched.pc \notin {"off", "check", "missed"} => Ran(UpTo)
  /\ OnRecord(IF Running /\ sched.pc # "decay" THEN Range ELSE {})

DecayInv == Types /\ OrderInv /\ RanInv /\ RepeatsExplained /\ CoveredInv

-----------------------------------------------------------------------------
(* Lemmas                                                                  *)

\* The days of a run, as arithmetic.
LEMMA RangeFacts ==
  ASSUME NEW u \in Int, NEW n \in Int, NEW m \in Int
  PROVE  (u - n + 1 .. u) # {} /\ (u - n + 1 .. u) \subseteq 1..m <=> 1 <= n /\ n <= u /\ u <= m
<1>1. ASSUME 1 <= n, n <= u, u <= m
      PROVE  (u - n + 1 .. u) # {} /\ (u - n + 1 .. u) \subseteq 1..m
  <2>1. u \in u - n + 1 .. u
    BY <1>1
  <2>. QED BY <1>1, <2>1
<1>2. ASSUME (u - n + 1 .. u) # {}, (u - n + 1 .. u) \subseteq 1..m
      PROVE  1 <= n /\ n <= u /\ u <= m
  <2>1. 1 <= n
    BY <1>2
  <2>2. u \in u - n + 1 .. u /\ u - n + 1 \in u - n + 1 .. u
    BY <2>1
  <2>3. u \in 1..m /\ u - n + 1 \in 1..m
    BY <1>2, <2>2
  <2>. QED BY <2>1, <2>3
<1>. QED BY <1>1, <1>2

\* The days missed since the recorded date lie between it and today.
LEMMA MissedDays ==
  ASSUME Types, OrderInv, NEW last \in Reading
  PROVE  /\ last \in 0..day /\ (last = file \/ last = 0)
         /\ DaysMissed(last) \in Nat
         /\ last = 0 \/ last = day => DaysMissed(last) = 0
         /\ last # 0 /\ last < day => DaysMissed(last) = day - last - 1
BY DecayAssumption DEF Types, Sched, OrderInv, Reading, DaysMissed, Days

\* The places of the coroutine, and its state when it does not run.
LEMMA Places ==
  /\ "off" \in PC /\ "check" \in PC /\ "missed" \in PC /\ "decay" \in PC /\ "stamp" \in PC
  /\ "open" \in PC /\ "write" \in PC /\ "plan" \in PC /\ "sleep" \in PC
  /\ Off \in Sched
BY DecayAssumption DEF PC, Sched, Off

\* The numbers the scheduler's state is made of, without the record they are in.
LEMMA Numbers ==
  ASSUME Types, OrderInv
  PROVE  /\ sched.upto \in 0..MaxDay /\ sched.days \in 0..MaxDay /\ sched.stamp \in 0..MaxDay
         /\ sched.wake \in 0..MaxDay + 1
         /\ day \in 0..MaxDay /\ NextRun \in 1..day + 1 /\ NextRun \in 0..MaxDay + 1
         /\ 0 \in 0..MaxDay /\ 1 \in 0..MaxDay
         /\ \A last \in Reading : DaysMissed(last) + 1 \in 0..MaxDay /\ last \in 0..MaxDay
<1>1. \A last \in Reading : DaysMissed(last) \in 0..day - 1 /\ last \in 0..day
  BY MissedDays, DecayAssumption DEF Types, Days
<1>. QED BY <1>1, DecayAssumption DEF Types, Sched, Days, NextRun

-----------------------------------------------------------------------------
(* The invariant is inductive                                              *)

\* The scheduler's coroutine keeps its places and its numbers.
LEMMA SchedStep == Types /\ OrderInv /\ [Next]_vars => sched' \in Sched
<1>. SUFFICES ASSUME Types, OrderInv, [Next]_vars PROVE sched' \in Sched
  OBVIOUS
<1>. USE Places, Numbers DEF Sched
<1>0. sched \in Sched
  BY DEF Types
<1>1. CASE Start
  BY <1>0, <1>1 DEF Start
<1>2. CASE CheckDate
  BY <1>0, <1>2 DEF CheckDate
<1>3. CASE Missed
  BY <1>0, <1>3, ZenonT(60) DEF Missed
<1>4. CASE Decay
  BY <1>0, <1>4 DEF Decay
<1>5. CASE DecayFails
  BY <1>0, <1>5 DEF DecayFails
<1>6. CASE ReadStamp
  BY <1>0, <1>6 DEF ReadStamp
<1>7. CASE SaveOpen
  BY <1>0, <1>7 DEF SaveOpen
<1>8. CASE SaveWrite
  BY <1>0, <1>8 DEF SaveWrite
<1>9. CASE SaveFails
  BY <1>0, <1>9 DEF SaveFails
<1>10. CASE Plan
  BY <1>0, <1>10 DEF Plan
<1>11. CASE Wake
  BY <1>0, <1>11 DEF Wake
<1>12. CASE WakeEarly
  BY <1>0, <1>12 DEF WakeEarly
<1>13. CASE Tick
  BY <1>0, <1>13 DEF Tick
<1>14. CASE Stop
  BY <1>0, <1>14 DEF Stop
<1>15. CASE UNCHANGED vars
  BY <1>0, <1>15 DEF vars
<1>. QED BY <1>1, <1>2, <1>3, <1>4, <1>5, <1>6, <1>7, <1>8, <1>9, <1>10, <1>11, <1>12,
   <1>13, <1>14, <1>15 DEF Next

\* The clock and the sets of days stay within their bounds.
LEMMA TypeStep == DecayInv /\ [Next]_vars => Types'
<1>. SUFFICES ASSUME DecayInv, [Next]_vars PROVE Types'
  OBVIOUS
<1>. USE DecayAssumption, Numbers DEF DecayInv, Types, OrderInv, Running, Days
<1>0. sched' \in Sched
  BY SchedStep
<1>1. CASE Start
  BY <1>0, <1>1 DEF Start, Step, history, clock
<1>2. CASE CheckDate
  BY <1>0, <1>2 DEF CheckDate, Step, clock
<1>3. CASE Missed
  BY <1>0, <1>3 DEF Missed, Step, clock
<1>4. CASE Decay
  <2>1. runs' \in [Days -> 0..2]
    BY <1>4 DEF Decay
  <2>2. since' \in 0..MaxDay
    BY <1>4, SMTT(30) DEF Decay, Step, Accounted
  <2>. QED BY <1>0, <1>4, <2>1, <2>2 DEF Decay, Step, clock
<1>5. CASE DecayFails
  BY <1>0, <1>5, SMTT(30) DEF DecayFails, Step, clock, Accounted, Range
<1>6. CASE ReadStamp
  BY <1>0, <1>6 DEF ReadStamp, Step, clock
<1>7. CASE SaveOpen
  BY <1>0, <1>7 DEF SaveOpen, Step, clock, history
<1>8. CASE SaveWrite
  BY <1>0, <1>8 DEF SaveWrite, Step, clock, history
<1>9. CASE SaveFails
  BY <1>0, <1>9, SMTT(30) DEF SaveFails, Step, clock, Range
<1>10. CASE Plan
  BY <1>0, <1>10, SMTT(30) DEF Plan, Step, clock
<1>11. CASE Wake
  BY <1>0, <1>11 DEF Wake, Step, clock
<1>12. CASE WakeEarly
  BY <1>0, <1>12 DEF WakeEarly, Step, clock
<1>13. CASE Tick
  BY <1>0, <1>13 DEF Tick, history
<1>14. CASE Stop
  <2>1. sched.pc \in {"stamp", "open", "write"} => Range \subseteq Days
    BY SMTT(30) DEF Range
  <2>. QED BY <1>0, <1>14, <2>1 DEF Stop, clock
<1>15. CASE UNCHANGED vars
  BY <1>15 DEF vars
<1>. QED BY <1>1, <1>2, <1>3, <1>4, <1>5, <1>6, <1>7, <1>8, <1>9, <1>10, <1>11, <1>12,
   <1>13, <1>14, <1>15 DEF Next

\* Dates are read from the clock, which only moves on.
LEMMA OrderStep == DecayInv /\ [Next]_vars => OrderInv'
<1>. SUFFICES ASSUME DecayInv, [Next]_vars PROVE OrderInv'
  OBVIOUS
<1>. USE DecayAssumption DEF DecayInv
<1>1. CASE Start
  BY <1>1 DEF Start, Step, history, clock, Off, Types, Sched, OrderInv, Days, Running
<1>2. CASE CheckDate
  BY <1>2, MissedDays DEF CheckDate, Step, clock, Off, Types, Sched, OrderInv, Days,
     Running
<1>3. CASE Missed
  BY <1>3, MissedDays, SMTT(30) DEF Missed, Step, clock, Off, Types, Sched, OrderInv, Days,
     Running
<1>4. CASE Decay
  BY <1>4 DEF Decay, Step, clock, Accounted, Types, Sched, OrderInv, Days, Running
<1>5. CASE DecayFails
  BY <1>5 DEF DecayFails, Step, clock, Accounted, Types, Sched, OrderInv, Days, Running
<1>6. CASE ReadStamp
  BY <1>6 DEF ReadStamp, Step, clock, Types, Sched, OrderInv, Days, Running
<1>7. CASE SaveOpen
  BY <1>7 DEF SaveOpen, Step, clock, history, Types, Sched, OrderInv, Days, Running
<1>8. CASE SaveWrite
  BY <1>8 DEF SaveWrite, Step, clock, history, Types, Sched, OrderInv, Days, Running
<1>9. CASE SaveFails
  BY <1>9 DEF SaveFails, Step, clock, Types, Sched, OrderInv, Days, Running
<1>10. CASE Plan
  BY <1>10 DEF Plan, Step, clock, Off, NextRun, Types, Sched, OrderInv, Days, Running
<1>11. CASE Wake
  BY <1>11 DEF Wake, Step, clock, Off, Due, Types, Sched, OrderInv, Days, Running
<1>12. CASE WakeEarly
  BY <1>12 DEF WakeEarly, Step, clock, Off, Due, Types, Sched, OrderInv, Days, Running
<1>13. CASE Tick
  BY <1>13 DEF Tick, history, Due, Types, Sched, OrderInv, Days, Running
<1>14. CASE Stop
  BY <1>14 DEF Stop, clock, Off, Types, Sched, OrderInv, Days, Running
<1>15. CASE UNCHANGED vars
  BY <1>15 DEF vars, Types, Sched, OrderInv, Days, Running
<1>. QED BY <1>1, <1>2, <1>3, <1>4, <1>5, <1>6, <1>7, <1>8, <1>9, <1>10, <1>11, <1>12,
   <1>13, <1>14, <1>15 DEF Next

\* What a run decays was not decayed before, or is excused.
LEMMA RanStep == DecayInv /\ [Next]_vars => (RanInv /\ RepeatsExplained)'
<1>. SUFFICES ASSUME DecayInv, [Next]_vars PROVE (RanInv /\ RepeatsExplained)'
  OBVIOUS
<1>. USE DecayAssumption DEF DecayInv
<1>1. CASE Start
  BY <1>1 DEF Start, Step, history, clock, Off, Types, Sched, OrderInv, RanInv, Ran,
     OnRecord, UpTo, RepeatsExplained, Running, Days, Range
<1>2. CASE CheckDate
  <2>1. PICK last \in Reading :
          /\ sched' = IF last = sched.upto THEN [Off EXCEPT !.pc = "plan", !.stamp = last]
                                           ELSE [Off EXCEPT !.pc = "missed"]
          /\ excused' = IF last # file THEN excused \cup {day} ELSE excused
    BY <1>2 DEF CheckDate
  <2>2. sched.pc = "check" /\ UNCHANGED <<day, late, file, runs>>
    BY <1>2 DEF CheckDate, Step, clock
  <2>3. /\ \A d \in Days : runs[d] > 0 => d <= day
        /\ \A d \in Days : runs[d] > 0 => d \in excused \/ d <= file \/ (file = 0 /\ d < day)
    BY <2>2 DEF RanInv, OnRecord, Running
  <2>4. excused \subseteq excused'
    BY <2>1
  <2>5. sched'.pc \in {"plan", "missed"}
    BY <2>1 DEF Off
  <2>6. ASSUME sched'.pc = "plan"
        PROVE  Ran(UpTo)'
    <3>1. last = sched.upto /\ UpTo' = last
      BY <2>1, <2>6 DEF Off, UpTo
    <3>2. CASE last # file
      <4>1. last = 0 /\ file # 0
        BY <3>2, MissedDays
      <4>. QED BY <3>1, <4>1, <2>2 DEF OrderInv, Types
    <3>3. CASE last = file /\ file # 0
      BY <2>2, <2>3, <2>4, <3>1, <3>3 DEF Ran
    <3>. QED BY <2>2, <3>1, <3>2, <3>3 DEF OrderInv
  <2>7. RepeatsExplained'
    BY <2>2, <2>4 DEF RepeatsExplained
  <2>. QED BY <2>2, <2>3, <2>4, <2>5, <2>6, <2>7 DEF RanInv, OnRecord, Running
<1>3. CASE Missed
  <2>1. PICK last \in Reading :
          /\ sched' = [Off EXCEPT !.pc = "decay", !.upto = day, !.days = DaysMissed(last) + 1]
          /\ excused' = IF last # file THEN excused \cup {day} ELSE excused
    BY <1>3 DEF Missed
  <2>2. sched.pc = "missed" /\ UNCHANGED <<day, late, file, runs>>
    BY <1>3 DEF Missed, Step, clock
  <2>3. sched'.pc = "decay" /\ UpTo' = day - DaysMissed(last) - 1
    BY <2>1, <2>2, MissedDays DEF UpTo, Off, Types, Days
  <2>4. /\ \A d \in Days : runs[d] > 0 => d <= day
        /\ \A d \in Days : runs[d] > 0 => d \in excused \/ d <= file \/ (file = 0 /\ d < day)
        /\ file = day => day \in excused
    BY <2>2 DEF RanInv, OnRecord, OrderInv, Running
  <2>5. excused \subseteq excused'
    BY <2>1
  <2>6. ASSUME NEW d \in Days, runs[d] > 0
        PROVE  d \in excused' \/ d <= UpTo'
    <3>1. CASE last # file
      <4>1. last = 0 /\ DaysMissed(last) = 0 /\ day \in excused'
        BY <2>1, <3>1, MissedDays
      <4>. QED BY <2>3, <2>4, <2>6, <4>1 DEF Days, Types
    <3>2. CASE last = file /\ file = day
      BY <2>3, <2>4, <2>5, <2>6, <3>2, MissedDays DEF Days, Types
    <3>3. CASE last = file /\ file = 0
      BY <2>3, <2>4, <2>5, <2>6, <3>3, MissedDays DEF Days, Types
    <3>4. CASE last = file /\ file # 0 /\ file < day
      BY <2>3, <2>4, <2>5, <2>6, <3>4, MissedDays DEF Days, Types
    <3>. QED BY <3>1, <3>2, <3>3, <3>4 DEF OrderInv, Types, Days
  <2>7. RepeatsExplained'
    BY <2>2, <2>5 DEF RepeatsExplained
  <2>. QED BY <2>2, <2>3, <2>4, <2>5, <2>6, <2>7 DEF RanInv, Ran, OnRecord, Running
<1>4. CASE Decay
  <2>1. /\ sched.pc = "decay" /\ sched'.pc = "stamp" /\ Range' = Range
        /\ UNCHANGED <<day, late, file, excused>>
        /\ UpTo = sched.upto - sched.days /\ UpTo' = sched.upto
    BY <1>4 DEF Decay, Step, clock, Range, UpTo, Types, Sched
  <2>2. sched.upto \in Int /\ sched.days \in Int /\ day \in Int /\ file \in Int /\ sched.upto <= day
    BY <2>1 DEF Types, Sched, Days, OrderInv, Running
  <2>3. /\ runs \in [Days -> 0..2]
        /\ runs' = [d \in Days |-> IF d \in Range /\ runs[d] < 2 THEN runs[d] + 1 ELSE runs[d]]
    BY <1>4 DEF Decay, Types
  <2>4. ASSUME NEW d \in Days
        PROVE  /\ runs'[d] > 0 => runs[d] > 0 \/ d \in Range
               /\ runs'[d] > 1 => runs[d] > 1 \/ (runs[d] > 0 /\ d \in Range)
    BY <2>3
  <2>5. ASSUME NEW d \in Days, d \in Range
        PROVE  d <= sched.upto /\ d > UpTo
    BY <2>1, <2>2, <2>5 DEF Range, Days
  <2>6. /\ \A d \in Days : runs[d] > 0 => d <= day
        /\ \A d \in Days : runs[d] > 0 => d \in excused \/ d <= UpTo
        /\ \A d \in Days : runs[d] > 0 => d \in excused \/ d <= file \/ (file = 0 /\ d < day)
        /\ \A d \in Days : runs[d] > 1 => d \in excused
    BY <2>1 DEF RanInv, Ran, OnRecord, RepeatsExplained, Running
  <2>7. RepeatsExplained'
    BY <2>1, <2>2, <2>4, <2>5, <2>6 DEF RepeatsExplained, Days
  <2>8. (\A d \in Days : runs[d] > 0 => d <= day)' /\ Ran(UpTo)'
    BY <2>1, <2>2, <2>4, <2>5, <2>6 DEF Ran, Days, Types, Sched, OrderInv, Running
  <2>9. OnRecord(Range)'
    BY <2>1, <2>4, <2>6 DEF OnRecord
  <2>. QED BY <2>1, <2>7, <2>8, <2>9 DEF RanInv, Running
<1>5. CASE DecayFails
  BY <1>5 DEF DecayFails, Step, clock, Accounted, Types, Sched, OrderInv, RanInv, Ran,
     OnRecord, UpTo, RepeatsExplained, Running, Days, Range
<1>6. CASE ReadStamp
  BY <1>6 DEF ReadStamp, Step, clock, Types, Sched, OrderInv, RanInv, Ran, OnRecord,
     UpTo, RepeatsExplained, Running, Days, Range
<1>7. CASE SaveOpen
  BY <1>7 DEF SaveOpen, Step, clock, history, Types, Sched, OrderInv, RanInv, Ran,
     OnRecord, UpTo, RepeatsExplained, Running, Days, Range
<1>8. CASE SaveWrite
  BY <1>8 DEF SaveWrite, Step, clock, history, Types, Sched, OrderInv, RanInv, Ran,
     OnRecord, UpTo, RepeatsExplained, Running, Days, Range
<1>9. CASE SaveFails
  BY <1>9 DEF SaveFails, Step, clock, Types, Sched, OrderInv, RanInv, Ran, OnRecord,
     UpTo, RepeatsExplained, Running, Days, Range
<1>10. CASE Plan
  BY <1>10 DEF Plan, Step, clock, Off, NextRun, Types, Sched, OrderInv, RanInv, Ran,
     OnRecord, UpTo, RepeatsExplained, Running, Days, Range
<1>11. CASE Wake
  BY <1>11 DEF Wake, Step, clock, Off, Due, Types, Sched, OrderInv, RanInv, Ran,
     OnRecord, UpTo, RepeatsExplained, Running, Days, Range
<1>12. CASE WakeEarly
  BY <1>12 DEF WakeEarly, Step, clock, Off, Due, Types, Sched, OrderInv, RanInv, Ran,
     OnRecord, UpTo, RepeatsExplained, Running, Days, Range
<1>13. CASE Tick
  BY <1>13 DEF Tick, history, Due, Types, Sched, OrderInv, RanInv, Ran, OnRecord,
     UpTo, RepeatsExplained, Running, Days, Range
<1>14. CASE Stop
  BY <1>14 DEF Stop, clock, Off, Types, Sched, OrderInv, RanInv, Ran, OnRecord, UpTo,
     RepeatsExplained, Running, Days, Range
<1>15. CASE UNCHANGED vars
  BY <1>15 DEF vars, Types, Sched, OrderInv, RanInv, Ran, OnRecord, UpTo,
     RepeatsExplained, Running, Days, Range
<1>. QED BY <1>1, <1>2, <1>3, <1>4, <1>5, <1>6, <1>7, <1>8, <1>9, <1>10, <1>11, <1>12,
   <1>13, <1>14, <1>15 DEF Next

\* What a run does not decay was decayed before, or is lost.
LEMMA CoveredStep == DecayInv /\ [Next]_vars => CoveredInv'
<1>. SUFFICES ASSUME DecayInv, [Next]_vars PROVE CoveredInv'
  OBVIOUS
<1>. USE DecayAssumption DEF DecayInv
<1>1. CASE Start
  BY <1>1 DEF Start, Step, history, clock, Off, Types, Sched, OrderInv, CoveredInv,
     Covered, UpTo, Running, Days, Range
<1>2. CASE CheckDate
  BY <1>2, MissedDays DEF CheckDate, Step, clock, Off, Types, Sched, OrderInv,
     CoveredInv, Covered, UpTo, Running, Days, Range
<1>3. CASE Missed
  <2>1. PICK last \in Reading :
          /\ sched' = [Off EXCEPT !.pc = "decay", !.upto = day, !.days = DaysMissed(last) + 1]
          /\ lost' = IF last = 0 /\ since # 0 THEN lost \cup (since .. day - 1) ELSE lost
    BY <1>3 DEF Missed
  <2>2. sched.pc = "missed" /\ UNCHANGED <<day, late, file, runs, since>>
    BY <1>3 DEF Missed, Step, clock
  <2>3. UpTo' = day - DaysMissed(last) - 1
    BY <2>1, <2>2, MissedDays DEF UpTo, Off, Types, Days
  <2>4. Covered(file) /\ lost \subseteq lost'
    BY <2>1 DEF CoveredInv
  <2>5. Covered(UpTo)'
    <3>1. CASE last = 0
      BY <2>1, <2>2, <2>3, <3>1, MissedDays DEF Covered, Types, Days
    <3>2. CASE last = file /\ file # 0
      BY <2>2, <2>3, <2>4, <3>2, MissedDays DEF Covered, Types, Days
    <3>. QED BY <3>1, <3>2, MissedDays
  <2>. QED BY <2>2, <2>4, <2>5 DEF CoveredInv, Covered
<1>4. CASE Decay
  <2>1. /\ sched.pc = "decay" /\ UNCHANGED <<day, late, file, lost>>
        /\ UpTo = sched.upto - sched.days /\ UpTo' = sched.upto
        /\ since' = IF since = 0 THEN UpTo + 1 ELSE since
    BY <1>4 DEF Decay, Step, clock, Accounted, UpTo, Types, Sched
  <2>2. sched.upto \in Int /\ sched.days \in Int /\ file \in Int /\ since \in Int /\ file <= sched.upto
    BY <2>1 DEF Types, Sched, Days, OrderInv, Running
  <2>3. ASSUME NEW d \in Days
        PROVE  /\ runs[d] > 0 => runs'[d] > 0
               /\ d > UpTo /\ d <= sched.upto => runs'[d] > 0
    <3>1. /\ runs'[d] = IF d \in Range /\ runs[d] < 2 THEN runs[d] + 1 ELSE runs[d]
          /\ runs[d] \in 0..2
      BY <1>4 DEF Decay, Types
    <3>2. d > UpTo /\ d <= sched.upto => d \in Range
      BY <2>1, <2>2 DEF Range, Days
    <3>. QED BY <3>1, <3>2
  <2>4. ASSUME NEW d \in Days, since' # 0, since' <= d, d <= sched.upto
        PROVE  runs'[d] > 0 \/ d \in lost'
    BY <2>1, <2>2, <2>3, <2>4 DEF CoveredInv, Covered, Days
  <2>. QED BY <2>1, <2>2, <2>4 DEF CoveredInv, Covered, Days
<1>5. CASE DecayFails
  BY <1>5, SMTT(30) DEF DecayFails, Step, clock, Accounted, Types, Sched, OrderInv, CoveredInv,
     Covered, UpTo, Running, Days, Range
<1>6. CASE ReadStamp
  BY <1>6 DEF ReadStamp, Step, clock, Types, Sched, OrderInv, CoveredInv, Covered,
     UpTo, Running, Days, Range
<1>7. CASE SaveOpen
  BY <1>7 DEF SaveOpen, Step, clock, history, Types, Sched, OrderInv, CoveredInv,
     Covered, UpTo, Running, Days, Range
<1>8. CASE SaveWrite
  BY <1>8 DEF SaveWrite, Step, clock, history, Types, Sched, OrderInv, CoveredInv,
     Covered, UpTo, Running, Days, Range
<1>9. CASE SaveFails
  BY <1>9 DEF SaveFails, Step, clock, Types, Sched, OrderInv, CoveredInv, Covered,
     UpTo, Running, Days, Range
<1>10. CASE Plan
  BY <1>10, SMTT(30) DEF Plan, Step, clock, Off, NextRun, Types, Sched, OrderInv, CoveredInv,
     Covered, UpTo, Running, Days, Range
<1>11. CASE Wake
  BY <1>11 DEF Wake, Step, clock, Off, Due, Types, Sched, OrderInv, CoveredInv,
     Covered, UpTo, Running, Days, Range
<1>12. CASE WakeEarly
  BY <1>12 DEF WakeEarly, Step, clock, Off, Due, Types, Sched, OrderInv, CoveredInv,
     Covered, UpTo, Running, Days, Range
<1>13. CASE Tick
  BY <1>13 DEF Tick, history, Due, Types, Sched, OrderInv, CoveredInv, Covered, UpTo,
     Running, Days, Range
<1>14. CASE Stop
  BY <1>14 DEF Stop, clock, Off, Types, Sched, OrderInv, CoveredInv, Covered, UpTo,
     Running, Days, Range
<1>15. CASE UNCHANGED vars
  BY <1>15 DEF vars, Types, Sched, OrderInv, CoveredInv, Covered, UpTo, Running, Days,
     Range
<1>. QED BY <1>1, <1>2, <1>3, <1>4, <1>5, <1>6, <1>7, <1>8, <1>9, <1>10, <1>11, <1>12,
   <1>13, <1>14, <1>15 DEF Next

\* It holds at the start: nothing is decayed, recorded or accounted for.
LEMMA DecayInitInv == Init => DecayInv
<1>. SUFFICES ASSUME Init PROVE DecayInv
  OBVIOUS
<1>1. Types
  BY DecayAssumption, Places DEF Init, Types, Days
<1>2. OrderInv
  BY DEF Init, Off, OrderInv, Running
<1>3. RanInv /\ RepeatsExplained /\ CoveredInv
  BY DEF Init, RanInv, Ran, OnRecord, UpTo, CoveredInv, Covered, RepeatsExplained, Off
<1>. QED BY <1>1, <1>2, <1>3 DEF DecayInv

\* The invariant holds at every step of every execution.
LEMMA DecayInductive == Spec => []DecayInv
<1>1. DecayInv /\ [Next]_vars => DecayInv'
  BY TypeStep, OrderStep, RanStep, CoveredStep DEF DecayInv
<1>. QED BY DecayInitInv, <1>1, PTL DEF Spec

-----------------------------------------------------------------------------
(* Theorems                                                                *)

\* Types, and that _calculate_missed_days never makes a run of no day, of a day
\* before the first or of one to come.
THEOREM TypeCorrect == Spec => []TypeOK
<1>1. DecayInv => TypeOK
  BY RangeFacts, SMTT(60) DEF DecayInv, Types, Sched, OrderInv, Running, TypeOK, Range, Days
<1>. QED BY DecayInductive, <1>1, PTL

\* For any number of days, _check_and_execute and the loop decay a day again only
\* if an end or a failure lost the record, or the loop fired before 00:05.
THEOREM NoUnexplainedRepeat == Spec => []RepeatsExplained
<1>1. DecayInv => RepeatsExplained
  BY DEF DecayInv
<1>. QED BY DecayInductive, <1>1, PTL

\* And every day up to the recorded date has been decayed, unless a failure, an
\* unreadable date, a midnight during the run or an overslept loop lost it.
THEOREM NoDayLostEver == Spec => []NoDayLost
<1>1. DecayInv => NoDayLost
  BY DEF DecayInv, CoveredInv, Covered, NoDayLost
<1>. QED BY DecayInductive, <1>1, PTL

-----------------------------------------------------------------------------
(* Graph.                                                                  *)

Entry == Sources \X Items
Indexing == {"nodes", "edges", "entries", "embed", "record", "raise"}
Job == [pc : Indexing \cup {"none", "delete", "unembed"}, mems : SUBSET Sources,
        mode : Modes \cup {"gone"}, alone : BOOLEAN,
        nodes : SUBSET Entities, edges : SUBSET Relations,
        rows : SUBSET Entry, made : SUBSET Entry, doomed : SUBSET Entry]

TypeInv ==
    /\ nodes \subseteq Entities
    /\ edges \subseteq [of : Relations, owner : Sources]
    /\ entries \subseteq Entry /\ vecs \subseteq entries /\ entries \subseteq texts
    /\ texts \subseteq Entry /\ stray \subseteq Entry /\ cascaded \subseteq Entry /\ forgiven \subseteq Entry
    /\ call \in [GraphJobs -> Job]
    /\ settled \in [Sources -> Modes \cup {"gone", "unsettled"}]

\* The ids a call holds are of rows that are there.
HeldInv ==
    \A j \in GraphJobs : call[j].nodes \subseteq nodes /\ call[j].edges \subseteq Related(edges)
                         /\ call[j].rows \subseteq entries

\* An edge is of what its owner tells.
OwnInv == \A d \in edges : \E mode \in Modes : d.of \in Extract(d.owner, mode).relations

JobInv ==
    \A j \in GraphJobs :
        /\ call[j].pc = "none" => call[j].mems = {}
        /\ call[j].mode \in Modes => \E m \in Sources : call[j].mems = {m}
        /\ call[j].pc \in Indexing => call[j].mode \in Modes

AloneInv ==
    /\ \A j \in GraphJobs : \A m \in call[j].mems : settled[m] = "unsettled"
    /\ \A j, k \in GraphJobs : j # k /\ call[j].alone => call[j].mems \cap call[k].mems = {}

RowsOf(m) == {e \in entries : e[1] = m}
StageInv ==
    \A j \in GraphJobs : \A m \in call[j].mems : call[j].alone =>
        /\ call[j].pc \in {"unembed", "nodes", "edges", "entries"} => RowsOf(m) = {}
        /\ call[j].pc \in {"embed", "record", "raise"} =>
              RowsOf(m) = EntriesOf(m, call[j].mode) \ cascaded

GraphInv == /\ TypeInv /\ HeldInv /\ OwnInv /\ JobInv /\ AloneInv /\ StageInv
        /\ Linked /\ SettledWhole /\ StrayExplained

-----------------------------------------------------------------------------
(* Lemmas                                                                  *)

\* What is extracted of a memory are entities and relations.
LEMMA ExtractType ==
  ASSUME NEW m \in Sources, NEW mode
  PROVE /\ Extract(m, mode).entities \subseteq Entities
        /\ Extract(m, mode).relations \subseteq Relations
        /\ ItemsOf(m, mode) \subseteq Items
        /\ EntriesOf(m, mode) \subseteq Entry
<1>0. Facts[m] \subseteq Entities /\ Topics[m] \subseteq Entities /\ People[m] \in Seq(Entities)
      /\ Atoms[m] \subseteq [fact : Entities, entities : SUBSET Entities]
  BY GraphAssumption
<1>1. Fn!Range(People[m]) \subseteq Entities
  BY <1>0 DEF Fn!Range
<1>2. ASSUME NEW p \in Pairs(Len(People[m]))
      PROVE People[m][p[1]] \in Entities /\ People[m][p[2]] \in Entities
  BY <1>0 DEF Pairs
<1>3. FromText(m).entities \subseteq Entities
  BY <1>0, <1>1 DEF FromText
<1>4. FromText(m).relations \subseteq Relations
  <2>1. Topics[m] \X {"describes"} \X Facts[m] \subseteq Relations
    BY <1>0 DEF Relations, RelationTypes
  <2>2. Fn!Range(People[m]) \X {"mentioned_in"} \X Facts[m] \subseteq Relations
    BY <1>0, <1>1 DEF Relations, RelationTypes
  <2>3. {<<People[m][p[1]], "co_occurs_with", People[m][p[2]]>> : p \in Pairs(Len(People[m]))} \subseteq Relations
    BY <1>2 DEF Relations, RelationTypes
  <2> QED BY <2>1, <2>2, <2>3 DEF FromText
<1>5. FromAtoms(m).entities \subseteq Entities /\ FromAtoms(m).relations \subseteq Relations
  BY <1>0 DEF FromAtoms, Relations, RelationTypes
<1>6. /\ Extract(m, mode).entities \subseteq Entities
      /\ Extract(m, mode).relations \subseteq Relations
  BY <1>3, <1>4, <1>5 DEF Extract
<1> QED BY <1>6 DEF ItemsOf, Items, EntriesOf, Entry

\* The entries of a memory are the pairs of it and its items.
LEMMA EntryFacts ==
  ASSUME NEW m \in Sources, NEW mode
  PROVE /\ \A e \in EntriesOf(m, mode) : e[1] = m /\ e[2] \in ItemsOf(m, mode)
        /\ {e[2] : e \in EntriesOf(m, mode)} = ItemsOf(m, mode)
<1>1. \A e \in EntriesOf(m, mode) : e[1] = m /\ e[2] \in ItemsOf(m, mode)
  BY DEF EntriesOf
<1>2. ASSUME NEW i \in ItemsOf(m, mode) PROVE i \in {e[2] : e \in EntriesOf(m, mode)}
  <2>1. <<m, i>> \in EntriesOf(m, mode) /\ <<m, i>>[2] = i
    BY DEF EntriesOf
  <2> QED BY <2>1
<1> QED BY <1>1, <1>2

LEMMA NoJobType == NoJob \in Job
<1>1. {} \in SUBSET Sources /\ {} \in SUBSET Entities /\ {} \in SUBSET Relations /\ {} \in SUBSET Entry
  OBVIOUS
<1>2. TRUE \in BOOLEAN /\ "gone" \in Modes \cup {"gone"} /\ "none" \in Indexing \cup {"none", "delete", "unembed"}
  OBVIOUS
<1> QED BY <1>1, <1>2, Zenon DEF NoJob, Job

LEMMA GraphInitInv == GraphInit => GraphInv
  BY NoJobType DEF GraphInit, GraphInv, TypeInv, HeldInv, OwnInv, JobInv, AloneInv, StageInv, Linked,
     SettledWhole, StrayExplained, Kept, NoJob, Modes, Indexing, Related

\* A call of index_memory is about one memory.
LEMMA TheMemoryFacts ==
  ASSUME JobInv, NEW j \in GraphJobs, call[j].pc \in Indexing
  PROVE TheMemory(j) \in Sources /\ call[j].mems = {TheMemory(j)} /\ call[j].mode \in Modes
  BY DEF JobInv, TheMemory

\* What the end of a call leaves true, whatever it did last.
LEMMA ReturnFacts ==
  ASSUME GraphInv, NEW j \in GraphJobs, NEW ok \in BOOLEAN, Return(j, ok)
  PROVE /\ call' \in [GraphJobs -> Job]
        /\ settled' \in [Sources -> Modes \cup {"gone", "unsettled"}]
        /\ JobInv' /\ AloneInv'
        /\ \A k \in GraphJobs : call'[k] = IF k = j THEN NoJob ELSE call[k]
        /\ \A m \in Sources : settled'[m] # settled[m] =>
             ok /\ call[j].alone /\ m \in call[j].mems /\ settled'[m] = call[j].mode
<1>1. call \in [GraphJobs -> Job] /\ settled \in [Sources -> Modes \cup {"gone", "unsettled"}]
  BY DEF GraphInv, TypeInv
<1>2. call[j] \in Job /\ call[j].mode \in Modes \cup {"gone"} /\ call[j].mems \subseteq Sources
  BY <1>1 DEF Job
<1>3. /\ call' \in [GraphJobs -> Job]
      /\ \A k \in GraphJobs : call'[k] = IF k = j THEN NoJob ELSE call[k]
  BY <1>1, NoJobType DEF Return
<1>4. /\ settled' \in [Sources -> Modes \cup {"gone", "unsettled"}]
      /\ \A m \in Sources : settled'[m] =
           IF m \in call[j].mems /\ call[j].alone /\ ok THEN call[j].mode ELSE settled[m]
  BY <1>1, <1>2 DEF Return
<1>5. NoJob.mems = {} /\ NoJob.pc = "none" /\ NoJob.mode \notin Modes
  BY DEF NoJob, Modes
<1>6. JobInv'
  BY <1>3, <1>5 DEF GraphInv, JobInv, Indexing
<1>7. AloneInv'
  <2>1. ASSUME NEW k \in GraphJobs, NEW m \in call'[k].mems PROVE settled'[m] = "unsettled"
    <3>1. k # j /\ m \in call[k].mems
      BY <1>3, <1>5, <2>1
    <3>2. m \in Sources /\ settled[m] = "unsettled"
      BY <3>1, <1>1 DEF GraphInv, AloneInv, Job
    <3>3. ~(m \in call[j].mems /\ call[j].alone)
      BY <3>1 DEF GraphInv, AloneInv
    <3> QED BY <3>2, <3>3, <1>4
  <2>2. ASSUME NEW k \in GraphJobs, NEW l \in GraphJobs, k # l, call'[k].alone
        PROVE call'[k].mems \cap call'[l].mems = {}
    BY <2>2, <1>3, <1>5 DEF GraphInv, AloneInv
  <2> QED BY <2>1, <2>2 DEF AloneInv
<1> QED BY <1>3, <1>4, <1>6, <1>7

\* A call that ends without a change to the entries of a memory keeps the
\* invariant when what it settles is as settled.
LEMMA EndOfCall ==
  ASSUME GraphInv, NEW j \in GraphJobs, NEW ok \in BOOLEAN, Return(j, ok),
         UNCHANGED <<nodes, edges, entries, texts, cascaded>>,
         vecs' \subseteq entries, stray' \subseteq Entry, forgiven' \subseteq Entry, stray' \subseteq forgiven',
         ok /\ call[j].alone => \A m \in call[j].mems :
             RowsOf(m) = (IF call[j].mode = "gone" THEN {} ELSE EntriesOf(m, call[j].mode)) \ cascaded
  PROVE GraphInv'
<1>1. TypeInv'
  BY ReturnFacts DEF GraphInv, TypeInv
<1>2. NoJob.mems = {} /\ NoJob.nodes = {} /\ NoJob.edges = {} /\ NoJob.rows = {}
  BY DEF NoJob
<1>3. HeldInv'
  BY ReturnFacts, <1>2 DEF GraphInv, HeldInv, Related
<1>4. OwnInv' /\ Linked'
  BY DEF GraphInv, OwnInv, Linked, Related
<1>5. StageInv'
  BY ReturnFacts, <1>2 DEF GraphInv, StageInv, RowsOf
<1>6. SettledWhole'
  <2>1. SUFFICES ASSUME NEW m \in Sources, settled'[m] # "unsettled"
                 PROVE {e \in entries : e[1] = m} = Kept(m)' \ cascaded
    BY DEF SettledWhole
  <2>2. CASE settled'[m] = settled[m]
    BY <2>1, <2>2 DEF GraphInv, SettledWhole, Kept
  <2>3. CASE settled'[m] # settled[m]
    <3>1. ok /\ call[j].alone /\ m \in call[j].mems /\ settled'[m] = call[j].mode
      BY <2>3, ReturnFacts
    <3> QED BY <3>1 DEF Kept, RowsOf
  <2> QED BY <2>2, <2>3
<1> QED BY <1>1, <1>3, <1>4, <1>5, <1>6, ReturnFacts DEF GraphInv, StrayExplained

-----------------------------------------------------------------------------
(* Every step keeps the invariant                                          *)

LEMMA AloneField ==
  ASSUME NEW r \in Job, NEW b \in BOOLEAN
  PROVE /\ [r EXCEPT !.alone = b] \in Job /\ [r EXCEPT !.alone = b].alone = b
        /\ [r EXCEPT !.alone = b].pc = r.pc /\ [r EXCEPT !.alone = b].mems = r.mems
        /\ [r EXCEPT !.alone = b].mode = r.mode /\ [r EXCEPT !.alone = b].nodes = r.nodes
        /\ [r EXCEPT !.alone = b].edges = r.edges /\ [r EXCEPT !.alone = b].rows = r.rows
  BY DEF Job

LEMMA BeginInv ==
  ASSUME GraphInv, NEW j \in GraphJobs, NEW M \in SUBSET Sources, NEW mode \in Modes \cup {"gone"},
         mode \in Modes => \E m \in Sources : M = {m}, Begin(j, M, mode)
  PROVE GraphInv'
<1> DEFINE rivals == {k \in GraphJobs : call[k].mems \cap M # {}}
           new == [NoJob EXCEPT !.pc = "delete", !.mems = M, !.mode = mode, !.alone = rivals = {}]
<1>1. call \in [GraphJobs -> Job] /\ settled \in [Sources -> Modes \cup {"gone", "unsettled"}]
  BY DEF GraphInv, TypeInv
<1>2. call[j].pc = "none" /\ call[j].mems = {} /\ UNCHANGED <<tables, cascaded, forgiven>>
  BY DEF GraphInv, JobInv, Begin, Stage
<1>3. /\ new.pc = "delete" /\ new.mems = M /\ new.mode = mode /\ new.alone = (rivals = {})
      /\ new.nodes = {} /\ new.edges = {} /\ new.rows = {} /\ new \in Job
  BY NoJobType DEF NoJob, Job
<1>4. call' = [k \in GraphJobs |-> IF k = j THEN new
                                  ELSE [call[k] EXCEPT !.alone = @ /\ k \notin rivals]]
  BY DEF Begin
<1>a. \A k \in GraphJobs : k \in rivals <=> call[k].mems \cap M # {}
  OBVIOUS
<1>b. rivals = {} => \A k \in GraphJobs : call[k].mems \cap M = {}
  OBVIOUS
<1> HIDE DEF new, rivals
<1>c. call'[j] = new
  BY <1>4
<1>5. ASSUME NEW k \in GraphJobs, k # j
      PROVE /\ call'[k] \in Job /\ call'[k].pc = call[k].pc /\ call'[k].mems = call[k].mems
            /\ call'[k].mode = call[k].mode /\ call'[k].nodes = call[k].nodes
            /\ call'[k].edges = call[k].edges /\ call'[k].rows = call[k].rows
            /\ call'[k].alone => call[k].alone /\ call[k].mems \cap M = {}
  <2>1. call'[k] = [call[k] EXCEPT !.alone = call[k].alone /\ k \notin rivals]
    BY <1>4, <1>5
  <2>2. call[k] \in Job /\ (call[k].alone /\ k \notin rivals) \in BOOLEAN
    <3>1. call[k] \in Job
      BY <1>1
    <3>2. call[k].alone \in BOOLEAN
      BY <3>1 DEF Job
    <3>3. (call[k].alone /\ k \notin rivals) \in BOOLEAN
      BY <3>2, Zenon
    <3> QED BY <3>1, <3>3
  <2>3. call'[k].alone <=> call[k].alone /\ k \notin rivals
    <3>1. call'[k].alone = (call[k].alone /\ k \notin rivals)
      BY <2>1, <2>2, AloneField, Zenon
    <3> QED BY <3>1, Zenon
  <2>4. call'[k].alone => call[k].alone /\ call[k].mems \cap M = {}
    BY <2>3, <1>a, Zenon
  <2> DEFINE b == call[k].alone /\ k \notin rivals
  <2>5. b \in BOOLEAN /\ call[k] \in Job /\ call'[k] = [call[k] EXCEPT !.alone = b]
    BY <2>1, <2>2, Zenon
  <2> HIDE DEF b
  <2> QED BY <2>4, <2>5, AloneField
<1>6. \A m \in Sources : settled'[m] = IF m \in M THEN "unsettled" ELSE settled[m]
  BY DEF Begin
<1>7. TypeInv'
  <2>1. \A k \in GraphJobs : call'[k] \in Job
    BY <1>3, <1>c, <1>5
  <2>2. call' \in [GraphJobs -> Job]
    BY <2>1, <1>4
  <2>3. settled' \in [Sources -> Modes \cup {"gone", "unsettled"}]
    BY <1>1 DEF Begin
  <2> QED BY <2>2, <2>3, <1>2 DEF GraphInv, TypeInv, tables
<1>8. HeldInv' /\ OwnInv' /\ Linked' /\ StrayExplained'
  BY <1>2, <1>3, <1>c, <1>5 DEF GraphInv, HeldInv, OwnInv, Linked, StrayExplained, tables, Related
<1>9. JobInv'
  <2>1. ASSUME NEW k \in GraphJobs
        PROVE /\ call'[k].pc = "none" => call'[k].mems = {}
              /\ call'[k].mode \in Modes => \E m \in Sources : call'[k].mems = {m}
              /\ call'[k].pc \in Indexing => call'[k].mode \in Modes
    <3>1. CASE k = j
      BY <3>1, <1>3, <1>c DEF Indexing
    <3>2. CASE k # j
      BY <3>2, <1>5 DEF GraphInv, JobInv
    <3> QED BY <3>1, <3>2
  <2> QED BY <2>1 DEF JobInv
<1>10. AloneInv'
  <2>1. ASSUME NEW k \in GraphJobs, NEW m \in call'[k].mems PROVE settled'[m] = "unsettled"
    <3>1. CASE k = j
      BY <3>1, <2>1, <1>3, <1>c, <1>6
    <3>2. CASE k # j
      <4>1. m \in call[k].mems /\ call[k].mems \subseteq Sources
        BY <3>2, <2>1, <1>5, <1>1 DEF Job
      <4> QED BY <4>1, <1>6 DEF GraphInv, AloneInv
    <3> QED BY <3>1, <3>2
  <2>2. ASSUME NEW k \in GraphJobs, NEW l \in GraphJobs, k # l, call'[k].alone
        PROVE call'[k].mems \cap call'[l].mems = {}
    <3>1. CASE k = j
      BY <3>1, <2>2, <1>3, <1>c, <1>5, <1>b
    <3>2. CASE k # j /\ l = j
      BY <3>2, <2>2, <1>3, <1>c, <1>5
    <3>3. CASE k # j /\ l # j
      BY <3>3, <2>2, <1>5 DEF GraphInv, AloneInv
    <3> QED BY <3>1, <3>2, <3>3
  <2> QED BY <2>1, <2>2 DEF AloneInv
<1>11. StageInv'
  <2>1. UNCHANGED <<entries, cascaded>>
    BY <1>2 DEF tables
  <2>2. ASSUME NEW k \in GraphJobs, k # j, NEW m \in call'[k].mems, call'[k].alone
        PROVE /\ call'[k].pc \in {"unembed", "nodes", "edges", "entries"} => RowsOf(m)' = {}
              /\ call'[k].pc \in {"embed", "record", "raise"} =>
                    RowsOf(m)' = EntriesOf(m, call'[k].mode) \ cascaded'
    BY <2>1, <2>2, <1>5 DEF GraphInv, StageInv, RowsOf
  <2>3. call'[j].pc = "delete"
    BY <1>3, <1>c
  <2> QED BY <2>2, <2>3 DEF StageInv
<1>12. SettledWhole'
  BY <1>2, <1>6 DEF GraphInv, SettledWhole, Kept, tables
<1> QED BY <1>7, <1>8, <1>9, <1>10, <1>11, <1>12 DEF GraphInv

\* Calls that change no other call than j's, and of that not the memory.
Onward(j, job) ==
    /\ call' = [call EXCEPT ![j] = job] /\ job \in Job
    /\ job.mems = call[j].mems /\ job.alone = call[j].alone /\ job.mode = call[j].mode
    /\ job.pc # "none" /\ (job.pc \in Indexing => job.mode \in Modes)

LEMMA OnwardFacts ==
  ASSUME GraphInv, NEW j \in GraphJobs, NEW job, Onward(j, job), UNCHANGED settled
  PROVE /\ call' \in [GraphJobs -> Job] /\ JobInv' /\ AloneInv'
        /\ \A k \in GraphJobs : call'[k] = IF k = j THEN job ELSE call[k]
<1>1. call \in [GraphJobs -> Job]
  BY DEF GraphInv, TypeInv
<1>2. /\ call' \in [GraphJobs -> Job]
      /\ \A k \in GraphJobs : call'[k] = IF k = j THEN job ELSE call[k]
  BY <1>1 DEF Onward
<1>3. JobInv'
  BY <1>2 DEF GraphInv, JobInv, Onward
<1>4. AloneInv'
  BY <1>2 DEF GraphInv, AloneInv, Onward
<1> QED BY <1>2, <1>3, <1>4

\* Settled memories stay as they are while entries do.
LEMMA SettledKept ==
  ASSUME SettledWhole, UNCHANGED <<entries, cascaded, settled>>
  PROVE SettledWhole'
  BY DEF SettledWhole, Kept

LEMMA UpsertNodesInv ==
  ASSUME GraphInv, NEW j \in GraphJobs, UpsertNodes(j)
  PROVE GraphInv'
<1> DEFINE new == Extract(TheMemory(j), call[j].mode).entities
           job == [call[j] EXCEPT !.pc = "edges", !.nodes = new]
<1>1. call[j] \in Job /\ call[j].pc = "nodes"
  BY DEF GraphInv, TypeInv, UpsertNodes, Stage
<1>2. TheMemory(j) \in Sources /\ call[j].mode \in Modes
  BY <1>1, TheMemoryFacts DEF GraphInv, Indexing
<1>3. new \subseteq Entities
  BY <1>2, ExtractType
<1>4. /\ nodes' = nodes \cup new /\ call' = [call EXCEPT ![j] = job]
      /\ UNCHANGED <<edges, entries, texts, vecs, stray, settled, cascaded, forgiven>>
  BY DEF UpsertNodes
<1> HIDE DEF new
<1>5. /\ job \in Job /\ job.pc = "edges" /\ job.nodes = new /\ job.edges = call[j].edges
      /\ job.rows = call[j].rows /\ job.mems = call[j].mems /\ job.alone = call[j].alone
      /\ job.mode = call[j].mode
  BY <1>1, <1>3 DEF Job, Indexing
<1> HIDE DEF job
<1>6. Onward(j, job)
  BY <1>2, <1>4, <1>5 DEF Onward
<1>7. /\ call' \in [GraphJobs -> Job] /\ JobInv' /\ AloneInv'
      /\ \A k \in GraphJobs : call'[k] = IF k = j THEN job ELSE call[k]
  BY <1>4, <1>6, OnwardFacts
<1>8. TypeInv'
  BY <1>3, <1>4, <1>7 DEF GraphInv, TypeInv
<1>9. HeldInv'
  BY <1>4, <1>5, <1>7 DEF GraphInv, HeldInv, Related
<1>10. OwnInv' /\ Linked' /\ StrayExplained'
  BY <1>4 DEF GraphInv, OwnInv, Linked, StrayExplained, Related
<1>11. StageInv'
  BY <1>1, <1>4, <1>5, <1>7 DEF GraphInv, StageInv, RowsOf
<1> QED BY <1>4, <1>7, <1>8, <1>9, <1>10, <1>11, SettledKept DEF GraphInv

LEMMA AddEdgesInv ==
  ASSUME GraphInv, NEW j \in GraphJobs, AddEdges(j)
  PROVE GraphInv'
<1> DEFINE m == TheMemory(j)
           R == Extract(m, call[j].mode).relations
           job == [call[j] EXCEPT !.pc = "entries", !.edges = R]
<1>1. call[j] \in Job /\ call[j].pc = "edges"
  BY DEF GraphInv, TypeInv, AddEdges, Stage
<1>2. m \in Sources /\ call[j].mode \in Modes
  BY <1>1, TheMemoryFacts DEF GraphInv, Indexing
<1>3. R \subseteq Relations /\ \A r \in R : r \in Extract(m, call[j].mode).relations
  BY <1>2, ExtractType
<1>4. /\ edges' = edges \cup NewEdges(m, R) /\ call' = [call EXCEPT ![j] = job]
      /\ \A r \in R : Exact(m, r) \/ Insertable(j, r)
      /\ UNCHANGED <<nodes, entries, texts, vecs, stray, settled, cascaded, forgiven>>
  BY DEF AddEdges
<1> HIDE DEF m, R
<1>5. /\ job \in Job /\ job.pc = "entries" /\ job.nodes = call[j].nodes /\ job.edges = R
      /\ job.rows = call[j].rows /\ job.mems = call[j].mems /\ job.alone = call[j].alone
      /\ job.mode = call[j].mode
  BY <1>1, <1>3 DEF Job, Indexing
<1> HIDE DEF job
<1>6. Onward(j, job)
  BY <1>2, <1>4, <1>5 DEF Onward
<1>7. /\ call' \in [GraphJobs -> Job] /\ JobInv' /\ AloneInv'
      /\ \A k \in GraphJobs : call'[k] = IF k = j THEN job ELSE call[k]
  BY <1>4, <1>6, OnwardFacts
<1>8. \A d \in NewEdges(m, R) : d.of \in R /\ d.owner = m /\ d.of \notin Related(edges)
                                /\ d \in [of : Relations, owner : Sources]
  BY <1>2, <1>3 DEF NewEdges
<1>9. R \subseteq Related(edges') /\ Related(edges) \subseteq Related(edges')
  <2>1. ASSUME NEW r \in R, r \notin Related(edges) PROVE \E d \in edges' : d.of = r
    <3>1. [of |-> r, owner |-> m] \in NewEdges(m, R)
      BY <2>1 DEF NewEdges
    <3> QED BY <3>1, <1>4
  <2> QED BY <2>1, <1>4 DEF Related
<1>10. TypeInv'
  BY <1>4, <1>7, <1>8 DEF GraphInv, TypeInv
<1>11. HeldInv'
  BY <1>4, <1>5, <1>7, <1>9 DEF GraphInv, HeldInv
<1>12. OwnInv'
  BY <1>2, <1>3, <1>4, <1>8 DEF GraphInv, OwnInv
<1>13. Linked'
  <2>1. ASSUME NEW d \in edges' PROVE Ends(d.of) \subseteq nodes
    <3>1. CASE d \in edges
      BY <3>1 DEF GraphInv, Linked
    <3>2. CASE d \in NewEdges(m, R)
      <4>1. ~Exact(m, d.of)
        BY <3>2, <1>8 DEF Exact, Related
      <4> QED BY <4>1, <3>2, <1>4, <1>8 DEF Insertable, GraphInv, HeldInv
    <3> QED BY <3>1, <3>2, <1>4
  <2> QED BY <2>1, <1>4, <1>9 DEF GraphInv, Linked
<1>14. StageInv'
  BY <1>1, <1>4, <1>5, <1>7 DEF GraphInv, StageInv, RowsOf
<1> QED BY <1>4, <1>7, <1>10, <1>11, <1>12, <1>13, <1>14, SettledKept DEF GraphInv, StrayExplained

LEMMA AddEntriesInv ==
  ASSUME GraphInv, NEW j \in GraphJobs, AddEntries(j)
  PROVE GraphInv'
<1> DEFINE n == TheMemory(j)
           new == EntriesOf(n, call[j].mode)
           job == [call[j] EXCEPT !.pc = "embed", !.rows = new]
<1>1. call[j] \in Job /\ call[j].pc = "entries"
  BY DEF GraphInv, TypeInv, AddEntries, Stage
<1>2. n \in Sources /\ call[j].mode \in Modes /\ call[j].mems = {n}
  BY <1>1, TheMemoryFacts DEF GraphInv, Indexing
<1>3. new \subseteq Entry /\ \A e \in new : e[1] = n
  BY <1>2, ExtractType, EntryFacts
<1>4. /\ entries' = entries \cup new /\ texts' = texts \cup new /\ cascaded' = cascaded \ new
      /\ call' = [call EXCEPT ![j] = job] /\ \A e \in new : Linkable(j, e)
      /\ UNCHANGED <<nodes, edges, vecs, stray, settled, forgiven>>
  BY DEF AddEntries
<1>5. new = EntriesOf(n, call[j].mode)
  OBVIOUS
<1> HIDE DEF n, new
<1>6. /\ job \in Job /\ job.pc = "embed" /\ job.nodes = call[j].nodes /\ job.edges = call[j].edges
      /\ job.rows = new /\ job.mems = call[j].mems /\ job.alone = call[j].alone
      /\ job.mode = call[j].mode
  BY <1>1, <1>3 DEF Job, Indexing
<1> HIDE DEF job
<1>7. /\ call' \in [GraphJobs -> Job] /\ JobInv' /\ AloneInv'
      /\ \A k \in GraphJobs : call'[k] = IF k = j THEN job ELSE call[k]
  <2>1. Onward(j, job)
    BY <1>2, <1>4, <1>6 DEF Onward
  <2> QED BY <2>1, <1>4, OnwardFacts
<1>8. TypeInv'
  BY <1>3, <1>4, <1>7 DEF GraphInv, TypeInv
<1>9. HeldInv'
  BY <1>4, <1>6, <1>7 DEF GraphInv, HeldInv, Related
<1>10. Linked'
  BY <1>4 DEF GraphInv, Linked, Linkable, HeldInv, Related
<1>11. ASSUME NEW m, m # n PROVE RowsOf(m)' = RowsOf(m) /\ \A mode : EntriesOf(m, mode) \cap new = {}
  BY <1>3, <1>4, <1>11 DEF RowsOf, EntriesOf
<1>12. StageInv'
  <2>1. SUFFICES ASSUME NEW k \in GraphJobs, NEW m \in call'[k].mems, call'[k].alone
        PROVE /\ call'[k].pc \in {"unembed", "nodes", "edges", "entries"} => RowsOf(m)' = {}
              /\ call'[k].pc \in {"embed", "record", "raise"} =>
                    RowsOf(m)' = EntriesOf(m, call'[k].mode) \ cascaded'
    BY DEF StageInv
  <2>2. CASE k = j
    <3>1. m = n /\ RowsOf(n) = {}
      BY <2>1, <2>2, <1>1, <1>2, <1>6, <1>7 DEF GraphInv, StageInv
    <3>2. RowsOf(m)' = new
      BY <3>1, <1>3, <1>4 DEF RowsOf
    <3> QED BY <3>1, <3>2, <2>2, <1>4, <1>5, <1>6, <1>7
  <2>3. CASE k # j
    <3>1. m # n /\ call'[k] = call[k]
      BY <2>1, <2>3, <1>2, <1>7 DEF GraphInv, AloneInv
    <3>2. RowsOf(m)' = RowsOf(m) /\ EntriesOf(m, call[k].mode) \ cascaded' = EntriesOf(m, call[k].mode) \ cascaded
      BY <3>1, <1>4, <1>11
    <3> QED BY <3>1, <3>2, <2>1 DEF GraphInv, StageInv
  <2> QED BY <2>2, <2>3
<1>13. SettledWhole'
  <2>1. SUFFICES ASSUME NEW m \in Sources, settled[m] # "unsettled"
                 PROVE RowsOf(m)' = Kept(m) \ cascaded'
    BY <1>4 DEF SettledWhole, Kept, RowsOf
  <2>2. m # n
    BY <2>1, <1>2 DEF GraphInv, AloneInv
  <2>3. RowsOf(m) = Kept(m) \ cascaded /\ Kept(m) \cap new = {}
    BY <2>1, <2>2, <1>11 DEF GraphInv, SettledWhole, RowsOf, Kept
  <2> QED BY <2>2, <2>3, <1>4, <1>11
<1> QED BY <1>4, <1>7, <1>8, <1>9, <1>10, <1>12, <1>13 DEF GraphInv, OwnInv, StrayExplained

LEMMA EmbedInv ==
  ASSUME GraphInv, NEW j \in GraphJobs, Embed(j)
  PROVE GraphInv'
<1> DEFINE all == EntriesOf(TheMemory(j), call[j].mode)
<1>1. call[j] \in Job /\ call[j].pc = "embed"
  BY DEF GraphInv, TypeInv, Embed, Stage
<1>2. call[j].mode \in Modes /\ all \subseteq Entry
  BY <1>1, TheMemoryFacts, ExtractType DEF GraphInv, Indexing
<1>3. PICK skipped \in SUBSET all, pc \in {"record", "raise"} :
        call' = [call EXCEPT ![j].pc = pc, ![j].made = all \ skipped]
  BY DEF Embed
<1>4. UNCHANGED <<tables, settled, cascaded, forgiven>>
  BY DEF Embed
<1> DEFINE made == all \ skipped
           job == [call[j] EXCEPT !.pc = pc, !.made = made]
<1>5. call' = [call EXCEPT ![j] = job] /\ made \in SUBSET Entry
  BY <1>2, <1>3
<1> HIDE DEF made, all
<1>6. /\ job \in Job /\ job.pc = pc /\ job.nodes = call[j].nodes /\ job.edges = call[j].edges
      /\ job.rows = call[j].rows /\ job.mems = call[j].mems /\ job.alone = call[j].alone
      /\ job.mode = call[j].mode
  BY <1>1, <1>5 DEF Job, Indexing
<1> HIDE DEF job
<1>7. /\ call' \in [GraphJobs -> Job] /\ JobInv' /\ AloneInv'
      /\ \A k \in GraphJobs : call'[k] = IF k = j THEN job ELSE call[k]
  <2>1. Onward(j, job)
    BY <1>2, <1>5, <1>6 DEF Onward
  <2> QED BY <2>1, <1>4, OnwardFacts
<1>8. TypeInv' /\ HeldInv' /\ OwnInv' /\ Linked' /\ StrayExplained'
  BY <1>4, <1>6, <1>7 DEF GraphInv, TypeInv, HeldInv, OwnInv, Linked, StrayExplained, Related, tables
<1>9. StageInv'
  BY <1>1, <1>4, <1>6, <1>7 DEF GraphInv, StageInv, RowsOf, tables
<1>10. SettledWhole'
  BY <1>4, SettledKept DEF GraphInv, tables
<1> QED BY <1>7, <1>8, <1>9, <1>10 DEF GraphInv

LEMMA FailInv ==
  ASSUME GraphInv, NEW j \in GraphJobs, AddEdgesFails(j) \/ AddEntriesFails(j) \/ DeleteVectorFails(j)
  PROVE GraphInv'
<1>1. Return(j, FALSE) /\ UNCHANGED <<nodes, edges, entries, texts, vecs, cascaded>>
  BY DEF AddEdgesFails, AddEntriesFails, DeleteVectorFails, tables
<1>2. PICK left \in SUBSET call[j].doomed : stray' = stray \cup left /\ forgiven' = forgiven \cup left
  <2>1. CASE AddEdgesFails(j) \/ AddEntriesFails(j)
    <3>1. stray' = stray \cup {} /\ forgiven' = forgiven \cup {}
      BY <2>1 DEF AddEdgesFails, AddEntriesFails, tables
    <3> QED BY <3>1
  <2>2. CASE DeleteVectorFails(j)
    BY <2>2 DEF DeleteVectorFails
  <2> QED BY <2>1, <2>2
<1>3. call[j].doomed \subseteq Entry
  BY DEF GraphInv, TypeInv, Job
<1>4. /\ vecs' \subseteq entries /\ stray' \subseteq Entry /\ forgiven' \subseteq Entry
      /\ stray' \subseteq forgiven'
  BY <1>1, <1>2, <1>3 DEF GraphInv, TypeInv, StrayExplained
<1> QED BY <1>1, <1>4, EndOfCall

LEMMA DeleteVectorsInv ==
  ASSUME GraphInv, NEW j \in GraphJobs, DeleteVectors(j)
  PROVE GraphInv'
<1>1. call[j] \in Job /\ call[j].pc = "unembed"
  BY DEF GraphInv, TypeInv, DeleteVectors, Stage
<1>2. UNCHANGED <<tables, cascaded, forgiven>>
  BY DEF DeleteVectors
<1>3. CASE call[j].mode = "gone"
  <2>1. Return(j, TRUE)
    BY <1>3 DEF DeleteVectors
  <2>2. call[j].alone => \A m \in call[j].mems : RowsOf(m) = {} \ cascaded
    BY <1>1 DEF GraphInv, StageInv
  <2>3. /\ vecs' \subseteq entries /\ stray' \subseteq Entry /\ forgiven' \subseteq Entry
        /\ stray' \subseteq forgiven' /\ UNCHANGED <<nodes, edges, entries, texts, cascaded>>
    BY <1>2 DEF GraphInv, TypeInv, StrayExplained, tables
  <2> QED BY <2>1, <2>2, <2>3, <1>3, EndOfCall
<1>4. CASE call[j].mode # "gone"
  <2> DEFINE job == [call[j] EXCEPT !.pc = "nodes", !.doomed = {}]
  <2>1. call' = [call EXCEPT ![j] = job] /\ UNCHANGED settled
    BY <1>4 DEF DeleteVectors
  <2>2. /\ job \in Job /\ job.pc = "nodes" /\ job.nodes = call[j].nodes /\ job.edges = call[j].edges
        /\ job.rows = call[j].rows /\ job.mems = call[j].mems /\ job.alone = call[j].alone
        /\ job.mode = call[j].mode
    BY <1>1 DEF Job, Indexing
  <2>3. call[j].mode \in Modes
    BY <1>1, <1>4 DEF Job
  <2> HIDE DEF job
  <2>4. /\ call' \in [GraphJobs -> Job] /\ JobInv' /\ AloneInv'
        /\ \A k \in GraphJobs : call'[k] = IF k = j THEN job ELSE call[k]
    <3>1. Onward(j, job)
      BY <2>1, <2>2, <2>3 DEF Onward
    <3> QED BY <3>1, <2>1, OnwardFacts
  <2>5. TypeInv' /\ HeldInv' /\ OwnInv' /\ Linked' /\ StrayExplained'
    BY <1>2, <2>1, <2>2, <2>4
       DEF GraphInv, TypeInv, HeldInv, OwnInv, Linked, StrayExplained, Related, tables
  <2>6. StageInv'
    BY <1>1, <1>2, <2>2, <2>4 DEF GraphInv, StageInv, RowsOf, tables
  <2>7. SettledWhole'
    BY <1>2, <2>1, SettledKept DEF GraphInv, tables
  <2> QED BY <2>4, <2>5, <2>6, <2>7 DEF GraphInv
<1> QED BY <1>3, <1>4

LEMMA RecordInv ==
  ASSUME GraphInv, NEW j \in GraphJobs, Record(j)
  PROVE GraphInv'
<1>1. call[j] \in Job /\ call[j].pc \in {"record", "raise"}
  BY DEF GraphInv, TypeInv, Record, Stage
<1>2. PICK m \in Sources : call[j].mems = {m} /\ call[j].mode \in Modes
  BY <1>1, TheMemoryFacts DEF GraphInv, Indexing
<1>3. PICK ok \in BOOLEAN : Return(j, ok)
  BY DEF Record, Stage
<1>4. call[j].alone => RowsOf(m) = EntriesOf(m, call[j].mode) \ cascaded
  BY <1>1, <1>2 DEF GraphInv, StageInv
<1>5. Named(j) \subseteq entries /\ Named(j) = call[j].made \cap call[j].rows /\ call[j].made \subseteq Entry
  BY <1>1 DEF Named, GraphInv, HeldInv, Job
<1>6. /\ vecs' = vecs \cup Named(j)
      /\ stray' = stray \cup (call[j].made \ Named(j)) \cup (vecs \cap Named(j))
      /\ forgiven' = forgiven \cup (call[j].made \ call[j].rows) \cup (vecs \cap call[j].rows)
      /\ UNCHANGED <<nodes, edges, entries, texts, cascaded>>
  BY DEF Record
<1>7. /\ vecs' \subseteq entries /\ stray' \subseteq Entry /\ forgiven' \subseteq Entry
      /\ stray' \subseteq forgiven'
  BY <1>5, <1>6 DEF GraphInv, TypeInv, StrayExplained
<1>8. call[j].mode # "gone"
  BY <1>2 DEF Modes
<1> QED BY <1>2, <1>3, <1>4, <1>6, <1>7, <1>8, EndOfCall

LEMMA CrashInv ==
  ASSUME GraphInv, GraphCrash
  PROVE GraphInv'
<1>1. /\ call' = [j \in GraphJobs |-> NoJob]
      /\ UNCHANGED <<nodes, edges, entries, texts, vecs, settled, cascaded>>
      /\ \E left : stray' = stray \cup left /\ forgiven' = forgiven \cup left /\ left \subseteq Entry
  <2> DEFINE left == UNION {call[j].made \cup call[j].doomed : j \in GraphJobs}
  <2>1. left \subseteq Entry
    BY DEF GraphInv, TypeInv, Job
  <2> QED BY <2>1 DEF GraphCrash
<1>2. /\ NoJob.mems = {} /\ NoJob.nodes = {} /\ NoJob.edges = {} /\ NoJob.rows = {}
      /\ NoJob.mode = "gone" /\ NoJob.pc = "none"
  BY DEF NoJob
<1>3. TypeInv' /\ StrayExplained'
  BY <1>1, NoJobType DEF GraphInv, TypeInv, StrayExplained
<1>4. HeldInv' /\ OwnInv' /\ Linked'
  BY <1>1, <1>2 DEF GraphInv, HeldInv, OwnInv, Linked, Related
<1>5. JobInv' /\ AloneInv' /\ StageInv'
  BY <1>1, <1>2 DEF JobInv, AloneInv, StageInv, Modes, Indexing
<1> QED BY <1>1, <1>3, <1>4, <1>5, SettledKept DEF GraphInv

LEMMA DeleteRowsInv ==
  ASSUME GraphInv, NEW j \in GraphJobs, DeleteRows(j)
  PROVE GraphInv'
<1> DEFINE M == call[j].mems
           own == {e \in entries : e[1] \in M}
           away == Away(M)
           others == {e \in entries \ own : e[2] \in Related(away)}
           gone == own \cup others
           unused == Unused(edges \ away, entries \ gone)
           job(k) == [call[k] EXCEPT !.nodes = @ \ unused, !.edges = @ \ Related(away),
                            !.rows = @ \ gone,
                            !.doomed = IF k = j THEN vecs \cap own ELSE @,
                            !.pc = IF k = j THEN "unembed" ELSE @]
<1>1. /\ entries' = entries \ gone /\ texts' = texts \ own
      /\ edges' = edges \ away /\ nodes' = nodes \ unused
      /\ vecs' = vecs \ gone /\ stray' = stray \cup (vecs \cap others)
      /\ cascaded' = (cascaded \ own) \cup others /\ forgiven' = forgiven \cup others
      /\ settled' = settled
  BY DEF DeleteRows
<1>2. call' = [k \in GraphJobs |-> job(k)] /\ call[j].pc = "delete"
  BY DEF DeleteRows, Stage
<1>3. call \in [GraphJobs -> Job] /\ entries \subseteq Entry /\ vecs \subseteq entries /\ M \subseteq Sources
  BY DEF GraphInv, TypeInv, Job
<1>4. \A n \in unused : /\ \A d \in edges \ away : n \notin Ends(d.of)
                        /\ \A e \in entries \ gone : n \notin NodesOf(e)
  BY DEF Unused, Related
<1>5. own \subseteq entries /\ others \subseteq entries /\ gone = own \cup others
      /\ (\A e \in entries : e \in gone <=> e[1] \in M \/ e[2] \in Related(away))
      /\ (\A e \in entries : e \in own <=> e[1] \in M)
      /\ (\A e \in others : e[1] \notin M)
  OBVIOUS
<1>6. away \subseteq edges
  BY DEF Away
<1> HIDE DEF own, away, others, gone, unused
<1>7. \A k \in GraphJobs :
        /\ job(k) \in Job /\ job(k).pc = (IF k = j THEN "unembed" ELSE call[k].pc)
        /\ job(k).mems = call[k].mems /\ job(k).mode = call[k].mode /\ job(k).alone = call[k].alone
        /\ job(k).nodes = call[k].nodes \ unused /\ job(k).edges = call[k].edges \ Related(away)
        /\ job(k).rows = call[k].rows \ gone
  <2>1. vecs \cap own \subseteq Entry /\ "unembed" \in Indexing \cup {"none", "delete", "unembed"}
    BY <1>3
  <2> QED
    <3> TAKE k \in GraphJobs
    <3>1. call[k] \in Job
      BY <1>3
    <3>2. CASE k = j
      <4>1. job(k) = [call[k] EXCEPT !.nodes = @ \ unused, !.edges = @ \ Related(away),
                        !.rows = @ \ gone, !.doomed = vecs \cap own, !.pc = "unembed"]
        BY <3>2, Zenon
      <4> QED BY <3>1, <3>2, <4>1, <2>1, ZenonT(40) DEF Job
    <3>3. CASE k # j
      <4>1. job(k) = [call[k] EXCEPT !.nodes = @ \ unused, !.edges = @ \ Related(away),
                        !.rows = @ \ gone, !.doomed = @, !.pc = @]
        BY <3>3, Zenon
      <4> QED BY <3>1, <3>3, <4>1 DEF Job
    <3> QED BY <3>2, <3>3
<1> HIDE DEF job
<1>8. \A k \in GraphJobs : call'[k] = job(k)
  BY <1>2
<1>9. TypeInv'
  <2>1. call' \in [GraphJobs -> Job]
    BY <1>2, <1>7
  <2> QED BY <2>1, <1>1, <1>3, <1>5 DEF GraphInv, TypeInv
<1>10. \A r \in Related(edges) : r \notin Related(away) => r \in Related(edges')
  BY <1>1 DEF Related
<1>11. HeldInv'
  BY <1>1, <1>7, <1>8, <1>10, ZenonT(40) DEF GraphInv, HeldInv
<1>12. OwnInv' /\ StrayExplained'
  BY <1>1 DEF GraphInv, OwnInv, StrayExplained
<1>13. JobInv' /\ AloneInv'
  BY <1>1, <1>2, <1>7, <1>8 DEF GraphInv, JobInv, AloneInv, Indexing
<1>14. Linked'
  <2>1. ASSUME NEW d \in edges' PROVE Ends(d.of) \subseteq nodes'
    BY <1>1, <1>4, <2>1 DEF GraphInv, Linked
  <2>2. ASSUME NEW e \in entries'
        PROVE NodesOf(e) \subseteq nodes' /\ (e[2] \in Relations => e[2] \in Related(edges'))
    <3>1. e \in entries \ gone /\ e[2] \notin Related(away)
      BY <1>1, <1>5, <2>2
    <3> QED BY <3>1, <1>1, <1>4, <1>10 DEF GraphInv, Linked
  <2> QED BY <2>1, <2>2 DEF Linked
<1>15. ASSUME NEW m, m \notin M
       PROVE /\ RowsOf(m)' = RowsOf(m) \ others
             /\ \A mode : (EntriesOf(m, mode) \ cascaded) \ others = EntriesOf(m, mode) \ cascaded'
  <2>1. \A mode : EntriesOf(m, mode) \cap own = {}
    BY <1>15, <1>5 DEF EntriesOf
  <2>2. RowsOf(m)' = RowsOf(m) \ others
    BY <1>1, <1>5, <1>15 DEF RowsOf
  <2> QED BY <2>1, <2>2, <1>1
<1>16. StageInv'
  <2>1. SUFFICES ASSUME NEW k \in GraphJobs, NEW m \in call'[k].mems, call'[k].alone
        PROVE /\ call'[k].pc \in {"unembed", "nodes", "edges", "entries"} => RowsOf(m)' = {}
              /\ call'[k].pc \in {"embed", "record", "raise"} =>
                    RowsOf(m)' = EntriesOf(m, call'[k].mode) \ cascaded'
    BY DEF StageInv
  <2>2. CASE k = j
    <3>1. m \in M /\ call'[k].pc = "unembed"
      BY <2>1, <2>2, <1>7, <1>8
    <3>2. RowsOf(m)' = {}
      BY <3>1, <1>1, <1>5 DEF RowsOf
    <3> QED BY <3>1, <3>2
  <2>3. CASE k # j
    <3>1. /\ m \notin M /\ m \in call[k].mems /\ call[k].alone
          /\ call'[k].pc = call[k].pc /\ call'[k].mode = call[k].mode
      BY <2>1, <2>3, <1>7, <1>8 DEF GraphInv, AloneInv
    <3>2. /\ call[k].pc \in {"unembed", "nodes", "edges", "entries"} => RowsOf(m) = {}
          /\ call[k].pc \in {"embed", "record", "raise"} =>
                RowsOf(m) = EntriesOf(m, call[k].mode) \ cascaded
      BY <3>1 DEF GraphInv, StageInv
    <3> QED BY <3>1, <3>2, <1>15
  <2> QED BY <2>2, <2>3
<1>17. SettledWhole'
  <2>1. SUFFICES ASSUME NEW m \in Sources, settled[m] # "unsettled"
                 PROVE RowsOf(m)' = Kept(m) \ cascaded'
    BY <1>1 DEF SettledWhole, Kept, RowsOf
  <2>2. m \notin M
    BY <2>1 DEF GraphInv, AloneInv
  <2>3. RowsOf(m) = Kept(m) \ cascaded
    BY <2>1 DEF GraphInv, SettledWhole, RowsOf
  <2>4. (Kept(m) \ cascaded) \ others = Kept(m) \ cascaded'
    BY <2>2, <1>1, <1>15 DEF Kept
  <2> QED BY <2>2, <2>3, <2>4, <1>15
<1> QED BY <1>9, <1>11, <1>12, <1>13, <1>14, <1>16, <1>17 DEF GraphInv

LEMMA GraphNextInv == GraphInv /\ [GraphNext]_graphvars => GraphInv'
<1>1. SUFFICES ASSUME GraphInv, [GraphNext]_graphvars PROVE GraphInv'
  OBVIOUS
<1>2. ASSUME NEW j \in GraphJobs, IndexStep(j) PROVE GraphInv'
  <2>1. CASE Index(j)
    <3>1. PICK m \in Sources, mode \in Modes : Begin(j, {m}, mode)
      BY <2>1 DEF Index
    <3> QED BY <1>1, <3>1, BeginInv
  <2> QED BY <1>1, <1>2, <2>1, UpsertNodesInv, AddEdgesInv, AddEntriesInv, EmbedInv, RecordInv, FailInv
          DEF IndexStep
<1>3. ASSUME NEW j \in GraphJobs, DeleteStep(j) PROVE GraphInv'
  <2>1. CASE Delete(j)
    <3>1. PICK M \in SUBSET Sources : Begin(j, M, "gone")
      BY <2>1 DEF Delete
    <3>2. "gone" \notin Modes
      BY DEF Modes
    <3> QED BY <1>1, <3>1, <3>2, BeginInv
  <2> QED BY <1>1, <1>3, <2>1, DeleteRowsInv, DeleteVectorsInv, FailInv DEF DeleteStep
<1>4. CASE GraphCrash
  BY <1>1, <1>4, CrashInv
<1>5. CASE UNCHANGED graphvars
  BY <1>1, <1>5 DEF graphvars, tables, GraphInv, TypeInv, HeldInv, OwnInv, JobInv, AloneInv, StageInv,
     RowsOf, Linked, SettledWhole, Kept, StrayExplained, Related
<1> QED BY <1>1, <1>2, <1>3, <1>4, <1>5 DEF GraphNext

LEMMA GraphInductive == GraphSpec => []GraphInv
  BY GraphInitInv, GraphNextInv, PTL DEF GraphSpec

-----------------------------------------------------------------------------
(* The invariants the runs check                                           *)

\* The foreign keys hold, and a settled memory has the entries extracted of
\* it, however many calls overlap, fail or end in a crash.
THEOREM GraphIsWhole == GraphSpec => []GraphWhole
<1>1. GraphInv => GraphWhole
  <2>1. TypeInv => GraphTypeOK
    BY DEF TypeInv, GraphTypeOK, Entry, Job
  <2> QED BY <2>1 DEF GraphInv, GraphWhole
<1> QED BY <1>1, GraphInductive, PTL

\* A vector without a row was left by one of the causes the model names.
THEOREM StrayHasCause == GraphSpec => []StrayExplained
<1>1. GraphInv => StrayExplained
  BY DEF GraphInv
<1> QED BY <1>1, GraphInductive, PTL

\* What goes with another memory's edge is a relation, so that the entities
\* of a settled memory all have their entries.
SharedOnly == \A e \in cascaded : e[2] \in Relations

LEMMA CascadedRelations == GraphInv /\ SharedOnly /\ [GraphNext]_graphvars => SharedOnly'
<1> SUFFICES ASSUME GraphInv, SharedOnly, [GraphNext]_graphvars PROVE SharedOnly'
  OBVIOUS
<1>1. CASE \E j \in GraphJobs : DeleteRows(j)
  <2>1. PICK j \in GraphJobs : DeleteRows(j)
    BY <1>1
  <2> DEFINE own == {e \in entries : e[1] \in call[j].mems}
             away == Away(call[j].mems)
             others == {e \in entries \ own : e[2] \in Related(away)}
  <2>2. cascaded' = (cascaded \ own) \cup others
    BY <2>1 DEF DeleteRows
  <2>3. Related(away) \subseteq Relations
    BY DEF GraphInv, TypeInv, Related, Away
  <2> QED BY <2>2, <2>3 DEF SharedOnly
<1>2. CASE ~ \E j \in GraphJobs : DeleteRows(j)
  <2>1. cascaded' \subseteq cascaded
    BY <1>2 DEF GraphNext, graphvars, tables, IndexStep, DeleteStep, Index, Delete, Begin, UpsertNodes, AddEdges,
       AddEdgesFails, AddEntries, AddEntriesFails, Embed, Record, DeleteVectors, DeleteVectorFails, GraphCrash
  <2> QED BY <2>1 DEF SharedOnly
<1> QED BY <1>1, <1>2

\* A search for a word finds the settled memories that tell of it and no
\* deleted one; a page has both ends of its edges, and an entry of each node.
THEOREM ReadsAreWhole == GraphSpec => []ReadsWhole
<1>1. GraphInit => SharedOnly
  BY DEF GraphInit, SharedOnly
<1>2. GraphInv /\ SharedOnly => ReadsWhole
  <2> SUFFICES ASSUME GraphInv, SharedOnly PROVE RouteFinds /\ PageWhole
    BY DEF ReadsWhole
  <2>0. TypeInv /\ Linked /\ SettledWhole
    BY DEF GraphInv
  <2>1. ASSUME NEW w \in Entities, NEW m \in Sources, settled[m] \in Modes, w \in Extract(m, settled[m]).entities
        PROVE m \in Route({w})
    <3> DEFINE e == <<m, w>>
    <3>1. e \in Kept(m) /\ settled[m] # "unsettled"
      BY <2>1 DEF Kept, EntriesOf, ItemsOf, Modes
    <3>2. w \notin Relations
      BY GraphAssumption
    <3>3. e \notin cascaded
      BY <3>2 DEF SharedOnly
    <3>4. e \in entries /\ e[1] = m /\ e[2] = w
      BY <2>0, <3>1, <3>3 DEF SettledWhole
    <3>5. NodesOf(e) = {w}
      BY <3>2 DEF NodesOf
    <3>6. w \in nodes
      BY <2>0, <3>4, <3>5 DEF Linked
    <3>7. \A N : w \in N => e \in EntriesAt(N)
      BY <3>4, <3>5 DEF EntriesAt
    <3> HIDE DEF e
    <3> QED BY <3>4, <3>6, <3>7 DEF Route
  <2>2. ASSUME NEW w \in Entities, NEW m \in Sources, settled[m] = "gone"
        PROVE m \notin Route({w})
    <3>1. {e \in entries : e[1] = m} = {}
      BY <2>0, <2>2 DEF SettledWhole, Kept
    <3>2. \A W : Route(W) \subseteq {e[1] : e \in entries}
      BY DEF Route, TextHits, EntriesAt
    <3> QED BY <3>1, <3>2
  <2>3. ASSUME NEW M \in Views, NEW N \in Heaviest(M)
        PROVE /\ \A d \in Page(M, N).edges : Ends(d.of) \subseteq Page(M, N).nodes
              /\ Page(M, N).nodes \subseteq UNION {NodesOf(e) : e \in Page(M, N).entries}
    <3>1. /\ Page(M, N).nodes = N /\ Page(M, N).edges = {d \in EdgesOn(M) : Ends(d.of) \subseteq N}
          /\ Page(M, N).entries = {e \in ShownEntries(M) : NodesOf(e) \cap N # {}}
      BY DEF Page
    <3>2. N \subseteq UNION {NodesOf(e) : e \in ShownEntries(M)}
      BY DEF Heaviest, NodesOn
    <3>3. ASSUME NEW n \in N PROVE n \in UNION {NodesOf(e) : e \in Page(M, N).entries}
      <4>1. PICK e \in ShownEntries(M) : n \in NodesOf(e)
        BY <3>2
      <4> QED BY <3>1, <4>1
    <3> QED BY <3>1, <3>3
  <2>4. RouteFinds
    BY <2>1, <2>2 DEF RouteFinds
  <2>5. PageWhole
    BY <2>3 DEF PageWhole
  <2> QED BY <2>4, <2>5
<1>3. GraphSpec => []SharedOnly
  BY <1>1, CascadedRelations, GraphInductive, PTL DEF GraphSpec
<1> QED BY <1>2, <1>3, GraphInductive, PTL

-----------------------------------------------------------------------------
(* The tables implement GraphIndex                                         *)

LEMMA FoundFacts ==
  ASSUME TypeInv
  PROVE /\ Found \in [Sources -> SUBSET Items]
        /\ \A m \in Sources : \A i : i \in Found[m] <=> \E e \in entries : e[1] = m /\ e[2] = i
  BY DEF TypeInv, Entry, Found

LEMMA EntriesAppear ==
  ASSUME GraphInv, NEW j \in GraphJobs, AddEntries(j)
  PROVE \E m \in Sources : Index_!Appear(m)
<1> DEFINE n == TheMemory(j)
           C == ItemsOf(n, call[j].mode)
<1>1. n \in Sources /\ call[j].mode \in Modes
  BY TheMemoryFacts DEF GraphInv, AddEntries, Stage, Indexing
<1>2. entries' = entries \cup EntriesOf(n, call[j].mode)
  BY DEF AddEntries
<1>3. PICK m \in Sources, D \in {C} : m = n /\ D = C /\ D \in {ItemsOf(m, mode) : mode \in Modes}
                              /\ entries' = entries \cup ({m} \X D)
  BY <1>1, <1>2 DEF EntriesOf
<1>4. Found' = [Found EXCEPT ![m] = @ \cup D]
  <2>1. ASSUME NEW k \in Sources
        PROVE {e[2] : e \in {x \in entries' : x[1] = k}}
              = (IF k = m THEN {e[2] : e \in {x \in entries : x[1] = k}} \cup D
                          ELSE {e[2] : e \in {x \in entries : x[1] = k}})
    <3>1. CASE k = m
      <4>1. ASSUME NEW i \in D PROVE i \in {e[2] : e \in {x \in entries' : x[1] = k}}
        <5>1. <<m, i>> \in entries' /\ <<m, i>>[1] = k /\ <<m, i>>[2] = i
          BY <1>3, <3>1, <4>1
        <5> QED BY <5>1
      <4> QED BY <3>1, <4>1, <1>3
    <3>2. CASE k # m
      BY <3>2, <1>3
    <3> QED BY <3>1, <3>2
  <2> QED BY <2>1 DEF Found
<1> QED BY <1>3, <1>4 DEF Index_!Appear

LEMMA EntriesDisappear ==
  ASSUME GraphInv, GraphInv', NEW j \in GraphJobs, DeleteRows(j)
  PROVE \E M \in SUBSET Sources : Index_!Withdraw(M)
<1>1. PICK M \in SUBSET Sources : M = call[j].mems
  BY DEF GraphInv, TypeInv, Job
<1> DEFINE own == {e \in entries : e[1] \in M}
           away == Away(M)
           others == {e \in entries \ own : e[2] \in Related(away)}
<1>2. entries' = entries \ (own \cup others)
  BY <1>1 DEF DeleteRows
<1>3. /\ Found' \in [Sources -> SUBSET Items]
      /\ \A m \in Sources : \A i : i \in Found[m] <=> \E e \in entries : e[1] = m /\ e[2] = i
      /\ \A m \in Sources : \A i : i \in Found'[m] <=> \E e \in entries' : e[1] = m /\ e[2] = i
  BY FoundFacts DEF GraphInv, TypeInv, Entry, Found
<1>4. ASSUME NEW m \in M PROVE Found'[m] = {}
  BY <1>2, <1>3
<1>5. ASSUME NEW n \in Sources \ M PROVE Found'[n] \subseteq Found[n]
  BY <1>2, <1>3
<1>6. ASSUME NEW n \in Sources \ M, NEW i \in Found[n] \ Found'[n]
      PROVE i \in Relations /\ i \in UNION {UNION {ItemsOf(m, mode) : mode \in Modes} : m \in M}
  <2>1. PICK e \in entries : e[1] = n /\ e[2] = i
    BY <1>3
  <2>2. e[2] \in Related(away)
    BY <1>2, <1>3, <2>1
  <2>3. PICK d \in edges : d.owner \in M /\ d.of = i
    BY <2>1, <2>2 DEF Related, Away
  <2>4. PICK mode \in Modes : i \in ItemsOf(d.owner, mode)
    BY <2>3 DEF GraphInv, OwnInv, ItemsOf
  <2>5. i \in Relations
    BY <2>3 DEF GraphInv, TypeInv
  <2> QED BY <2>3, <2>4, <2>5
<1>7. \A m \in M : [k \in Sources |-> {ItemsOf(k, mode) : mode \in Modes}][m] = {ItemsOf(m, mode) : mode \in Modes}
  OBVIOUS
<1> DEFINE told == UNION {UNION [k \in Sources |-> {ItemsOf(k, mode) : mode \in Modes}][m] : m \in M}
<1>8. told = UNION {UNION {ItemsOf(m, mode) : mode \in Modes} : m \in M}
  BY <1>7
<1>9. told = Index_!Told(M)
  BY DEF Index_!Told
<1> HIDE DEF told
<1>10. \A n \in Sources \ M : Found'[n] \subseteq Found[n] /\ Found[n] \ Found'[n] \subseteq Relations \cap told
  BY <1>5, <1>6, <1>8
<1> QED BY <1>3, <1>4, <1>9, <1>10 DEF Index_!Withdraw

LEMMA OtherStepsStutter ==
  ASSUME [GraphNext]_graphvars, \A j \in GraphJobs : ~AddEntries(j) /\ ~DeleteRows(j)
  PROVE UNCHANGED entries
  BY DEF GraphNext, graphvars, tables, IndexStep, DeleteStep, Index, Delete, Begin, UpsertNodes, AddEdges,
     AddEdgesFails, AddEntriesFails, Embed, Record, DeleteVectors, DeleteVectorFails, GraphCrash

\* A search finds what GraphIndex promises: an extraction appears at once,
\* and what a deletion takes is the memory's or a relation shared with it.
THEOREM FindsAsPromised == GraphSpec => FoundAsPromised
<1>1. GraphInit => Index_!Empty
  BY DEF GraphInit, Index_!Empty, Found
<1>2. GraphInv /\ GraphInv' /\ [GraphNext]_graphvars => [Index_!Move]_Found
  <2>1. SUFFICES ASSUME GraphInv, GraphInv', [GraphNext]_graphvars PROVE Index_!Move \/ Found' = Found
    OBVIOUS
  <2>2. CASE \E j \in GraphJobs : AddEntries(j)
    BY <2>1, <2>2, EntriesAppear DEF Index_!Move
  <2>3. CASE \E j \in GraphJobs : DeleteRows(j)
    BY <2>1, <2>3, EntriesDisappear DEF Index_!Move
  <2>4. CASE \A j \in GraphJobs : ~AddEntries(j) /\ ~DeleteRows(j)
    BY <2>1, <2>4, OtherStepsStutter DEF Found
  <2> QED BY <2>2, <2>3, <2>4
<1> QED BY <1>1, <1>2, GraphInductive, PTL DEF GraphSpec, FoundAsPromised, Index_!Promise
===============================================================================
