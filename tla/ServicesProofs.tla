---------------------------- MODULE ServicesProofs ----------------------------
(***************************************************************************)
(* What the background services promise, proved for every value of the     *)
(* constants: no story and no bottle comes twice (Stories), what the       *)
(* ecosystem decided stands, its evidence is kept and its bus is worked by *)
(* one task (Ecosystem), and a start and its rebuild leave the stores      *)
(* whole and their version true (IndexStartup).                            *)
(*                                                                         *)
(* Each component has an inductive invariant: StoriesInv follows a day's   *)
(* story and each memory from the loop that is about to act on it to the   *)
(* row that says it was done, EcoInv says for each record which hook, pass *)
(* or task of the bus may still write it, and what that one has read, and  *)
(* StartInv says of each document that an index has it, lost it for a      *)
(* reason, or that a rebuild is still to write it.                         *)
(***************************************************************************)
EXTENDS Ecosystem, Stories, IndexStartup, FiniteSetTheorems, SequenceTheorems, WellFoundedInduction, NaturalsInduction, TLAPS

-----------------------------------------------------------------------------
(* Stories: neither a day's story nor a bottle comes twice.                *)
Memo == [kind : {"none", "told", "story"}, day : Nat, pushed : BOOLEAN]
Tale == [pc : {"sleep", "read", "save", "push"}, due : Nat, of : Days]
Launch == [pc : {"sleep", "pick", "fall back", "push", "mark", "answer"}, due : Nat, mem : 0 .. MaxKept]
TaleTypes ==
    /\ day \in Days /\ hour \in 1 .. 3 /\ on \in BOOLEAN
    /\ tale \in Tale /\ stored \in [Days -> Nat]
    /\ ~on => tale.pc = "sleep"
BottleTypes ==
    /\ kept \in [Kept -> Memo] /\ \A m \in Kept : m \in Existing \/ kept[m] = Missing
    /\ bottle \in [Launches -> Launch] /\ writer \in [mem : 0 .. MaxKept, pushed : BOOLEAN]
    /\ sent \in [Kept -> 0 .. 2]
    /\ \A l \in Launches : IF bottle[l].pc \in {"sleep", "pick", "fall back"} THEN bottle[l].mem = 0
                           ELSE bottle[l].mem \in Existing
    /\ bottle["daily"].pc # "answer" /\ bottle["manual"].pc # "push"
    /\ writer.mem # 0 => writer.mem \in Existing

\* The story of a day that was read in time is stored or about to be, once,
\* and the loop next wakes on a later day.
Saving(d) == tale.pc = "save" /\ tale.of = d
TaleInv ==
    \A d \in Days \ slipped :
        /\ stored[d] <= 1 /\ (Saving(d) => stored[d] = 0)
        /\ stored[d] = 1 \/ Saving(d) =>
             /\ day > d \/ (day = d /\ hour = 3)
             /\ on /\ tale.pc \in {"sleep", "read"} => tale.due > d

\* A memory that went out is marked, or about to be; one about to go out
\* has not; and no writer holds an older row of a marked one.
Going(m) ==
    \/ bottle["daily"].mem = m /\ bottle["daily"].pc = "push"
    \/ bottle["manual"].mem = m /\ bottle["manual"].pc \in {"mark", "answer"}
BottleOf(m) ==
    /\ ~ (bottle["daily"].mem = m /\ bottle["manual"].mem = m)
    /\ sent[m] <= 1 /\ (Going(m) => sent[m] = 0)
    /\ sent[m] = 1 => kept[m].pushed \/ (bottle["daily"].mem = m /\ bottle["daily"].pc = "mark")
    /\ bottle["manual"].mem = m /\ bottle["manual"].pc = "answer" => kept[m].pushed
    /\ kept[m].pushed /\ writer.mem = m => writer.pushed
BottleInv == \A m \in Kept \ excused : BottleOf(m)

\* The daily launch ends with the scheduler.
OffInv == ~on => bottle["daily"].pc = "sleep"

StoriesInv == TaleTypes /\ BottleTypes /\ TaleInv /\ BottleInv /\ OffInv

LEMMA StoryNats == MinAge \in Nat /\ Window \in Nat /\ MaxKept \in Nat /\ MaxDays \in Nat /\ MaxRuns \in Nat /\ MaxMishaps \in Nat
  BY StoriesAssumption

LEMMA NextAtNat == ASSUME day \in Days, NEW h \in 1 .. 3 PROVE NextAt(h) \in Nat /\ NextAt(h) >= day
  BY StoryNats DEF NextAt, Days

LEMMA StoriesInitInv == StoriesInit => StoriesInv
  <1> SUFFICES ASSUME StoriesInit
               PROVE  StoriesInv
    OBVIOUS
  <1>1. TaleTypes
    BY StoryNats DEF StoriesInit, TaleTypes, Tale, NoTale, Days
  <1>2. \A l \in Launches : bottle[l] = NoLaunch
    BY DEF StoriesInit
  <1>3. NoLaunch \in Launch /\ NoLaunch.pc = "sleep" /\ NoLaunch.mem = 0
    BY StoryNats DEF NoLaunch, Launch
  <1>4. BottleTypes
    <2>1. kept \in [Kept -> Memo] /\ \A m \in Kept : kept[m] = Missing
      BY DEF StoriesInit, Memo, Missing
    <2>2. bottle \in [Launches -> Launch] /\ writer \in [mem : 0 .. MaxKept, pushed : BOOLEAN] /\ sent \in [Kept -> 0 .. 2]
          /\ writer.mem = 0
      BY <1>3, StoryNats DEF StoriesInit
    <2>3. "daily" \in Launches /\ "manual" \in Launches
      BY DEF Launches
    <2>4. QED
      BY <1>2, <1>3, <2>1, <2>2, <2>3 DEF BottleTypes
  <1>5. TaleInv
    BY DEF StoriesInit, TaleInv, Saving, NoTale
  <1>6. BottleInv
    <2>1. "daily" \in Launches /\ "manual" \in Launches
      BY DEF Launches
    <2>2. ASSUME NEW m \in Kept
          PROVE  BottleOf(m)
      <3>1. m # 0 /\ sent[m] = 0 /\ ~kept[m].pushed
        BY StoryNats DEF StoriesInit, Kept, Missing
      <3>2. QED
        BY <1>2, <1>3, <2>1, <3>1 DEF BottleOf, Going
    <2>3. QED
      BY <2>2 DEF BottleInv
  <1>7. OffInv
    BY DEF StoriesInit, OffInv
  <1>8. QED
    BY <1>1, <1>4, <1>5, <1>6, <1>7 DEF StoriesInv

-----------------------------------------------------------------------------
(* The loop of the story.                                                  *)
LEMMA StoryTale ==
    ASSUME TaleTypes, TaleInv, StoryStep
    PROVE  TaleTypes' /\ TaleInv'
  <1>0. /\ day \in Days /\ day \in Nat /\ hour \in 1 .. 3 /\ on \in BOOLEAN /\ tale \in Tale /\ stored \in [Days -> Nat]
        /\ Days \subseteq Nat
    BY StoryNats DEF TaleTypes, Days
  <1>1. CASE TaleWakes
    <2>1. /\ on /\ tale.pc = "sleep" /\ tale' = [tale EXCEPT !.pc = "read"]
          /\ UNCHANGED <<day, hour, on, stored, slipped>>
      BY <1>1 DEF TaleWakes, TaleAt, TaleGoes, tales, clockvars
    <2>2. tale' \in Tale /\ tale'.pc = "read" /\ tale'.due = tale.due /\ tale'.of = tale.of
      BY <1>0, <2>1 DEF Tale
    <2>3. TaleTypes'
      BY <1>0, <2>1, <2>2 DEF TaleTypes
    <2>4. TaleInv'
      BY <2>1, <2>2 DEF TaleInv, Saving
    <2>5. QED
      BY <2>3, <2>4
  <1>2. CASE ReadToday
    <2>0. /\ tale.pc = "read" /\ on /\ UNCHANGED <<day, hour, on, stored>>
          /\ slipped' = IF tale.due = day /\ hour = 3 THEN slipped ELSE slipped \cup {day}
      BY <1>2 DEF ReadToday, TaleAt, tales, clockvars, TaleTypes
    <2>1. CASE tale' = [tale EXCEPT !.pc = "save", !.of = day]
      <3>1. tale' \in Tale /\ tale'.pc = "save" /\ tale'.due = tale.due /\ tale'.of = day
        BY <1>0, <2>1 DEF Tale
      <3>2. TaleTypes'
        BY <1>0, <2>0, <3>1 DEF TaleTypes
      <3>3. ASSUME NEW d \in Days \ slipped'
            PROVE  /\ stored[d] <= 1 /\ (Saving(d)' => stored[d] = 0)
                   /\ stored[d] = 1 \/ Saving(d)' => day > d \/ (day = d /\ hour = 3)
        <4>1. d \in Days \ slipped /\ (d = day => tale.due = day /\ hour = 3)
          BY <2>0, <3>3
        <4>2. stored[d] <= 1 /\ (stored[d] = 1 => day > d \/ (day = d /\ hour = 3)) /\ (stored[d] = 1 => tale.due > d)
          BY <2>0, <4>1 DEF TaleInv
        <4>3. Saving(d)' => d = day
          BY <3>1 DEF Saving
        <4>4. stored[d] \in Nat /\ tale.due \in Nat /\ d \in Nat
          BY <1>0, <4>1 DEF Tale
        <4>5. d = day => stored[d] = 0
          BY <4>1, <4>2, <4>4
        <4>6. QED
          BY <4>1, <4>2, <4>3, <4>5
      <3>4. TaleInv'
        BY <2>0, <3>1, <3>3 DEF TaleInv
      <3>5. QED
        BY <3>2, <3>4
    <2>2. CASE TaleSleeps
      <3>1. tale' = [pc |-> "sleep", due |-> NextAt(3), of |-> 0]
        BY <2>2 DEF TaleSleeps
      <3>2. tale' \in Tale /\ tale'.pc = "sleep" /\ tale'.due = NextAt(3)
        BY <1>0, <3>1, NextAtNat, StoryNats DEF Tale, Days
      <3>3. TaleTypes'
        BY <1>0, <2>0, <3>2 DEF TaleTypes
      <3>4. ASSUME NEW d \in Days \ slipped'
            PROVE  /\ stored[d] <= 1
                   /\ stored[d] = 1 => (day > d \/ (day = d /\ hour = 3)) /\ NextAt(3) > d
        <4>1. d \in Days \ slipped
          BY <2>0, <3>4
        <4>2. stored[d] <= 1 /\ (stored[d] = 1 => day > d \/ (day = d /\ hour = 3))
          BY <2>0, <4>1 DEF TaleInv
        <4>3. (day > d \/ (day = d /\ hour = 3)) => NextAt(3) > d
          BY <1>0, <4>1 DEF NextAt
        <4>4. QED
          BY <4>2, <4>3
      <3>5. TaleInv'
        BY <2>0, <3>2, <3>4 DEF TaleInv, Saving
      <3>6. QED
        BY <3>3, <3>5
    <2>3. QED
      BY <1>2, <2>1, <2>2 DEF ReadToday
  <1>3. CASE SaveStory
    <2>0. /\ tale.pc = "save" /\ tale' = [tale EXCEPT !.pc = "push"] /\ UNCHANGED <<day, hour, on, slipped>>
          /\ stored' = stored \/ stored' = [stored EXCEPT ![tale.of] = @ + 1]
      BY <1>3 DEF SaveStory, TaleAt, TaleGoes, tales, clockvars
    <2>1. tale' \in Tale /\ tale'.pc = "push" /\ tale.of \in Days
      BY <1>0, <2>0 DEF Tale
    <2>2. stored' \in [Days -> Nat] /\ \A d \in Days : stored'[d] = stored[d] \/ (d = tale.of /\ stored'[d] = stored[d] + 1)
      BY <1>0, <2>0, <2>1
    <2>3. TaleTypes'
      BY <1>0, <2>0, <2>1, <2>2 DEF TaleTypes
    <2>4. ASSUME NEW d \in Days \ slipped
          PROVE  /\ stored'[d] <= 1 /\ (stored'[d] = 1 => day > d \/ (day = d /\ hour = 3))
      <3>1. /\ stored[d] <= 1 /\ (Saving(d) => stored[d] = 0)
            /\ stored[d] = 1 \/ Saving(d) => day > d \/ (day = d /\ hour = 3)
        BY DEF TaleInv
      <3>2. d = tale.of => Saving(d)
        BY <2>0 DEF Saving
      <3>3. QED
        BY <1>0, <2>2, <3>1, <3>2
    <2>5. TaleInv'
      BY <2>0, <2>1, <2>4 DEF TaleInv, Saving
    <2>6. QED
      BY <2>3, <2>5
  <1>4. CASE PushStory
    <2>0. /\ tale.pc = "push" /\ tale' = [pc |-> "sleep", due |-> NextAt(3), of |-> 0]
          /\ UNCHANGED <<day, hour, on, stored, slipped>>
      BY <1>4 DEF PushStory, TaleAt, TaleSleeps, tales, clockvars
    <2>1. tale' \in Tale /\ tale'.pc = "sleep" /\ tale'.due = NextAt(3)
      BY <1>0, <2>0, NextAtNat, StoryNats DEF Tale, Days
    <2>2. TaleTypes'
      BY <1>0, <2>0, <2>1 DEF TaleTypes
    <2>3. \A d \in Days : (day > d \/ (day = d /\ hour = 3)) => NextAt(3) > d
      BY <1>0 DEF NextAt
    <2>4. TaleInv'
      BY <2>0, <2>1, <2>3 DEF TaleInv, Saving
    <2>5. QED
      BY <2>2, <2>4
  <1>5. QED
    BY <1>1, <1>2, <1>3, <1>4 DEF StoryStep

LEMMA OutsideTale ==
    ASSUME TaleTypes, TaleInv, Outside
    PROVE  TaleTypes' /\ TaleInv'
  <1>0. /\ day \in Days /\ day \in Nat /\ hour \in 1 .. 3 /\ on \in BOOLEAN /\ tale \in Tale /\ stored \in [Days -> Nat]
        /\ Days \subseteq Nat
    BY StoryNats DEF TaleTypes, Days
  <1>1. CASE PassTime
    <2>1. /\ day' \in Days /\ hour' \in 1 .. 3 /\ UNCHANGED <<on, tale, stored, slipped>>
          /\ (day' = day /\ hour < 3) \/ day' = day + 1
      BY <1>0, <1>1, StoryNats DEF PassTime, Days
    <2>2. TaleTypes'
      BY <1>0, <2>1 DEF TaleTypes
    <2>3. \A d \in Days : (day > d \/ (day = d /\ hour = 3)) => day' > d
      BY <1>0, <2>1
    <2>4. TaleInv'
      BY <2>1, <2>3 DEF TaleInv, Saving
    <2>5. QED
      BY <2>2, <2>4
  <1>2. CASE StopStories
    <2>1. on' = FALSE /\ tale' = NoTale /\ UNCHANGED <<day, hour, stored, slipped>>
      BY <1>2 DEF StopStories, clockvars
    <2>2. NoTale \in Tale /\ NoTale.pc = "sleep"
      BY StoryNats DEF NoTale, Tale, Days
    <2>3. TaleTypes'
      BY <1>0, <2>1, <2>2 DEF TaleTypes
    <2>4. TaleInv'
      BY <2>1, <2>2 DEF TaleInv, Saving
    <2>5. QED
      BY <2>3, <2>4
  <1>3. CASE StartStories
    <2>1. /\ ~on /\ on' = TRUE /\ tale' = [pc |-> "sleep", due |-> NextAt(3), of |-> 0] /\ UNCHANGED <<day, hour, stored, slipped>>
      BY <1>3 DEF StartStories, TaleSleeps, clockvars
    <2>2. tale' \in Tale /\ tale'.pc = "sleep" /\ tale'.due = NextAt(3)
      BY <1>0, <2>1, NextAtNat, StoryNats DEF Tale, Days
    <2>3. TaleTypes'
      BY <1>0, <2>1, <2>2 DEF TaleTypes
    <2>4. \A d \in Days : (day > d \/ (day = d /\ hour = 3)) => NextAt(3) > d
      BY <1>0 DEF NextAt
    <2>5. TaleInv'
      BY <2>1, <2>2, <2>4 DEF TaleInv, Saving
    <2>6. QED
      BY <2>3, <2>5
  <1>4. QED
    BY <1>1, <1>2, <1>3 DEF Outside

LEMMA BottleTale ==
    ASSUME TaleTypes, TaleInv, BottleStep
    PROVE  TaleTypes' /\ TaleInv'
  <1>1. UNCHANGED <<day, hour, on, tale, stored, slipped>>
    BY DEF BottleStep, Remember, Launched, PushBottle, Answer, Pick, FallBack, MarkBottle, WriterReads, WriterWrites,
           bottles, clockvars
  <1>2. QED
    BY <1>1 DEF TaleTypes, TaleInv, Saving

-----------------------------------------------------------------------------
(* The launches of a bottle.                                               *)
LaunchFits(l, r) ==
    /\ r \in Launch
    /\ IF r.pc \in {"sleep", "pick", "fall back"} THEN r.mem = 0 ELSE r.mem \in Existing
    /\ l = "daily" => r.pc # "answer"
    /\ l = "manual" => r.pc # "push"

LEMMA TwoLaunches == "daily" \in Launches /\ "manual" \in Launches /\ \A l \in Launches : l = "daily" \/ l = "manual"
  BY DEF Launches

LEMMA LaunchesFit == BottleTypes => \A l \in Launches : LaunchFits(l, bottle[l])
  BY TwoLaunches DEF BottleTypes, LaunchFits

\* Memories only appear, or change their mark.
KeptOn ==
    /\ kept' \in [Kept -> Memo] /\ \A m \in Kept : m \in Existing' \/ kept'[m] = Missing
    /\ Existing \subseteq Existing'

LEMMA BottleOn ==
    ASSUME BottleTypes, KeptOn, bottle' \in [Launches -> Launch],
           \A l \in Launches : LaunchFits(l, bottle'[l]),
           writer' \in [mem : 0 .. MaxKept, pushed : BOOLEAN], writer'.mem # 0 => writer'.mem \in Existing,
           sent' \in [Kept -> 0 .. 2]
    PROVE  BottleTypes'
  <1>1. \A l \in Launches : IF bottle'[l].pc \in {"sleep", "pick", "fall back"} THEN bottle'[l].mem = 0
                            ELSE bottle'[l].mem \in Existing'
    BY DEF LaunchFits, KeptOn
  <1>2. bottle'["daily"].pc # "answer" /\ bottle'["manual"].pc # "push"
    BY TwoLaunches DEF LaunchFits
  <1>3. writer'.mem # 0 => writer'.mem \in Existing'
    BY DEF KeptOn
  <1>4. QED
    BY <1>1, <1>2, <1>3 DEF BottleTypes, KeptOn

LEMMA KeptSame == BottleTypes /\ kept' = kept => KeptOn
  BY DEF BottleTypes, KeptOn, Existing

LEMMA KeepDoes ==
    ASSUME BottleTypes, day \in Nat, NEW kind \in {"told", "story"}, Keep(kind)
    PROVE  KeptOn /\ \A m \in Kept : kept'[m].pushed = kept[m].pushed
  <1>1. PICK m \in Kept \ Existing : kept' = [kept EXCEPT ![m] = [kind |-> kind, day |-> day, pushed |-> FALSE]]
    BY DEF Keep
  <1> DEFINE new == [kind |-> kind, day |-> day, pushed |-> FALSE]
  <1>2. new \in Memo /\ new.kind # "none" /\ new.pushed = FALSE
    BY DEF Memo
  <1>3. kept' = [kept EXCEPT ![m] = new]
    BY <1>1
  <1> HIDE DEF new
  <1>4. kept \in [Kept -> Memo] /\ kept[m] = Missing
    BY <1>1 DEF BottleTypes
  <1>5. kept' \in [Kept -> Memo] /\ kept'[m] = new /\ \A k \in Kept \ {m} : kept'[k] = kept[k]
    BY <1>1, <1>2, <1>3, <1>4
  <1>6. KeptOn
    BY <1>1, <1>2, <1>5 DEF BottleTypes, KeptOn, Existing
  <1>7. Missing.pushed = FALSE
    BY DEF Missing
  <1>8. QED
    BY <1>2, <1>4, <1>5, <1>6, <1>7

LEMMA MarkDoes ==
    ASSUME BottleTypes, NEW m \in Existing, NEW b \in BOOLEAN, kept' = [kept EXCEPT ![m].pushed = b]
    PROVE  KeptOn /\ kept'[m].pushed = b /\ \A k \in Kept \ {m} : kept'[k] = kept[k]
  <1> DEFINE new == [kept[m] EXCEPT !.pushed = b]
  <1>1. m \in Kept /\ kept \in [Kept -> Memo] /\ kept[m].kind # "none" /\ kept[m] \in Memo
    BY DEF BottleTypes, Existing
  <1>2. new \in Memo /\ new.kind = kept[m].kind /\ new.pushed = b
    BY <1>1 DEF Memo
  <1>3. kept' = [kept EXCEPT ![m] = new]
    BY <1>1
  <1> HIDE DEF new
  <1>4. kept' \in [Kept -> Memo] /\ kept'[m] = new /\ \A k \in Kept \ {m} : kept'[k] = kept[k]
    BY <1>1, <1>2, <1>3
  <1>5. QED
    BY <1>1, <1>2, <1>4 DEF BottleTypes, KeptOn, Existing

LEMMA OneLaunch ==
    ASSUME BottleTypes, NEW l \in Launches, NEW r, LaunchFits(l, r), bottle' = [bottle EXCEPT ![l] = r]
    PROVE  /\ bottle' \in [Launches -> Launch] /\ \A k \in Launches : LaunchFits(k, bottle'[k])
           /\ bottle'[l] = r /\ \A k \in Launches \ {l} : bottle'[k] = bottle[k]
  <1>1. bottle \in [Launches -> Launch] /\ r \in Launch
    BY DEF BottleTypes, LaunchFits
  <1>2. /\ bottle' \in [Launches -> Launch]
        /\ bottle'[l] = r /\ \A k \in Launches \ {l} : bottle'[k] = bottle[k]
    BY <1>1
  <1>3. QED
    BY <1>2, LaunchesFit

LEMMA SentDoes ==
    ASSUME BottleTypes, NEW m \in Kept, Sent(m)
    PROVE  /\ sent' \in [Kept -> 0 .. 2] /\ (sent[m] = 0 => sent'[m] = 1)
           /\ \A k \in Kept \ {m} : sent'[k] = sent[k]
  <1> DEFINE n == IF sent[m] = 2 THEN 2 ELSE sent[m] + 1
  <1>0. sent \in [Kept -> 0 .. 2]
    BY DEF BottleTypes
  <1>1. sent \in [Kept -> 0 .. 2] /\ n \in 0 .. 2 /\ (sent[m] = 0 => n = 1)
    <2>1. sent[m] \in 0 .. 2
      BY <1>0
    <2>2. QED
      BY <1>0, <2>1
  <1>2. sent' = [sent EXCEPT ![m] = n]
    BY <1>1 DEF Sent
  <1> HIDE DEF n
  <1>3. QED
    BY <1>1, <1>2

\* What is about the daily launch, and about the command.
LEMMA BottleSame ==
    ASSUME BottleTypes, BottleInv, excused \subseteq excused', UNCHANGED <<bottle, writer, sent>>,
           \A m \in Kept \ excused' : kept'[m].pushed = kept[m].pushed
    PROVE  BottleInv'
  BY DEF BottleInv, BottleOf, Going

LEMMA EndsFits ==
    ASSUME day \in Days, NEW l \in Launches
    PROVE  /\ LaunchFits(l, [pc |-> "sleep", due |-> NextAt(2), mem |-> 0])
           /\ LaunchFits(l, NoLaunch)
  BY NextAtNat, StoryNats, TwoLaunches DEF LaunchFits, Launch, NoLaunch

LEMMA LeadsFits ==
    ASSUME BottleTypes, NEW l \in Launches, NEW pc \in {"pick", "fall back", "mark", "answer"},
           bottle' = [bottle EXCEPT ![l].pc = pc],
           pc \in {"pick", "fall back"} <=> bottle[l].pc \in {"sleep", "pick"},
           pc \in {"mark", "answer"} <=> bottle[l].pc \in {"push", "mark"},
           l = "daily" => pc # "answer"
    PROVE  \E r : /\ LaunchFits(l, r) /\ bottle' = [bottle EXCEPT ![l] = r]
                  /\ r.pc = pc /\ r.mem = bottle[l].mem
  <1> DEFINE r == [bottle[l] EXCEPT !.pc = pc]
  <1>1. bottle[l] \in Launch /\ LaunchFits(l, bottle[l]) /\ bottle \in [Launches -> Launch]
    BY LaunchesFit DEF BottleTypes
  <1>2. r \in Launch /\ r.pc = pc /\ r.mem = bottle[l].mem
    BY <1>1 DEF Launch
  <1>3. bottle' = [bottle EXCEPT ![l] = r]
    BY <1>1
  <1> HIDE DEF r
  <1>4. LaunchFits(l, r)
    BY <1>1, <1>2 DEF LaunchFits
  <1>5. QED
    BY <1>2, <1>3, <1>4

-----------------------------------------------------------------------------
(* The steps of the launches, and of who writes the rows.                  *)
LEMMA BottleFacts ==
    ASSUME BottleTypes, BottleInv, excused \subseteq excused', NEW m \in Kept \ excused'
    PROVE  BottleOf(m) /\ m # 0 /\ m \in Kept /\ sent[m] \in 0 .. 2
  <1>1. BottleOf(m) /\ m \in Kept
    BY DEF BottleInv
  <1>2. m # 0
    BY <1>1, StoryNats DEF Kept
  <1>3. sent \in [Kept -> 0 .. 2]
    BY DEF BottleTypes
  <1>4. QED
    BY <1>1, <1>2, <1>3

LEMMA RememberBottle ==
    ASSUME BottleTypes, BottleInv, day \in Nat, Remember
    PROVE  BottleTypes' /\ BottleInv'
  <1>0. UNCHANGED <<bottle, writer, sent, excused>>
    BY DEF Remember
  <1>1. KeptOn /\ \A m \in Kept : kept'[m].pushed = kept[m].pushed
    BY KeepDoes DEF Remember
  <1>2. BottleTypes'
    BY <1>0, <1>1, BottleOn, LaunchesFit DEF BottleTypes
  <1>3. BottleInv'
    BY <1>0, <1>1, BottleSame
  <1>4. QED
    BY <1>2, <1>3

LEMMA LaunchedBottle ==
    ASSUME BottleTypes, BottleInv, Launched
    PROVE  BottleTypes' /\ BottleInv'
  <1>1. PICK l \in Launches : At(l, "sleep") /\ Leads(l, "pick") /\ UNCHANGED <<kept, writer, sent, excused>>
    BY TwoLaunches DEF Launched
  <1>2. bottle[l].pc = "sleep" /\ bottle' = [bottle EXCEPT ![l].pc = "pick"]
    BY <1>1 DEF At, Leads
  <1>3. PICK r : LaunchFits(l, r) /\ bottle' = [bottle EXCEPT ![l] = r] /\ r.pc = "pick" /\ r.mem = bottle[l].mem
    BY <1>2, LeadsFits
  <1>4. /\ bottle' \in [Launches -> Launch] /\ \A k \in Launches : LaunchFits(k, bottle'[k])
        /\ bottle'[l] = r /\ \A k \in Launches \ {l} : bottle'[k] = bottle[k]
    BY <1>3, OneLaunch
  <1>5. KeptOn
    BY <1>1, KeptSame
  <1>6. BottleTypes'
    BY <1>1, <1>4, <1>5, BottleOn DEF BottleTypes
  <1>7. r.mem = 0 /\ bottle[l].mem = 0
    BY <1>3 DEF LaunchFits
  <1>8. ASSUME NEW m \in Kept \ excused'
        PROVE  BottleOf(m)'
    <2>1. BottleOf(m) /\ m # 0
      BY <1>1, <1>8, BottleFacts
    <2>2. QED
      BY <1>1, <1>2, <1>3, <1>4, <1>7, <2>1, TwoLaunches DEF BottleOf, Going
  <1>9. QED
    BY <1>6, <1>8 DEF BottleInv

LEMMA PickBottle ==
    ASSUME BottleTypes, BottleInv, NEW l \in Launches, Pick(l) \/ FallBack(l), day \in Days
    PROVE  BottleTypes' /\ BottleInv'
  <1>0. bottle[l].pc \in {"pick", "fall back"} /\ UNCHANGED <<kept, writer, sent>> /\ LaunchFits(l, bottle[l]) /\ bottle[l].mem = 0
    BY LaunchesFit DEF Pick, FallBack, At, LaunchFits
  <1>1. excused \subseteq excused' /\ KeptOn
    BY <1>0, KeptSame DEF Pick, FallBack
  <1>2. \E r : /\ LaunchFits(l, r) /\ bottle' = [bottle EXCEPT ![l] = r]
               /\ \/ r.mem = 0
                  \/ /\ r.mem \in Kept /\ r.pc = (IF l = "daily" THEN "push" ELSE "mark")
                     /\ r.mem \in excused' \/ (~kept[r.mem].pushed /\ ~Taken(r.mem))
    <2>1. ASSUME NEW m \in Existing, bottle' = [bottle EXCEPT ![l] = [@ EXCEPT !.pc = IF l = "daily" THEN "push" ELSE "mark", !.mem = m]],
                 m \in excused' \/ (~kept[m].pushed /\ ~Taken(m))
          PROVE  \E r : /\ LaunchFits(l, r) /\ bottle' = [bottle EXCEPT ![l] = r]
                        /\ r.mem \in Kept /\ r.pc = (IF l = "daily" THEN "push" ELSE "mark")
                        /\ r.mem \in excused' \/ (~kept[r.mem].pushed /\ ~Taken(r.mem))
      <3> DEFINE pc == IF l = "daily" THEN "push" ELSE "mark"
                 q == [bottle[l] EXCEPT !.pc = pc]
                 r == [q EXCEPT !.mem = m]
      <3>1. pc \in {"push", "mark"} /\ (l = "manual" => pc # "push")
        BY TwoLaunches
      <3>9. m \in Kept /\ bottle \in [Launches -> Launch]
        BY DEF Existing, BottleTypes
      <3>2. bottle \in [Launches -> Launch] /\ bottle[l] \in Launch /\ m \in Kept /\ m \in 0 .. MaxKept
        BY <3>9, StoryNats DEF Kept
      <3>3. bottle' = [bottle EXCEPT ![l] = r]
        BY <2>1, <3>2
      <3>7. pc = IF l = "daily" THEN "push" ELSE "mark"
        OBVIOUS
      <3> HIDE DEF pc
      <3>4. q \in Launch /\ q.pc = pc
        BY <3>1, <3>2 DEF Launch
      <3> HIDE DEF q
      <3>5. r \in Launch /\ r.pc = pc /\ r.mem = m
        BY <3>2, <3>4 DEF Launch
      <3> HIDE DEF r
      <3>6. LaunchFits(l, r)
        BY <3>1, <3>5 DEF LaunchFits
      <3>8. QED
        BY <2>1, <3>2, <3>3, <3>5, <3>6, <3>7
    <2>2. ASSUME Leads(l, "fall back"), bottle[l].pc = "pick"
          PROVE  \E r : LaunchFits(l, r) /\ bottle' = [bottle EXCEPT ![l] = r] /\ r.mem = 0
      <3>1. bottle' = [bottle EXCEPT ![l].pc = "fall back"]
        BY <2>2 DEF Leads
      <3>2. QED
        BY <1>0, <2>2, <3>1, LeadsFits
    <2>3. ASSUME Ends(l)
          PROVE  \E r : LaunchFits(l, r) /\ bottle' = [bottle EXCEPT ![l] = r] /\ r.mem = 0
      <3> DEFINE r == [pc |-> "sleep", due |-> NextAt(2), mem |-> 0]
      <3>1. r.mem = 0 /\ bottle' = [bottle EXCEPT ![l] = r]
        BY <2>3 DEF Ends
      <3>2. LaunchFits(l, r)
        BY EndsFits
      <3> HIDE DEF r
      <3>3. QED
        BY <3>1, <3>2
    <2>4. CASE Pick(l)
      <3>1. bottle[l].pc = "pick"
        BY <2>4 DEF Pick, At
      <3>2. ASSUME NEW m \in Candidates,
                   bottle' = [bottle EXCEPT ![l] = [@ EXCEPT !.pc = IF l = "daily" THEN "push" ELSE "mark", !.mem = m]],
                   excused' = IF Taken(m) THEN excused \cup {m} ELSE excused
            PROVE  m \in Existing /\ (m \in excused' \/ (~kept[m].pushed /\ ~Taken(m)))
        BY <3>2 DEF Candidates, Newest
      <3>3. QED
        BY <2>1, <2>2, <2>4, <3>1, <3>2 DEF Pick
    <2>5. CASE FallBack(l)
      <3>1. ASSUME NEW m \in {k \in Newest : kept[k].kind = "told"},
                   excused' = excused \cup {m}
            PROVE  m \in Existing /\ m \in excused'
        BY <3>1 DEF Newest
      <3>2. QED
        BY <2>1, <2>3, <2>5, <3>1 DEF FallBack
    <2>6. QED
      BY <2>4, <2>5
  <1>3. PICK r : /\ LaunchFits(l, r) /\ bottle' = [bottle EXCEPT ![l] = r]
                 /\ \/ r.mem = 0
                    \/ /\ r.mem \in Kept /\ r.pc = (IF l = "daily" THEN "push" ELSE "mark")
                       /\ r.mem \in excused' \/ (~kept[r.mem].pushed /\ ~Taken(r.mem))
    BY <1>2
  <1>4. /\ bottle' \in [Launches -> Launch] /\ \A k \in Launches : LaunchFits(k, bottle'[k])
        /\ bottle'[l] = r /\ \A k \in Launches \ {l} : bottle'[k] = bottle[k]
    BY <1>3, OneLaunch
  <1>5. BottleTypes'
    BY <1>0, <1>1, <1>4, BottleOn DEF BottleTypes
  <1>6. ASSUME NEW m \in Kept \ excused'
        PROVE  BottleOf(m)'
    <2>1. BottleOf(m) /\ m # 0 /\ sent[m] \in 0 .. 2
      BY <1>1, <1>6, BottleFacts
    <2>2. CASE r.mem # m
      BY <1>0, <1>4, <2>1, <2>2, TwoLaunches DEF BottleOf, Going
    <2>3. CASE r.mem = m
      <3>1. r.pc = (IF l = "daily" THEN "push" ELSE "mark") /\ ~kept[m].pushed /\ ~Taken(m)
        BY <1>3, <1>6, <2>1, <2>3
      <3>2. bottle["daily"].mem # m /\ bottle["manual"].mem # m
        BY <3>1, TwoLaunches DEF Taken
      <3>3. sent[m] = 0
        BY <2>1, <3>1, <3>2 DEF BottleOf
      <3>4. bottle'[l] = r /\ \A k \in {"daily", "manual"} : k # l => bottle'[k] = bottle[k]
        BY <1>4, TwoLaunches
      <3>5. ~ (bottle'["daily"].mem = m /\ bottle'["manual"].mem = m)
        BY <2>3, <3>2, <3>4, TwoLaunches
      <3>6. ~ (bottle'["manual"].mem = m /\ bottle'["manual"].pc = "answer")
        <4>1. CASE l = "daily"
          BY <3>2, <3>4, <4>1
        <4>2. CASE l = "manual"
          BY <3>1, <3>4, <4>2
        <4>3. QED
          BY <4>1, <4>2, TwoLaunches
      <3>7. sent' = sent /\ kept' = kept
        BY <1>0
      <3>8. QED
        BY <3>1, <3>3, <3>5, <3>6, <3>7 DEF BottleOf
    <2>4. QED
      BY <2>2, <2>3
  <1>7. QED
    BY <1>5, <1>6 DEF BottleInv

LEMMA PushedBottle ==
    ASSUME BottleTypes, BottleInv, day \in Days, PushBottle
    PROVE  BottleTypes' /\ BottleInv'
  <1> DEFINE n == bottle["daily"].mem
  <1>0. /\ bottle["daily"].pc = "push" /\ UNCHANGED <<kept, writer>>
        /\ n \in Existing /\ n \in Kept
        /\ excused \subseteq excused' /\ KeptOn
    BY TwoLaunches, KeptSame DEF PushBottle, At, BottleTypes, Existing
  <1>1. CASE Sent(n) /\ Leads("daily", "mark") /\ UNCHANGED excused
    <2>1. bottle' = [bottle EXCEPT !["daily"].pc = "mark"]
      BY <1>1 DEF Leads
    <2>2. PICK r : LaunchFits("daily", r) /\ bottle' = [bottle EXCEPT !["daily"] = r] /\ r.pc = "mark" /\ r.mem = n
      BY <1>0, <2>1, LeadsFits, TwoLaunches
    <2>3. /\ bottle' \in [Launches -> Launch] /\ \A k \in Launches : LaunchFits(k, bottle'[k])
          /\ bottle'["daily"] = r /\ \A k \in Launches \ {"daily"} : bottle'[k] = bottle[k]
      BY <2>2, OneLaunch, TwoLaunches
    <2>4. /\ sent' \in [Kept -> 0 .. 2] /\ (sent[n] = 0 => sent'[n] = 1)
          /\ \A k \in Kept \ {n} : sent'[k] = sent[k]
      BY <1>0, <1>1, SentDoes
    <2>5. BottleTypes'
      BY <1>0, <2>3, <2>4, BottleOn DEF BottleTypes
    <2>6. bottle'["manual"] = bottle["manual"] /\ bottle'["daily"].pc = "mark" /\ bottle'["daily"].mem = n
      BY <2>2, <2>3, TwoLaunches
    <2> HIDE DEF n
    <2>7. n = bottle["daily"].mem
      BY DEF n
    <2>8. ASSUME NEW m \in Kept \ excused'
          PROVE  BottleOf(m)'
      <3>1. BottleOf(m) /\ m # 0 /\ m \in Kept
        BY <1>0, <2>8, BottleFacts
      <3>2. CASE m = n
        <4>1. sent[m] = 0 /\ sent'[m] = 1 /\ bottle["manual"].mem # m
          BY <1>0, <2>4, <2>7, <3>1, <3>2 DEF BottleOf, Going
        <4>2. QED
          BY <1>0, <2>6, <2>7, <3>1, <3>2, <4>1 DEF BottleOf, Going
      <3>3. CASE m # n
        <4>1. sent'[m] = sent[m]
          BY <2>4, <3>1, <3>3
        <4>2. QED
          BY <1>0, <2>6, <2>7, <3>1, <3>3, <4>1 DEF BottleOf, Going
      <3>4. QED
        BY <3>2, <3>3
    <2>9. QED
      BY <2>5, <2>8 DEF BottleInv
  <1>2. CASE Ends("daily") /\ (UNCHANGED sent \/ (Sent(n) /\ n \in excused'))
    <2> DEFINE r == [pc |-> "sleep", due |-> NextAt(2), mem |-> 0]
    <2>1. r.mem = 0 /\ r.pc = "sleep" /\ bottle' = [bottle EXCEPT !["daily"] = r] /\ LaunchFits("daily", r)
      BY <1>2, EndsFits, TwoLaunches DEF Ends
    <2> HIDE DEF r
    <2>3. /\ bottle' \in [Launches -> Launch] /\ \A k \in Launches : LaunchFits(k, bottle'[k])
          /\ bottle'["daily"] = r /\ bottle'["manual"] = bottle["manual"]
      BY <2>1, OneLaunch, TwoLaunches
    <2>4. sent' \in [Kept -> 0 .. 2] /\ \A k \in Kept \ excused' : sent'[k] = sent[k]
      <3>1. CASE UNCHANGED sent
        BY <3>1 DEF BottleTypes
      <3>2. CASE Sent(n) /\ n \in excused'
        BY <1>0, <3>2, SentDoes
      <3>3. QED
        BY <1>2, <3>1, <3>2
    <2>5. BottleTypes'
      BY <1>0, <2>3, <2>4, BottleOn DEF BottleTypes
    <2>8. ASSUME NEW m \in Kept \ excused'
          PROVE  BottleOf(m)'
      <3>1. BottleOf(m) /\ m # 0 /\ sent'[m] = sent[m]
        BY <1>0, <2>4, <2>8, BottleFacts
      <3>2. QED
        BY <1>0, <2>1, <2>3, <3>1 DEF BottleOf, Going
    <2>9. QED
      BY <2>5, <2>8 DEF BottleInv
  <1>3. QED
    BY <1>1, <1>2 DEF PushBottle

LEMMA MarkedBottle ==
    ASSUME BottleTypes, BottleInv, day \in Days, NEW l \in Launches, MarkBottle(l)
    PROVE  BottleTypes' /\ BottleInv'
  <1> DEFINE n == bottle[l].mem
  <1>0. /\ bottle[l].pc = "mark" /\ UNCHANGED <<writer, sent>> /\ n \in Existing /\ n \in Kept
        /\ excused \subseteq excused'
    BY LaunchesFit DEF MarkBottle, At, LaunchFits, Existing
  <1>1. \/ kept' = [kept EXCEPT ![n].pushed = TRUE] /\ (writer.mem = n => writer.pushed \/ n \in excused')
        \/ kept' = kept /\ n \in excused'
    BY DEF MarkBottle
  <1>2. KeptOn /\ \A k \in Kept \ {n} : kept'[k] = kept[k]
    <2>1. CASE kept' = [kept EXCEPT ![n].pushed = TRUE]
      BY <1>0, <2>1, MarkDoes
    <2>2. CASE kept' = kept
      BY <2>2, KeptSame
    <2>3. QED
      BY <1>1, <2>1, <2>2
  <1>3. n \in excused' \/ (kept'[n].pushed /\ (writer.mem = n => writer.pushed))
    <2>1. CASE kept' = [kept EXCEPT ![n].pushed = TRUE]
      BY <1>0, <1>1, <2>1, MarkDoes
    <2>2. QED
      BY <1>1, <2>1
  <1>4. \E r : /\ LaunchFits(l, r) /\ bottle' = [bottle EXCEPT ![l] = r]
               /\ IF l = "daily" THEN r.mem = 0 /\ r.pc = "sleep" ELSE r.mem = n /\ r.pc = "answer"
    <2>1. CASE l = "daily"
      <3> DEFINE r == [pc |-> "sleep", due |-> NextAt(2), mem |-> 0]
      <3>1. r.mem = 0 /\ r.pc = "sleep" /\ bottle' = [bottle EXCEPT ![l] = r] /\ LaunchFits(l, r)
        BY <2>1, EndsFits DEF MarkBottle, Ends
      <3> HIDE DEF r
      <3>2. QED
        BY <2>1, <3>1
    <2>2. CASE l # "daily"
      <3>1. bottle' = [bottle EXCEPT ![l].pc = "answer"]
        BY <2>2 DEF MarkBottle, Leads
      <3>2. QED
        BY <1>0, <2>2, <3>1, LeadsFits
    <2>3. QED
      BY <2>1, <2>2
  <1>5. PICK r : /\ LaunchFits(l, r) /\ bottle' = [bottle EXCEPT ![l] = r]
                 /\ IF l = "daily" THEN r.mem = 0 /\ r.pc = "sleep" ELSE r.mem = n /\ r.pc = "answer"
    BY <1>4
  <1>6. /\ bottle' \in [Launches -> Launch] /\ \A k \in Launches : LaunchFits(k, bottle'[k])
        /\ bottle'[l] = r /\ \A k \in Launches \ {l} : bottle'[k] = bottle[k]
    BY <1>5, OneLaunch
  <1>7. BottleTypes'
    BY <1>0, <1>2, <1>6, BottleOn DEF BottleTypes
  <1>8. n = bottle[l].mem
    OBVIOUS
  <1> HIDE DEF n
  <1>9. ASSUME NEW m \in Kept \ excused'
        PROVE  BottleOf(m)'
    <2>1. BottleOf(m) /\ m # 0 /\ m \in Kept
      BY <1>0, <1>9, BottleFacts
    <2>2. CASE m # n
      <3>1. kept'[m] = kept[m]
        BY <1>2, <2>1, <2>2
      <3>2. QED
        BY <1>0, <1>5, <1>6, <1>8, <2>1, <2>2, <3>1, TwoLaunches DEF BottleOf, Going
    <2>3. CASE m = n
      <3>1. kept'[m].pushed /\ (writer.mem = m => writer.pushed)
        BY <1>3, <1>9, <2>3
      <3>2. CASE l = "daily"
        <4>1. bottle'["daily"].mem # m /\ bottle'["manual"] = bottle["manual"]
          BY <1>5, <1>6, <2>1, <3>2, TwoLaunches
        <4>2. QED
          BY <1>0, <2>1, <3>1, <4>1 DEF BottleOf, Going
      <3>3. CASE l = "manual"
        <4>1. bottle'["daily"] = bottle["daily"] /\ bottle["manual"].mem = m /\ bottle["manual"].pc = "mark"
          BY <1>0, <1>6, <1>8, <2>3, <3>3, TwoLaunches
        <4>2. bottle["daily"].mem # m /\ sent[m] = 0
          BY <2>1, <4>1 DEF BottleOf, Going
        <4>3. QED
          BY <1>0, <3>1, <4>1, <4>2 DEF BottleOf
      <3>4. QED
        BY <3>2, <3>3, TwoLaunches
    <2>4. QED
      BY <2>2, <2>3
  <1>10. QED
    BY <1>7, <1>9 DEF BottleInv

LEMMA AnswerBottle ==
    ASSUME BottleTypes, BottleInv, day \in Days, Answer
    PROVE  BottleTypes' /\ BottleInv'
  <1> DEFINE n == bottle["manual"].mem
             r == [pc |-> "sleep", due |-> NextAt(2), mem |-> 0]
  <1>0. /\ bottle["manual"].pc = "answer" /\ UNCHANGED <<kept, writer, excused>> /\ Sent(n)
        /\ n \in Existing /\ n \in Kept /\ KeptOn
    BY TwoLaunches, KeptSame DEF Answer, At, BottleTypes, Existing
  <1>1. r.mem = 0 /\ r.pc = "sleep" /\ bottle' = [bottle EXCEPT !["manual"] = r] /\ LaunchFits("manual", r)
    BY EndsFits, TwoLaunches DEF Answer, Ends
  <1> HIDE DEF r
  <1>2. /\ bottle' \in [Launches -> Launch] /\ \A k \in Launches : LaunchFits(k, bottle'[k])
        /\ bottle'["manual"] = r /\ bottle'["daily"] = bottle["daily"]
    BY <1>1, OneLaunch, TwoLaunches
  <1>3. /\ sent' \in [Kept -> 0 .. 2] /\ (sent[n] = 0 => sent'[n] = 1)
        /\ \A k \in Kept \ {n} : sent'[k] = sent[k]
    BY <1>0, SentDoes
  <1>4. BottleTypes'
    BY <1>0, <1>2, <1>3, BottleOn DEF BottleTypes
  <1>5. n = bottle["manual"].mem
    OBVIOUS
  <1> HIDE DEF n
  <1>6. ASSUME NEW m \in Kept \ excused'
        PROVE  BottleOf(m)'
    <2>1. BottleOf(m) /\ m # 0 /\ m \in Kept
      BY <1>0, <1>6, BottleFacts
    <2>2. CASE m = n
      <3>1. sent[m] = 0 /\ bottle["daily"].mem # m /\ kept[m].pushed /\ sent'[m] = 1
        BY <1>0, <1>3, <1>5, <2>1, <2>2 DEF BottleOf, Going
      <3>2. QED
        BY <1>0, <1>1, <1>2, <2>1, <3>1 DEF BottleOf, Going
    <2>3. CASE m # n
      <3>1. sent'[m] = sent[m]
        BY <1>3, <2>1, <2>3
      <3>2. QED
        BY <1>0, <1>1, <1>2, <2>1, <3>1 DEF BottleOf, Going
    <2>4. QED
      BY <2>2, <2>3
  <1>7. QED
    BY <1>4, <1>6 DEF BottleInv

LEMMA WriterReadsBottle ==
    ASSUME BottleTypes, BottleInv, NEW n \in Kept, WriterReads(n)
    PROVE  BottleTypes' /\ BottleInv'
  <1>0. n \in Existing /\ writer' = [mem |-> n, pushed |-> kept[n].pushed] /\ UNCHANGED <<kept, bottle, sent, excused>>
    BY DEF WriterReads
  <1>6. KeptOn
    BY <1>0, KeptSame
  <1>7. kept[n].pushed \in BOOLEAN
    BY DEF BottleTypes, Memo
  <1>1. KeptOn /\ kept[n].pushed \in BOOLEAN /\ n \in 0 .. MaxKept
    BY <1>6, <1>7, StoryNats DEF Kept
  <1>2. writer' \in [mem : 0 .. MaxKept, pushed : BOOLEAN] /\ writer'.mem = n /\ writer'.pushed = kept[n].pushed
    BY <1>0, <1>1
  <1>3. BottleTypes'
    BY <1>0, <1>1, <1>2, BottleOn, LaunchesFit DEF BottleTypes
  <1>4. BottleInv'
    BY <1>0, <1>2 DEF BottleInv, BottleOf, Going
  <1>5. QED
    BY <1>3, <1>4

LEMMA WriterWritesBottle ==
    ASSUME BottleTypes, BottleInv, WriterWrites
    PROVE  BottleTypes' /\ BottleInv'
  <1> DEFINE n == writer.mem
  <1>0. /\ n \in Existing /\ n \in Kept /\ writer.pushed \in BOOLEAN
        /\ kept' = [kept EXCEPT ![n].pushed = writer.pushed] /\ writer' = [mem |-> 0, pushed |-> FALSE]
        /\ UNCHANGED <<bottle, sent, excused>>
    BY DEF WriterWrites, BottleTypes, Existing
  <1>1. KeptOn /\ kept'[n].pushed = writer.pushed /\ \A k \in Kept \ {n} : kept'[k] = kept[k]
    BY <1>0, MarkDoes
  <1>2. writer' \in [mem : 0 .. MaxKept, pushed : BOOLEAN] /\ writer'.mem = 0
    BY <1>0, StoryNats
  <1>3. BottleTypes'
    BY <1>0, <1>1, <1>2, BottleOn, LaunchesFit DEF BottleTypes
  <1>4. n = writer.mem
    OBVIOUS
  <1> HIDE DEF n
  <1>5. ASSUME NEW m \in Kept \ excused'
        PROVE  BottleOf(m)'
    <2>1. BottleOf(m) /\ m # 0 /\ m \in Kept
      BY <1>0, <1>5, BottleFacts
    <2>2. kept[m].pushed => kept'[m].pushed
      <3>1. CASE m = n
        BY <1>1, <1>4, <2>1, <3>1 DEF BottleOf
      <3>2. CASE m # n
        BY <1>1, <2>1, <3>2
      <3>3. QED
        BY <3>1, <3>2
    <2>3. QED
      BY <1>0, <1>2, <2>1, <2>2 DEF BottleOf, Going
  <1>6. QED
    BY <1>3, <1>5 DEF BottleInv

LEMMA StopBottle ==
    ASSUME BottleTypes, BottleInv, day \in Days, StopStories
    PROVE  BottleTypes' /\ BottleInv'
  <1> DEFINE n == bottle["daily"].mem
             cut == bottle["daily"].pc \in {"push", "mark"}
  <1>0. /\ UNCHANGED kept /\ KeptOn /\ excused \subseteq excused' /\ (cut => n \in excused')
        /\ (bottle["daily"].pc = "push" /\ Sent(n)) \/ UNCHANGED sent
    BY KeptSame DEF StopStories, At
  <1>1. PICK over \in {{}, {"manual"}} :
            /\ bottle' = [l \in Launches |-> IF l = "daily" \/ l \in over THEN NoLaunch ELSE bottle[l]]
            /\ writer' = IF over = {} THEN writer ELSE [mem |-> 0, pushed |-> FALSE]
    BY DEF StopStories
  <1>2. /\ bottle'["daily"] = NoLaunch
        /\ bottle'["manual"] = NoLaunch \/ bottle'["manual"] = bottle["manual"]
        /\ writer' = writer \/ writer' = [mem |-> 0, pushed |-> FALSE]
    BY <1>1, TwoLaunches
  <1>3. /\ LaunchFits("daily", NoLaunch) /\ LaunchFits("manual", NoLaunch) /\ LaunchFits("manual", bottle["manual"])
        /\ NoLaunch.pc = "sleep" /\ NoLaunch.mem = 0
    BY EndsFits, LaunchesFit, TwoLaunches DEF NoLaunch
  <1>4. bottle' \in [Launches -> Launch] /\ \A l \in Launches : LaunchFits(l, bottle'[l])
    <2>1. ASSUME NEW l \in Launches
          PROVE  LaunchFits(l, bottle'[l])
      BY <1>2, <1>3, TwoLaunches
    <2>2. \A l \in Launches : bottle'[l] \in Launch
      BY <2>1 DEF LaunchFits
    <2>3. bottle' = [l \in Launches |-> bottle'[l]]
      BY <1>1
    <2>4. QED
      BY <2>1, <2>2, <2>3
  <1>5. sent' \in [Kept -> 0 .. 2] /\ \A m \in Kept \ excused' : sent'[m] = sent[m]
    <2>1. CASE bottle["daily"].pc = "push" /\ Sent(n)
      <3>1. n \in Kept /\ n \in excused'
        BY <1>0, <2>1, TwoLaunches DEF BottleTypes, Existing
      <3>2. QED
        BY <2>1, <3>1, SentDoes
    <2>2. CASE UNCHANGED sent
      BY <2>2 DEF BottleTypes
    <2>3. QED
      BY <1>0, <2>1, <2>2
  <1>6. writer' \in [mem : 0 .. MaxKept, pushed : BOOLEAN] /\ (writer'.mem # 0 => writer'.mem \in Existing)
    <2>1. CASE writer' = writer
      BY <2>1 DEF BottleTypes
    <2>2. CASE writer' = [mem |-> 0, pushed |-> FALSE]
      BY <2>2, StoryNats
    <2>3. QED
      BY <1>2, <2>1, <2>2
  <1>7. BottleTypes'
    BY <1>0, <1>4, <1>5, <1>6, BottleOn
  <1>8. ASSUME NEW m \in Kept \ excused'
        PROVE  BottleOf(m)'
    <2>1. BottleOf(m) /\ m # 0 /\ m \in Kept /\ sent'[m] = sent[m]
      BY <1>0, <1>5, <1>8, BottleFacts
    <2>2. ~ (bottle["daily"].mem = m /\ bottle["daily"].pc = "mark")
      BY <1>0, <1>8
    <2>3. bottle'["daily"].mem # m /\ (bottle'["manual"].mem = m => bottle'["manual"] = bottle["manual"])
      BY <1>2, <1>3, <2>1
    <2>4. writer'.mem = m => writer' = writer
      BY <1>2, <2>1
    <2>5. QED
      BY <1>0, <2>1, <2>2, <2>3, <2>4 DEF BottleOf, Going
  <1>9. QED
    BY <1>7, <1>8 DEF BottleInv

LEMMA StartBottle ==
    ASSUME BottleTypes, BottleInv, day \in Days, ~on => bottle["daily"].pc = "sleep", StartStories
    PROVE  BottleTypes' /\ BottleInv'
  <1> DEFINE r == [pc |-> "sleep", due |-> NextAt(2), mem |-> 0]
  <1>0. UNCHANGED <<kept, writer, sent, excused>> /\ bottle["daily"].pc = "sleep" /\ KeptOn
    BY KeptSame DEF StartStories
  <1>1. r.mem = 0 /\ r.pc = "sleep" /\ bottle' = [bottle EXCEPT !["daily"] = r] /\ LaunchFits("daily", r)
    BY EndsFits, TwoLaunches DEF StartStories, Ends
  <1> HIDE DEF r
  <1>2. /\ bottle' \in [Launches -> Launch] /\ \A k \in Launches : LaunchFits(k, bottle'[k])
        /\ bottle'["daily"] = r /\ bottle'["manual"] = bottle["manual"]
    BY <1>1, OneLaunch, TwoLaunches
  <1>3. BottleTypes'
    BY <1>0, <1>2, BottleOn DEF BottleTypes
  <1>4. ASSUME NEW m \in Kept \ excused'
        PROVE  BottleOf(m)'
    <2>1. BottleOf(m) /\ m # 0
      BY <1>0, <1>4, BottleFacts
    <2>2. QED
      BY <1>0, <1>1, <1>2, <2>1 DEF BottleOf, Going
  <1>5. QED
    BY <1>3, <1>4 DEF BottleInv

LEMMA StoryBottle ==
    ASSUME BottleTypes, BottleInv, day \in Nat, StoryStep
    PROVE  BottleTypes' /\ BottleInv'
  <1>1. UNCHANGED <<bottle, writer, sent, excused>>
    BY DEF StoryStep, TaleWakes, ReadToday, SaveStory, PushStory, tales
  <1>2. kept' = kept \/ Keep("story")
    BY DEF StoryStep, TaleWakes, ReadToday, SaveStory, PushStory
  <1>3. KeptOn /\ \A m \in Kept : kept'[m].pushed = kept[m].pushed
    BY <1>2, KeptSame, KeepDoes
  <1>4. BottleTypes'
    BY <1>1, <1>3, BottleOn, LaunchesFit DEF BottleTypes
  <1>5. BottleInv'
    BY <1>1, <1>3, BottleSame
  <1>6. QED
    BY <1>4, <1>5

LEMMA OutsideBottle ==
    ASSUME BottleTypes, BottleInv, OffInv, day \in Days, Outside
    PROVE  BottleTypes' /\ BottleInv'
  <1>1. CASE PassTime
    <2>1. UNCHANGED <<kept, bottle, writer, sent, excused>>
      BY <1>1 DEF PassTime
    <2>2. BottleTypes'
      BY <2>1 DEF BottleTypes, Existing
    <2>3. BottleInv'
      BY <2>1 DEF BottleInv, BottleOf, Going
    <2>4. QED
      BY <2>2, <2>3
  <1>2. QED
    BY <1>1, StopBottle, StartBottle DEF Outside, OffInv

LEMMA BottleBottle ==
    ASSUME BottleTypes, BottleInv, day \in Days, BottleStep
    PROVE  BottleTypes' /\ BottleInv'
  <1>1. day \in Nat
    BY StoryNats DEF Days
  <1>2. QED
    BY <1>1, RememberBottle, LaunchedBottle, PickBottle, PushedBottle, MarkedBottle, AnswerBottle,
       WriterReadsBottle, WriterWritesBottle DEF BottleStep

LEMMA OffKept ==
    ASSUME BottleTypes, OffInv, StoriesNext
    PROVE  OffInv'
  <1>0. bottle \in [Launches -> Launch]
    BY DEF BottleTypes
  <1>1. CASE StoryStep
    BY <1>1 DEF OffInv, StoryStep, TaleWakes, ReadToday, SaveStory, PushStory, tales
  <1>2. CASE Outside
    <2>1. CASE PassTime
      BY <2>1 DEF PassTime, OffInv
    <2>2. CASE StopStories
      <3>1. PICK over \in {{}, {"manual"}} :
               bottle' = [l \in Launches |-> IF l = "daily" \/ l \in over THEN NoLaunch ELSE bottle[l]]
        BY <2>2 DEF StopStories
      <3>2. bottle'["daily"] = NoLaunch
        BY <3>1, TwoLaunches
      <3>3. QED
        BY <3>2 DEF OffInv, NoLaunch
    <2>3. CASE StartStories
      BY <2>3 DEF StartStories, OffInv
    <2>4. QED
      BY <1>2, <2>1, <2>2, <2>3 DEF Outside
  <1>3. CASE BottleStep
    <2>1. on' = on
      BY <1>3 DEF BottleStep, Remember, Launched, PushBottle, Answer, Pick, FallBack, MarkBottle,
                  WriterReads, WriterWrites, bottles
    <2>2. ASSUME ~on
          PROVE  bottle'["daily"] = bottle["daily"]
      <3>0. bottle["daily"].pc = "sleep"
        BY <2>2 DEF OffInv
      <3>1. CASE Remember \/ (\E m \in Kept : WriterReads(m)) \/ WriterWrites
        BY <3>1 DEF Remember, WriterReads, WriterWrites
      <3>2. CASE Launched \/ Answer
        BY <1>0, <2>2, <3>2, TwoLaunches DEF Launched, Leads, Answer, Ends
      <3>3. ~PushBottle
        BY <3>0 DEF PushBottle, At
      <3>4. ASSUME NEW l \in Launches, Pick(l) \/ FallBack(l) \/ MarkBottle(l)
            PROVE  bottle'["daily"] = bottle["daily"]
        <4>1. l # "daily"
          BY <3>0, <3>4 DEF Pick, FallBack, MarkBottle, At
        <4>2. QED
          BY <1>0, <3>4, <4>1, TwoLaunches DEF Pick, FallBack, MarkBottle, Leads, Ends
      <3>5. QED
        BY <1>3, <3>1, <3>2, <3>3, <3>4 DEF BottleStep
    <2>3. QED
      BY <2>1, <2>2 DEF OffInv
  <1>4. QED
    BY <1>1, <1>2, <1>3 DEF StoriesNext

-----------------------------------------------------------------------------
LEMMA StoriesNextInv == StoriesInv /\ [StoriesNext]_storyvars => StoriesInv'
  <1> SUFFICES ASSUME StoriesInv, [StoriesNext]_storyvars
               PROVE  StoriesInv'
    OBVIOUS
  <1>0. TaleTypes /\ BottleTypes /\ TaleInv /\ BottleInv /\ OffInv /\ day \in Days /\ day \in Nat
    BY StoryNats DEF StoriesInv, TaleTypes, Days
  <1>1. CASE StoryStep
    BY <1>0, <1>1, StoryTale, StoryBottle, OffKept DEF StoriesInv, StoriesNext
  <1>2. CASE BottleStep
    BY <1>0, <1>2, BottleTale, BottleBottle, OffKept DEF StoriesInv, StoriesNext
  <1>3. CASE Outside
    BY <1>0, <1>3, OutsideTale, OutsideBottle, OffKept DEF StoriesInv, StoriesNext
  <1>4. CASE UNCHANGED storyvars
    <2>1. UNCHANGED <<day, hour, on, tale, stored, slipped>> /\ UNCHANGED <<kept, bottle, writer, sent, excused>>
      BY <1>4 DEF storyvars
    <2>2. TaleTypes' /\ TaleInv' /\ OffInv'
      BY <1>0, <2>1 DEF TaleTypes, TaleInv, Saving, OffInv
    <2>3. BottleTypes'
      BY <1>0, <2>1 DEF BottleTypes, Existing
    <2>4. BottleInv'
      BY <1>0, <2>1 DEF BottleInv, BottleOf, Going
    <2>5. QED
      BY <2>2, <2>3, <2>4 DEF StoriesInv
  <1>5. QED
    BY <1>1, <1>2, <1>3, <1>4 DEF StoriesNext

LEMMA StoriesInvariance == StoriesSpec => []StoriesInv
  BY StoriesInitInv, StoriesNextInv, PTL DEF StoriesSpec

(* For any days, memories, restarts and failures: a day has one story and  *)
(* a memory is a bottle once, but for the causes named at the actions.     *)
THEOREM StoriesComeOnce == StoriesSpec => []StoriesOnce
  <1>1. StoriesInv => StoriesTypeOK
    BY DEF StoriesInv, TaleTypes, BottleTypes, StoriesTypeOK, At
  <1>2. StoriesInv => StoryOnce
    BY DEF StoriesInv, TaleInv, StoryOnce
  <1>3. StoriesInv => BottleAgainExplained
    BY DEF StoriesInv, BottleInv, BottleOf, BottleAgainExplained
  <1>4. QED
    BY <1>1, <1>2, <1>3, StoriesInvariance, PTL DEF StoriesOnce

-----------------------------------------------------------------------------
(* Ecosystem: decisions stand, evidence is kept, one task of the bus works.*)
HookRec == [pc : {"none", "find", "cause", "recent", "conflicts", "upgrade", "read", "write", "publish", "generate"},
            pre : 0 .. MaxWritten, left : SUBSET Mems, found : SUBSET Mems, seen : SUBSET Mems]
Pass == [pc : {"sleep", "fetch", "verdict", "profile", "raise"}, list : Seq(Mems), match : BOOLEAN, seen : SUBSET Mems]
Foretold == [state : {"none", "active", "verified", "failed"}, born : Nat, topic : Topics]
Processor == [pc : {"off", "get", "style", "list", "weaken"}, topic : Topics \cup {0}, left : SUBSET Mems]
Event == [kind : {"profile", "conflict"}, topic : Topics]
Bus == [running : BOOLEAN, queue : Seq(Event), cancelled : 0 .. 2, awaited : 0 .. 2, newest : Processors,
        task : [Processors -> Processor]]
History == [verdicts : [Mems -> Nat], overtaken : SUBSET Mems, updated : SUBSET Mems, overwritten : SUBSET Mems,
         resolved : SUBSET Opposed, underway : SUBSET Opposed, revived : BOOLEAN]

TableTypes ==
    /\ written \in 0 .. MaxWritten /\ cause \in [Mems -> {Unset} \cup 0 .. MaxWritten]
    /\ conflict \in [Opposed -> {"none", "candidate", "resolved"}]
    /\ trait \in [Topics -> SUBSET Mems] /\ prophecy \in [Mems -> Foretold]
HookFits(m, h) ==
    /\ h \in HookRec
    /\ h.pc = "conflicts" => h.left # {}
    /\ h.pc = "upgrade" => h.found # {} /\ h.left = {}
    /\ \A o \in h.left \cup h.found : <<m, o>> \in Opposed
Distinct(s) == \A i, j \in 1 .. Len(s) : s[i] = s[j] => i = j
PassFits(p) == p \in Pass /\ (p.pc = "sleep" <=> p.list = <<>>) /\ Distinct(p.list)
TaskFits(k) == k \in Processor /\ (k.pc = "weaken" <=> k.left # {})
EcoTypes ==
    /\ TableTypes /\ told \in History /\ plugin \in {"up", "stopping", "stopped", "closing", "down"}
    /\ hook \in [Mems -> HookRec] /\ \A m \in Mems : HookFits(m, hook[m])
    /\ PassFits(loop)
    /\ bus \in Bus /\ \A i \in Processors : TaskFits(bus.task[i])

\* A memory's hook begins when it is written; only then is there a prophecy
\* of it, or a conflict it is the new part of.
Unread(m) == m > written \/ hook[m].pc # "none"
Unjudged(p) == p[1] > written \/ hook[p[1]].pc \in {"find", "cause", "recent"} \/ p[2] \in hook[p[1]].left
FreshInv ==
    /\ \A m \in Mems : m > written => hook[m] = NoHook
    /\ \A m \in Mems : Unread(m) => prophecy[m].state = "none"
    /\ \A p \in Opposed : Unjudged(p) => conflict[p] = "none"

\* A prophecy that was judged, and not overtaken, is not judged again: it is
\* not active, not in the rest of the pass, and no subscriber has listed it.
ToCome == IF loop.pc \in {"fetch", "verdict"} THEN 1 .. Len(loop.list) ELSE 2 .. Len(loop.list)
Coming(m) == \E i \in ToCome : loop.list[i] = m
Listed(m) == \E i \in Processors : m \in bus.task[i].left
JudgedOnce(m) ==
    /\ prophecy[m].state = "none" =>
         told.verdicts[m] = 0 /\ ~Listed(m) /\ \A i \in 1 .. Len(loop.list) : loop.list[i] # m
    /\ told.verdicts[m] > 0 /\ m \notin told.overtaken =>
         told.verdicts[m] = 1 /\ prophecy[m].state # "active" /\ ~Coming(m) /\ ~Listed(m)
VerdictInv == \A m \in Mems : JudgedOnce(m)

\* A conflict that was resolved has a status, and no hook is to write it again.
ResolvedInv ==
    \A p \in told.resolved :
        /\ conflict[p] # "none"
        /\ p \notin told.underway => conflict[p] = "resolved" /\ p[2] \notin hook[p[1]].found

\* Evidence that was not written over is known to whoever is about to write.
Raising(t) == loop.pc = "raise" /\ prophecy[loop.list[1]].topic = t
EvidenceInv ==
    \A k \in told.updated \ told.overwritten :
        /\ k \in trait[Topic[k]]
        /\ \A m \in Mems : hook[m].pc = "write" /\ Topic[m] = Topic[k] => k \in hook[m].seen
        /\ Raising(Topic[k]) => k \in loop.seen

\* One task of the bus is alive, while the bus runs; being stopped it is
\* cancelled and then over, unless it was started again.
Alive(i) == bus.task[i].pc # "off"
BusInv ==
    /\ bus.running => Alive(bus.newest)
    /\ plugin = "up" => bus.running
    /\ plugin # "stopping" =>
         /\ bus.cancelled = 0 /\ \A i \in Processors \ {bus.newest} : ~Alive(i)
         /\ ~bus.running => ~Alive(bus.newest)
    /\ plugin = "stopping" =>
         /\ bus.awaited \in Processors
         /\ bus.cancelled # 0 => bus.cancelled = bus.awaited /\ Alive(bus.awaited) /\ (bus.running => bus.newest # bus.awaited)
         /\ bus.running => told.revived
         /\ ~bus.running =>
              /\ bus.newest = bus.awaited /\ \A i \in Processors \ {bus.newest} : ~Alive(i)
              /\ bus.cancelled = 0 => ~Alive(bus.awaited)

EcoInv == EcoTypes /\ FreshInv /\ VerdictInv /\ ResolvedInv /\ EvidenceInv /\ BusInv

-----------------------------------------------------------------------------
LEMMA EcoNats ==
    /\ Limit \in Nat /\ MaxWritten \in Nat /\ MaxConflicts \in Nat /\ MaxTroubles \in Nat
    /\ Topic \in [Mems -> Topics] /\ Opposed \subseteq Mems \X Mems
  BY EcosystemAssumption

\* A set of numbers up to n has a greatest one.
LEMMA Below == IsWellFoundedOn({p \in Nat \X Nat : p[1] < p[2]}, Nat)
  <1>1. {p \in Nat \X Nat : p[1] < p[2]} = OpToRel(<, Nat)
    BY DEF OpToRel
  <1>2. QED
    BY <1>1, NatLessThanWellFounded

LEMMA LatestIs ==
    ASSUME NEW n \in Nat, NEW S \in SUBSET (0 .. n), S # {}
    PROVE  Latest(S) \in S
  <1> DEFINE R == {p \in Nat \X Nat : p[1] < p[2]}
             T == {n - k : k \in S}
  <1>1. T \subseteq Nat /\ T # {}
    <2>1. \A k \in S : n - k \in Nat
      OBVIOUS
    <2>2. QED
      BY <2>1
  <1>2. IsWellFoundedOn(R, Nat)
    BY Below
  <1>3. \E x \in T : \A y \in T : ~ (<<y, x>> \in R)
    <2> HIDE DEF R, T
    <2>1. QED
      BY <1>1, <1>2, WFMin
  <1>4. PICK x \in T : \A y \in T : ~ (<<y, x>> \in R)
    BY <1>3
  <1>5. PICK o \in S : x = n - o
    OBVIOUS
  <1>6. ASSUME NEW k \in S
        PROVE  k <= o
    <2>1. <<n - k, x>> \notin R
      BY <1>4
    <2>2. n - k \in Nat /\ x \in Nat
      BY <1>1
    <2>3. ~ (n - k < x)
      BY <2>1, <2>2
    <2>4. QED
      BY <1>5, <2>3
  <1>7. QED
    BY <1>6 DEF Latest

LEMMA LatestMem ==
    ASSUME NEW S \in SUBSET Mems, S # {}
    PROVE  Latest(S) \in S
  <1>1. S \in SUBSET (0 .. MaxWritten) /\ MaxWritten \in Nat
    BY EcoNats DEF Mems
  <1>2. QED
    BY <1>1, LatestIs

LEMMA NoHookFits ==
    ASSUME NEW m \in Mems
    PROVE  /\ NoHook \in HookRec /\ NoHook.pc = "none" /\ NoHook.left = {} /\ NoHook.found = {}
           /\ \A pc \in {"find", "cause", "recent", "read", "write", "publish", "generate", "none"} :
                LET r == [NoHook EXCEPT !.pc = pc] IN
                r.pc = pc /\ r.left = {} /\ r.found = {} /\ HookFits(m, r)
  <1>1. NoHook \in HookRec /\ NoHook.pc = "none" /\ NoHook.left = {} /\ NoHook.found = {}
    BY EcoNats DEF NoHook, HookRec
  <1>2. ASSUME NEW pc \in {"find", "cause", "recent", "read", "write", "publish", "generate", "none"}
        PROVE  LET r == [NoHook EXCEPT !.pc = pc] IN
               r.pc = pc /\ r.left = {} /\ r.found = {} /\ HookFits(m, r)
    <2> DEFINE r == [NoHook EXCEPT !.pc = pc]
    <2>1. r \in HookRec /\ r.pc = pc /\ r.left = {} /\ r.found = {}
      BY <1>1 DEF HookRec
    <2> HIDE DEF r
    <2>2. HookFits(m, r)
      BY <2>1 DEF HookFits
    <2>3. QED
      BY <2>1, <2>2 DEF r
  <1>3. QED
    BY <1>1, <1>2

LEMMA NoPassFits == PassFits(NoPass) /\ NoPass.pc = "sleep" /\ NoPass.list = <<>>
  BY DEF PassFits, Pass, NoPass, Distinct

LEMMA NoProcessorFits ==
    /\ TaskFits(NoProcessor) /\ NoProcessor.pc = "off" /\ NoProcessor.left = {}
    /\ TaskFits([NoProcessor EXCEPT !.pc = "get"])
    /\ [NoProcessor EXCEPT !.pc = "get"].pc = "get" /\ [NoProcessor EXCEPT !.pc = "get"].left = {}
  BY DEF TaskFits, Processor, NoProcessor

LEMMA FreshBusFits ==
    /\ FreshBus \in Bus /\ \A i \in Processors : TaskFits(FreshBus.task[i]) /\ FreshBus.task[i].left = {}
    /\ FreshBus.running /\ FreshBus.cancelled = 0 /\ FreshBus.newest = 1
    /\ FreshBus.task[1].pc # "off" /\ FreshBus.task[2].pc = "off"
  <1> DEFINE task == [i \in Processors |-> IF i = 1 THEN [NoProcessor EXCEPT !.pc = "get"] ELSE NoProcessor]
  <1>1. /\ task \in [Processors -> Processor] /\ \A i \in Processors : TaskFits(task[i]) /\ task[i].left = {}
        /\ task[1].pc # "off" /\ task[2].pc = "off"
    <2>1. \A i \in Processors : task[i] = IF i = 1 THEN [NoProcessor EXCEPT !.pc = "get"] ELSE NoProcessor
      OBVIOUS
    <2> HIDE DEF task
    <2>2. \A i \in Processors : TaskFits(task[i]) /\ task[i].left = {}
      BY <2>1, NoProcessorFits
    <2>3. 1 \in Processors /\ 2 \in Processors
      BY DEF Processors
    <2>4. task \in [Processors -> Processor]
      BY <2>2 DEF TaskFits, task
    <2>5. task[1] = [NoProcessor EXCEPT !.pc = "get"] /\ task[2] = NoProcessor
      BY <2>1, <2>3
    <2>6. task[1].pc # "off" /\ task[2].pc = "off"
      BY <2>5, NoProcessorFits
    <2>7. QED
      BY <2>2, <2>4, <2>6
  <1>2. FreshBus = [running |-> TRUE, queue |-> <<>>, cancelled |-> 0, awaited |-> 0, newest |-> 1, task |-> task]
    BY DEF FreshBus
  <1> HIDE DEF task
  <1>3. FreshBus \in Bus
    BY <1>1, <1>2 DEF Bus, Processors
  <1>4. QED
    BY <1>1, <1>2, <1>3

LEMMA EcoInitInv == EcoInit => EcoInv
  <1> SUFFICES ASSUME EcoInit
               PROVE  EcoInv
    OBVIOUS
  <1>1. \A m \in Mems : hook[m] = NoHook /\ prophecy[m].state = "none"
    BY DEF EcoInit
  <1>2. TableTypes
    <2>1. prophecy \in [Mems -> Foretold]
      BY EcoNats DEF EcoInit, Foretold
    <2>2. QED
      BY <2>1, EcoNats DEF EcoInit, TableTypes
  <1>3. told \in History /\ told.resolved = {} /\ told.updated = {} /\ \A m \in Mems : told.verdicts[m] = 0
    BY DEF EcoInit, History
  <1>4. hook \in [Mems -> HookRec] /\ \A m \in Mems : HookFits(m, hook[m])
    BY <1>1, NoHookFits DEF EcoInit, HookFits
  <1>5. EcoTypes
    BY <1>2, <1>3, <1>4, NoPassFits, FreshBusFits DEF EcoInit, EcoTypes
  <1>6. FreshInv
    BY <1>1 DEF EcoInit, FreshInv
  <1>7. VerdictInv
    <2>1. loop.list = <<>> /\ \A i \in Processors : bus.task[i].left = {}
      BY NoPassFits, FreshBusFits DEF EcoInit
    <2>2. QED
      BY <1>1, <1>3, <2>1 DEF VerdictInv, JudgedOnce, Listed
  <1>8. ResolvedInv /\ EvidenceInv
    BY <1>3 DEF ResolvedInv, EvidenceInv
  <1>9. BusInv
    BY FreshBusFits DEF EcoInit, BusInv, Alive, Processors
  <1>10. QED
    BY <1>5, <1>6, <1>7, <1>8, <1>9 DEF EcoInv

-----------------------------------------------------------------------------
(* The hook of memory m goes on to r.                                      *)
Beginning == {"find", "cause", "recent"}
Stage(m, r) ==
    /\ hook' = [hook EXCEPT ![m] = r] /\ HookFits(m, r) /\ hook[m].pc # "none"
    /\ r.pc \in Beginning => hook[m].pc \in Beginning
    /\ \A o \in r.left : hook[m].pc = "recent" \/ o \in hook[m].left
    /\ \A o \in r.found : o \in hook[m].found \/ o \in hook[m].left
    /\ r.pc = "write" => r.seen = trait[Topic[m]]

\* A hook that goes on with nothing but a new place.
LEMMA PlainStage ==
    ASSUME NEW m \in Mems, NEW pc \in {"recent", "read", "publish", "generate", "none"}, hook[m].pc # "none",
           pc = "recent" => hook[m].pc \in Beginning, hook' = [hook EXCEPT ![m] = [NoHook EXCEPT !.pc = pc]]
    PROVE  \E r : Stage(m, r) /\ r.pc = pc /\ r.left = {} /\ r.found = {}
  <1> DEFINE r == [NoHook EXCEPT !.pc = pc]
  <1>1. r.pc = pc /\ r.left = {} /\ r.found = {} /\ HookFits(m, r)
    BY NoHookFits
  <1> HIDE DEF r
  <1>2. hook' = [hook EXCEPT ![m] = r]
    BY DEF r
  <1>3. Stage(m, r)
    BY <1>1, <1>2 DEF Stage, Beginning
  <1>4. QED
    BY <1>1, <1>3

LEMMA OlderMems == TableTypes => \A m : Older(m) \in SUBSET Mems /\ Older(m) \in SUBSET (0 .. MaxWritten)
  BY EcoNats DEF TableTypes, Older, Mems

LEMMA FindCauseDoes ==
    ASSUME EcoTypes, NEW m \in Mems, FindCause(m)
    PROVE  \E r : Stage(m, r) /\ r.pc = "cause"
  <1> DEFINE pre == IF Older(m) = {} THEN 0 ELSE Latest(Older(m))
             q == [hook[m] EXCEPT !.pc = "cause"]
             r == [q EXCEPT !.pre = pre]
  <1>0. hook \in [Mems -> HookRec] /\ HookFits(m, hook[m]) /\ hook[m].pc = "find" /\ TableTypes
    BY DEF EcoTypes, FindCause
  <1>1. pre \in 0 .. MaxWritten
    <2>1. Older(m) # {} => Latest(Older(m)) \in Older(m)
      BY <1>0, OlderMems, LatestMem
    <2>2. QED
      BY <1>0, <2>1, OlderMems, EcoNats
  <1>2. hook' = [hook EXCEPT ![m] = r]
    BY <1>0 DEF FindCause
  <1> HIDE DEF pre
  <1>3. q \in HookRec /\ q.pc = "cause" /\ q.left = hook[m].left /\ q.found = hook[m].found
    BY <1>0 DEF HookRec
  <1> HIDE DEF q
  <1>4. r \in HookRec /\ r.pc = "cause" /\ r.left = hook[m].left /\ r.found = hook[m].found
    BY <1>1, <1>3 DEF HookRec
  <1> HIDE DEF r
  <1>5. HookFits(m, r)
    BY <1>0, <1>4 DEF HookFits
  <1>6. Stage(m, r)
    BY <1>0, <1>2, <1>4, <1>5 DEF Stage, Beginning
  <1>7. QED
    BY <1>4, <1>6

LEMMA ReadRecentDoes ==
    ASSUME EcoTypes, NEW m \in Mems, ReadRecent(m)
    PROVE  \E r : Stage(m, r) /\ r.pc # "none"
  <1> DEFINE against == {o \in Older(m) : Opposes(m, o)}
             pc == IF against = {} THEN "read" ELSE "conflicts"
             q == [hook[m] EXCEPT !.pc = pc]
             r == [q EXCEPT !.left = against]
  <1>0. hook \in [Mems -> HookRec] /\ HookFits(m, hook[m]) /\ hook[m].pc = "recent" /\ TableTypes
    BY DEF EcoTypes, ReadRecent
  <1>1. against \in SUBSET Mems /\ \A o \in against : <<m, o>> \in Opposed
    BY <1>0, OlderMems DEF Opposes
  <1>2. hook' = [hook EXCEPT ![m] = r]
    BY <1>0 DEF ReadRecent
  <1>3. pc \in {"read", "conflicts"} /\ (pc = "conflicts" => against # {})
    OBVIOUS
  <1> HIDE DEF against, pc
  <1>4. q \in HookRec /\ q.pc = pc /\ q.found = hook[m].found
    BY <1>0, <1>3 DEF HookRec
  <1> HIDE DEF q
  <1>5. r \in HookRec /\ r.pc = pc /\ r.left = against /\ r.found = hook[m].found
    BY <1>1, <1>4 DEF HookRec
  <1> HIDE DEF r
  <1>6. HookFits(m, r)
    BY <1>0, <1>1, <1>3, <1>5 DEF HookFits
  <1>7. Stage(m, r)
    BY <1>0, <1>2, <1>3, <1>5, <1>6 DEF Stage, Beginning
  <1>8. QED
    BY <1>3, <1>5, <1>7

LEMMA AddConflictDoes ==
    ASSUME EcoTypes, NEW m \in Mems, AddConflict(m)
    PROVE  \E r, o : /\ Stage(m, r) /\ r.pc \notin Beginning /\ r.pc # "none"
                     /\ o \in hook[m].left /\ o \notin r.left /\ <<m, o>> \in Opposed
                     /\ conflict' = [conflict EXCEPT ![<<m, o>>] = "candidate"]
  <1> DEFINE o == Latest(hook[m].left)
             pc == IF hook[m].left = {o} THEN "upgrade" ELSE "conflicts"
             p == [hook[m] EXCEPT !.left = hook[m].left \ {o}]
             q == [p EXCEPT !.found = hook[m].found \cup {o}]
             r == [q EXCEPT !.pc = pc]
  <1>0. /\ hook \in [Mems -> HookRec] /\ HookFits(m, hook[m]) /\ hook[m].pc = "conflicts" /\ hook[m] \in HookRec
        /\ hook[m].left \in SUBSET Mems /\ hook[m].found \in SUBSET Mems /\ hook[m].left # {}
    BY DEF EcoTypes, AddConflict, HookFits, HookRec
  <1>1. o \in hook[m].left /\ o \in Mems /\ <<m, o>> \in Opposed
    BY <1>0, LatestMem DEF HookFits
  <1>2. hook' = [hook EXCEPT ![m] = r]
    BY <1>0 DEF AddConflict
  <1>3. conflict' = [conflict EXCEPT ![<<m, o>>] = "candidate"]
    BY DEF AddConflict
  <1>4. /\ pc \in {"upgrade", "conflicts"}
        /\ pc = "conflicts" => hook[m].left \ {o} # {}
        /\ pc = "upgrade" => hook[m].left \ {o} = {}
    BY <1>1
  <1> HIDE DEF o, pc
  <1>5. p \in HookRec /\ p.left = hook[m].left \ {o}
    BY <1>0 DEF HookRec
  <1> HIDE DEF p
  <1>6. q \in HookRec /\ q.left = hook[m].left \ {o} /\ q.found = hook[m].found \cup {o}
    BY <1>0, <1>1, <1>5 DEF HookRec
  <1> HIDE DEF q
  <1>7. r \in HookRec /\ r.left = hook[m].left \ {o} /\ r.found = hook[m].found \cup {o} /\ r.pc = pc
    BY <1>4, <1>6 DEF HookRec
  <1> HIDE DEF r
  <1>12. \A k \in r.left \cup r.found : <<m, k>> \in Opposed
    BY <1>0, <1>1, <1>7 DEF HookFits
  <1>13. (r.pc = "conflicts" => r.left # {}) /\ (r.pc = "upgrade" => r.found # {} /\ r.left = {})
    BY <1>4, <1>7
  <1>8. HookFits(m, r)
    BY <1>7, <1>12, <1>13 DEF HookFits
  <1>9. Stage(m, r)
    BY <1>0, <1>1, <1>2, <1>4, <1>7, <1>8 DEF Stage, Beginning
  <1>10. r.pc \notin Beginning /\ r.pc # "none" /\ o \notin r.left
    BY <1>4, <1>7 DEF Beginning
  <1>11. QED
    BY <1>1, <1>3, <1>9, <1>10

LEMMA UpgradeDoes ==
    ASSUME EcoTypes, NEW m \in Mems, Upgrade(m)
    PROVE  \E r, o : /\ Stage(m, r) /\ r.pc \notin Beginning /\ r.pc # "none"
                     /\ o \in hook[m].found /\ <<m, o>> \in Opposed
                     /\ conflict' = conflict \/ conflict' = [conflict EXCEPT ![<<m, o>>] = "candidate"]
                     /\ o \notin r.left
  <1> DEFINE o == Latest(hook[m].found)
             pc == IF hook[m].found = {o} THEN "read" ELSE "upgrade"
             q == [hook[m] EXCEPT !.found = hook[m].found \ {o}]
             r == [q EXCEPT !.pc = pc]
  <1>0. /\ hook \in [Mems -> HookRec] /\ HookFits(m, hook[m]) /\ hook[m].pc = "upgrade" /\ hook[m] \in HookRec
        /\ hook[m].left = {} /\ hook[m].found \in SUBSET Mems /\ hook[m].found # {}
    BY DEF EcoTypes, Upgrade, HookFits, HookRec
  <1>1. o \in hook[m].found /\ o \in Mems /\ <<m, o>> \in Opposed
    BY <1>0, LatestMem DEF HookFits
  <1>2. hook' = [hook EXCEPT ![m] = r]
    BY <1>0 DEF Upgrade
  <1>3. conflict' = conflict \/ conflict' = [conflict EXCEPT ![<<m, o>>] = "candidate"]
    BY DEF Upgrade
  <1>4. pc \in {"upgrade", "read"} /\ (pc = "upgrade" => hook[m].found \ {o} # {})
    BY <1>1
  <1> HIDE DEF o, pc
  <1>5. q \in HookRec /\ q.left = {} /\ q.found = hook[m].found \ {o}
    BY <1>0 DEF HookRec
  <1> HIDE DEF q
  <1>6. r \in HookRec /\ r.left = {} /\ r.found = hook[m].found \ {o} /\ r.pc = pc
    BY <1>4, <1>5 DEF HookRec
  <1> HIDE DEF r
  <1>7. HookFits(m, r)
    BY <1>0, <1>4, <1>6 DEF HookFits
  <1>8. Stage(m, r)
    BY <1>0, <1>2, <1>4, <1>6, <1>7 DEF Stage, Beginning
  <1>9. r.pc \notin Beginning /\ r.pc # "none" /\ o \notin r.left
    BY <1>4, <1>6 DEF Beginning
  <1>10. QED
    BY <1>1, <1>3, <1>8, <1>9

LEMMA ReadTraitDoes ==
    ASSUME EcoTypes, NEW m \in Mems, ReadTrait(m)
    PROVE  \E r : Stage(m, r) /\ r.pc = "write"
  <1> DEFINE q == [hook[m] EXCEPT !.pc = "write"]
             r == [q EXCEPT !.seen = trait[Topic[m]]]
  <1>0. /\ hook \in [Mems -> HookRec] /\ HookFits(m, hook[m]) /\ hook[m].pc = "read" /\ hook[m] \in HookRec
        /\ trait[Topic[m]] \in SUBSET Mems
    BY EcoNats DEF EcoTypes, TableTypes, ReadTrait
  <1>1. hook' = [hook EXCEPT ![m] = r]
    BY <1>0 DEF ReadTrait, TraitOf
  <1>2. q \in HookRec /\ q.pc = "write" /\ q.left = hook[m].left /\ q.found = hook[m].found
    BY <1>0 DEF HookRec
  <1> HIDE DEF q
  <1>3. r \in HookRec /\ r.pc = "write" /\ r.left = hook[m].left /\ r.found = hook[m].found /\ r.seen = trait[Topic[m]]
    BY <1>0, <1>2 DEF HookRec
  <1> HIDE DEF r
  <1>4. HookFits(m, r)
    BY <1>0, <1>3 DEF HookFits
  <1>5. Stage(m, r)
    BY <1>0, <1>1, <1>3, <1>4 DEF Stage, Beginning
  <1>6. QED
    BY <1>3, <1>5

\* The others go to a new place with nothing else.
LEMMA OtherStagesDo ==
    ASSUME EcoTypes, NEW m \in Mems,
           \/ RecordCause(m) \/ WriteTrait(m) \/ InsertFails(m) \/ PublishProfile(m) \/ Generate(m) \/ StageFails(m)
    PROVE  \E r : Stage(m, r) /\ (r.pc = "none" => Generate(m) \/ StageFails(m)) /\ r.pc # "write"
                  /\ r.left = {} /\ r.found = {}
  <1>1. CASE RecordCause(m)
    BY <1>1, PlainStage DEF RecordCause, Goto, Beginning
  <1>2. CASE WriteTrait(m)
    BY <1>2, PlainStage DEF WriteTrait, Goto
  <1>3. CASE InsertFails(m)
    BY <1>3, PlainStage DEF InsertFails, Goto
  <1>4. CASE PublishProfile(m)
    BY <1>4, PlainStage DEF PublishProfile, Goto
  <1>5. CASE Generate(m)
    BY <1>5, PlainStage DEF Generate, Goto
  <1>6. CASE StageFails(m)
    <2>1. /\ NextStage(hook[m].pc) \in {"recent", "read", "generate", "none"}
          /\ NextStage(hook[m].pc) = "recent" => hook[m].pc \in Beginning
      <3>1. hook[m].pc \in {"none", "find", "cause", "recent", "conflicts", "upgrade", "read", "write", "publish", "generate"}
        BY DEF EcoTypes, HookRec
      <3>2. QED
        BY <3>1 DEF NextStage, Beginning
    <2>2. hook[m].pc # "none" /\ hook' = [hook EXCEPT ![m] = [NoHook EXCEPT !.pc = NextStage(hook[m].pc)]]
      BY <1>6 DEF StageFails, Skipped
    <2>3. QED
      BY <1>6, <2>1, <2>2, PlainStage
  <1>7. QED
    BY <1>1, <1>2, <1>3, <1>4, <1>5, <1>6

-----------------------------------------------------------------------------
(* What a step of a hook keeps.                                            *)
LEMMA StageHooks ==
    ASSUME EcoTypes, NEW m \in Mems, NEW r, Stage(m, r)
    PROVE  /\ hook' \in [Mems -> HookRec] /\ \A k \in Mems : HookFits(k, hook'[k])
           /\ hook'[m] = r /\ \A k \in Mems \ {m} : hook'[k] = hook[k]
           /\ r \in HookRec
  BY DEF EcoTypes, Stage, HookFits

LEMMA StageFresh ==
    ASSUME EcoTypes, FreshInv, NEW m \in Mems, NEW r, Stage(m, r), written' = written,
           \A k \in Mems : prophecy'[k].state = prophecy[k].state \/ (k = m /\ r.pc = "none"),
           \A p \in Opposed : conflict'[p] = conflict[p] \/ conflict[p] # "none"
                              \/ (p[1] = m /\ r.pc \notin Beginning /\ p[2] \notin r.left)
    PROVE  FreshInv'
  <1>0. hook'[m] = r /\ (\A k \in Mems \ {m} : hook'[k] = hook[k]) /\ hook[m].pc # "none" /\ ~ m > written
    BY StageHooks, NoHookFits DEF Stage, FreshInv
  <1>1. \A k \in Mems : k > written' => hook'[k] = NoHook
    BY <1>0 DEF FreshInv
  <1>2. ASSUME NEW k \in Mems, Unread(k)'
        PROVE  prophecy'[k].state = "none"
    <2>1. Unread(k) /\ ~ (k = m /\ r.pc = "none")
      BY <1>0, <1>2 DEF Unread
    <2>2. QED
      BY <2>1 DEF FreshInv
  <1>3. ASSUME NEW p \in Opposed, Unjudged(p)'
        PROVE  conflict'[p] = "none"
    <2>0. p[1] \in Mems /\ p = <<p[1], p[2]>>
      BY EcoNats
    <2>1. Unjudged(p)
      <3>1. CASE p[1] # m
        BY <1>0, <1>3, <2>0, <3>1 DEF Unjudged
      <3>2. CASE p[1] = m
        BY <1>0, <1>3, <3>2 DEF Unjudged, Stage, Beginning
      <3>3. QED
        BY <3>1, <3>2
    <2>2. ~ (p[1] = m /\ r.pc \notin Beginning /\ p[2] \notin r.left)
      BY <1>0, <1>3 DEF Unjudged, Beginning
    <2>3. QED
      BY <2>1, <2>2 DEF FreshInv
  <1>4. QED
    BY <1>1, <1>2, <1>3 DEF FreshInv

LEMMA StageResolved ==
    ASSUME EcoTypes, FreshInv, ResolvedInv, NEW m \in Mems, NEW r, Stage(m, r),
           told'.resolved = told.resolved, told'.underway = told.underway,
           \A p \in Opposed : conflict'[p] = conflict[p]
                              \/ (p[1] = m /\ conflict'[p] # "none" /\ p[2] \in hook[m].left \cup hook[m].found)
    PROVE  ResolvedInv'
  <1>0. hook'[m] = r /\ \A k \in Mems \ {m} : hook'[k] = hook[k]
    BY StageHooks
  <1>1. ASSUME NEW p \in told.resolved
        PROVE  /\ conflict'[p] # "none"
               /\ p \notin told.underway => conflict'[p] = "resolved" /\ p[2] \notin hook'[p[1]].found
    <2>0. p \in Opposed /\ p[1] \in Mems
      BY EcoNats DEF EcoTypes, History
    <2>1. conflict[p] # "none" /\ (p \notin told.underway => conflict[p] = "resolved" /\ p[2] \notin hook[p[1]].found)
      BY DEF ResolvedInv
    <2>2. p[2] \notin hook[p[1]].left
      BY <2>0, <2>1 DEF FreshInv, Unjudged
    <2>3. conflict'[p] = conflict[p] \/ (p[1] = m /\ p[2] \in hook[m].found /\ conflict'[p] # "none")
      BY <2>0, <2>2
    <2>4. CASE p[1] # m
      BY <1>0, <2>0, <2>1, <2>3, <2>4
    <2>5. CASE p[1] = m
      <3>1. p[2] \in r.found => p[2] \in hook[m].found
        BY <2>2, <2>5 DEF Stage
      <3>2. QED
        BY <1>0, <2>1, <2>3, <2>5, <3>1
    <2>6. QED
      BY <2>4, <2>5
  <1>2. QED
    BY <1>1 DEF ResolvedInv

LEMMA StageEvidence ==
    ASSUME EcoTypes, EvidenceInv, NEW m \in Mems, NEW r, Stage(m, r),
           trait' = trait, loop' = loop, told'.updated = told.updated, told'.overwritten = told.overwritten,
           \A k \in Mems : prophecy'[k].topic = prophecy[k].topic \/ loop.pc # "raise" \/ loop.list[1] # k
    PROVE  EvidenceInv'
  <1>0. hook'[m] = r /\ (\A k \in Mems \ {m} : hook'[k] = hook[k]) /\ (r.pc = "write" => r.seen = trait[Topic[m]])
    BY StageHooks DEF Stage
  <1>1. ASSUME NEW t, Raising(t)'
        PROVE  Raising(t)
    <2>1. loop.pc = "raise" /\ loop.list \in Seq(Mems) /\ loop.list # <<>>
      BY <1>1 DEF Raising, EcoTypes, PassFits, Pass
    <2>2. loop.list[1] \in Mems
      BY <2>1
    <2>3. QED
      BY <1>1, <2>1, <2>2 DEF Raising
  <1>2. ASSUME NEW k \in told.updated \ told.overwritten
        PROVE  /\ k \in trait'[Topic[k]]
               /\ \A n \in Mems : hook'[n].pc = "write" /\ Topic[n] = Topic[k] => k \in hook'[n].seen
               /\ Raising(Topic[k])' => k \in loop'.seen
    <2>1. /\ k \in trait[Topic[k]]
          /\ \A n \in Mems : hook[n].pc = "write" /\ Topic[n] = Topic[k] => k \in hook[n].seen
          /\ Raising(Topic[k]) => k \in loop.seen
      BY DEF EvidenceInv
    <2>2. QED
      BY <1>0, <1>1, <2>1
  <1>3. QED
    BY <1>2 DEF EvidenceInv

-----------------------------------------------------------------------------
(* What is as before where nothing of it changes.                          *)
LEMMA SameFresh == FreshInv /\ UNCHANGED <<written, hook, prophecy, conflict>> => FreshInv'
  BY DEF FreshInv, Unread, Unjudged
LEMMA SameVerdicts ==
    ASSUME VerdictInv, loop' = loop, told'.verdicts = told.verdicts, told'.overtaken = told.overtaken,
           \A m \in Mems : prophecy'[m].state = prophecy[m].state,
           \A i \in Processors : bus'.task[i].left = bus.task[i].left
    PROVE  VerdictInv'
  BY DEF VerdictInv, JudgedOnce, Listed, Coming, ToCome
LEMMA SameResolved ==
    ASSUME ResolvedInv, UNCHANGED <<hook, conflict>>, told'.resolved = told.resolved, told'.underway = told.underway
    PROVE  ResolvedInv'
  BY DEF ResolvedInv
LEMMA SameEvidence ==
    ASSUME EvidenceInv, UNCHANGED <<trait, hook, loop>>, \A m \in Mems : prophecy'[m].topic = prophecy[m].topic,
           told'.updated = told.updated, told'.overwritten = told.overwritten, PassFits(loop)
    PROVE  EvidenceInv'
  <1>1. loop.pc = "raise" => loop.list[1] \in Mems
    BY DEF PassFits, Pass
  <1>2. QED
    BY <1>1 DEF EvidenceInv, Raising
LEMMA SameBus ==
    ASSUME BusInv, plugin' = plugin, told'.revived = told.revived, bus' = bus
    PROVE  BusInv'
  BY DEF BusInv, Alive

-----------------------------------------------------------------------------
(* The bus: publishing starts it if it does not run.                       *)
LEMMA StartedIs ==
    ASSUME NEW b \in Bus, \A i \in Processors : TaskFits(b.task[i]),
           ~b.running => \E i \in Processors : b.task[i].pc = "off"
    PROVE  /\ Started(b) \in Bus /\ \A i \in Processors : TaskFits(Started(b).task[i])
           /\ Started(b).running /\ Started(b).cancelled = b.cancelled /\ Started(b).awaited = b.awaited
           /\ \A i \in Processors : Started(b).task[i].left = b.task[i].left
           /\ b.running => Started(b) = b
           /\ ~b.running =>
                /\ b.task[Started(b).newest].pc = "off" /\ Started(b).task[Started(b).newest].pc # "off"
                /\ \A i \in Processors \ {Started(b).newest} : Started(b).task[i] = b.task[i]
  <1>1. CASE b.running
    BY <1>1 DEF Started
  <1>2. CASE ~b.running
    <2> DEFINE new == CHOOSE i \in Processors : b.task[i].pc = "off"
               k == [NoProcessor EXCEPT !.pc = "get"]
               p == [b EXCEPT !.running = TRUE]
               q == [p EXCEPT !.newest = new]
               r == [q EXCEPT !.task = [b.task EXCEPT ![new] = k]]
    <2>1. new \in Processors /\ b.task[new].pc = "off"
      BY <1>2
    <2>2. k \in Processor /\ TaskFits(k) /\ k.pc # "off" /\ k.left = {}
      BY NoProcessorFits DEF TaskFits
    <2>3. Started(b) = r
      BY <1>2 DEF Started, Bus
    <2> HIDE DEF new, k
    <2>4. /\ p \in Bus /\ p.running /\ p.cancelled = b.cancelled /\ p.awaited = b.awaited /\ p.task = b.task
      BY DEF Bus
    <2> HIDE DEF p
    <2>5. /\ q \in Bus /\ q.running /\ q.cancelled = b.cancelled /\ q.awaited = b.awaited /\ q.task = b.task
          /\ q.newest = new
      BY <2>1, <2>4 DEF Bus
    <2> HIDE DEF q
    <2>6. [b.task EXCEPT ![new] = k] \in [Processors -> Processor] /\ b.task \in [Processors -> Processor]
      BY <2>2 DEF Bus
    <2>7. /\ r \in Bus /\ r.running /\ r.cancelled = b.cancelled /\ r.awaited = b.awaited /\ r.newest = new
          /\ r.task = [b.task EXCEPT ![new] = k]
      BY <2>5, <2>6 DEF Bus
    <2> HIDE DEF r
    <2>8. r.task[new] = k /\ \A i \in Processors \ {new} : r.task[i] = b.task[i]
      BY <2>1, <2>6, <2>7
    <2>9. \A i \in Processors : TaskFits(r.task[i])
      BY <2>2, <2>8
    <2>10. \A i \in Processors : r.task[i].left = b.task[i].left
      BY <2>1, <2>2, <2>8 DEF TaskFits
    <2>11. QED
      BY <1>2, <2>1, <2>2, <2>3, <2>7, <2>8, <2>9, <2>10
  <1>3. QED
    BY <1>1, <1>2

LEMMA BusTypes ==
    EcoTypes => /\ bus \in Bus /\ (\A i \in Processors : TaskFits(bus.task[i])) /\ bus.newest \in Processors
                /\ bus.task \in [Processors -> Processor] /\ bus.queue \in Seq(Event)
  BY DEF EcoTypes, Bus

LEMMA SomeOff == EcoTypes /\ BusInv /\ ~bus.running => \E i \in Processors : bus.task[i].pc = "off"
  <1> SUFFICES ASSUME EcoTypes, BusInv, ~bus.running
               PROVE  \E i \in Processors : bus.task[i].pc = "off"
    OBVIOUS
  <1>1. \A i \in Processors \ {bus.newest} : ~Alive(i)
    BY DEF BusInv
  <1>2. 1 \in Processors /\ 2 \in Processors
    BY DEF Processors
  <1>3. QED
    BY <1>1, <1>2 DEF Alive

\* An event goes into the queue, and the history notes a bus started again
\* while it is being stopped.
Publishes(e) ==
    /\ bus' = Published(bus, e) /\ plugin' = plugin
    /\ told'.revived = (told.revived \/ (plugin = "stopping" /\ ~bus.running))

LEMMA PublishKeeps ==
    ASSUME EcoTypes, BusInv, NEW e \in Event, Publishes(e)
    PROVE  /\ bus' \in Bus /\ \A i \in Processors : TaskFits(bus'.task[i])
           /\ \A i \in Processors : bus'.task[i].left = bus.task[i].left
           /\ BusInv'
  <1> DEFINE b == [bus EXCEPT !.queue = Append(bus.queue, e)]
  <1>1. Append(bus.queue, e) \in Seq(Event)
    BY BusTypes
  <1>2. /\ b \in Bus /\ b.running = bus.running /\ b.cancelled = bus.cancelled /\ b.awaited = bus.awaited
        /\ b.newest = bus.newest /\ b.task = bus.task
    BY <1>1, BusTypes DEF Bus
  <1>3. bus' = Started(b)
    BY DEF Publishes, Published
  <1> HIDE DEF b
  <1>4. /\ Started(b) \in Bus /\ \A i \in Processors : TaskFits(Started(b).task[i])
        /\ Started(b).running /\ Started(b).cancelled = b.cancelled /\ Started(b).awaited = b.awaited
        /\ \A i \in Processors : Started(b).task[i].left = b.task[i].left
        /\ b.running => Started(b) = b
        /\ ~b.running =>
             /\ b.task[Started(b).newest].pc = "off" /\ Started(b).task[Started(b).newest].pc # "off"
             /\ \A i \in Processors \ {Started(b).newest} : Started(b).task[i] = b.task[i]
    BY <1>2, BusTypes, SomeOff, StartedIs
  <1>5. CASE bus.running
    <2>1. /\ bus'.running = bus.running /\ bus'.cancelled = bus.cancelled /\ bus'.awaited = bus.awaited
          /\ bus'.newest = bus.newest /\ bus'.task = bus.task
      BY <1>2, <1>3, <1>4, <1>5
    <2>2. (told.revived => told'.revived) /\ plugin' = plugin
      BY DEF Publishes
    <2>3. BusInv'
      BY <1>5, <2>1, <2>2 DEF BusInv, Alive
    <2>4. QED
      BY <1>2, <1>3, <1>4, <2>3
  <1>6. CASE ~bus.running
    <2>1. /\ bus'.running /\ bus'.cancelled = bus.cancelled /\ bus'.awaited = bus.awaited
          /\ bus.task[bus'.newest].pc = "off" /\ bus'.task[bus'.newest].pc # "off" /\ bus'.newest \in Processors
          /\ \A i \in Processors \ {bus'.newest} : bus'.task[i] = bus.task[i]
      BY <1>2, <1>3, <1>4, <1>6 DEF Bus
    <2>2. CASE plugin = "stopping"
      <3>1. told'.revived
        BY <1>6, <2>2 DEF Publishes
      <3>2. bus.cancelled # 0 => bus.cancelled = bus.awaited /\ Alive(bus.awaited) /\ bus.awaited \in Processors
        BY <2>2 DEF BusInv
      <3>3. bus.cancelled # 0 => bus'.task[bus.awaited].pc # "off" /\ bus'.newest # bus.awaited
        BY <2>1, <3>2 DEF Alive
      <3>4. BusInv'
        BY <2>1, <2>2, <3>1, <3>2, <3>3 DEF BusInv, Alive, Publishes
      <3>5. QED
        BY <1>2, <1>3, <1>4, <3>4
    <2>3. CASE plugin # "stopping"
      <3>1. bus.cancelled = 0 /\ \A i \in Processors : ~Alive(i)
        BY <1>6, <2>3 DEF BusInv
      <3>2. BusInv'
        BY <2>1, <2>3, <3>1 DEF BusInv, Alive, Publishes
      <3>3. QED
        BY <1>2, <1>3, <1>4, <3>2
    <2>4. QED
      BY <2>2, <2>3
  <1>7. QED
    BY <1>5, <1>6

-----------------------------------------------------------------------------
(* The steps of a hook.                                                    *)
LEMMA HeadIs ==
    ASSUME PassFits(loop), loop.pc # "sleep"
    PROVE  /\ Judged = loop.list[1] /\ loop.list[1] \in Mems /\ 1 \in 1 .. Len(loop.list)
           /\ loop.list \in Seq(Mems) /\ Len(loop.list) \in Nat /\ Len(loop.list) >= 1
  BY DEF PassFits, Pass, Judged

LEMMA QuietStage ==
    ASSUME EcoInv, NEW m \in Mems, NEW r, Stage(m, r), UNCHANGED <<written, conflict, trait, prophecy, loop, bus, plugin, told>>,
           cause' \in [Mems -> {Unset} \cup 0 .. MaxWritten]
    PROVE  EcoInv'
  <1>0. EcoTypes /\ FreshInv /\ VerdictInv /\ ResolvedInv /\ EvidenceInv /\ BusInv
    BY DEF EcoInv
  <1>1. TableTypes'
    BY <1>0 DEF EcoTypes, TableTypes
  <1>2. EcoTypes'
    BY <1>0, <1>1, StageHooks DEF EcoTypes
  <1>3. FreshInv'
    BY <1>0, StageFresh
  <1>4. VerdictInv'
    BY <1>0, SameVerdicts
  <1>5. ResolvedInv'
    BY <1>0, StageResolved
  <1>6. EvidenceInv'
    BY <1>0, StageEvidence
  <1>7. BusInv'
    BY <1>0, SameBus
  <1>8. QED
    BY <1>2, <1>3, <1>4, <1>5, <1>6, <1>7 DEF EcoInv

LEMMA QuietStages ==
    ASSUME EcoInv, NEW m \in Mems, FindCause(m) \/ RecordCause(m) \/ ReadRecent(m) \/ ReadTrait(m) \/ InsertFails(m) \/ StageFails(m)
    PROVE  EcoInv'
  <1>0. EcoTypes /\ cause \in [Mems -> {Unset} \cup 0 .. MaxWritten] /\ hook[m] \in HookRec
    BY DEF EcoInv, EcoTypes, TableTypes
  <1>1. \E r : Stage(m, r)
    BY <1>0, FindCauseDoes, ReadRecentDoes, ReadTraitDoes, OtherStagesDo
  <1>2. UNCHANGED <<written, conflict, trait, prophecy, loop, bus, plugin, told>>
    BY DEF FindCause, RecordCause, ReadRecent, ReadTrait, InsertFails, StageFails, tablevars
  <1>3. cause' \in [Mems -> {Unset} \cup 0 .. MaxWritten]
    <2>1. CASE RecordCause(m)
      BY <1>0, <2>1 DEF RecordCause, HookRec
    <2>2. CASE ~RecordCause(m)
      <3>1. cause' = cause
        BY <2>2 DEF FindCause, ReadRecent, ReadTrait, InsertFails, StageFails, tablevars
      <3>2. QED
        BY <1>0, <3>1
    <2>3. QED
      BY <2>1, <2>2
  <1>4. QED
    BY <1>1, <1>2, <1>3, QuietStage

\* AddConflict and Upgrade write one pair the hook has in hand.
LEMMA ConflictStages ==
    ASSUME EcoInv, NEW m \in Mems, AddConflict(m) \/ Upgrade(m)
    PROVE  EcoInv'
  <1>0. EcoTypes /\ FreshInv /\ VerdictInv /\ ResolvedInv /\ EvidenceInv /\ BusInv
    BY DEF EcoInv
  <1>1. UNCHANGED <<written, cause, trait, prophecy, loop, bus, plugin, told>>
    BY DEF AddConflict, Upgrade
  <1>2. PICK r, o : /\ Stage(m, r) /\ r.pc \notin Beginning /\ r.pc # "none"
                    /\ o \in hook[m].left \cup hook[m].found /\ o \notin r.left /\ <<m, o>> \in Opposed
                    /\ conflict' = conflict \/ conflict' = [conflict EXCEPT ![<<m, o>>] = "candidate"]
    <2>1. CASE AddConflict(m)
      <3>1. PICK r, o : /\ Stage(m, r) /\ r.pc \notin Beginning /\ r.pc # "none"
                        /\ o \in hook[m].left /\ o \notin r.left /\ <<m, o>> \in Opposed
                        /\ conflict' = [conflict EXCEPT ![<<m, o>>] = "candidate"]
        BY <1>0, <2>1, AddConflictDoes
      <3>2. QED
        BY <3>1
    <2>2. CASE Upgrade(m)
      <3>1. PICK r, o : /\ Stage(m, r) /\ r.pc \notin Beginning /\ r.pc # "none"
                        /\ o \in hook[m].found /\ <<m, o>> \in Opposed
                        /\ conflict' = conflict \/ conflict' = [conflict EXCEPT ![<<m, o>>] = "candidate"]
                        /\ o \notin r.left
        BY <1>0, <2>2, UpgradeDoes
      <3>2. QED
        BY <3>1
    <2>3. QED
      BY <2>1, <2>2
  <1>3. conflict \in [Opposed -> {"none", "candidate", "resolved"}]
    BY <1>0 DEF EcoTypes, TableTypes
  <1>4. conflict' \in [Opposed -> {"none", "candidate", "resolved"}]
    BY <1>2, <1>3
  <1>5. \A p \in Opposed : conflict'[p] = conflict[p] \/ (p = <<m, o>> /\ conflict'[p] = "candidate")
    BY <1>2, <1>3
  <1>6. \A p \in Opposed : conflict'[p] = conflict[p] \/ (p[1] = m /\ p[2] = o /\ conflict'[p] = "candidate")
    BY <1>5
  <1>7. TableTypes'
    BY <1>0, <1>1, <1>4 DEF EcoTypes, TableTypes
  <1>8. EcoTypes'
    BY <1>0, <1>1, <1>2, <1>7, StageHooks DEF EcoTypes
  <1>9. FreshInv'
    BY <1>0, <1>1, <1>2, <1>6, StageFresh
  <1>10. VerdictInv'
    BY <1>0, <1>1, SameVerdicts
  <1>11. ResolvedInv'
    BY <1>0, <1>1, <1>2, <1>6, StageResolved
  <1>12. EvidenceInv'
    BY <1>0, <1>1, <1>2, StageEvidence
  <1>13. BusInv'
    BY <1>0, <1>1, SameBus
  <1>14. QED
    BY <1>8, <1>9, <1>10, <1>11, <1>12, <1>13 DEF EcoInv

LEMMA WriteTraitInv ==
    ASSUME EcoInv, NEW m \in Mems, WriteTrait(m)
    PROVE  EcoInv'
  <1>0. EcoTypes /\ FreshInv /\ VerdictInv /\ ResolvedInv /\ EvidenceInv /\ BusInv
    BY DEF EcoInv
  <1>1. UNCHANGED <<written, cause, conflict, prophecy, loop, bus, plugin>>
    BY DEF WriteTrait
  <1>2. PICK r : Stage(m, r) /\ r.pc = "publish"
    <2>1. hook[m].pc # "none" /\ hook' = [hook EXCEPT ![m] = [NoHook EXCEPT !.pc = "publish"]]
      BY DEF WriteTrait, Goto
    <2>2. "publish" \in {"recent", "read", "publish", "generate", "none"} /\ "publish" # "recent"
      OBVIOUS
    <2>3. \E r : Stage(m, r) /\ r.pc = "publish" /\ r.left = {} /\ r.found = {}
      BY <2>1, <2>2, PlainStage
    <2>4. QED
      BY <2>3
  <1>3. /\ told \in History /\ trait \in [Topics -> SUBSET Mems] /\ hook[m] \in HookRec /\ Topic[m] \in Topics
        /\ hook[m].seen \in SUBSET Mems
    BY <1>0, EcoNats DEF EcoTypes, TableTypes, HookRec
  <1> DEFINE over == IF Readers(Topic[m]) # {m} THEN told.overwritten \cup {m} ELSE told.overwritten
             t == [told EXCEPT !.updated = told.updated \cup {m}]
             u == [t EXCEPT !.overwritten = over]
  <1>4. told' = u
    BY <1>3 DEF WriteTrait, TraitOf, History
  <1>5. over \in SUBSET Mems
    BY <1>3 DEF History
  <1>6. over = told.overwritten \cup {m} \/ (over = told.overwritten /\ Readers(Topic[m]) = {m})
    OBVIOUS
  <1> HIDE DEF over
  <1>7. /\ t \in History /\ t.updated = told.updated \cup {m} /\ t.verdicts = told.verdicts /\ t.overtaken = told.overtaken
        /\ t.resolved = told.resolved /\ t.underway = told.underway /\ t.revived = told.revived
    BY <1>3 DEF History
  <1> HIDE DEF t
  <1>8. /\ u \in History /\ u.updated = told.updated \cup {m} /\ u.verdicts = told.verdicts /\ u.overtaken = told.overtaken
        /\ u.resolved = told.resolved /\ u.underway = told.underway /\ u.revived = told.revived /\ u.overwritten = over
    BY <1>5, <1>7 DEF History
  <1> HIDE DEF u
  <1>9. trait' = [trait EXCEPT ![Topic[m]] = hook[m].seen \cup {m}] /\ hook[m].pc = "write"
    BY DEF WriteTrait, TraitOf, Joined
  <1>10. TableTypes'
    <2>1. trait' \in [Topics -> SUBSET Mems]
      BY <1>3, <1>9
    <2>2. QED
      BY <1>0, <1>1, <2>1 DEF EcoTypes, TableTypes
  <1>11. EcoTypes'
    BY <1>0, <1>1, <1>2, <1>4, <1>8, <1>10, StageHooks DEF EcoTypes
  <1>12. FreshInv'
    BY <1>0, <1>1, <1>2, StageFresh
  <1>13. VerdictInv'
    BY <1>0, <1>1, <1>4, <1>8, SameVerdicts
  <1>14. ResolvedInv'
    BY <1>0, <1>1, <1>2, <1>4, <1>8, StageResolved
  <1>15. EvidenceInv'
    <2>1. hook'[m] = r /\ \A k \in Mems \ {m} : hook'[k] = hook[k]
      BY <1>0, <1>2, StageHooks
    <2>2. Readers(Topic[m]) = {m} => (\A n \in Mems : hook[n].pc = "write" /\ Topic[n] = Topic[m] => n = m) /\ ~ Raising(Topic[m])
      <3>1. PassFits(loop) /\ 0 \notin Mems /\ Judged = Head(loop.list)
        BY <1>0 DEF EcoTypes, Mems, Judged
      <3>2. Raising(Topic[m]) => 0 \in Readers(Topic[m])
        BY <3>1, HeadIs DEF Raising, Readers
      <3>3. \A n \in Mems : hook[n].pc = "write" /\ Topic[n] = Topic[m] => n \in Readers(Topic[m])
        BY DEF Readers
      <3>4. QED
        BY <3>1, <3>2, <3>3
    <2>3. \A t1 : Raising(t1)' <=> Raising(t1)
      BY <1>1 DEF Raising
    <2>4. ASSUME NEW k \in (told.updated \cup {m}) \ over
          PROVE  /\ k \in trait'[Topic[k]]
                 /\ \A n \in Mems : hook'[n].pc = "write" /\ Topic[n] = Topic[k] => k \in hook'[n].seen
                 /\ Raising(Topic[k])' => k \in loop'.seen
      <3>0. k \in Mems /\ Topic[k] \in Topics
        BY <1>3, EcoNats DEF History
      <3>1. CASE k = m
        <4>1. Readers(Topic[m]) = {m}
          BY <1>6, <2>4, <3>1
        <4>2. k \in trait'[Topic[k]]
          BY <1>3, <1>9, <3>1
        <4>3. QED
          BY <1>2, <2>1, <2>2, <2>3, <3>1, <4>1, <4>2
      <3>2. CASE k # m
        <4>1. k \in told.updated \ told.overwritten
          BY <1>6, <2>4, <3>2
        <4>2. /\ k \in trait[Topic[k]]
              /\ \A n \in Mems : hook[n].pc = "write" /\ Topic[n] = Topic[k] => k \in hook[n].seen
              /\ Raising(Topic[k]) => k \in loop.seen
          BY <1>0, <4>1 DEF EvidenceInv
        <4>3. k \in trait'[Topic[k]]
          BY <1>3, <1>9, <3>0, <4>2
        <4>4. \A n \in Mems : hook'[n].pc = "write" /\ Topic[n] = Topic[k] => k \in hook'[n].seen
          BY <1>2, <2>1, <4>2
        <4>5. Raising(Topic[k])' => k \in loop'.seen
          BY <1>1, <2>3, <4>2
        <4>6. QED
          BY <4>3, <4>4, <4>5
      <3>3. QED
        BY <3>1, <3>2
    <2>5. QED
      BY <1>4, <1>8, <2>4 DEF EvidenceInv
  <1>16. BusInv'
    BY <1>0, <1>1, <1>4, <1>8, SameBus
  <1>17. QED
    BY <1>11, <1>12, <1>13, <1>14, <1>15, <1>16 DEF EcoInv

LEMMA PublishProfileInv ==
    ASSUME EcoInv, NEW m \in Mems, PublishProfile(m)
    PROVE  EcoInv'
  <1>0. EcoTypes /\ FreshInv /\ VerdictInv /\ ResolvedInv /\ EvidenceInv /\ BusInv
    BY DEF EcoInv
  <1>1. UNCHANGED <<written, cause, conflict, trait, prophecy, loop, plugin>>
    BY DEF PublishProfile, tablevars
  <1>2. PICK r : Stage(m, r) /\ r.pc = "generate"
    <2>1. hook[m].pc # "none" /\ hook' = [hook EXCEPT ![m] = [NoHook EXCEPT !.pc = "generate"]]
      BY DEF PublishProfile, Goto
    <2>2. "generate" \in {"recent", "read", "publish", "generate", "none"} /\ "generate" # "recent"
      OBVIOUS
    <2>3. \E r : Stage(m, r) /\ r.pc = "generate" /\ r.left = {} /\ r.found = {}
      BY <2>1, <2>2, PlainStage
    <2>4. QED
      BY <2>3
  <1> DEFINE e == [kind |-> "profile", topic |-> Topic[m]]
             v == told.revived \/ (plugin = "stopping" /\ ~bus.running)
             u == [told EXCEPT !.revived = v]
  <1>3. e \in Event
    BY EcoNats DEF Event
  <1>4. told' = u /\ bus' = Published(bus, e)
    BY DEF PublishProfile
  <1> HIDE DEF e
  <1>5. told \in History /\ v \in BOOLEAN
    BY <1>0 DEF EcoTypes, History, Bus
  <1>6. v = (told.revived \/ (plugin = "stopping" /\ ~bus.running))
    OBVIOUS
  <1> HIDE DEF v
  <1>7. /\ u \in History /\ u.updated = told.updated /\ u.verdicts = told.verdicts /\ u.overtaken = told.overtaken
        /\ u.resolved = told.resolved /\ u.underway = told.underway /\ u.overwritten = told.overwritten /\ u.revived = v
    BY <1>5 DEF History
  <1> HIDE DEF u
  <1>8. Publishes(e)
    BY <1>1, <1>4, <1>6, <1>7 DEF Publishes
  <1>9. /\ bus' \in Bus /\ \A i \in Processors : TaskFits(bus'.task[i])
        /\ \A i \in Processors : bus'.task[i].left = bus.task[i].left
        /\ BusInv'
    BY <1>0, <1>3, <1>8, PublishKeeps
  <1>10. TableTypes'
    BY <1>0, <1>1 DEF EcoTypes, TableTypes
  <1>11. EcoTypes'
    BY <1>0, <1>1, <1>2, <1>4, <1>7, <1>9, <1>10, StageHooks DEF EcoTypes
  <1>12. FreshInv'
    BY <1>0, <1>1, <1>2, StageFresh
  <1>13. VerdictInv'
    BY <1>0, <1>1, <1>4, <1>7, <1>9, SameVerdicts
  <1>14. ResolvedInv'
    BY <1>0, <1>1, <1>2, <1>4, <1>7, StageResolved
  <1>15. EvidenceInv'
    BY <1>0, <1>1, <1>2, <1>4, <1>7, StageEvidence
  <1>16. QED
    BY <1>9, <1>11, <1>12, <1>13, <1>14, <1>15 DEF EcoInv

LEMMA GenerateInv ==
    ASSUME EcoInv, NEW m \in Mems, Generate(m)
    PROVE  EcoInv'
  <1>0. EcoTypes /\ FreshInv /\ VerdictInv /\ ResolvedInv /\ EvidenceInv /\ BusInv
    BY DEF EcoInv
  <1>1. UNCHANGED <<written, cause, conflict, trait, loop, bus, plugin, told>>
    BY DEF Generate
  <1>2. PICK r : Stage(m, r) /\ r.pc = "none"
    <2>1. hook[m].pc # "none" /\ hook' = [hook EXCEPT ![m] = [NoHook EXCEPT !.pc = "none"]]
      BY DEF Generate, Goto
    <2>2. "none" \in {"recent", "read", "publish", "generate", "none"} /\ "none" # "recent"
      OBVIOUS
    <2>3. \E r : Stage(m, r) /\ r.pc = "none" /\ r.left = {} /\ r.found = {}
      BY <2>1, <2>2, PlainStage
    <2>4. QED
      BY <2>3
  <1>3. prophecy \in [Mems -> Foretold] /\ PassFits(loop) /\ written \in Nat
    BY <1>0, EcoNats DEF EcoTypes, TableTypes
  <1>4. prophecy' \in [Mems -> Foretold] /\ \A k \in Mems \ {m} : prophecy'[k] = prophecy[k]
    <2>1. CASE prophecy' = prophecy
      BY <1>3, <2>1
    <2>2. CASE prophecy' # prophecy
      <3>1. PICK t \in Topics : prophecy' = [prophecy EXCEPT ![m] = [state |-> "active", born |-> written, topic |-> t]]
        BY <2>2, EcoNats DEF Generate
      <3>2. [state |-> "active", born |-> written, topic |-> t] \in Foretold
        BY <1>3 DEF Foretold
      <3>3. QED
        BY <1>3, <3>1, <3>2
    <2>3. QED
      BY <2>1, <2>2
  <1>5. prophecy[m].state = "none"
    BY <1>0 DEF FreshInv, Unread, Generate
  <1>6. told.verdicts[m] = 0 /\ \A i \in 1 .. Len(loop.list) : loop.list[i] # m
    BY <1>0, <1>5 DEF VerdictInv, JudgedOnce
  <1>7. loop.pc = "raise" => loop.list[1] # m
    BY <1>3, <1>6, HeadIs
  <1>8. TableTypes'
    BY <1>0, <1>1, <1>4 DEF EcoTypes, TableTypes
  <1>9. EcoTypes'
    BY <1>0, <1>1, <1>2, <1>8, StageHooks DEF EcoTypes
  <1>10. FreshInv'
    BY <1>0, <1>1, <1>2, <1>4, StageFresh
  <1>11. VerdictInv'
    <2>1. ASSUME NEW k \in Mems
          PROVE  JudgedOnce(k)'
      <3>0. JudgedOnce(k)
        BY <1>0 DEF VerdictInv
      <3>1. (Listed(k)' <=> Listed(k)) /\ (Coming(k)' <=> Coming(k))
        BY <1>1 DEF Listed, Coming, ToCome
      <3>2. CASE k = m
        BY <1>1, <1>5, <1>6, <3>0, <3>1, <3>2 DEF JudgedOnce
      <3>3. CASE k # m
        BY <1>1, <1>4, <3>0, <3>1, <3>3 DEF JudgedOnce
      <3>4. QED
        BY <3>2, <3>3
    <2>2. QED
      BY <2>1 DEF VerdictInv
  <1>12. ResolvedInv'
    BY <1>0, <1>1, <1>2, StageResolved
  <1>13. EvidenceInv'
    <2>1. \A k \in Mems : prophecy'[k].topic = prophecy[k].topic \/ loop.pc # "raise" \/ loop.list[1] # k
      BY <1>4, <1>7
    <2>2. QED
      BY <1>0, <1>1, <1>2, <2>1, StageEvidence
  <1>14. BusInv'
    BY <1>0, <1>1, SameBus
  <1>15. QED
    BY <1>9, <1>10, <1>11, <1>12, <1>13, <1>14 DEF EcoInv

\* A memory is written, and its hook begins.
LEMMA WriteInv == EcoInv /\ Write => EcoInv'
  <1> SUFFICES ASSUME EcoInv, Write
               PROVE  EcoInv'
    OBVIOUS
  <1> DEFINE m == written + 1
             r == [NoHook EXCEPT !.pc = "find"]
  <1>0. EcoTypes /\ FreshInv /\ VerdictInv /\ ResolvedInv /\ EvidenceInv /\ BusInv
    BY DEF EcoInv
  <1>1. UNCHANGED <<cause, conflict, trait, prophecy, loop, bus, plugin, told>> /\ written' = m
    BY DEF Write
  <1>2. written \in 0 .. MaxWritten /\ written < MaxWritten /\ MaxWritten \in Nat
    BY <1>0, EcoNats DEF EcoTypes, TableTypes, Write
  <1>3. m \in Mems /\ m \in 0 .. MaxWritten /\ m > written
    BY <1>2 DEF Mems
  <1>4. hook' = [hook EXCEPT ![m] = r] /\ hook \in [Mems -> HookRec]
    BY <1>0 DEF Write, Goto, EcoTypes
  <1>5. r.pc = "find" /\ r.left = {} /\ r.found = {} /\ HookFits(m, r)
    BY <1>3, NoHookFits
  <1> HIDE DEF m, r
  <1>6. hook'[m] = r /\ (\A k \in Mems \ {m} : hook'[k] = hook[k]) /\ hook[m] = NoHook /\ hook' \in [Mems -> HookRec]
    <2>1. r \in HookRec
      BY <1>5 DEF HookFits
    <2>2. QED
      BY <1>0, <1>3, <1>4, <2>1 DEF FreshInv
  <1>7. TableTypes'
    BY <1>0, <1>1, <1>3 DEF EcoTypes, TableTypes
  <1>8. EcoTypes'
    BY <1>0, <1>1, <1>5, <1>6, <1>7 DEF EcoTypes
  <1>90. \A k \in Mems : k > m => k > written
    BY <1>2, <1>3 DEF Mems, m
  <1>9. FreshInv'
    <2>1. \A k \in Mems : k > written' => hook'[k] = NoHook
      <3>1. ASSUME NEW k \in Mems, k > m
            PROVE  k # m /\ k > written
        BY <1>2, <1>3, <1>90, <3>1 DEF Mems
      <3>2. QED
        BY <1>0, <1>1, <1>6, <3>1 DEF FreshInv
    <2>2. ASSUME NEW k \in Mems, Unread(k)'
          PROVE  prophecy'[k].state = "none"
      <3>1. k = m \/ Unread(k)
        BY <1>1, <1>6, <1>90, <2>2 DEF Unread
      <3>2. Unread(k)
        BY <1>3, <3>1 DEF Unread
      <3>3. QED
        BY <1>0, <1>1, <3>2 DEF FreshInv
    <2>3. ASSUME NEW p \in Opposed, Unjudged(p)'
          PROVE  conflict'[p] = "none"
      <3>0. p[1] \in Mems
        BY EcoNats
      <3>1. p[1] = m \/ Unjudged(p)
        BY <1>1, <1>6, <1>90, <2>3, <3>0 DEF Unjudged
      <3>2. Unjudged(p)
        BY <1>3, <3>1 DEF Unjudged
      <3>3. QED
        BY <1>0, <1>1, <3>2 DEF FreshInv
    <2>4. QED
      BY <2>1, <2>2, <2>3 DEF FreshInv
  <1>10. VerdictInv'
    BY <1>0, <1>1, SameVerdicts
  <1>11. ResolvedInv'
    <2>1. ASSUME NEW p \in told.resolved, p[2] \notin hook[p[1]].found
          PROVE  p[2] \notin hook'[p[1]].found
      <3>1. p[1] \in Mems
        BY <1>0, EcoNats DEF EcoTypes, History
      <3>2. QED
        BY <1>5, <1>6, <2>1, <3>1
    <2>2. QED
      BY <1>0, <1>1, <2>1 DEF ResolvedInv
  <1>12. EvidenceInv'
    <2>1. \A n \in Mems : hook'[n].pc = "write" => hook'[n] = hook[n]
      BY <1>5, <1>6
    <2>2. \A t : Raising(t)' <=> Raising(t)
      BY <1>1 DEF Raising
    <2>3. QED
      BY <1>0, <1>1, <2>1, <2>2 DEF EvidenceInv
  <1>13. BusInv'
    BY <1>0, <1>1, SameBus
  <1>14. QED
    BY <1>8, <1>9, <1>10, <1>11, <1>12, <1>13 DEF EcoInv

-----------------------------------------------------------------------------
(* The hourly pass.                                                        *)
\* A pass that goes on with the rest of its list.
LEMMA RestFits ==
    ASSUME PassFits(loop), loop.pc # "sleep"
    PROVE  /\ PassFits(Rest(loop)) /\ Rest(loop).pc \in {"sleep", "fetch"}
           /\ \A i \in 1 .. Len(Rest(loop).list) : i + 1 \in 2 .. Len(loop.list) /\ Rest(loop).list[i] = loop.list[i + 1]
  <1>0. loop.list \in Seq(Mems) /\ Len(loop.list) \in Nat /\ Len(loop.list) >= 1 /\ Distinct(loop.list) /\ loop.list # <<>>
    BY HeadIs DEF PassFits
  <1>1. CASE Len(loop.list) = 1
    BY <1>0, <1>1, NoPassFits DEF Rest
  <1>2. CASE Len(loop.list) # 1
    <2> DEFINE s == Tail(loop.list)
               q == [NoPass EXCEPT !.pc = "fetch"]
               r == [q EXCEPT !.list = s]
    <2>1. s \in Seq(Mems) /\ Len(s) = Len(loop.list) - 1 /\ s # <<>>
      <3>1. PICK n \in Nat : n = Len(loop.list) /\ n >= 1 /\ n # 1
        BY <1>0, <1>2
      <3>2. s \in Seq(Mems) /\ Len(s) = Len(loop.list) - 1
        BY <1>0
      <3>3. n - 1 # 0 /\ Len(<<>>) = 0
        BY <3>1
      <3>4. QED
        BY <3>1, <3>2, <3>3
    <2>2. \A i \in 1 .. Len(s) : i + 1 \in 2 .. Len(loop.list) /\ s[i] = loop.list[i + 1]
      BY <1>0, <2>1
    <2>3. Rest(loop) = r
      BY <1>2 DEF Rest
    <2> HIDE DEF s
    <2>4. q \in Pass /\ q.pc = "fetch"
      BY NoPassFits DEF Pass, PassFits
    <2> HIDE DEF q
    <2>5. r \in Pass /\ r.pc = "fetch" /\ r.list = s
      BY <2>1, <2>4 DEF Pass
    <2> HIDE DEF r
    <2>6. Distinct(s)
      <3>1. ASSUME NEW i \in 1 .. Len(s), NEW j \in 1 .. Len(s), s[i] = s[j]
            PROVE  i = j
        <4>1. i + 1 \in 1 .. Len(loop.list) /\ j + 1 \in 1 .. Len(loop.list) /\ loop.list[i + 1] = loop.list[j + 1]
          BY <1>0, <2>2, <3>1
        <4>2. i + 1 = j + 1
          BY <1>0, <4>1 DEF Distinct
        <4>3. QED
          BY <4>2
      <3>2. QED
        BY <3>1 DEF Distinct
    <2>7. PassFits(r)
      BY <2>1, <2>5, <2>6 DEF PassFits
    <2>8. QED
      BY <2>2, <2>3, <2>5, <2>7
  <1>3. QED
    BY <1>1, <1>2

\* A step of the pass that lists no other prophecy and judges none.
LEMMA PassKeeps ==
    ASSUME EcoInv, PassFits(loop'), UNCHANGED <<written, cause, conflict, prophecy, hook, bus, plugin, told>>,
           trait' \in [Topics -> SUBSET Mems],
           \A m \in Mems : Coming(m)' => Coming(m) \/ prophecy[m].state = "active",
           \A m \in Mems : prophecy[m].state = "none" => \A i \in 1 .. Len(loop'.list) : loop'.list[i] # m,
           EvidenceInv'
    PROVE  EcoInv'
  <1>0. EcoTypes /\ FreshInv /\ VerdictInv /\ ResolvedInv /\ EvidenceInv /\ BusInv
    BY DEF EcoInv
  <1>1. TableTypes'
    BY <1>0 DEF EcoTypes, TableTypes
  <1>2. EcoTypes'
    BY <1>0, <1>1 DEF EcoTypes
  <1>3. FreshInv'
    BY <1>0, SameFresh
  <1>4. VerdictInv'
    <2>1. ASSUME NEW m \in Mems
          PROVE  JudgedOnce(m)'
      <3>1. JudgedOnce(m) /\ (Listed(m)' <=> Listed(m)) /\ (Coming(m)' => Coming(m) \/ prophecy[m].state = "active")
        BY <1>0 DEF VerdictInv, Listed
      <3>2. QED
        BY <3>1 DEF JudgedOnce
    <2>2. QED
      BY <2>1 DEF VerdictInv
  <1>5. ResolvedInv'
    BY <1>0, SameResolved
  <1>6. BusInv'
    BY <1>0, SameBus
  <1>7. QED
    BY <1>2, <1>3, <1>4, <1>5, <1>6 DEF EcoInv

LEMMA ReadDueInv == EcoInv /\ ReadDue => EcoInv'
  <1> SUFFICES ASSUME EcoInv, ReadDue
               PROVE  EcoInv'
    OBVIOUS
  <1>0. EcoTypes /\ EvidenceInv /\ Limit \in Nat
    BY EcoNats DEF EcoInv
  <1>1. UNCHANGED <<written, cause, conflict, trait, prophecy, hook, bus, plugin, told>>
    BY DEF ReadDue, tablevars
  <1>2. PICK list \in Lists(Overdue) : loop' = [NoPass EXCEPT !.pc = "fetch", !.list = list]
    BY DEF ReadDue
  <1>3. PICK n \in 1 .. Limit : list \in [1 .. n -> Overdue] /\ \A i, j \in DOMAIN list : list[i] = list[j] => i = j
    BY DEF Lists
  <1>4. list \in Seq(Overdue) /\ Len(list) = n /\ list # <<>> /\ Overdue \subseteq Mems
    BY <1>0, <1>3 DEF Overdue
  <1>5. list \in Seq(Mems) /\ Distinct(list)
    BY <1>3, <1>4 DEF Distinct
  <1> DEFINE q == [NoPass EXCEPT !.pc = "fetch"]
             r == [q EXCEPT !.list = list]
  <1>6. loop' = r
    BY <1>2
  <1>7. q \in Pass /\ q.pc = "fetch"
    BY NoPassFits DEF Pass, PassFits
  <1> HIDE DEF q
  <1>8. r \in Pass /\ r.pc = "fetch" /\ r.list = list
    BY <1>5, <1>7 DEF Pass
  <1> HIDE DEF r
  <1>9. PassFits(loop')
    BY <1>4, <1>5, <1>6, <1>8 DEF PassFits
  <1>10. \A i \in 1 .. Len(list) : list[i] \in Mems /\ prophecy[list[i]].state = "active"
    BY <1>4 DEF Overdue
  <1>11. \A m \in Mems : Coming(m)' => prophecy[m].state = "active"
    BY <1>6, <1>8, <1>10 DEF Coming, ToCome
  <1>12. \A m \in Mems : prophecy[m].state = "none" => \A i \in 1 .. Len(loop'.list) : loop'.list[i] # m
    BY <1>6, <1>8, <1>10
  <1>13. EvidenceInv'
    BY <1>0, <1>1, <1>6, <1>8 DEF EvidenceInv, Raising
  <1>14. trait' \in [Topics -> SUBSET Mems]
    BY <1>0, <1>1 DEF EcoTypes, TableTypes
  <1>15. QED
    BY <1>1, <1>9, <1>11, <1>12, <1>13, <1>14, PassKeeps

LEMMA FetchInv == EcoInv /\ Fetch => EcoInv'
  <1> SUFFICES ASSUME EcoInv, Fetch
               PROVE  EcoInv'
    OBVIOUS
  <1>0. EcoTypes /\ EvidenceInv /\ VerdictInv /\ loop \in Pass /\ PassFits(loop) /\ loop.pc = "fetch"
    BY DEF EcoInv, EcoTypes, PassFits, Fetch
  <1>1. UNCHANGED <<written, cause, conflict, trait, prophecy, hook, bus, plugin, told>>
    BY DEF Fetch, tablevars
  <1>2. PICK b \in BOOLEAN : loop' = [loop EXCEPT !.pc = "verdict", !.match = b]
    BY DEF Fetch, Follows
  <1> DEFINE q == [loop EXCEPT !.pc = "verdict"]
             r == [q EXCEPT !.match = b]
  <1>3. loop' = r
    BY <1>0, <1>2 DEF Pass
  <1>4. q \in Pass /\ q.pc = "verdict" /\ q.list = loop.list
    BY <1>0 DEF Pass
  <1> HIDE DEF q
  <1>5. r \in Pass /\ r.pc = "verdict" /\ r.list = loop.list
    BY <1>4 DEF Pass
  <1> HIDE DEF r
  <1>6. PassFits(loop')
    BY <1>0, <1>3, <1>5 DEF PassFits
  <1>7. \A m \in Mems : Coming(m)' => Coming(m)
    BY <1>0, <1>3, <1>5 DEF Coming, ToCome
  <1>8. \A m \in Mems : prophecy[m].state = "none" => \A i \in 1 .. Len(loop'.list) : loop'.list[i] # m
    BY <1>0, <1>3, <1>5 DEF VerdictInv, JudgedOnce
  <1>9. EvidenceInv'
    BY <1>0, <1>1, <1>3, <1>5 DEF EvidenceInv, Raising
  <1>10. trait' \in [Topics -> SUBSET Mems]
    BY <1>0, <1>1 DEF EcoTypes, TableTypes
  <1>11. QED
    BY <1>1, <1>6, <1>7, <1>8, <1>9, <1>10, PassKeeps

\* Where the pass goes on with the rest, nobody raises a trait.
LEMMA RestInv ==
    ASSUME EcoInv, loop.pc \in {"profile", "raise"}, loop' = Rest(loop),
           UNCHANGED <<written, cause, conflict, prophecy, hook, bus, plugin, told>>,
           trait' \in [Topics -> SUBSET Mems],
           \A k \in told.updated \ told.overwritten : k \in trait'[Topic[k]]
    PROVE  EcoInv'
  <1>0. PassFits(loop) /\ VerdictInv /\ EvidenceInv /\ loop.pc # "sleep"
    BY DEF EcoInv, EcoTypes
  <1>1. /\ PassFits(loop') /\ loop'.pc \in {"sleep", "fetch"}
        /\ \A i \in 1 .. Len(loop'.list) : i + 1 \in 2 .. Len(loop.list) /\ loop'.list[i] = loop.list[i + 1]
    BY <1>0, RestFits
  <1>2. Len(loop.list) \in Nat /\ \A i \in 2 .. Len(loop.list) : i \in 1 .. Len(loop.list)
    BY <1>0, HeadIs
  <1>3. ASSUME NEW m \in Mems, Coming(m)'
        PROVE  Coming(m)
    <2>1. loop'.list \in Seq(Mems) /\ Len(loop'.list) \in Nat
      BY <1>1 DEF PassFits, Pass
    <2>2. PICK i \in 1 .. Len(loop'.list) : loop'.list[i] = m
      BY <1>1, <1>3, <2>1 DEF Coming, ToCome
    <2>3. i + 1 \in 2 .. Len(loop.list) /\ loop.list[i + 1] = m
      BY <1>1, <2>2
    <2>4. QED
      BY <2>3 DEF Coming, ToCome
  <1>4. \A m \in Mems : prophecy[m].state = "none" => \A i \in 1 .. Len(loop'.list) : loop'.list[i] # m
    BY <1>0, <1>1, <1>2 DEF VerdictInv, JudgedOnce
  <1>5. EvidenceInv'
    BY <1>0, <1>1 DEF EvidenceInv, Raising
  <1>6. QED
    BY <1>1, <1>3, <1>4, <1>5, PassKeeps

LEMMA ReadProfileInv == EcoInv /\ ReadProfile => EcoInv'
  <1> SUFFICES ASSUME EcoInv, ReadProfile
               PROVE  EcoInv'
    OBVIOUS
  <1>0. EcoTypes /\ EvidenceInv /\ VerdictInv /\ loop \in Pass /\ PassFits(loop) /\ loop.pc = "profile"
    BY DEF EcoInv, EcoTypes, PassFits, ReadProfile
  <1>1. UNCHANGED <<written, cause, conflict, trait, prophecy, hook, bus, plugin, told>>
    BY DEF ReadProfile, tablevars
  <1>2. trait \in [Topics -> SUBSET Mems] /\ prophecy \in [Mems -> Foretold]
    BY <1>0 DEF EcoTypes, TableTypes
  <1>3. trait' \in [Topics -> SUBSET Mems]
    BY <1>1, <1>2
  <1> DEFINE t == trait[prophecy[Judged].topic]
             q == [loop EXCEPT !.pc = "raise"]
             r == [q EXCEPT !.seen = t]
  <1>4. CASE loop' = Rest(loop)
    <2>1. \A k \in told.updated \ told.overwritten : k \in trait'[Topic[k]]
      BY <1>0, <1>1 DEF EvidenceInv
    <2>2. QED
      BY <1>0, <1>1, <1>3, <1>4, <2>1, RestInv
  <1>5. CASE loop' # Rest(loop)
    <2>1. loop' = r
      BY <1>0, <1>5 DEF ReadProfile, Pass
    <2>2. Judged \in Mems /\ Judged = loop.list[1]
      BY <1>0, HeadIs
    <2>3. t \in SUBSET Mems
      BY <1>2, <2>2 DEF Foretold
    <2>9. t = trait[prophecy[loop.list[1]].topic]
      BY <2>2
    <2> HIDE DEF t
    <2>4. q \in Pass /\ q.pc = "raise" /\ q.list = loop.list
      BY <1>0 DEF Pass
    <2> HIDE DEF q
    <2>5. r \in Pass /\ r.pc = "raise" /\ r.list = loop.list /\ r.seen = t
      BY <2>3, <2>4 DEF Pass
    <2> HIDE DEF r
    <2>6. PassFits(loop')
      BY <1>0, <2>1, <2>5 DEF PassFits
    <2>7. \A m \in Mems : Coming(m)' => Coming(m)
      BY <1>0, <2>1, <2>5 DEF Coming, ToCome
    <2>8. \A m \in Mems : prophecy[m].state = "none" => \A i \in 1 .. Len(loop'.list) : loop'.list[i] # m
      BY <1>0, <2>1, <2>5 DEF VerdictInv, JudgedOnce
    <2>10. EvidenceInv'
      BY <1>0, <1>1, <2>1, <2>5, <2>9 DEF EvidenceInv, Raising
    <2>11. QED
      BY <1>1, <1>3, <2>6, <2>7, <2>8, <2>10, PassKeeps
  <1>6. QED
    BY <1>4, <1>5

LEMMA RaiseTraitInv == EcoInv /\ RaiseTrait => EcoInv'
  <1> SUFFICES ASSUME EcoInv, RaiseTrait
               PROVE  EcoInv'
    OBVIOUS
  <1>0. EcoTypes /\ EvidenceInv /\ loop \in Pass /\ PassFits(loop) /\ loop.pc = "raise" /\ told \in History
    BY DEF EcoInv, EcoTypes, PassFits, RaiseTrait
  <1>1. UNCHANGED <<written, cause, conflict, prophecy, hook, bus, plugin, told>> /\ loop' = Rest(loop)
    BY DEF RaiseTrait
  <1>2. trait \in [Topics -> SUBSET Mems] /\ prophecy \in [Mems -> Foretold] /\ loop.seen \in SUBSET Mems
    BY <1>0 DEF EcoTypes, TableTypes, Pass
  <1>3. Judged = loop.list[1] /\ Judged \in Mems
    BY <1>0, HeadIs
  <1>4. trait' = [trait EXCEPT ![prophecy[Judged].topic] = loop.seen]
    BY DEF RaiseTrait
  <1>5. trait' \in [Topics -> SUBSET Mems]
    BY <1>2, <1>4
  <1>6. ASSUME NEW k \in told.updated \ told.overwritten
        PROVE  k \in trait'[Topic[k]]
    <2>1. Topic[k] \in Topics
      BY <1>0, EcoNats DEF History
    <2>2. k \in trait[Topic[k]] /\ (Raising(Topic[k]) => k \in loop.seen)
      BY <1>0 DEF EvidenceInv
    <2>3. CASE prophecy[Judged].topic = Topic[k]
      BY <1>0, <1>2, <1>3, <1>4, <2>1, <2>2, <2>3 DEF Raising
    <2>4. CASE prophecy[Judged].topic # Topic[k]
      BY <1>2, <1>4, <2>1, <2>2, <2>4
    <2>5. QED
      BY <2>3, <2>4
  <1>7. QED
    BY <1>0, <1>1, <1>5, <1>6, RestInv

LEMMA PassFailsInv == EcoInv /\ PassFails => EcoInv'
  <1> SUFFICES ASSUME EcoInv, PassFails
               PROVE  EcoInv'
    OBVIOUS
  <1>0. EcoTypes /\ EvidenceInv
    BY DEF EcoInv
  <1>1. UNCHANGED <<written, cause, conflict, trait, prophecy, hook, bus, plugin, told>> /\ loop' = NoPass
    BY DEF PassFails, tablevars
  <1>2. PassFits(loop') /\ loop'.pc = "sleep" /\ loop'.list = <<>> /\ Len(loop'.list) = 0
    BY <1>1, NoPassFits
  <1>3. trait' \in [Topics -> SUBSET Mems]
    BY <1>0, <1>1 DEF EcoTypes, TableTypes
  <1>4. \A m \in Mems : ~ Coming(m)'
    BY <1>2 DEF Coming, ToCome
  <1>5. EvidenceInv'
    BY <1>0, <1>1, <1>2 DEF EvidenceInv, Raising
  <1>6. QED
    BY <1>1, <1>2, <1>3, <1>4, <1>5, PassKeeps

\* A verdict: the first one of the prophecy, or it had been listed for a
\* re-evaluation, which may write it as active again.
LEMMA VerdictStepInv == EcoInv /\ Verdict => EcoInv'
  <1> SUFFICES ASSUME EcoInv, Verdict
               PROVE  EcoInv'
    OBVIOUS
  <1>0. EcoTypes /\ FreshInv /\ VerdictInv /\ ResolvedInv /\ EvidenceInv /\ BusInv
    BY DEF EcoInv
  <1>1. UNCHANGED <<written, cause, conflict, trait, hook, bus, plugin>>
    BY DEF Verdict
  <1> DEFINE j == loop.list[1]
             w == IF loop.match THEN "verified" ELSE "failed"
             over == IF Reevaluating(j) THEN told.overtaken \cup {j} ELSE told.overtaken
             p == [prophecy[j] EXCEPT !.state = w]
             l == [loop EXCEPT !.pc = "profile"]
             vs == [told.verdicts EXCEPT ![j] = told.verdicts[j] + 1]
             t == [told EXCEPT !.verdicts = vs]
             u == [t EXCEPT !.overtaken = over]
  <1>2. /\ PassFits(loop) /\ loop \in Pass /\ loop.pc = "verdict" /\ told \in History /\ prophecy \in [Mems -> Foretold]
        /\ told.verdicts \in [Mems -> Nat] /\ told.overtaken \in SUBSET Mems
    BY <1>0 DEF EcoTypes, TableTypes, PassFits, Verdict, History
  <1>3. Judged = j /\ j \in Mems /\ 1 \in 1 .. Len(loop.list) /\ loop.list \in Seq(Mems) /\ Len(loop.list) \in Nat
    BY <1>2, HeadIs
  <1>4. prophecy' = [prophecy EXCEPT ![j] = p] /\ loop' = l
    BY <1>2, <1>3 DEF Verdict
  <1>5. told' = u
    BY <1>2, <1>3 DEF Verdict, History
  <1>6. w \in {"verified", "failed"} /\ over \in SUBSET Mems
    BY <1>2, <1>3
  <1>7. over = told.overtaken \cup {j} \/ (over = told.overtaken /\ ~Reevaluating(j))
    OBVIOUS
  <1>8. vs \in [Mems -> Nat] /\ vs[j] = told.verdicts[j] + 1 /\ \A k \in Mems \ {j} : vs[k] = told.verdicts[k]
    BY <1>2, <1>3
  <1>9. \A i \in 1 .. Len(loop.list) : loop.list[i] = j => i = 1
    <2>1. Distinct(loop.list)
      BY <1>2 DEF PassFits
    <2>2. QED
      BY <1>3, <2>1 DEF Distinct
  <1> HIDE DEF w, over, vs, j
  <1>10. p \in Foretold /\ p.state = w /\ p.topic = prophecy[j].topic
    BY <1>2, <1>3, <1>6 DEF Foretold
  <1> HIDE DEF p
  <1>11. l \in Pass /\ l.pc = "profile" /\ l.list = loop.list
    BY <1>2 DEF Pass
  <1> HIDE DEF l
  <1>12. /\ t \in History /\ t.updated = told.updated /\ t.verdicts = vs /\ t.overwritten = told.overwritten
         /\ t.resolved = told.resolved /\ t.underway = told.underway /\ t.revived = told.revived
    BY <1>2, <1>8 DEF History
  <1> HIDE DEF t
  <1>13. /\ u \in History /\ u.updated = told.updated /\ u.verdicts = vs /\ u.overwritten = told.overwritten
         /\ u.resolved = told.resolved /\ u.underway = told.underway /\ u.revived = told.revived /\ u.overtaken = over
    BY <1>6, <1>12 DEF History
  <1> HIDE DEF u
  <1>14. prophecy' \in [Mems -> Foretold] /\ prophecy'[j] = p /\ \A k \in Mems \ {j} : prophecy'[k] = prophecy[k]
    BY <1>2, <1>3, <1>4, <1>10
  <1>15. prophecy[j].state # "none"
    BY <1>0, <1>3 DEF VerdictInv, JudgedOnce, j
  <1>16. TableTypes'
    BY <1>0, <1>1, <1>14 DEF EcoTypes, TableTypes
  <1>17. PassFits(loop')
    BY <1>2, <1>4, <1>11 DEF PassFits
  <1>18. EcoTypes'
    BY <1>0, <1>1, <1>5, <1>13, <1>16, <1>17 DEF EcoTypes
  <1>19. FreshInv'
    <2>1. ASSUME NEW k \in Mems, Unread(k)'
          PROVE  prophecy'[k].state = "none"
      <3>1. Unread(k)
        BY <1>1, <2>1 DEF Unread
      <3>2. prophecy[k].state = "none"
        BY <1>0, <3>1 DEF FreshInv
      <3>3. QED
        BY <1>14, <1>15, <3>2
    <2>2. QED
      BY <1>0, <1>1, <2>1 DEF FreshInv, Unjudged
  <1>20. VerdictInv'
    <2>1. ASSUME NEW k \in Mems
          PROVE  JudgedOnce(k)'
      <3>0. JudgedOnce(k) /\ (Listed(k)' <=> Listed(k))
        BY <1>0, <1>1 DEF VerdictInv, Listed
      <3>1. CASE k # j
        <4>1. Coming(k)' => Coming(k)
          BY <1>2, <1>3, <1>4, <1>11 DEF Coming, ToCome
        <4>2. QED
          BY <1>4, <1>5, <1>7, <1>8, <1>11, <1>13, <1>14, <3>0, <3>1, <4>1 DEF JudgedOnce
      <3>2. CASE k = j
        <4>1. ~ Coming(k)'
          <5>1. ASSUME NEW i \in 2 .. Len(loop.list)
                PROVE  loop.list[i] # j
            <6>1. i \in 1 .. Len(loop.list) /\ i # 1
              BY <1>3
            <6>2. QED
              BY <1>9, <6>1
          <5>2. QED
            BY <1>4, <1>11, <3>2, <5>1 DEF Coming, ToCome
        <4>2. Coming(j)
          BY <1>2, <1>3 DEF Coming, ToCome, j
        <4>3. p.state \notin {"none", "active"} /\ prophecy'[j].state = p.state
          BY <1>6, <1>10, <1>14
        <4>4. CASE j \in over
          BY <1>5, <1>13, <3>2, <4>3, <4>4 DEF JudgedOnce
        <4>5. CASE j \notin over
          <5>1. over = told.overtaken /\ ~Reevaluating(j)
            BY <1>7, <4>5
          <5>2. ~Listed(j)
            <6>1. ASSUME NEW i \in Processors, j \in bus.task[i].left
                  PROVE  Reevaluating(j)
              <7>1. TaskFits(bus.task[i])
                BY <1>0 DEF EcoTypes
              <7>2. bus.task[i].pc = "weaken"
                BY <6>1, <7>1 DEF TaskFits
              <7>3. QED
                BY <6>1, <7>2 DEF Reevaluating
            <6>2. QED
              BY <5>1, <6>1 DEF Listed
          <5>3. told.verdicts[j] = 0
            BY <1>2, <1>3, <3>0, <3>2, <4>2, <4>5, <5>1 DEF JudgedOnce
          <5>4. told'.verdicts[k] = 1 /\ ~ Listed(k)'
            BY <1>5, <1>8, <1>13, <3>0, <3>2, <5>2, <5>3
          <5>5. QED
            BY <3>2, <4>1, <4>3, <5>4 DEF JudgedOnce
        <4>6. QED
          BY <4>4, <4>5
      <3>3. QED
        BY <3>1, <3>2
    <2>2. QED
      BY <2>1 DEF VerdictInv
  <1>21. ResolvedInv'
    BY <1>0, <1>1, <1>5, <1>13, SameResolved
  <1>22. EvidenceInv'
    BY <1>0, <1>1, <1>4, <1>5, <1>11, <1>13 DEF EvidenceInv, Raising
  <1>23. BusInv'
    BY <1>0, <1>1, <1>5, <1>13, SameBus
  <1>24. QED
    BY <1>18, <1>19, <1>20, <1>21, <1>22, <1>23 DEF EcoInv

-----------------------------------------------------------------------------
(* A conflict is resolved, and the steps of the bus.                       *)
LEMMA ResolveInv == EcoInv /\ Resolve => EcoInv'
  <1> SUFFICES ASSUME EcoInv, Resolve
               PROVE  EcoInv'
    OBVIOUS
  <1>0. EcoTypes /\ FreshInv /\ VerdictInv /\ ResolvedInv /\ EvidenceInv /\ BusInv
    BY DEF EcoInv
  <1>1. UNCHANGED <<written, cause, trait, prophecy, hook, loop, plugin>>
    BY DEF Resolve
  <1>2. PICK p \in {q \in Opposed : conflict[q] = "candidate"}, t \in Topics :
             /\ conflict' = [conflict EXCEPT ![p] = "resolved"]
             /\ bus' = Published(bus, [kind |-> "conflict", topic |-> t])
             /\ told' = [told EXCEPT !.resolved = @ \cup {p},
                                     !.revived = @ \/ (plugin = "stopping" /\ ~bus.running),
                                     !.underway = IF p[2] \in hook[p[1]].found THEN @ \cup {p} ELSE @]
    BY DEF Resolve
  <1> DEFINE e == [kind |-> "conflict", topic |-> t]
             v == told.revived \/ (plugin = "stopping" /\ ~bus.running)
             way == IF p[2] \in hook[p[1]].found THEN told.underway \cup {p} ELSE told.underway
             a == [told EXCEPT !.resolved = told.resolved \cup {p}]
             b == [a EXCEPT !.revived = v]
             u == [b EXCEPT !.underway = way]
  <1>3. e \in Event /\ bus' = Published(bus, e)
    BY <1>2 DEF Event
  <1> HIDE DEF e
  <1>4. told \in History /\ told.resolved \in SUBSET Opposed /\ told.underway \in SUBSET Opposed /\ p \in Opposed
    BY <1>0 DEF EcoTypes, History
  <1>5. told' = u
    BY <1>2, <1>4 DEF History
  <1>6. v \in BOOLEAN
    BY <1>0 DEF EcoTypes, History, Bus
  <1>7. way \in SUBSET Opposed /\ told.underway \subseteq way /\ (p \notin way => p[2] \notin hook[p[1]].found)
    BY <1>4
  <1>8. v = (told.revived \/ (plugin = "stopping" /\ ~bus.running))
    OBVIOUS
  <1>80. \A q \in Opposed : q # p => (q \in way <=> q \in told.underway)
    OBVIOUS
  <1> HIDE DEF v, way
  <1>9. /\ a \in History /\ a.updated = told.updated /\ a.verdicts = told.verdicts /\ a.overtaken = told.overtaken
        /\ a.resolved = told.resolved \cup {p} /\ a.overwritten = told.overwritten
    BY <1>4 DEF History
  <1> HIDE DEF a
  <1>10. /\ b \in History /\ b.updated = told.updated /\ b.verdicts = told.verdicts /\ b.overtaken = told.overtaken
         /\ b.resolved = told.resolved \cup {p} /\ b.overwritten = told.overwritten /\ b.revived = v
    BY <1>6, <1>9 DEF History
  <1> HIDE DEF b
  <1>11. /\ u \in History /\ u.updated = told.updated /\ u.verdicts = told.verdicts /\ u.overtaken = told.overtaken
         /\ u.resolved = told.resolved \cup {p} /\ u.overwritten = told.overwritten /\ u.revived = v /\ u.underway = way
    BY <1>7, <1>10 DEF History
  <1> HIDE DEF u
  <1>12. Publishes(e)
    BY <1>1, <1>3, <1>5, <1>8, <1>11 DEF Publishes
  <1>13. /\ bus' \in Bus /\ \A i \in Processors : TaskFits(bus'.task[i])
         /\ \A i \in Processors : bus'.task[i].left = bus.task[i].left
         /\ BusInv'
    BY <1>0, <1>3, <1>12, PublishKeeps
  <1>14. conflict \in [Opposed -> {"none", "candidate", "resolved"}] /\ conflict[p] = "candidate"
    BY <1>0, <1>2 DEF EcoTypes, TableTypes
  <1>15. /\ conflict' \in [Opposed -> {"none", "candidate", "resolved"}] /\ conflict'[p] = "resolved"
         /\ \A q \in Opposed : q # p => conflict'[q] = conflict[q]
    BY <1>2, <1>14
  <1>16. TableTypes'
    BY <1>0, <1>1, <1>15 DEF EcoTypes, TableTypes
  <1>17. EcoTypes'
    BY <1>0, <1>1, <1>5, <1>11, <1>13, <1>16 DEF EcoTypes
  <1>18. FreshInv'
    <2>1. ASSUME NEW q \in Opposed, Unjudged(q)'
          PROVE  conflict'[q] = "none"
      <3>1. Unjudged(q)
        BY <1>1, <2>1 DEF Unjudged
      <3>2. conflict[q] = "none"
        BY <1>0, <3>1 DEF FreshInv
      <3>3. QED
        BY <1>14, <1>15, <3>2
    <2>2. QED
      BY <1>0, <1>1, <2>1 DEF FreshInv, Unread
  <1>19. VerdictInv'
    BY <1>0, <1>1, <1>5, <1>11, <1>13, SameVerdicts
  <1>20. ResolvedInv'
    <2>1. ASSUME NEW q \in told.resolved \cup {p}
          PROVE  /\ conflict'[q] # "none"
                 /\ q \notin way => conflict'[q] = "resolved" /\ q[2] \notin hook[q[1]].found
      <3>1. CASE q = p
        BY <1>7, <1>15, <3>1
      <3>2. CASE q # p
        <4>1. q \in told.resolved /\ q \in Opposed
          BY <1>4, <3>2
        <4>2. QED
          BY <1>0, <1>15, <1>80, <3>2, <4>1 DEF ResolvedInv
      <3>3. QED
        BY <3>1, <3>2
    <2>2. QED
      BY <1>1, <1>5, <1>11, <2>1 DEF ResolvedInv
  <1>21. EvidenceInv'
    BY <1>0, <1>1, <1>5, <1>11, SameEvidence DEF EcoTypes
  <1>22. QED
    BY <1>13, <1>17, <1>18, <1>19, <1>20, <1>21 DEF EcoInv

\* A step that touches the bus and the plugin only.
LEMMA BusKeeps ==
    ASSUME EcoInv, UNCHANGED <<tablevars, hook, loop, told>>, bus' \in Bus, \A i \in Processors : TaskFits(bus'.task[i]),
           \A m \in Mems : Listed(m)' => Listed(m) \/ prophecy[m].state = "active",
           plugin' \in {"up", "stopping", "stopped", "closing", "down"}, BusInv'
    PROVE  EcoInv'
  <1>0. EcoTypes /\ FreshInv /\ VerdictInv /\ ResolvedInv /\ EvidenceInv
    BY DEF EcoInv
  <1>1. UNCHANGED <<written, cause, conflict, trait, prophecy>>
    BY DEF tablevars
  <1>2. EcoTypes'
    BY <1>0, <1>1 DEF EcoTypes, TableTypes
  <1>3. VerdictInv'
    <2>1. ASSUME NEW m \in Mems
          PROVE  JudgedOnce(m)'
      <3>1. JudgedOnce(m) /\ (Coming(m)' <=> Coming(m))
        BY <1>0 DEF VerdictInv, Coming, ToCome
      <3>2. QED
        BY <1>1, <3>1 DEF JudgedOnce
    <2>2. QED
      BY <2>1 DEF VerdictInv
  <1>4. FreshInv' /\ ResolvedInv' /\ EvidenceInv'
    BY <1>0, <1>1, SameFresh, SameResolved, SameEvidence DEF EcoTypes
  <1>5. QED
    BY <1>2, <1>3, <1>4 DEF EcoInv

\* A task of the bus at work goes on to k: it ends only with the bus.
LEMMA TaskGoes ==
    ASSUME EcoTypes, BusInv, NEW i \in Processors, NEW k, TaskFits(k), NEW b \in Bus, Alive(i), bus.cancelled # i,
           b.running = bus.running, b.cancelled = bus.cancelled, b.awaited = bus.awaited, b.newest = bus.newest,
           b.task = bus.task, bus.running => k.pc # "off",
           bus' = [b EXCEPT !.task[i] = k], plugin' = plugin, told' = told
    PROVE  /\ bus' \in Bus /\ (\A j \in Processors : TaskFits(bus'.task[j])) /\ BusInv'
           /\ bus'.task[i] = k /\ \A j \in Processors : j # i => bus'.task[j] = bus.task[j]
  <1> DEFINE r == [b EXCEPT !.task = [bus.task EXCEPT ![i] = k]]
  <1>1. bus.task \in [Processors -> Processor] /\ \A j \in Processors : TaskFits(bus.task[j])
    BY BusTypes
  <1>2. bus' = r
    BY DEF Bus
  <1>3. [bus.task EXCEPT ![i] = k] \in [Processors -> Processor]
    BY <1>1 DEF TaskFits
  <1>4. /\ r \in Bus /\ r.running = b.running /\ r.cancelled = b.cancelled /\ r.awaited = b.awaited
        /\ r.newest = b.newest /\ r.task = [bus.task EXCEPT ![i] = k]
    BY <1>3 DEF Bus
  <1> HIDE DEF r
  <1>5. bus'.task[i] = k /\ \A j \in Processors : j # i => bus'.task[j] = bus.task[j]
    BY <1>1, <1>2, <1>4
  <1>6. \A j \in Processors : TaskFits(bus'.task[j])
    BY <1>1, <1>5
  <1>7. bus.running
    BY DEF BusInv
  <1>8. \A j \in Processors : bus'.task[j].pc # "off" <=> bus.task[j].pc # "off"
    BY <1>5, <1>7 DEF Alive
  <1>10. /\ bus'.running = bus.running /\ bus'.cancelled = bus.cancelled /\ bus'.awaited = bus.awaited
         /\ bus'.newest = bus.newest
    BY <1>2, <1>4
  <1>11. BusInv'
    BY <1>7, <1>8, <1>10, BusTypes DEF BusInv, Alive
  <1>12. QED
    BY <1>2, <1>4, <1>5, <1>6, <1>11

LEMMA BackIs ==
    ASSUME NEW b \in Bus
    PROVE  TaskFits(Back(b)) /\ Back(b).left = {} /\ (b.running => Back(b).pc = "get") /\ (~b.running => Back(b).pc = "off")
  BY NoProcessorFits DEF Back, TaskFits, Processor, NoProcessor

\* A task whose list is empty, or of active prophecies only.
LEMMA TaskStep ==
    ASSUME EcoInv, NEW i \in Processors, NEW k, TaskFits(k), NEW b \in Bus, Alive(i), bus.cancelled # i,
           b.running = bus.running, b.cancelled = bus.cancelled, b.awaited = bus.awaited, b.newest = bus.newest,
           b.task = bus.task, bus.running => k.pc # "off",
           bus' = [b EXCEPT !.task[i] = k], UNCHANGED <<tablevars, hook, loop, plugin, told>>,
           \A m \in k.left : m \in bus.task[i].left \/ prophecy[m].state = "active"
    PROVE  EcoInv'
  <1>0. EcoTypes /\ BusInv /\ plugin \in {"up", "stopping", "stopped", "closing", "down"}
    BY DEF EcoInv, EcoTypes
  <1>1. /\ bus' \in Bus /\ (\A j \in Processors : TaskFits(bus'.task[j])) /\ BusInv'
        /\ bus'.task[i] = k /\ \A j \in Processors : j # i => bus'.task[j] = bus.task[j]
    BY <1>0, TaskGoes
  <1>2. \A m \in Mems : Listed(m)' => Listed(m) \/ prophecy[m].state = "active"
    BY <1>1 DEF Listed
  <1>3. QED
    BY <1>0, <1>1, <1>2, BusKeeps

LEMMA TakeInv == ASSUME EcoInv, NEW i \in Processors, Take(i) PROVE EcoInv'
  <1> DEFINE ev == Head(bus.queue)
             pc == IF ev.kind = "profile" THEN "style" ELSE "list"
             q == [NoProcessor EXCEPT !.pc = pc]
             s == [q EXCEPT !.topic = ev.topic]
             k == IF plugin = "down" THEN Back(bus) ELSE s
             b == [bus EXCEPT !.queue = Tail(bus.queue)]
  <1>0. bus \in Bus /\ bus.queue \in Seq(Event) /\ bus.queue # <<>>
    BY BusTypes DEF EcoInv, Take
  <1>1. Alive(i) /\ bus.cancelled # i
    BY DEF Take, Working, Alive
  <1>2. ev \in Event /\ Tail(bus.queue) \in Seq(Event)
    BY <1>0
  <1>3. ev.topic \in Topics
    BY <1>2 DEF Event
  <1>4. bus' = [b EXCEPT !.task[i] = k]
    BY <1>0 DEF Take, Bus
  <1>5. /\ b \in Bus /\ b.running = bus.running /\ b.cancelled = bus.cancelled /\ b.awaited = bus.awaited
        /\ b.newest = bus.newest /\ b.task = bus.task
    BY <1>0, <1>2 DEF Bus
  <1> HIDE DEF ev, b
  <1>6. pc \in {"style", "list"}
    OBVIOUS
  <1> HIDE DEF pc
  <1>7. q \in Processor /\ q.pc = pc /\ q.left = {}
    BY <1>6, NoProcessorFits DEF TaskFits, Processor
  <1> HIDE DEF q
  <1>8. s \in Processor /\ s.pc = pc /\ s.left = {}
    BY <1>3, <1>7 DEF Processor
  <1> HIDE DEF s
  <1>9. TaskFits(k) /\ k.left = {} /\ (bus.running => k.pc # "off")
    BY <1>0, <1>6, <1>8, BackIs DEF TaskFits
  <1> HIDE DEF k
  <1>10. UNCHANGED <<tablevars, hook, loop, plugin, told>>
    BY DEF Take
  <1>11. QED
    BY <1>1, <1>4, <1>5, <1>9, <1>10, TaskStep

LEMMA StyleListInv == ASSUME EcoInv, NEW i \in Processors, LogStyle(i) \/ ListActive(i) PROVE EcoInv'
  <1> DEFINE act == {m \in Mems : prophecy[m].state = "active" /\ prophecy[m].topic = bus.task[i].topic}
             q == [NoProcessor EXCEPT !.pc = "weaken"]
             s == [q EXCEPT !.left = act]
             k == IF ListActive(i) /\ act # {} THEN s ELSE Back(bus)
  <1>0. bus \in Bus
    BY DEF EcoInv, EcoTypes
  <1>1. Alive(i) /\ bus.cancelled # i
    BY DEF LogStyle, ListActive, Working, Alive
  <1>2. bus' = [bus EXCEPT !.task[i] = k]
    <2>1. CASE ListActive(i)
      BY <2>1 DEF ListActive
    <2>2. CASE ~ListActive(i)
      BY <2>2 DEF LogStyle
    <2>3. QED
      BY <2>1, <2>2
  <1>3. act \in SUBSET Mems /\ \A m \in act : prophecy[m].state = "active"
    OBVIOUS
  <1> HIDE DEF act
  <1>4. q \in Processor /\ q.pc = "weaken"
    BY NoProcessorFits DEF TaskFits, Processor
  <1> HIDE DEF q
  <1>5. s \in Processor /\ s.pc = "weaken" /\ s.left = act
    BY <1>3, <1>4 DEF Processor
  <1> HIDE DEF s
  <1>6. TaskFits(k) /\ (\A m \in k.left : prophecy[m].state = "active") /\ (bus.running => k.pc # "off")
    BY <1>0, <1>3, <1>5, BackIs DEF TaskFits
  <1> HIDE DEF k
  <1>7. UNCHANGED <<tablevars, hook, loop, plugin, told>>
    BY DEF LogStyle, ListActive
  <1>8. QED
    BY <1>0, <1>1, <1>2, <1>6, <1>7, TaskStep

\* A re-evaluation writes a prophecy it had listed as active.
LEMMA WeakenInv == ASSUME EcoInv, NEW i \in Processors, Weaken(i) PROVE EcoInv'
  <1> DEFINE m == Latest(bus.task[i].left)
             p == [prophecy[m] EXCEPT !.state = "active"]
             s == [bus.task[i] EXCEPT !.left = bus.task[i].left \ {m}]
             k == IF bus.task[i].left = {m} THEN Back(bus) ELSE s
  <1>0. EcoTypes /\ FreshInv /\ VerdictInv /\ ResolvedInv /\ EvidenceInv /\ BusInv
    BY DEF EcoInv
  <1>1. /\ bus \in Bus /\ bus.task \in [Processors -> Processor] /\ TaskFits(bus.task[i]) /\ bus.task[i].pc = "weaken"
        /\ bus.cancelled # i /\ bus.task[i] \in Processor
    BY <1>0, BusTypes DEF Weaken, Working
  <1>2. bus.task[i].left \in SUBSET Mems /\ bus.task[i].left # {}
    BY <1>1 DEF TaskFits, Processor
  <1>3. m \in bus.task[i].left /\ m \in Mems
    BY <1>2, LatestMem
  <1>4. UNCHANGED <<written, cause, conflict, trait, hook, loop, plugin, told>>
    BY DEF Weaken
  <1>5. prophecy' = [prophecy EXCEPT ![m] = p] /\ prophecy \in [Mems -> Foretold]
    BY <1>0 DEF Weaken, EcoTypes, TableTypes
  <1>6. bus' = [bus EXCEPT !.task[i] = k]
    <2>1. CASE bus.task[i].left = {m}
      BY <2>1 DEF Weaken
    <2>2. CASE bus.task[i].left # {m}
      <3>1. bus' = [bus EXCEPT !.task[i] = s]
        BY <1>1, <2>2 DEF Weaken, Bus
      <3>2. QED
        BY <2>2, <3>1
    <2>3. QED
      BY <2>1, <2>2
  <1>70. bus.task[i].left = {m} \/ bus.task[i].left \ {m} # {}
    BY <1>3
  <1> HIDE DEF m
  <1>7. p \in Foretold /\ p.state = "active" /\ p.topic = prophecy[m].topic
    BY <1>3, <1>5 DEF Foretold
  <1> HIDE DEF p
  <1>8. s \in Processor /\ s.pc = "weaken" /\ s.left = bus.task[i].left \ {m}
    BY <1>1 DEF Processor
  <1> HIDE DEF s
  <1>9. TaskFits(k) /\ k.left \subseteq bus.task[i].left /\ (bus.running => k.pc # "off")
    BY <1>1, <1>8, <1>70, BackIs DEF TaskFits
  <1> HIDE DEF k
  <1>10. /\ bus' \in Bus /\ (\A j \in Processors : TaskFits(bus'.task[j])) /\ BusInv'
         /\ bus'.task[i] = k /\ \A j \in Processors : j # i => bus'.task[j] = bus.task[j]
    BY <1>0, <1>1, <1>4, <1>6, <1>9, TaskGoes DEF Alive
  <1>11. prophecy' \in [Mems -> Foretold] /\ prophecy'[m] = p /\ \A n \in Mems : n # m => prophecy'[n] = prophecy[n]
    BY <1>3, <1>5, <1>7
  <1>12. Listed(m)
    BY <1>3 DEF Listed
  <1>13. prophecy[m].state # "none"
    BY <1>0, <1>3, <1>12 DEF VerdictInv, JudgedOnce
  <1>14. TableTypes'
    BY <1>0, <1>4, <1>11 DEF EcoTypes, TableTypes
  <1>15. EcoTypes'
    BY <1>0, <1>4, <1>10, <1>14 DEF EcoTypes
  <1>16. FreshInv'
    <2>1. ASSUME NEW n \in Mems, Unread(n)'
          PROVE  prophecy'[n].state = "none"
      <3>1. Unread(n)
        BY <1>4, <2>1 DEF Unread
      <3>2. prophecy[n].state = "none"
        BY <1>0, <3>1 DEF FreshInv
      <3>3. QED
        BY <1>11, <1>13, <3>2
    <2>2. QED
      BY <1>0, <1>4, <2>1 DEF FreshInv, Unjudged
  <1>17. VerdictInv'
    <2>1. ASSUME NEW n \in Mems
          PROVE  JudgedOnce(n)'
      <3>1. /\ JudgedOnce(n) /\ (Coming(n)' <=> Coming(n))
        BY <1>0, <1>4 DEF VerdictInv, Coming, ToCome
      <3>2. Listed(n)' => Listed(n)
        BY <1>9, <1>10 DEF Listed
      <3>3. CASE n = m
        <4>1. prophecy'[n].state = "active"
          BY <1>7, <1>11, <3>3
        <4>2. ~ (told.verdicts[n] > 0 /\ n \notin told.overtaken)
          BY <1>12, <3>1, <3>3 DEF JudgedOnce
        <4>3. QED
          BY <1>4, <4>1, <4>2 DEF JudgedOnce
      <3>4. CASE n # m
        BY <1>4, <1>11, <3>1, <3>2, <3>4 DEF JudgedOnce
      <3>5. QED
        BY <3>3, <3>4
    <2>2. QED
      BY <2>1 DEF VerdictInv
  <1>18. ResolvedInv'
    BY <1>0, <1>4, SameResolved
  <1>19. EvidenceInv'
    <2>1. \A n \in Mems : prophecy'[n].topic = prophecy[n].topic
      BY <1>7, <1>11
    <2>2. QED
      BY <1>0, <1>4, <2>1, SameEvidence DEF EcoTypes
  <1>20. QED
    BY <1>10, <1>15, <1>16, <1>17, <1>18, <1>19 DEF EcoInv

\* cancel() ends the task, as the bus does not run, or is run by another.
LEMMA CancelledInv == ASSUME EcoInv, NEW i \in Processors, Cancelled(i) PROVE EcoInv'
  <1> DEFINE k == IF bus.task[i].pc = "get" THEN NoProcessor ELSE Back(bus)
             b == [bus EXCEPT !.cancelled = 0]
             r == [b EXCEPT !.task = [bus.task EXCEPT ![i] = k]]
  <1>0. EcoTypes /\ BusInv /\ plugin \in {"up", "stopping", "stopped", "closing", "down"}
    BY DEF EcoInv, EcoTypes
  <1>1. /\ bus \in Bus /\ bus.task \in [Processors -> Processor] /\ bus.cancelled = i /\ i # 0
        /\ bus.newest \in Processors
    BY <1>0, BusTypes DEF Cancelled, Processors
  <1>2. UNCHANGED <<tablevars, hook, loop, plugin, told>>
    BY DEF Cancelled
  <1>3. bus' = r
    BY <1>1 DEF Cancelled, Bus
  <1>4. TaskFits(k) /\ k.left = {} /\ (~bus.running => k.pc = "off")
    BY <1>1, NoProcessorFits, BackIs
  <1> HIDE DEF k
  <1>5. /\ b \in Bus /\ b.running = bus.running /\ b.cancelled = 0 /\ b.awaited = bus.awaited
        /\ b.newest = bus.newest
    BY <1>1 DEF Bus
  <1> HIDE DEF b
  <1>6. [bus.task EXCEPT ![i] = k] \in [Processors -> Processor]
    BY <1>1, <1>4 DEF TaskFits
  <1>7. /\ r \in Bus /\ r.running = bus.running /\ r.cancelled = 0 /\ r.awaited = bus.awaited
        /\ r.newest = bus.newest /\ r.task = [bus.task EXCEPT ![i] = k]
    BY <1>5, <1>6 DEF Bus
  <1> HIDE DEF r
  <1>8. bus'.task[i] = k /\ \A j \in Processors : j # i => bus'.task[j] = bus.task[j]
    BY <1>1, <1>3, <1>7
  <1>9. \A j \in Processors : TaskFits(bus'.task[j])
    BY <1>0, <1>4, <1>8, BusTypes
  <1>10. plugin = "stopping" /\ bus.awaited = i /\ Alive(i) /\ (bus.running => bus.newest # i)
    BY <1>0, <1>1 DEF BusInv
  <1>11. BusInv'
    <2>1. /\ bus'.running = bus.running /\ bus'.cancelled = 0 /\ bus'.awaited = i /\ bus'.newest = bus.newest
          /\ plugin' = "stopping" /\ told' = told
      BY <1>2, <1>3, <1>7, <1>10
    <2>2. bus.running => bus'.task[bus.newest].pc # "off" /\ told.revived
      BY <1>0, <1>1, <1>8, <1>10 DEF BusInv, Alive
    <2>3. ~bus.running => bus.newest = i /\ \A j \in Processors : bus'.task[j].pc = "off"
      BY <1>0, <1>4, <1>8, <1>10 DEF BusInv, Alive
    <2>4. QED
      BY <2>1, <2>2, <2>3 DEF BusInv, Alive
  <1>12. \A m \in Mems : Listed(m)' => Listed(m)
    BY <1>4, <1>8 DEF Listed
  <1>13. QED
    BY <1>0, <1>2, <1>3, <1>7, <1>9, <1>11, <1>12, BusKeeps

-----------------------------------------------------------------------------
(* The plugin is stopped and loaded again, or the process ends.            *)
LEMMA StopBusInv == EcoInv /\ StopBus => EcoInv'
  <1> SUFFICES ASSUME EcoInv, StopBus
               PROVE  EcoInv'
    OBVIOUS
  <1> DEFINE a == [bus EXCEPT !.running = FALSE]
             b == [a EXCEPT !.cancelled = bus.newest]
             r == [b EXCEPT !.awaited = bus.newest]
  <1>0. EcoTypes /\ BusInv /\ bus \in Bus /\ bus.newest \in Processors /\ \A i \in Processors : TaskFits(bus.task[i])
    BY BusTypes DEF EcoInv
  <1>1. UNCHANGED <<tablevars, hook, loop, told>> /\ plugin = "up" /\ plugin' = "stopping"
    BY DEF StopBus
  <1>2. bus' = r
    BY <1>0 DEF StopBus, Bus
  <1>3. bus.newest \in 0 .. 2
    BY <1>0 DEF Processors
  <1>4. a \in Bus /\ a.running = FALSE /\ a.newest = bus.newest /\ a.task = bus.task
    BY <1>0 DEF Bus
  <1> HIDE DEF a
  <1>5. b \in Bus /\ b.running = FALSE /\ b.newest = bus.newest /\ b.task = bus.task /\ b.cancelled = bus.newest
    BY <1>3, <1>4 DEF Bus
  <1> HIDE DEF b
  <1>6. /\ r \in Bus /\ r.running = FALSE /\ r.newest = bus.newest /\ r.task = bus.task /\ r.cancelled = bus.newest
        /\ r.awaited = bus.newest
    BY <1>3, <1>5 DEF Bus
  <1> HIDE DEF r
  <1>7. BusInv'
    <2>1. Alive(bus.newest) /\ \A i \in Processors \ {bus.newest} : ~Alive(i)
      BY <1>0, <1>1 DEF BusInv
    <2>2. bus.newest # 0
      BY <1>0 DEF Processors
    <2>3. QED
      BY <1>0, <1>1, <1>2, <1>6, <2>1, <2>2 DEF BusInv, Alive
  <1>8. \A m \in Mems : Listed(m)' => Listed(m)
    BY <1>2, <1>6 DEF Listed
  <1>9. QED
    BY <1>0, <1>1, <1>2, <1>6, <1>7, <1>8, BusKeeps

LEMMA StopReturnsInv == EcoInv /\ StopReturns => EcoInv'
  <1> SUFFICES ASSUME EcoInv, StopReturns
               PROVE  EcoInv'
    OBVIOUS
  <1> DEFINE r == [bus EXCEPT !.awaited = 0]
  <1>0. EcoTypes /\ BusInv /\ bus \in Bus /\ bus.newest \in Processors /\ \A i \in Processors : TaskFits(bus.task[i])
    BY BusTypes DEF EcoInv
  <1>1. /\ UNCHANGED <<tablevars, hook, loop, told>> /\ plugin = "stopping" /\ plugin' = "stopped" /\ bus' = r
        /\ bus.task[bus.awaited].pc = "off"
    BY DEF StopReturns
  <1>2. /\ r \in Bus /\ r.running = bus.running /\ r.newest = bus.newest /\ r.task = bus.task
        /\ r.cancelled = bus.cancelled
    BY <1>0 DEF Bus
  <1> HIDE DEF r
  <1>3. BusInv'
    <2>1. bus.cancelled = 0 /\ bus.awaited \in Processors /\ ~Alive(bus.awaited)
      BY <1>0, <1>1 DEF BusInv, Alive
    <2>2. \A i \in Processors \ {bus.newest} : ~Alive(i)
      <3>1. CASE bus.running
        <4>1. bus.newest # bus.awaited
          BY <1>0, <2>1, <3>1 DEF BusInv
        <4>2. Processors = {bus.newest, bus.awaited}
          BY <1>0, <2>1, <4>1 DEF Processors
        <4>3. QED
          BY <2>1, <4>2
      <3>2. CASE ~bus.running
        BY <1>0, <1>1, <3>2 DEF BusInv
      <3>3. QED
        BY <3>1, <3>2
    <2>3. ~bus.running => ~Alive(bus.newest)
      BY <1>0, <1>1, <2>1 DEF BusInv
    <2>4. bus.running => Alive(bus.newest)
      BY <1>0 DEF BusInv
    <2>5. QED
      BY <1>1, <1>2, <2>1, <2>2, <2>3, <2>4 DEF BusInv, Alive
  <1>4. \A m \in Mems : Listed(m)' => Listed(m)
    BY <1>1, <1>2 DEF Listed
  <1>5. QED
    BY <1>0, <1>1, <1>2, <1>3, <1>4, BusKeeps

LEMMA CloseEngineInv == EcoInv /\ CloseEngine => EcoInv'
  <1> SUFFICES ASSUME EcoInv, CloseEngine
               PROVE  EcoInv'
    OBVIOUS
  <1>0. EcoTypes /\ BusInv /\ bus \in Bus /\ \A i \in Processors : TaskFits(bus.task[i])
    BY BusTypes DEF EcoInv
  <1>1. UNCHANGED <<tablevars, hook, loop, told, bus>> /\ plugin = "closing" /\ plugin' = "down"
    BY DEF CloseEngine
  <1>2. BusInv'
    BY <1>0, <1>1 DEF BusInv, Alive
  <1>3. \A m \in Mems : Listed(m)' => Listed(m)
    BY <1>1 DEF Listed
  <1>4. QED
    BY <1>0, <1>1, <1>2, <1>3, BusKeeps

LEMMA ReloadInv == EcoInv /\ Reload => EcoInv'
  <1> SUFFICES ASSUME EcoInv, Reload
               PROVE  EcoInv'
    OBVIOUS
  <1>0. EcoTypes /\ BusInv /\ bus \in Bus /\ \A i \in Processors : TaskFits(bus.task[i])
    BY BusTypes DEF EcoInv
  <1>1. UNCHANGED <<tablevars, hook, loop, told>> /\ plugin = "down" /\ plugin' = "up" /\ bus' = Started(bus)
    BY DEF Reload
  <1>2. ~bus.running => \E i \in Processors : bus.task[i].pc = "off"
    BY <1>0, SomeOff
  <1>3. /\ bus' \in Bus /\ \A i \in Processors : TaskFits(bus'.task[i])
        /\ bus'.running /\ bus'.cancelled = bus.cancelled
        /\ \A i \in Processors : bus'.task[i].left = bus.task[i].left
        /\ bus.running => bus' = bus
        /\ ~bus.running =>
             /\ bus'.task[bus'.newest].pc # "off"
             /\ \A i \in Processors \ {bus'.newest} : bus'.task[i] = bus.task[i]
    BY <1>0, <1>1, <1>2, StartedIs
  <1>4. BusInv'
    <2>1. bus.cancelled = 0 /\ (bus.running => Alive(bus.newest)) /\ (\A i \in Processors \ {bus.newest} : ~Alive(i))
      BY <1>0, <1>1 DEF BusInv
    <2>2. ~bus.running => \A i \in Processors : bus.task[i].pc = "off"
      BY <1>0, <1>1 DEF BusInv, Alive
    <2>3. CASE bus.running
      BY <1>1, <1>3, <2>1, <2>3 DEF BusInv, Alive
    <2>4. CASE ~bus.running
      BY <1>1, <1>3, <2>1, <2>2, <2>4 DEF BusInv, Alive
    <2>5. QED
      BY <2>3, <2>4
  <1>5. \A m \in Mems : Listed(m)' => Listed(m)
    BY <1>3 DEF Listed
  <1>6. QED
    BY <1>0, <1>1, <1>3, <1>4, <1>5, BusKeeps

\* Every hook skips its stage at once.
LEMMA CancelHooksInv == EcoInv /\ CancelHooks => EcoInv'
  <1> SUFFICES ASSUME EcoInv, CancelHooks
               PROVE  EcoInv'
    OBVIOUS
  <1>0. EcoTypes /\ FreshInv /\ VerdictInv /\ ResolvedInv /\ EvidenceInv /\ BusInv
    BY DEF EcoInv
  <1>1. /\ UNCHANGED <<written, cause, conflict, trait, prophecy, loop, bus, told>> /\ plugin = "stopped" /\ plugin' = "closing"
        /\ hook' = [m \in Mems |-> Skipped(m)]
    BY DEF CancelHooks, tablevars
  <1>2. ASSUME NEW m \in Mems
        PROVE  /\ HookFits(m, hook'[m]) /\ hook'[m].left = {} /\ hook'[m].found = {}
               /\ hook'[m].pc \in {"recent", "read", "generate", "none"}
               /\ hook'[m].pc = "recent" => hook[m].pc \in Beginning
               /\ hook[m].pc = "none" => hook'[m].pc = "none" /\ hook'[m] = NoHook
    <2>1. hook[m].pc \in {"none", "find", "cause", "recent", "conflicts", "upgrade", "read", "write", "publish", "generate"}
      BY <1>0 DEF EcoTypes, HookRec
    <2>2. /\ NextStage(hook[m].pc) \in {"recent", "read", "generate", "none"}
          /\ NextStage(hook[m].pc) = "recent" => hook[m].pc \in Beginning
          /\ hook[m].pc = "none" => NextStage(hook[m].pc) = "none"
      BY <2>1 DEF NextStage, Beginning
    <2>3. hook'[m] = [NoHook EXCEPT !.pc = NextStage(hook[m].pc)]
      BY <1>1 DEF Skipped
    <2>4. [NoHook EXCEPT !.pc = "none"] = NoHook
      BY DEF NoHook
    <2>5. QED
      BY <2>2, <2>3, <2>4, NoHookFits
  <1>3. hook' \in [Mems -> HookRec]
    BY <1>1, <1>2 DEF HookFits
  <1>4. TableTypes'
    BY <1>0, <1>1 DEF EcoTypes, TableTypes
  <1>5. EcoTypes'
    BY <1>0, <1>1, <1>2, <1>3, <1>4 DEF EcoTypes
  <1>6. FreshInv'
    <2>1. \A m \in Mems : m > written => hook'[m] = NoHook
      BY <1>0, <1>2, NoHookFits DEF FreshInv
    <2>2. \A m \in Mems : Unread(m)' => Unread(m)
      BY <1>1, <1>2 DEF Unread
    <2>3. \A p \in Opposed : Unjudged(p)' => Unjudged(p)
      BY <1>1, <1>2, EcoNats DEF Unjudged, Beginning
    <2>4. QED
      BY <1>0, <1>1, <2>1, <2>2, <2>3 DEF FreshInv
  <1>7. VerdictInv'
    BY <1>0, <1>1, SameVerdicts
  <1>8. ResolvedInv'
    <2>1. \A p \in told.resolved : hook'[p[1]].found = {}
      BY <1>0, <1>2, EcoNats DEF EcoTypes, History
    <2>2. QED
      BY <1>0, <1>1, <2>1 DEF ResolvedInv
  <1>9. EvidenceInv'
    <2>1. \A m \in Mems : hook'[m].pc # "write"
      BY <1>2
    <2>2. \A t : Raising(t)' <=> Raising(t)
      BY <1>1 DEF Raising
    <2>3. QED
      BY <1>0, <1>1, <2>1, <2>2 DEF EvidenceInv
  <1>10. BusInv'
    BY <1>0, <1>1 DEF BusInv, Alive
  <1>11. QED
    BY <1>5, <1>6, <1>7, <1>8, <1>9, <1>10 DEF EcoInv

LEMMA ProcessEndsInv == EcoInv /\ ProcessEnds => EcoInv'
  <1> SUFFICES ASSUME EcoInv, ProcessEnds
               PROVE  EcoInv'
    OBVIOUS
  <1>0. EcoTypes /\ FreshInv /\ VerdictInv /\ ResolvedInv /\ EvidenceInv /\ BusInv
    BY DEF EcoInv
  <1>1. /\ UNCHANGED <<written, cause, conflict, trait, prophecy, told>>
        /\ hook' = [m \in Mems |-> NoHook] /\ loop' = NoPass /\ bus' = FreshBus /\ plugin' = "up"
    BY DEF ProcessEnds, tablevars
  <1>2. \A m \in Mems : hook'[m] = NoHook /\ HookFits(m, NoHook)
    BY <1>1, NoHookFits DEF HookFits
  <1>3. hook' \in [Mems -> HookRec]
    BY <1>1, NoHookFits
  <1>4. TableTypes'
    BY <1>0, <1>1 DEF EcoTypes, TableTypes
  <1>5. EcoTypes'
    BY <1>0, <1>1, <1>2, <1>3, <1>4, NoPassFits, FreshBusFits DEF EcoTypes
  <1>6. FreshInv'
    <2>1. \A m \in Mems : Unread(m)' => Unread(m)
      BY <1>1, <1>2, NoHookFits DEF Unread
    <2>2. \A p \in Opposed : Unjudged(p)' => Unjudged(p)
      BY <1>1, <1>2, NoHookFits, EcoNats DEF Unjudged
    <2>3. QED
      BY <1>0, <1>1, <1>2, <2>1, <2>2 DEF FreshInv
  <1>7. VerdictInv'
    <2>1. \A m \in Mems : ~Listed(m)' /\ ~Coming(m)' /\ Len(loop'.list) = 0
      BY <1>1, NoPassFits, FreshBusFits DEF Listed, Coming, ToCome
    <2>2. QED
      BY <1>0, <1>1, <2>1 DEF VerdictInv, JudgedOnce
  <1>8. ResolvedInv'
    <2>1. \A p \in told.resolved : hook'[p[1]].found = {}
      BY <1>0, <1>2, NoHookFits, EcoNats DEF EcoTypes, History
    <2>2. QED
      BY <1>0, <1>1, <2>1 DEF ResolvedInv
  <1>9. EvidenceInv'
    BY <1>0, <1>1, <1>2, NoHookFits, NoPassFits DEF EvidenceInv, Raising
  <1>10. BusInv'
    BY <1>1, FreshBusFits DEF BusInv, Alive, Processors
  <1>11. QED
    BY <1>5, <1>6, <1>7, <1>8, <1>9, <1>10 DEF EcoInv

LEMMA EcoNextInv == EcoInv /\ [EcoNext]_ecovars => EcoInv'
  <1> SUFFICES ASSUME EcoInv, [EcoNext]_ecovars
               PROVE  EcoInv'
    OBVIOUS
  <1>1. CASE Write
    BY <1>1, WriteInv
  <1>2. ASSUME NEW m \in Mems, HookStep(m) \/ StageFails(m)
        PROVE  EcoInv'
    BY <1>2, QuietStages, ConflictStages, WriteTraitInv, PublishProfileInv, GenerateInv DEF HookStep
  <1>3. CASE LoopStep \/ PassFails
    BY <1>3, ReadDueInv, FetchInv, VerdictStepInv, ReadProfileInv, RaiseTraitInv, PassFailsInv DEF LoopStep
  <1>4. CASE Resolve
    BY <1>4, ResolveInv
  <1>5. ASSUME NEW i \in Processors, BusStep(i)
        PROVE  EcoInv'
    BY <1>5, TakeInv, StyleListInv, WeakenInv, CancelledInv DEF BusStep
  <1>6. CASE StopBus \/ StopReturns \/ CancelHooks \/ CloseEngine \/ Reload \/ ProcessEnds
    BY <1>6, StopBusInv, StopReturnsInv, CancelHooksInv, CloseEngineInv, ReloadInv, ProcessEndsInv
  <1>7. CASE UNCHANGED ecovars
    <2>1. UNCHANGED <<written, cause, conflict, trait, prophecy, hook, loop, bus, plugin, told>>
      BY <1>7 DEF ecovars
    <2>2. QED
      BY <2>1 DEF EcoInv, EcoTypes, TableTypes, FreshInv, Unread, Unjudged, VerdictInv, JudgedOnce, Listed, Coming, ToCome,
                  ResolvedInv, EvidenceInv, Raising, BusInv, Alive
  <1>8. QED
    BY <1>1, <1>2, <1>3, <1>4, <1>5, <1>6, <1>7 DEF EcoNext

\* What EcoInv holds at every state of a run.
LEMMA EcoRun == EcoSpec => []EcoInv
  <1>1. EcoInit /\ [][EcoNext]_ecovars => []EcoInv
    BY EcoInitInv, EcoNextInv, PTL
  <1>2. EcoSpec => EcoInit /\ [][EcoNext]_ecovars
    BY PTL DEF EcoSpec
  <1>3. QED
    BY <1>1, <1>2, PTL

(* The records of the ecosystem stand: a prophecy that was judged is not   *)
(* judged again, a conflict that was resolved does not become a candidate, *)
(* but for the two races the history names; and the evidence of a trait is *)
(* not lost, but to a writer that had read the trait before.               *)
THEOREM RecordsAreKept == EcoSpec => []RecordsStand
  <1>1. EcoInv => RecordsStand
    <2> SUFFICES ASSUME EcoInv
                 PROVE  RecordsStand
      OBVIOUS
    <2>0. EcoTypes /\ VerdictInv /\ ResolvedInv /\ EvidenceInv /\ told \in History
      BY DEF EcoInv, EcoTypes
    <2>1. EcoTypeOK
      <3>1. \A m \in Mems : prophecy[m].state \in {"none", "active", "verified", "failed"}
        BY <2>0 DEF EcoTypes, TableTypes, Foretold
      <3>2. QED
        BY <2>0, <3>1 DEF EcoTypes, TableTypes, PassFits, EcoTypeOK
    <2>2. \A m \in Mems : told.verdicts[m] > 1 => m \in told.overtaken
      <3>1. ASSUME NEW m \in Mems, told.verdicts[m] > 1
            PROVE  m \in told.overtaken
        <4>1. told.verdicts[m] \in Nat /\ JudgedOnce(m)
          BY <2>0 DEF VerdictInv, History
        <4>2. told.verdicts[m] > 0 /\ told.verdicts[m] # 1
          BY <3>1, <4>1
        <4>3. QED
          BY <4>1, <4>2 DEF JudgedOnce
      <3>2. QED
        BY <3>1
    <2>3. DecisionsStand
      BY <2>0, <2>2 DEF DecisionsStand, ResolvedInv
    <2>4. EvidenceKept
      BY <2>0 DEF EvidenceKept, EvidenceInv
    <2>5. QED
      BY <2>1, <2>3, <2>4 DEF RecordsStand
  <1>2. QED
    BY <1>1, EcoRun, PTL

(* One task handles the events of the bus, and the stop that waits for the *)
(* task it cancelled finds it over, unless a publish() started the bus     *)
(* meanwhile.                                                              *)
THEOREM BusIsSound == EcoSpec => []BusSound
  <1>1. EcoInv => BusSound
    <2> SUFFICES ASSUME EcoInv, ~told.revived
                 PROVE  /\ Cardinality({i \in Processors : bus.task[i].pc # "off"}) <= 1
                        /\ plugin = "stopping" /\ bus.cancelled = 0 => bus.task[bus.awaited].pc = "off"
      BY DEF BusSound
    <2>0. BusInv /\ EcoTypes
      BY DEF EcoInv
    <2>1. \A i \in Processors \ {bus.newest} : bus.task[i].pc = "off"
      BY <2>0 DEF BusInv, Alive
    <2>2. {i \in Processors : bus.task[i].pc # "off"} \subseteq {bus.newest}
      BY <2>1
    <2>3. Cardinality({bus.newest}) = 1 /\ IsFiniteSet({bus.newest})
      BY FS_Singleton
    <2>4. Cardinality({i \in Processors : bus.task[i].pc # "off"}) <= 1
      BY <2>2, <2>3, FS_Subset
    <2>5. plugin = "stopping" /\ bus.cancelled = 0 => bus.task[bus.awaited].pc = "off"
      BY <2>0 DEF BusInv, Alive
    <2>6. QED
      BY <2>4, <2>5
  <1>2. QED
    BY <1>1, EcoRun, PTL

-----------------------------------------------------------------------------
(* IndexStartup: what a start, and a rebuild, leave of the stores.         *)
Given == 1 .. next - 1
\* A rebuild, when n ids were given.
RebuildAt(n) ==
    {x \in [pc : {"none", "count", "clear", "read text", "write text", "compare", "read missing",
                  "write missing", "read new", "write new", "switch", "accept"},
            total : Nat, last : Nat, batch : SUBSET (1 .. n), failed : SUBSET (1 .. n),
            open : SUBSET (1 .. n), need : Nat, temp : SUBSET (1 .. n)] :
        /\ x.pc = "none" => x = NoRebuild
        /\ x.pc \in {"count", "clear"} => x.last = 0}
StartTypes ==
    /\ next \in 1 .. MaxDocs + 1 /\ docs \subseteq Given /\ vec \subseteq Given
    /\ fts \in [Ids -> 0 .. 2] /\ oldfts \subseteq Ids /\ done \subseteq Steps
    /\ row \in 0 .. Current /\ step \in 0 .. Current
    /\ phase \in {"off", "migrate", "engine", "status", "rebuild", "ready"}
    /\ reb \in [Rebuilders -> RebuildAt(next - 1)]
    /\ adding \in [pc : {"none", "vector", "text"}, doc : 0 .. next - 1]
    /\ deleting \in [pc : {"none", "rest"}, doc : 0 .. next - 1]
    /\ (adding.pc = "none" <=> adding.doc = 0) /\ (deleting.pc = "none" <=> deleting.doc = 0)
\* Who runs in which phase.
PhaseInv ==
    /\ phase = "rebuild" <=> reb[AtStart] # NoRebuild
    /\ phase # "ready" =>
          /\ \A r \in Rebuilders \ {AtStart} : reb[r] = NoRebuild
          /\ adding.pc = "none" /\ deleting.pc = "none"
    /\ phase = "migrate" => step # 0

\* What a rebuild is still to write.
TextDue(x, d) ==
    \/ x.pc \in {"count", "clear"}
    \/ x.pc \in {"read text", "write text"} /\ d > x.last
    \/ x.pc = "write text" /\ d \in x.batch
VecDue(x, d) ==
    \/ x.pc \in {"count", "clear", "read text", "write text", "compare", "read new", "write new", "switch"}
    \/ x.pc \in {"read missing", "write missing"} /\ d \in x.open
    \/ x.pc = "write missing" /\ d \in x.batch
TextSafe(d) == fts[d] > 0 \/ <<d, "fts">> \in lost
VecSafe(d) == d \in vec \/ <<d, "vec">> \in lost
Serving == phase \in {"rebuild", "ready"}
TextInv == Serving => \A d \in docs \ Busy : TextSafe(d) \/ \E r \in Rebuilders : TextDue(reb[r], d)
VecInv ==
    Serving => \A d \in docs : \/ adding.pc = "vector" /\ adding.doc = d
                               \/ VecSafe(d) \/ \E r \in Rebuilders : VecDue(reb[r], d)
\* The steps below the one of the migration are done.
StepInv == phase = "migrate" /\ ~stamped => \A k \in Steps : k < step => k \in done
StartInv == StartTypes /\ PhaseInv /\ TextInv /\ VecInv /\ StepInv /\ VersionHonest

LEMMA LeastOf ==
    ASSUME NEW S, S \subseteq Nat, S # {}
    PROVE  \E x \in S : \A y \in S : x <= y
  <1> DEFINE R == {p \in Nat \X Nat : p[1] < p[2]}
  <1>1. IsWellFoundedOn(R, Nat)
    BY Below
  <1>2. \E x \in S : \A y \in S : ~ (<<y, x>> \in R)
    <2> HIDE DEF R
    <2> QED
      BY <1>1, WFMin
  <1>3. PICK x \in S : \A y \in S : ~ (<<y, x>> \in R)
    BY <1>2
  <1>4. ASSUME NEW y \in S PROVE x <= y
    <2>1. <<y, x>> \notin R /\ x \in Nat /\ y \in Nat
      BY <1>3
    <2> QED
      BY <2>1
  <1> QED
    BY <1>4

LEMMA GreatestOf ==
    ASSUME NEW n \in Nat, NEW S \in SUBSET (1 .. n), S # {}
    PROVE  Max(S) \in S /\ \A y \in S : y <= Max(S)
  <1> DEFINE T == {n - k : k \in S}
  <1>1. T \subseteq Nat /\ T # {}
    <2>1. \A k \in S : n - k \in Nat
      OBVIOUS
    <2> QED
      BY <2>1
  <1>2. PICK x \in T : \A y \in T : x <= y
    <2> HIDE DEF T
    <2> QED
      BY <1>1, LeastOf
  <1>3. PICK o \in S : x = n - o
    OBVIOUS
  <1>4. ASSUME NEW k \in S PROVE k <= o
    <2>1. x <= n - k
      BY <1>2
    <2> QED
      BY <1>3, <2>1
  <1> QED
    BY <1>4 DEF Max

\* The first documents of a set are of the set, are some if it has some, and
\* leave none out below one of them.
LEMMA FirstOf ==
    ASSUME NEW m \in Nat, NEW S \in SUBSET (1 .. m), NEW n \in Nat \ {0}
    PROVE  /\ First(S, n) \subseteq S
           /\ S # {} => First(S, n) # {}
           /\ \A d \in S, x \in First(S, n) : d <= x => d \in First(S, n)
  <1> DEFINE below(d) == {x \in S : x < d}
  <1>1. First(S, n) \subseteq S /\ \A d \in S : d \in First(S, n) <=> Cardinality(below(d)) < n
    BY DEF First
  <1>2. S \subseteq Nat /\ S \subseteq Int
    OBVIOUS
  <1>3. \A d \in S : IsFiniteSet(below(d)) /\ Cardinality(below(d)) \in Nat
    <2>1. IsFiniteSet(1 .. m)
      BY FS_Interval
    <2>2. \A d \in S : below(d) \subseteq 1 .. m
      OBVIOUS
    <2> QED
      BY <2>1, <2>2, FS_Subset, FS_CardinalityType
  <1>4. S # {} => First(S, n) # {}
    <2> SUFFICES ASSUME S # {} PROVE First(S, n) # {}
      OBVIOUS
    <2>1. PICK d \in S : \A y \in S : d <= y
      BY <1>2, LeastOf
    <2>2. below(d) = {}
      <3>1. \A y \in S : ~ (y < d)
        BY <1>2, <2>1
      <3> QED
        BY <3>1
    <2>3. Cardinality(below(d)) < n
      BY <2>2, FS_EmptySet
    <2> QED
      BY <1>1, <2>3
  <1>5. ASSUME NEW d \in S, NEW x \in First(S, n), d <= x
        PROVE  d \in First(S, n)
    <2>1. x \in S /\ Cardinality(below(x)) < n
      BY <1>1
    <2>2. below(d) \subseteq below(x)
      <3>1. \A y \in S : y < d => y < x
        <4>1. d \in Int /\ x \in Int /\ \A y \in S : y \in Int
          BY <1>2, <2>1
        <4> QED
          BY <1>5, <4>1
      <3> QED
        BY <3>1
    <2>3. Cardinality(below(d)) <= Cardinality(below(x))
      BY <1>3, <2>1, <2>2, FS_Subset
    <2>4. Cardinality(below(d)) \in Nat /\ Cardinality(below(x)) \in Nat
      BY <1>3, <2>1
    <2> HIDE DEF below
    <2>5. Cardinality(below(d)) < n
      BY <2>1, <2>3, <2>4
    <2> QED
      BY <1>1, <2>5
  <1> QED
    BY <1>1, <1>4, <1>5

LEMMA NoRebuildFits == \A n : NoRebuild \in RebuildAt(n) /\ NoRebuild.pc = "none"
  BY DEF NoRebuild, RebuildAt

LEMMA StartFacts ==
    ASSUME StartInv
    PROVE  /\ next \in Nat /\ next - 1 \in Nat /\ Given \subseteq Ids /\ Given = 1 .. next - 1
           /\ docs \subseteq Given /\ vec \subseteq Given /\ docs \subseteq Nat
           /\ \A S \in SUBSET Given : IsFiniteSet(S) /\ Cardinality(S) \in Nat
           /\ \A r \in Rebuilders : reb[r] \in RebuildAt(next - 1)
           /\ reb \in [Rebuilders -> RebuildAt(next - 1)] /\ fts \in [Ids -> 0 .. 2]
  <1>1. next \in 1 .. MaxDocs + 1 /\ MaxDocs \in Nat
    BY StartAssumption DEF StartInv, StartTypes
  <1>2. next \in Nat /\ next - 1 \in Nat /\ Given \subseteq Ids /\ Given = 1 .. next - 1
    BY <1>1 DEF Given, Ids
  <1>3. docs \subseteq Given /\ vec \subseteq Given /\ docs \subseteq Nat
    BY <1>2 DEF StartInv, StartTypes
  <1>4. IsFiniteSet(Given)
    BY <1>2, FS_Interval
  <1>5. \A S \in SUBSET Given : IsFiniteSet(S) /\ Cardinality(S) \in Nat
    BY <1>4, FS_Subset, FS_CardinalityType
  <1>6. reb \in [Rebuilders -> RebuildAt(next - 1)] /\ fts \in [Ids -> 0 .. 2]
    BY DEF StartInv, StartTypes
  <1> QED
    BY <1>2, <1>3, <1>5, <1>6

\* A step of a rebuild: what it was still to write is written, lost for a
\* reason, or still to be written.
LEMMA RebuildGoes ==
    ASSUME StartInv, NEW r \in Rebuilders, reb[r].pc # "none",
           NEW new \in RebuildAt(next - 1), reb' = [reb EXCEPT ![r] = new],
           \/ new.pc # "none" /\ phase' = phase
           \/ new = NoRebuild /\ phase' = (IF r = AtStart THEN "ready" ELSE phase),
           UNCHANGED <<docs, next, oldfts, row, done, step, adding, deleting, stamped>>,
           fts' \in [Ids -> 0 .. 2], vec' \subseteq Given,
           \A d \in docs : TextSafe(d) \/ TextDue(reb[r], d) => TextSafe(d)' \/ TextDue(new, d),
           \A d \in docs : VecSafe(d) \/ VecDue(reb[r], d) => VecSafe(d)' \/ VecDue(new, d)
    PROVE  StartInv'
  <1>1. /\ reb \in [Rebuilders -> RebuildAt(next - 1)] /\ AtStart \in Rebuilders
        /\ reb'[r] = new /\ \A q \in Rebuilders : q # r => reb'[q] = reb[q]
    BY StartFacts, StartAssumption
  <1>2. /\ reb[r] # NoRebuild /\ NoRebuild.pc = "none"
        /\ phase = "ready" \/ (phase = "rebuild" /\ r = AtStart)
    <2>1. reb[r] # NoRebuild
      BY NoRebuildFits
    <2> QED
      BY <2>1, NoRebuildFits DEF StartInv, PhaseInv
  <1>3. StartTypes'
    BY <1>1, <1>2 DEF StartInv, StartTypes, Given
  <1>4. PhaseInv'
    <2>1. CASE phase = "ready"
      <3>1. reb[AtStart] = NoRebuild /\ r # AtStart
        BY <1>2, <2>1 DEF StartInv, PhaseInv
      <3> QED
        BY <1>1, <2>1, <3>1 DEF PhaseInv
    <2>2. CASE phase = "rebuild" /\ r = AtStart
      <3>1. \A q \in Rebuilders \ {AtStart} : reb[q] = NoRebuild
        BY <2>2 DEF StartInv, PhaseInv
      <3> QED
        BY <1>1, <1>2, <2>2, <3>1 DEF StartInv, PhaseInv
    <2> QED
      BY <1>2, <2>1, <2>2
  <1>5. Serving
    BY <1>2 DEF Serving
  <1>6. TextInv'
    <2> SUFFICES ASSUME NEW d \in docs \ Busy
                 PROVE  TextSafe(d)' \/ \E q \in Rebuilders : TextDue(reb'[q], d)
      BY DEF TextInv, Busy
    <2>1. TextSafe(d) \/ \E q \in Rebuilders : TextDue(reb[q], d)
      BY <1>5 DEF StartInv, TextInv
    <2> QED
      BY <1>1, <2>1
  <1>7. VecInv'
    <2> SUFFICES ASSUME NEW d \in docs, ~ (adding.pc = "vector" /\ adding.doc = d)
                 PROVE  VecSafe(d)' \/ \E q \in Rebuilders : VecDue(reb'[q], d)
      BY DEF VecInv
    <2>1. VecSafe(d) \/ \E q \in Rebuilders : VecDue(reb[q], d)
      BY <1>5 DEF StartInv, VecInv
    <2> QED
      BY <1>1, <2>1
  <1>8. StepInv' /\ VersionHonest'
    <2>1. phase' # "migrate"
      BY <1>2
    <2> QED
      BY <2>1 DEF StartInv, StepInv, VersionHonest
  <1> QED
    BY <1>3, <1>4, <1>6, <1>7, <1>8 DEF StartInv

\* What is left as it is, is safe as it was.
LEMMA CountKeeps ==
    ASSUME StartInv, NEW r \in Rebuilders, Count(r)
    PROVE  StartInv'
  <1> DEFINE x == reb[r]
             new == [x EXCEPT !.pc = "clear", !.total = Cardinality(docs)]
  <1>1. /\ x \in RebuildAt(next - 1) /\ x.pc = "count" /\ Cardinality(docs) \in Nat
        /\ UNCHANGED <<docs, next, oldfts, row, done, step, adding, deleting, stamped, fts, vec, lost>>
    BY StartFacts DEF Count, RAt, rest, docvars, dbvars, writers
  <1>2. fts' \in [Ids -> 0 .. 2] /\ vec' \subseteq Given
    BY <1>1, StartFacts
  <1>3. CASE docs = {}
    <2>1. reb' = [reb EXCEPT ![r] = NoRebuild] /\ phase' = (IF r = AtStart THEN "ready" ELSE phase)
      BY <1>3 DEF Count, End
    <2> QED
      BY <1>1, <1>2, <1>3, <2>1, RebuildGoes, NoRebuildFits
  <1>4. CASE docs # {}
    <2>1. reb' = [reb EXCEPT ![r] = new] /\ phase' = phase
      BY <1>4 DEF Count, Goes
    <2>2. new \in RebuildAt(next - 1) /\ new.pc = "clear"
      BY <1>1 DEF RebuildAt
    <2> HIDE DEF new
    <2>3. \A d : TextDue(new, d) /\ VecDue(new, d)
      BY <2>2 DEF TextDue, VecDue
    <2> QED
      BY <1>1, <1>2, <2>1, <2>2, <2>3, RebuildGoes
  <1> QED
    BY <1>3, <1>4

LEMMA ClearKeeps ==
    ASSUME StartInv, NEW r \in Rebuilders, Clear(r)
    PROVE  StartInv'
  <1> DEFINE x == reb[r]
             new == [x EXCEPT !.pc = "read text"]
  <1>1. /\ x \in RebuildAt(next - 1) /\ x.pc = "clear"
        /\ UNCHANGED <<docs, next, oldfts, row, done, step, adding, deleting, stamped, vec, lost>>
        /\ reb' = [reb EXCEPT ![r] = new] /\ phase' = phase
        /\ fts' = [i \in Ids |-> 0] \/ fts' = fts
    BY StartFacts DEF Clear, RAt, rest, docvars, dbvars, writers, Goes, MayFail
  <1>2. fts' \in [Ids -> 0 .. 2] /\ vec' \subseteq Given
    <2>1. fts \in [Ids -> 0 .. 2] /\ vec \subseteq Given /\ [i \in Ids |-> 0] \in [Ids -> 0 .. 2]
      BY StartFacts
    <2> QED
      BY <1>1, <2>1
  <1>3. new \in RebuildAt(next - 1) /\ new.pc = "read text" /\ new.last = x.last
    BY <1>1 DEF RebuildAt
  <1>4. x.last = 0
    BY <1>1 DEF RebuildAt
  <1> HIDE DEF new
  <1>5. \A d \in docs : TextDue(new, d) /\ VecDue(new, d)
    <2>1. \A d \in docs : d > 0
      BY StartFacts
    <2> QED
      BY <1>3, <1>4, <2>1 DEF TextDue, VecDue
  <1> QED
    BY <1>1, <1>2, <1>3, <1>5, RebuildGoes

LEMMA ReadTextKeeps ==
    ASSUME StartInv, NEW r \in Rebuilders, ReadText(r)
    PROVE  StartInv'
  <1> DEFINE x == reb[r]
             b == NextBatch(r)
  <1>1. /\ x \in RebuildAt(next - 1) /\ x.pc = "read text"
        /\ UNCHANGED <<docs, next, oldfts, row, done, step, adding, deleting, stamped, fts, vec, lost>>
    BY StartFacts DEF ReadText, RAt, rest, docvars, dbvars, writers
  <1>2. fts' \in [Ids -> 0 .. 2] /\ vec' \subseteq Given
    BY <1>1, StartFacts
  <1>3. /\ Beyond(r) \in SUBSET (1 .. next - 1) /\ next - 1 \in Nat
        /\ \A d \in docs : d > x.last => d \in Beyond(r)
    BY StartFacts DEF Beyond
  <1>4. /\ b \subseteq Beyond(r)
        /\ Beyond(r) # {} => b # {}
        /\ \A d \in Beyond(r), y \in b : d <= y => d \in b
    <2>1. Batch \in Nat \ {0}
      BY StartAssumption
    <2> QED
      BY <1>3, <2>1, FirstOf DEF NextBatch
  <1> HIDE DEF b
  <1>5. CASE b = {}
    <2> DEFINE new == [x EXCEPT !.pc = "compare"]
    <2>1. reb' = [reb EXCEPT ![r] = new] /\ phase' = phase
      BY <1>5 DEF ReadText, Goes, b
    <2>2. new \in RebuildAt(next - 1) /\ new.pc = "compare"
      BY <1>1 DEF RebuildAt
    <2> HIDE DEF new
    <2>3. \A d \in docs : ~TextDue(x, d) /\ VecDue(new, d)
      BY <1>1, <1>3, <1>4, <1>5, <2>2 DEF TextDue, VecDue
    <2>4. \A d : TextSafe(d)' <=> TextSafe(d)
      BY <1>1 DEF TextSafe
    <2> QED
      BY <1>1, <1>2, <2>1, <2>2, <2>3, <2>4, RebuildGoes
  <1>6. CASE b # {}
    <2> DEFINE new == [x EXCEPT !.pc = "write text", !.batch = b, !.last = Max(b)]
    <2>1. reb' = [reb EXCEPT ![r] = new] /\ phase' = phase
      BY <1>6 DEF ReadText, Goes, b
    <2>2. b \in SUBSET (1 .. next - 1)
      BY <1>3, <1>4
    <2>3. Max(b) \in b /\ Max(b) \in Nat
      <3>1. Max(b) \in b
        BY <1>3, <1>6, <2>2, GreatestOf
      <3>2. next - 1 \in Nat
        BY <1>3
      <3> DEFINE m == Max(b)
      <3>3. m \in 1 .. next - 1
        BY <2>2, <3>1
      <3> HIDE DEF m
      <3>4. m \in Nat
        BY <3>2, <3>3
      <3> QED
        BY <3>1, <3>4 DEF m
    <2>4. /\ new \in RebuildAt(next - 1) /\ new.pc = "write text" /\ new.batch = b /\ new.last = Max(b)
      BY <1>1, <2>2, <2>3 DEF RebuildAt
    <2> HIDE DEF new
    <2>5. \A d \in docs : VecDue(new, d)
      BY <2>4 DEF VecDue
    <2>6. \A d \in docs : TextSafe(d) \/ TextDue(x, d) => TextSafe(d)' \/ TextDue(new, d)
      <3> SUFFICES ASSUME NEW d \in docs, TextSafe(d) \/ TextDue(x, d) PROVE TextSafe(d)' \/ TextDue(new, d)
        OBVIOUS
      <3>1. CASE TextSafe(d)
        BY <1>1, <3>1 DEF TextSafe
      <3>2. CASE TextDue(x, d)
        <4>1. d \in Beyond(r)
          BY <1>1, <1>3, <3>2 DEF TextDue
        <4>2. d \in b \/ d > Max(b)
          <5>1. d \in Nat
            BY StartFacts
          <5> QED
            BY <1>4, <2>3, <4>1, <5>1
        <4> QED
          BY <2>4, <4>2 DEF TextDue
      <3> QED
        BY <3>1, <3>2
    <2> QED
      BY <1>1, <1>2, <2>1, <2>4, <2>5, <2>6, RebuildGoes
  <1> QED
    BY <1>5, <1>6

LEMMA EntriesAre ==
    ASSUME NEW S, NEW d, NEW i, NEW j
    PROVE  <<d, i>> \in Entries(S, j) <=> d \in S /\ i = j
  BY DEF Entries

LEMMA MoreIs ==
    ASSUME NEW n \in 0 .. 2
    PROVE  More(n) \in 0 .. 2 /\ More(n) > 0
  BY DEF More

LEMMA WriteTextKeeps ==
    ASSUME StartInv, NEW r \in Rebuilders, WriteText(r)
    PROVE  StartInv'
  <1> DEFINE x == reb[r]
  <1>1. /\ x \in RebuildAt(next - 1) /\ x.pc = "write text"
        /\ UNCHANGED <<docs, next, oldfts, row, done, step, adding, deleting, stamped, vec>>
    BY StartFacts DEF WriteText, RAt, rest, docvars, dbvars, writers
  <1>2. PICK bad \in {{}} \cup {{d} : d \in x.batch} :
           LET failed == x.failed \cup bad
               good == x.batch \ bad
               stop == Exceeded(Cardinality(failed), x.total)
           IN /\ fts' = [i \in Ids |-> IF i \in good THEN More(fts[i]) ELSE fts[i]]
              /\ lost' = (lost \ Entries(good, "fts")) \cup Entries(bad, "fts")
                         \cup IF stop THEN Entries(Beyond(r), "fts") \cup Entries(docs \ vec, "vec") ELSE {}
              /\ IF stop THEN End(r)
                 ELSE Goes(r, [x EXCEPT !.pc = "read text", !.batch = {}, !.failed = failed])
    BY DEF WriteText
  <1> DEFINE failed == x.failed \cup bad
             good == x.batch \ bad
             stop == Exceeded(Cardinality(failed), x.total)
  <1>3. x.batch \in SUBSET (1 .. next - 1) /\ bad \subseteq x.batch /\ failed \in SUBSET (1 .. next - 1)
    BY <1>1, <1>2 DEF RebuildAt
  <1>4. /\ fts' = [i \in Ids |-> IF i \in good THEN More(fts[i]) ELSE fts[i]]
        /\ lost' = (lost \ Entries(good, "fts")) \cup Entries(bad, "fts")
                   \cup IF stop THEN Entries(Beyond(r), "fts") \cup Entries(docs \ vec, "vec") ELSE {}
        /\ IF stop THEN End(r)
           ELSE Goes(r, [x EXCEPT !.pc = "read text", !.batch = {}, !.failed = failed])
    BY <1>2
  <1> HIDE DEF failed, stop
  <1>5. fts' \in [Ids -> 0 .. 2] /\ vec' \subseteq Given
    <2>1. \A i \in Ids : fts[i] \in 0 .. 2 /\ More(fts[i]) \in 0 .. 2
      BY StartFacts, MoreIs
    <2> QED
      BY <1>1, <1>4, <2>1, StartFacts
  <1>6. ASSUME NEW d \in docs
        PROVE  /\ TextSafe(d) => TextSafe(d)'
               /\ d \in x.batch => TextSafe(d)'
               /\ stop /\ d > x.last => TextSafe(d)'
               /\ VecSafe(d) => VecSafe(d)'
               /\ stop => VecSafe(d)'
    <2>1. d \in Ids /\ fts[d] \in 0 .. 2
      BY StartFacts
    <2>2. d \in good => fts'[d] > 0
      BY <1>4, <2>1, MoreIs
    <2>3. d \notin good => fts'[d] = fts[d]
      BY <1>4, <2>1
    <2>4. <<d, "fts">> \in lost /\ d \notin good => <<d, "fts">> \in lost'
      <3> HIDE DEF good
      <3>1. d \notin good => <<d, "fts">> \notin Entries(good, "fts")
        BY EntriesAre
      <3> QED
        BY <1>4, <3>1
    <2>5. d \in bad => <<d, "fts">> \in lost'
      BY <1>4, EntriesAre
    <2>6. stop /\ d > x.last => <<d, "fts">> \in lost'
      BY <1>4, EntriesAre DEF Beyond
    <2>7. <<d, "vec">> \in lost => <<d, "vec">> \in lost'
      BY <1>4, EntriesAre
    <2>8. stop /\ d \notin vec => <<d, "vec">> \in lost'
      BY <1>4, EntriesAre
    <2> QED
      BY <1>1, <2>2, <2>3, <2>4, <2>5, <2>6, <2>7, <2>8 DEF TextSafe, VecSafe
  <1>7. CASE stop
    <2>1. reb' = [reb EXCEPT ![r] = NoRebuild] /\ phase' = (IF r = AtStart THEN "ready" ELSE phase)
      BY <1>4, <1>7 DEF End
    <2>2. \A d \in docs : TextDue(x, d) => TextSafe(d)'
      BY <1>1, <1>6, <1>7 DEF TextDue
    <2> QED
      BY <1>1, <1>5, <1>6, <1>7, <2>1, <2>2, RebuildGoes, NoRebuildFits
  <1>8. CASE ~stop
    <2> DEFINE new == [x EXCEPT !.pc = "read text", !.batch = {}, !.failed = failed]
    <2>1. reb' = [reb EXCEPT ![r] = new] /\ phase' = phase
      BY <1>4, <1>8 DEF Goes
    <2>2. new \in RebuildAt(next - 1) /\ new.pc = "read text" /\ new.last = x.last
      BY <1>1, <1>3 DEF RebuildAt
    <2> HIDE DEF new
    <2>3. \A d \in docs : TextDue(x, d) => TextSafe(d)' \/ TextDue(new, d)
      BY <1>1, <1>6, <2>2 DEF TextDue
    <2>4. \A d \in docs : VecDue(new, d)
      BY <2>2 DEF VecDue
    <2> QED
      BY <1>1, <1>5, <1>6, <2>1, <2>2, <2>3, <2>4, RebuildGoes
  <1> QED
    BY <1>7, <1>8

LEMMA CompareKeeps ==
    ASSUME StartInv, NEW r \in Rebuilders, Compare(r)
    PROVE  StartInv'
  <1> DEFINE x == reb[r]
             missing == docs \ vec
             need == IF vec = {} THEN x.total ELSE Cardinality(missing)
             pc == IF missing = {} THEN "accept" ELSE IF vec = {} THEN "read new" ELSE "read missing"
             new == [x EXCEPT !.open = missing, !.last = 0, !.need = need, !.pc = pc]
  <1>1. /\ x \in RebuildAt(next - 1) /\ x.pc = "compare"
        /\ UNCHANGED <<docs, next, oldfts, row, done, step, adding, deleting, stamped, fts, vec, lost>>
        /\ reb' = [reb EXCEPT ![r] = new] /\ phase' = phase
    BY StartFacts DEF Compare, RAt, rest, docvars, dbvars, writers, Goes
  <1>2. fts' \in [Ids -> 0 .. 2] /\ vec' \subseteq Given
    BY <1>1, StartFacts
  <1>3. missing \in SUBSET (1 .. next - 1) /\ need \in Nat
    <2>1. missing \in SUBSET (1 .. next - 1) /\ Cardinality(missing) \in Nat
      BY StartFacts
    <2> QED
      BY <1>1, <2>1 DEF RebuildAt
  <1> HIDE DEF need
  <1>4. pc \in {"accept", "read new", "read missing"}
    OBVIOUS
  <1> HIDE DEF pc
  <1>5. new \in RebuildAt(next - 1) /\ new.pc = pc /\ new.open = missing
    BY <1>1, <1>3, <1>4 DEF RebuildAt
  <1> HIDE DEF new
  <1>6. ASSUME NEW d \in docs, VecSafe(d) \/ VecDue(x, d) PROVE VecSafe(d)' \/ VecDue(new, d)
    <2>1. CASE d \in vec
      BY <1>1, <2>1 DEF VecSafe
    <2>2. CASE d \notin vec
      <3>1. d \in missing /\ pc \in {"read new", "read missing"}
        BY <2>2 DEF pc
      <3> QED
        BY <1>5, <3>1 DEF VecDue
    <2> QED
      BY <2>1, <2>2
  <1>7. \A d \in docs : ~TextDue(x, d) /\ (TextSafe(d)' <=> TextSafe(d))
    BY <1>1 DEF TextDue, TextSafe
  <1> QED
    BY <1>1, <1>2, <1>4, <1>5, <1>6, <1>7, RebuildGoes

LEMMA ReadMissingKeeps ==
    ASSUME StartInv, NEW r \in Rebuilders, ReadMissing(r)
    PROVE  StartInv'
  <1> DEFINE x == reb[r]
             chunk == First(x.open, Batch)
             b == chunk \cap docs
  <1>1. /\ x \in RebuildAt(next - 1) /\ x.pc = "read missing" /\ x.open \in SUBSET (1 .. next - 1)
        /\ UNCHANGED <<docs, next, oldfts, row, done, step, adding, deleting, stamped, fts, vec>>
    BY StartFacts DEF ReadMissing, RAt, rest, docvars, dbvars, writers, RebuildAt
  <1>2. fts' \in [Ids -> 0 .. 2] /\ vec' \subseteq Given
    BY <1>1, StartFacts
  <1>3. IF chunk = {} THEN Goes(r, [x EXCEPT !.pc = "accept"]) /\ UNCHANGED lost
        ELSE IF b = {} THEN End(r) /\ lost' = lost \cup Entries(x.open, "vec")
        ELSE /\ Goes(r, [x EXCEPT !.pc = "write missing", !.batch = b, !.open = x.open \ chunk])
             /\ UNCHANGED lost
    BY DEF ReadMissing
  <1>4. /\ chunk \subseteq x.open
        /\ x.open # {} => chunk # {}
    <2>1. Batch \in Nat \ {0} /\ next - 1 \in Nat
      BY StartAssumption, StartFacts
    <2> QED
      BY <1>1, <2>1, FirstOf
  <1> HIDE DEF chunk
  <1>5. \A d \in docs : ~TextDue(x, d) /\ (TextSafe(d) => TextSafe(d)') /\ (VecSafe(d) => VecSafe(d)')
    <2>1. lost \subseteq lost'
      BY <1>3
    <2> QED
      BY <1>1, <2>1 DEF TextDue, TextSafe, VecSafe
  <1>6. \A d : VecDue(x, d) <=> d \in x.open
    BY <1>1 DEF VecDue
  <1>7. CASE chunk = {}
    <2> DEFINE new == [x EXCEPT !.pc = "accept"]
    <2>1. reb' = [reb EXCEPT ![r] = new] /\ phase' = phase
      BY <1>3, <1>7 DEF Goes
    <2>2. new \in RebuildAt(next - 1) /\ new.pc = "accept"
      BY <1>1 DEF RebuildAt
    <2> HIDE DEF new
    <2> QED
      BY <1>1, <1>2, <1>4, <1>5, <1>6, <1>7, <2>1, <2>2, RebuildGoes
  <1>8. CASE chunk # {} /\ b = {}
    <2>1. /\ reb' = [reb EXCEPT ![r] = NoRebuild] /\ phase' = (IF r = AtStart THEN "ready" ELSE phase)
          /\ lost' = lost \cup Entries(x.open, "vec")
      BY <1>3, <1>8 DEF End
    <2>2. \A d \in x.open : VecSafe(d)'
      BY <2>1, EntriesAre DEF VecSafe
    <2> QED
      BY <1>1, <1>2, <1>5, <1>6, <2>1, <2>2, RebuildGoes, NoRebuildFits
  <1>9. CASE chunk # {} /\ b # {}
    <2> DEFINE new == [x EXCEPT !.pc = "write missing", !.batch = b, !.open = x.open \ chunk]
    <2>1. reb' = [reb EXCEPT ![r] = new] /\ phase' = phase
      BY <1>3, <1>9 DEF Goes
    <2>2. b \in SUBSET (1 .. next - 1) /\ x.open \ chunk \in SUBSET (1 .. next - 1)
      BY <1>1, <1>4
    <2>3. /\ new \in RebuildAt(next - 1) /\ new.pc = "write missing" /\ new.batch = b
          /\ new.open = x.open \ chunk
      <3> HIDE DEF b
      <3> QED
        BY <1>1, <2>2 DEF RebuildAt
    <2> HIDE DEF new
    <2>4. \A d \in docs : VecDue(x, d) => VecDue(new, d)
      BY <1>6, <2>3 DEF VecDue
    <2> QED
      BY <1>1, <1>2, <1>5, <2>1, <2>3, <2>4, RebuildGoes
  <1> QED
    BY <1>7, <1>8, <1>9

\* What is lost in one index, or found again there, leaves the other alone.
LEMMA OtherIndex ==
    ASSUME NEW S, NEW T, lost' = (lost \ Entries(S, "vec")) \cup Entries(T, "vec"), fts' = fts
    PROVE  /\ \A d : TextSafe(d)' <=> TextSafe(d)
           /\ \A d \in T : <<d, "vec">> \in lost'
           /\ \A d : <<d, "vec">> \in lost /\ d \notin S => <<d, "vec">> \in lost'
  <1>1. /\ \A d : <<d, "fts">> \notin Entries(S, "vec") /\ <<d, "fts">> \notin Entries(T, "vec")
        /\ \A d \in T : <<d, "vec">> \in Entries(T, "vec")
        /\ \A d : d \notin S => <<d, "vec">> \notin Entries(S, "vec")
    BY EntriesAre
  <1>2. \A d : <<d, "fts">> \in lost' <=> <<d, "fts">> \in lost
    BY <1>1
  <1> QED
    BY <1>1, <1>2 DEF TextSafe

LEMMA WriteMissingKeeps ==
    ASSUME StartInv, NEW r \in Rebuilders, WriteMissing(r)
    PROVE  StartInv'
  <1> DEFINE x == reb[r]
             b == x.batch
             failed == x.failed \cup b
             stop == Exceeded(Cardinality(failed), x.need)
             gone == b \cup IF stop THEN x.open ELSE {}
             now == [x EXCEPT !.pc = "read missing", !.batch = {}]
             later == [x EXCEPT !.batch = {}, !.failed = failed, !.pc = IF stop THEN "accept" ELSE "read missing"]
  <1>1. /\ x \in RebuildAt(next - 1) /\ x.pc = "write missing" /\ phase' = phase
        /\ UNCHANGED <<docs, next, oldfts, row, done, step, adding, deleting, stamped, fts>>
    BY StartFacts DEF WriteMissing, RAt, rest, docvars, dbvars, writers, Goes
  <1>2. b \in SUBSET (1 .. next - 1) /\ failed \in SUBSET (1 .. next - 1)
    BY <1>1 DEF RebuildAt
  <1>3. fts' \in [Ids -> 0 .. 2]
    BY <1>1, StartFacts
  <1>4. \/ vec' = vec \cup b /\ lost' = lost \ Entries(b, "vec") /\ reb' = [reb EXCEPT ![r] = now]
        \/ vec' = vec /\ lost' = lost \cup Entries(gone, "vec") /\ reb' = [reb EXCEPT ![r] = later]
    BY DEF WriteMissing, Goes
  <1>5. \A d : ~TextDue(x, d) /\ (VecDue(x, d) <=> d \in x.open \/ d \in b)
    BY <1>1 DEF TextDue, VecDue
  <1>6. CASE vec' = vec \cup b /\ lost' = lost \ Entries(b, "vec") /\ reb' = [reb EXCEPT ![r] = now]
    <2>1. now \in RebuildAt(next - 1) /\ now.pc = "read missing" /\ now.open = x.open
      BY <1>1 DEF RebuildAt
    <2> HIDE DEF now
    <2>2. lost' = (lost \ Entries(b, "vec")) \cup Entries({}, "vec")
      BY <1>6 DEF Entries
    <2>3. /\ \A d : TextSafe(d)' <=> TextSafe(d)
          /\ \A d : <<d, "vec">> \in lost /\ d \notin b => <<d, "vec">> \in lost'
      BY <1>1, <2>2, OtherIndex
    <2>4. \A d \in docs : VecSafe(d) \/ VecDue(x, d) => VecSafe(d)' \/ VecDue(now, d)
      <3>1. \A d \in docs : d \in b \/ VecSafe(d) => VecSafe(d)'
        BY <1>6, <2>3 DEF VecSafe
      <3>2. \A d \in docs : d \in x.open => VecDue(now, d)
        BY <2>1 DEF VecDue
      <3> QED
        BY <1>5, <3>1, <3>2
    <2>5. vec' \subseteq Given
      BY <1>2, <1>6, StartFacts
    <2> QED
      BY <1>1, <1>3, <1>5, <1>6, <2>1, <2>3, <2>4, <2>5, RebuildGoes
  <1>7. CASE vec' = vec /\ lost' = lost \cup Entries(gone, "vec") /\ reb' = [reb EXCEPT ![r] = later]
    <2> HIDE DEF failed, stop
    <2>1. /\ later \in RebuildAt(next - 1) /\ later.pc \in {"accept", "read missing"} /\ later.open = x.open
          /\ later.pc = IF stop THEN "accept" ELSE "read missing"
      BY <1>1, <1>2 DEF RebuildAt
    <2> HIDE DEF later
    <2>2. lost' = (lost \ Entries({}, "vec")) \cup Entries(gone, "vec")
      BY <1>7 DEF Entries
    <2>3. /\ \A d : TextSafe(d)' <=> TextSafe(d)
          /\ \A d \in gone : <<d, "vec">> \in lost'
          /\ \A d : <<d, "vec">> \in lost => <<d, "vec">> \in lost'
      <3> HIDE DEF gone
      <3> QED
        BY <1>1, <2>2, OtherIndex
    <2>4. \A d \in docs : VecSafe(d) \/ VecDue(x, d) => VecSafe(d)' \/ VecDue(later, d)
      <3>1. \A d \in docs : d \in gone \/ VecSafe(d) => VecSafe(d)'
        BY <1>7, <2>3 DEF VecSafe
      <3>2. \A d \in docs : d \in x.open => d \in gone \/ VecDue(later, d)
        BY <2>1 DEF VecDue
      <3> QED
        BY <1>5, <3>1, <3>2
    <2>5. vec' \subseteq Given
      BY <1>7, StartFacts
    <2>6. later.pc # "none"
      BY <2>1
    <2> QED
      BY <1>1, <1>3, <1>5, <1>7, <2>1, <2>3, <2>4, <2>5, <2>6, RebuildGoes
  <1> QED
    BY <1>4, <1>6, <1>7

LEMMA ReadNewKeeps ==
    ASSUME StartInv, NEW r \in Rebuilders, ReadNew(r)
    PROVE  StartInv'
  <1> DEFINE x == reb[r]
             b == NextBatch(r)
  <1>1. /\ x \in RebuildAt(next - 1) /\ x.pc = "read new"
        /\ UNCHANGED <<docs, next, oldfts, row, done, step, adding, deleting, stamped, fts, vec, lost>>
    BY StartFacts DEF ReadNew, RAt, rest, docvars, dbvars, writers
  <1>2. fts' \in [Ids -> 0 .. 2] /\ vec' \subseteq Given
    BY <1>1, StartFacts
  <1>3. Beyond(r) \in SUBSET (1 .. next - 1) /\ next - 1 \in Nat
    BY StartFacts DEF Beyond
  <1>4. b \subseteq Beyond(r)
    <2>1. Batch \in Nat \ {0}
      BY StartAssumption
    <2> QED
      BY <1>3, <2>1, FirstOf DEF NextBatch
  <1>5. \A d : ~TextDue(x, d) /\ (TextSafe(d)' <=> TextSafe(d))
    BY <1>1 DEF TextDue, TextSafe
  <1> HIDE DEF b
  <1>6. CASE b = {}
    <2> DEFINE new == [x EXCEPT !.pc = "switch"]
    <2>1. reb' = [reb EXCEPT ![r] = new] /\ phase' = phase
      BY <1>6 DEF ReadNew, Goes, b
    <2>2. new \in RebuildAt(next - 1) /\ new.pc = "switch"
      BY <1>1 DEF RebuildAt
    <2> HIDE DEF new
    <2>3. \A d \in docs : VecDue(new, d)
      BY <2>2 DEF VecDue
    <2> QED
      BY <1>1, <1>2, <1>5, <2>1, <2>2, <2>3, RebuildGoes
  <1>7. CASE b # {}
    <2> DEFINE new == [x EXCEPT !.pc = "write new", !.batch = b, !.last = Max(b)]
    <2>1. reb' = [reb EXCEPT ![r] = new] /\ phase' = phase
      BY <1>7 DEF ReadNew, Goes, b
    <2>2. b \in SUBSET (1 .. next - 1)
      BY <1>3, <1>4
    <2>3. Max(b) \in Nat
      <3> DEFINE m == Max(b)
      <3>1. m \in 1 .. next - 1
        BY <1>3, <1>7, <2>2, GreatestOf
      <3> HIDE DEF m
      <3>2. m \in Nat
        BY <1>3, <3>1
      <3> QED
        BY <3>2 DEF m
    <2>4. new \in RebuildAt(next - 1) /\ new.pc = "write new"
      BY <1>1, <2>2, <2>3 DEF RebuildAt
    <2> HIDE DEF new
    <2>5. \A d \in docs : VecDue(new, d)
      BY <2>4 DEF VecDue
    <2> QED
      BY <1>1, <1>2, <1>5, <2>1, <2>4, <2>5, RebuildGoes
  <1> QED
    BY <1>6, <1>7

LEMMA WriteNewKeeps ==
    ASSUME StartInv, NEW r \in Rebuilders, WriteNew(r)
    PROVE  StartInv'
  <1> DEFINE x == reb[r]
             b == x.batch
             failed == x.failed \cup b
             stop == Exceeded(Cardinality(failed), x.need)
             gone == IF stop THEN docs \ vec ELSE b
             now == [x EXCEPT !.pc = "read new", !.batch = {}, !.temp = x.temp \cup b]
             later == [x EXCEPT !.batch = {}, !.failed = failed, !.pc = IF stop THEN "accept" ELSE "read new"]
  <1>1. /\ x \in RebuildAt(next - 1) /\ x.pc = "write new" /\ phase' = phase
        /\ UNCHANGED <<docs, next, oldfts, row, done, step, adding, deleting, stamped, fts, vec>>
    BY StartFacts DEF WriteNew, RAt, rest, docvars, dbvars, writers, Goes
  <1>2. failed \in SUBSET (1 .. next - 1) /\ x.temp \cup b \in SUBSET (1 .. next - 1)
    BY <1>1 DEF RebuildAt
  <1>3. fts' \in [Ids -> 0 .. 2] /\ vec' \subseteq Given
    BY <1>1, StartFacts
  <1>4. \/ lost' = lost /\ reb' = [reb EXCEPT ![r] = now]
        \/ lost' = lost \cup Entries(gone, "vec") /\ reb' = [reb EXCEPT ![r] = later]
    BY DEF WriteNew, Goes
  <1>5. \A d : ~TextDue(x, d)
    BY <1>1 DEF TextDue
  <1>6. CASE lost' = lost /\ reb' = [reb EXCEPT ![r] = now]
    <2> DEFINE temp == x.temp \cup b
    <2>1. now = [x EXCEPT !.pc = "read new", !.batch = {}, !.temp = temp]
      OBVIOUS
    <2> HIDE DEF temp, now
    <2>2. now \in RebuildAt(next - 1) /\ now.pc = "read new"
      <3>1. temp \in SUBSET (1 .. next - 1)
        BY <1>2 DEF temp
      <3> QED
        BY <1>1, <2>1, <3>1 DEF RebuildAt
    <2>3. \A d \in docs : VecDue(now, d)
      BY <2>2 DEF VecDue
    <2>4. \A d : TextSafe(d)' <=> TextSafe(d)
      BY <1>1, <1>6 DEF TextSafe
    <2> QED
      BY <1>1, <1>3, <1>5, <1>6, <2>2, <2>3, <2>4, RebuildGoes
  <1>7. CASE lost' = lost \cup Entries(gone, "vec") /\ reb' = [reb EXCEPT ![r] = later]
    <2> HIDE DEF failed, stop
    <2>1. /\ later \in RebuildAt(next - 1) /\ later.pc # "none"
          /\ later.pc = IF stop THEN "accept" ELSE "read new"
      BY <1>1, <1>2 DEF RebuildAt
    <2> HIDE DEF later
    <2>2. lost' = (lost \ Entries({}, "vec")) \cup Entries(gone, "vec")
      BY <1>7 DEF Entries
    <2>3. /\ \A d : TextSafe(d)' <=> TextSafe(d)
          /\ \A d \in gone : <<d, "vec">> \in lost'
      <3> HIDE DEF gone
      <3> QED
        BY <1>1, <2>2, OtherIndex
    <2>4. \A d \in docs : VecSafe(d)' \/ VecDue(later, d)
      <3>1. CASE stop
        BY <1>1, <2>3, <3>1 DEF VecSafe
      <3>2. CASE ~stop
        BY <2>1, <3>2 DEF VecDue
      <3> QED
        BY <3>1, <3>2
    <2> QED
      BY <1>1, <1>3, <1>5, <1>7, <2>1, <2>3, <2>4, RebuildGoes
  <1> QED
    BY <1>4, <1>6, <1>7

LEMMA SwitchKeeps ==
    ASSUME StartInv, NEW r \in Rebuilders, Switch(r)
    PROVE  StartInv'
  <1> DEFINE x == reb[r]
             new == [x EXCEPT !.pc = "accept"]
  <1>1. /\ x \in RebuildAt(next - 1) /\ x.pc = "switch" /\ phase' = phase
        /\ UNCHANGED <<docs, next, oldfts, row, done, step, adding, deleting, stamped, fts>>
        /\ reb' = [reb EXCEPT ![r] = new]
    BY StartFacts DEF Switch, RAt, rest, docvars, dbvars, writers, Goes
  <1>2. lost' = lost \cup Entries(docs \ vec', "vec") /\ vec' \in {vec, x.temp}
    BY DEF Switch
  <1>3. fts' \in [Ids -> 0 .. 2] /\ vec' \subseteq Given
    <2>1. x.temp \subseteq Given
      BY <1>1, StartFacts DEF RebuildAt
    <2> QED
      BY <1>1, <1>2, <2>1, StartFacts
  <1>4. new \in RebuildAt(next - 1) /\ new.pc # "none"
    BY <1>1 DEF RebuildAt
  <1> HIDE DEF new
  <1>5. lost' = (lost \ Entries({}, "vec")) \cup Entries(docs \ vec', "vec")
    BY <1>2 DEF Entries
  <1>6. /\ \A d : TextSafe(d)' <=> TextSafe(d)
        /\ \A d \in docs \ vec' : <<d, "vec">> \in lost'
    BY <1>1, <1>5, OtherIndex
  <1>7. \A d \in docs : ~TextDue(x, d) /\ VecSafe(d)'
    BY <1>1, <1>6 DEF TextDue, VecSafe
  <1> QED
    BY <1>1, <1>3, <1>4, <1>6, <1>7, RebuildGoes

LEMMA AcceptKeeps ==
    ASSUME StartInv, NEW r \in Rebuilders, Accept(r)
    PROVE  StartInv'
  <1> DEFINE x == reb[r]
  <1>1. /\ x \in RebuildAt(next - 1) /\ x.pc = "accept"
        /\ UNCHANGED <<docs, next, oldfts, row, done, step, adding, deleting, stamped, fts, vec, lost>>
        /\ reb' = [reb EXCEPT ![r] = NoRebuild] /\ phase' = (IF r = AtStart THEN "ready" ELSE phase)
    BY StartFacts DEF Accept, RAt, rest, docvars, dbvars, writers, End
  <1>2. fts' \in [Ids -> 0 .. 2] /\ vec' \subseteq Given
    BY <1>1, StartFacts
  <1>3. \A d \in docs : /\ ~TextDue(x, d) /\ ~VecDue(x, d)
                         /\ (TextSafe(d) => TextSafe(d)') /\ (VecSafe(d) => VecSafe(d)')
    BY <1>1 DEF TextDue, VecDue, TextSafe, VecSafe
  <1> QED
    BY <1>1, <1>2, <1>3, RebuildGoes, NoRebuildFits

\* A new rebuild is still to write everything.
LEMMA BeginCovers ==
    ASSUME StartInv, NEW r \in Rebuilders, Begin(r)
    PROVE  /\ reb' \in [Rebuilders -> RebuildAt(next - 1)]
           /\ reb'[r] # NoRebuild /\ \A q \in Rebuilders : q # r => reb'[q] = reb[q]
           /\ \A d : TextDue(reb'[r], d) /\ VecDue(reb'[r], d)
  <1> DEFINE new == [NoRebuild EXCEPT !.pc = "count"]
  <1>1. reb' = [reb EXCEPT ![r] = new] /\ reb \in [Rebuilders -> RebuildAt(next - 1)]
    BY StartFacts DEF Begin
  <1>2. new \in RebuildAt(next - 1) /\ new.pc = "count" /\ NoRebuild.pc = "none"
    BY DEF NoRebuild, RebuildAt
  <1> HIDE DEF new
  <1>3. new # NoRebuild /\ \A d : TextDue(new, d) /\ VecDue(new, d)
    BY <1>2 DEF TextDue, VecDue
  <1> QED
    BY <1>1, <1>2, <1>3

LEMMA BootKeeps == StartInv /\ Boot => StartInv'
  <1> SUFFICES ASSUME StartInv, Boot PROVE StartInv'
    OBVIOUS
  <1>1. /\ phase = "off" /\ step' \in {Version, 1}
        /\ phase' = IF step' >= Current THEN "engine" ELSE "migrate"
        /\ UNCHANGED <<docs, next, fts, oldfts, row, done, vec, flag, reb, adding, deleting, stamped, lost>>
    BY DEF Boot, docvars, dbvars, writers
  <1>2. Current \in Nat \ {0} /\ row \in 0 .. Current
    BY StartAssumption DEF StartInv, StartTypes
  <1>3. step' \in 1 .. Current /\ (step' = row \/ step' = 1 \/ step' = Current) /\ (step' = row => row # 0)
    <2>1. Version \in {row, 1, Current} /\ (Version = row => row # 0 \/ Version \in {1, Current})
      BY DEF Version
    <2>2. Version \in 1 .. Current
      BY <1>2 DEF Version
    <2> HIDE DEF Version
    <2> QED
      BY <1>1, <1>2, <2>1, <2>2
  <1>4. StartTypes' /\ phase' \in {"engine", "migrate"}
    BY <1>1, <1>2, <1>3 DEF StartInv, StartTypes, Given
  <1>5. PhaseInv'
    BY <1>1, <1>3, <1>4 DEF StartInv, PhaseInv
  <1>6. StepInv'
    <2> SUFFICES ASSUME phase' = "migrate", ~stamped, NEW k \in Steps, k < step' PROVE k \in done
      BY <1>1 DEF StepInv
    <2>1. step' < Current
      BY <1>1, <1>2, <1>3
    <2>2. step' = row /\ row # 0
      BY <1>2, <1>3, <2>1 DEF Steps
    <2> QED
      BY <2>2 DEF StartInv, VersionHonest
  <1>7. TextInv' /\ VecInv' /\ VersionHonest'
    BY <1>1, <1>4 DEF StartInv, TextInv, VecInv, VersionHonest, Serving
  <1> QED
    BY <1>4, <1>5, <1>6, <1>7 DEF StartInv

LEMMA StepDoneKeeps == StartInv /\ StepDone => StartInv'
  <1> SUFFICES ASSUME StartInv, StepDone PROVE StartInv'
    OBVIOUS
  <1>1. /\ phase = "migrate" /\ step < Current /\ done' = done \cup {step} /\ step' = step + 1
        /\ UNCHANGED <<docs, next, row, vec, phase, reb, adding, deleting, stamped, lost>>
    BY DEF StepDone, docvars, writers
  <1>2. Current \in Nat \ {0} /\ step \in 1 .. Current - 1
    <2>1. Current \in Nat /\ step \in 0 .. Current /\ step # 0
      BY <1>1, StartAssumption DEF StartInv, StartTypes, PhaseInv
    <2> QED
      BY <1>1, <2>1
  <1>3. fts' \in [Ids -> 0 .. 2] /\ oldfts' \subseteq Ids
    <2>1. fts \in [Ids -> 0 .. 2] /\ oldfts \subseteq Ids
      BY DEF StartInv, StartTypes
    <2>2. [i \in Ids |-> IF i \in oldfts THEN 1 ELSE 0] \in [Ids -> 0 .. 2]
      OBVIOUS
    <2>3. \/ fts' = fts /\ oldfts' = oldfts
          \/ fts' = [i \in Ids |-> IF i \in oldfts THEN 1 ELSE 0] /\ oldfts' = {}
      BY DEF StepDone, MoveFts
    <2> QED
      BY <2>1, <2>2, <2>3
  <1>4. done' \subseteq Steps /\ step' \in 0 .. Current /\ step' # 0
    <2>1. done \subseteq Steps
      BY DEF StartInv, StartTypes
    <2> QED
      BY <1>1, <1>2, <2>1 DEF Steps
  <1>5. StartTypes'
    BY <1>1, <1>3, <1>4 DEF StartInv, StartTypes, Given
  <1>6. PhaseInv'
    BY <1>1, <1>4 DEF StartInv, PhaseInv
  <1>7. StepInv'
    <2> SUFFICES ASSUME ~stamped, NEW k \in Steps, k < step' PROVE k \in done'
      BY <1>1 DEF StepInv
    <2>1. k < step \/ k = step
      BY <1>1, <1>2 DEF Steps
    <2> QED
      BY <1>1, <2>1 DEF StartInv, StepInv
  <1>8. TextInv' /\ VecInv' /\ VersionHonest'
    <2>1. ~Serving'
      BY <1>1 DEF Serving
    <2> QED
      BY <1>1, <2>1 DEF StartInv, TextInv, VecInv, VersionHonest
  <1> QED
    BY <1>5, <1>6, <1>7, <1>8 DEF StartInv

LEMMA StepFailsKeeps == StartInv /\ StepFails => StartInv'
  <1> SUFFICES ASSUME StartInv, StepFails PROVE StartInv'
    OBVIOUS
  <1>1. /\ phase = "migrate" /\ phase' = "engine" /\ step' = 0
        /\ UNCHANGED <<docs, next, fts, oldfts, row, done, vec, flag, reb, adding, deleting, stamped, lost>>
    BY DEF StepFails, docvars, dbvars, writers
  <1>2. StartTypes' /\ PhaseInv'
    BY <1>1, StartAssumption DEF StartInv, StartTypes, PhaseInv, Given
  <1>3. TextInv' /\ VecInv' /\ StepInv' /\ VersionHonest'
    BY <1>1 DEF StartInv, TextInv, VecInv, StepInv, VersionHonest, Serving
  <1> QED
    BY <1>2, <1>3 DEF StartInv

LEMMA SetVersionKeeps == StartInv /\ SetVersion => StartInv'
  <1> SUFFICES ASSUME StartInv, SetVersion PROVE StartInv'
    OBVIOUS
  <1>1. /\ phase = "migrate" /\ step = Current /\ phase' = "engine" /\ step' = 0 /\ row' = Current
        /\ UNCHANGED <<docs, next, fts, oldfts, done, vec, flag, reb, adding, deleting, stamped, lost>>
    BY DEF SetVersion, docvars, writers
  <1>2. StartTypes' /\ PhaseInv'
    <2>1. Current \in 0 .. Current /\ 0 \in 0 .. Current
      BY StartAssumption
    <2> QED
      BY <1>1, <2>1 DEF StartInv, StartTypes, PhaseInv, Given
  <1>3. TextInv' /\ VecInv' /\ StepInv'
    BY <1>1 DEF StartInv, TextInv, VecInv, StepInv, Serving
  <1>4. VersionHonest'
    BY <1>1 DEF StartInv, StepInv, VersionHonest
  <1> QED
    BY <1>2, <1>3, <1>4 DEF StartInv

LEMMA EngineInitKeeps == StartInv /\ EngineInit => StartInv'
  <1> SUFFICES ASSUME StartInv, EngineInit PROVE StartInv'
    OBVIOUS
  <1>1. /\ phase = "engine" /\ phase' = "status" /\ step' = 0
        /\ row' = (IF row = 0 THEN Current ELSE row)
        /\ stamped' = (stamped \/ (row = 0 /\ done # Steps))
        /\ UNCHANGED <<docs, next, fts, oldfts, done, vec, flag, reb, adding, deleting, lost>>
    BY DEF EngineInit, docvars, writers
  <1>2. StartTypes' /\ PhaseInv'
    <2>1. Current \in 0 .. Current /\ 0 \in 0 .. Current
      BY StartAssumption
    <2> QED
      BY <1>1, <2>1 DEF StartInv, StartTypes, PhaseInv, Given
  <1>3. TextInv' /\ VecInv' /\ StepInv'
    BY <1>1 DEF StartInv, TextInv, VecInv, StepInv, Serving
  <1>4. VersionHonest'
    <2>1. CASE row = 0
      BY <1>1, <2>1 DEF VersionHonest
    <2>2. CASE row # 0
      BY <1>1, <2>2 DEF StartInv, VersionHonest
    <2> QED
      BY <2>1, <2>2
  <1> QED
    BY <1>2, <1>3, <1>4 DEF StartInv

LEMMA CheckKeeps == StartInv /\ Check => StartInv'
  <1> SUFFICES ASSUME StartInv, Check PROVE StartInv'
    OBVIOUS
  <1>1. /\ phase = "status" /\ AtStart \in Rebuilders
        /\ UNCHANGED <<docs, next, fts, oldfts, row, done, vec, flag, step, adding, deleting, stamped, lost>>
        /\ \/ Begin(AtStart) /\ phase' = "rebuild"
           \/ ~Inconsistent /\ reb' = reb /\ phase' = "ready"
    BY StartAssumption DEF Check, docvars, dbvars, writers
  <1>2. /\ reb[AtStart] = NoRebuild
        /\ \A r \in Rebuilders \ {AtStart} : reb[r] = NoRebuild
        /\ adding.pc = "none" /\ deleting.pc = "none"
    BY <1>1 DEF StartInv, PhaseInv
  <1>3. StepInv' /\ VersionHonest'
    BY <1>1 DEF StartInv, StepInv, VersionHonest
  <1>4. CASE Begin(AtStart) /\ phase' = "rebuild"
    <2>1. /\ reb' \in [Rebuilders -> RebuildAt(next - 1)]
          /\ reb'[AtStart] # NoRebuild /\ \A q \in Rebuilders : q # AtStart => reb'[q] = reb[q]
          /\ \A d : TextDue(reb'[AtStart], d) /\ VecDue(reb'[AtStart], d)
      BY <1>1, <1>4, BeginCovers
    <2>2. StartTypes'
      BY <1>1, <1>4, <2>1 DEF StartInv, StartTypes, Given
    <2>3. PhaseInv'
      BY <1>1, <1>2, <1>4, <2>1 DEF PhaseInv
    <2>4. TextInv' /\ VecInv'
      BY <1>1, <2>1 DEF TextInv, VecInv
    <2> QED
      BY <1>3, <2>2, <2>3, <2>4 DEF StartInv
  <1>5. CASE ~Inconsistent /\ reb' = reb /\ phase' = "ready"
    <2>1. StartTypes' /\ PhaseInv'
      BY <1>1, <1>2, <1>5 DEF StartInv, StartTypes, PhaseInv, Given
    <2>2. \A d \in docs : d \in Indexed /\ d \in vec
      BY <1>5 DEF Inconsistent
    <2>3. TextInv' /\ VecInv'
      BY <1>1, <2>2 DEF TextInv, VecInv, TextSafe, VecSafe, Indexed
    <2> QED
      BY <1>3, <2>1, <2>3 DEF StartInv
  <1> QED
    BY <1>1, <1>4, <1>5

LEMMA CommandKeeps ==
    ASSUME StartInv, NEW r \in Rebuilders, r # AtStart, Command(r)
    PROVE  StartInv'
  <1>1. /\ phase = "ready" /\ Begin(r)
        /\ UNCHANGED <<docs, next, fts, oldfts, row, done, vec, flag, phase, step, adding, deleting, stamped, lost>>
    BY DEF Command, docvars, dbvars, writers
  <1>2. /\ reb' \in [Rebuilders -> RebuildAt(next - 1)]
        /\ reb'[r] # NoRebuild /\ \A q \in Rebuilders : q # r => reb'[q] = reb[q]
        /\ \A d : TextDue(reb'[r], d) /\ VecDue(reb'[r], d)
    BY <1>1, BeginCovers
  <1>3. StartTypes'
    BY <1>1, <1>2 DEF StartInv, StartTypes, Given
  <1>4. PhaseInv'
    <2>1. AtStart \in Rebuilders
      BY StartAssumption
    <2> QED
      BY <1>1, <1>2, <2>1 DEF StartInv, PhaseInv
  <1>5. TextInv' /\ VecInv'
    BY <1>1, <1>2 DEF TextInv, VecInv
  <1>6. StepInv' /\ VersionHonest'
    BY <1>1 DEF StartInv, StepInv, VersionHonest
  <1> QED
    BY <1>3, <1>4, <1>5, <1>6 DEF StartInv

\* The actions of memories that come and go, and what they share.
LEMMA ReadyOnly ==
    ASSUME StartInv,
           phase = "ready" \/ adding.pc # "none" \/ deleting.pc # "none",
           UNCHANGED <<oldfts, row, done, flag, phase, step, reb, stamped>>
    PROVE  phase = "ready" /\ Serving /\ Serving' /\ StepInv' /\ VersionHonest'
  <1>1. phase = "ready"
    BY DEF StartInv, PhaseInv
  <1> QED
    BY <1>1 DEF StartInv, StepInv, VersionHonest, Serving

LEMMA AddDocumentKeeps == StartInv /\ AddDocument => StartInv'
  <1> SUFFICES ASSUME StartInv, AddDocument PROVE StartInv'
    OBVIOUS
  <1>1. /\ phase = "ready" /\ adding.pc = "none" /\ next <= MaxDocs
        /\ docs' = docs \cup {next} /\ next' = next + 1 /\ adding' = [pc |-> "vector", doc |-> next]
        /\ UNCHANGED <<oldfts, row, done, flag, phase, step, reb, stamped, fts, vec, deleting, lost>>
    BY DEF AddDocument, others, dbvars
  <1>2. next \in 1 .. MaxDocs + 1 /\ MaxDocs \in Nat /\ next \in Nat \ {0} /\ adding.doc = 0
    BY <1>1, StartAssumption DEF StartInv, StartTypes
  <1>3. StartTypes'
    <2>1. next' \in 1 .. MaxDocs + 1 /\ docs' \subseteq 1 .. next' - 1 /\ vec' \subseteq 1 .. next' - 1
      <3>1. docs \subseteq 1 .. next - 1 /\ vec \subseteq 1 .. next - 1
        BY StartFacts
      <3>2. next' \in 1 .. MaxDocs + 1 /\ next' - 1 = next
        BY <1>1, <1>2
      <3>3. 1 .. next - 1 \subseteq 1 .. next /\ next \in 1 .. next
        BY <1>2
      <3> QED
        BY <1>1, <3>1, <3>2, <3>3
    <2>2. reb' \in [Rebuilders -> RebuildAt(next' - 1)]
      <3>1. 1 .. next - 1 \subseteq 1 .. next' - 1
        BY <1>1, <1>2
      <3>2. RebuildAt(next - 1) \subseteq RebuildAt(next' - 1)
        <4> DEFINE m == next - 1
                   n == next' - 1
        <4>1. SUBSET (1 .. m) \subseteq SUBSET (1 .. n)
          BY <3>1
        <4> HIDE DEF m, n
        <4>2. RebuildAt(m) \subseteq RebuildAt(n)
          BY <4>1 DEF RebuildAt
        <4> QED
          BY <4>2 DEF m, n
      <3>3. reb \in [Rebuilders -> RebuildAt(next - 1)]
        BY StartFacts
      <3> QED
        BY <1>1, <3>2, <3>3
    <2>3. adding' \in [pc : {"none", "vector", "text"}, doc : 0 .. next' - 1] /\ adding'.doc # 0 /\ adding'.pc # "none"
      BY <1>1, <1>2
    <2>4. deleting' \in [pc : {"none", "rest"}, doc : 0 .. next' - 1]
      <3>1. 0 .. next - 1 \subseteq 0 .. next' - 1
        BY <1>1, <1>2
      <3>2. deleting \in [pc : {"none", "rest"}, doc : 0 .. next - 1]
        BY DEF StartInv, StartTypes
      <3> QED
        BY <1>1, <3>1, <3>2
    <2> QED
      BY <1>1, <2>1, <2>2, <2>3, <2>4 DEF StartInv, StartTypes, Given
  <1>4. PhaseInv'
    BY <1>1 DEF StartInv, PhaseInv
  <1>5. Serving /\ StepInv' /\ VersionHonest'
    BY <1>1, ReadyOnly
  <1>6. TextInv'
    <2> SUFFICES ASSUME NEW d \in docs' \ Busy'
                 PROVE  TextSafe(d)' \/ \E q \in Rebuilders : TextDue(reb'[q], d)
      BY DEF TextInv
    <2>1. d \in docs /\ d # deleting.doc
      BY <1>1 DEF Busy
    <2>2. d # 0
      BY <2>1, StartFacts
    <2>3. d \in docs \ Busy
      BY <1>2, <2>1, <2>2 DEF Busy
    <2>4. TextSafe(d) \/ \E q \in Rebuilders : TextDue(reb[q], d)
      BY <1>5, <2>3 DEF StartInv, TextInv
    <2> QED
      BY <1>1, <2>4 DEF TextSafe
  <1>7. VecInv'
    <2> SUFFICES ASSUME NEW d \in docs', d # next
                 PROVE  VecSafe(d)' \/ \E q \in Rebuilders : VecDue(reb'[q], d)
      BY <1>1 DEF VecInv
    <2>1. VecSafe(d) \/ \E q \in Rebuilders : VecDue(reb[q], d)
      BY <1>1, <1>5 DEF StartInv, VecInv
    <2> QED
      BY <1>1, <2>1 DEF VecSafe
  <1> QED
    BY <1>3, <1>4, <1>5, <1>6, <1>7 DEF StartInv

LEMMA AddVectorKeeps == StartInv /\ AddVector => StartInv'
  <1> SUFFICES ASSUME StartInv, AddVector PROVE StartInv'
    OBVIOUS
  <1>1. /\ adding.pc = "vector"
        /\ vec' = vec \cup {adding.doc} /\ lost' = lost \ Entries({adding.doc}, "vec")
        /\ adding' = [adding EXCEPT !.pc = "text"]
        /\ UNCHANGED <<oldfts, row, done, flag, phase, step, reb, stamped, docs, next, fts, deleting>>
    BY DEF AddVector, others, dbvars, docvars
  <1>2. /\ adding \in [pc : {"none", "vector", "text"}, doc : 0 .. next - 1] /\ adding.doc # 0
        /\ adding.doc \in Given
    BY <1>1, StartFacts DEF StartInv, StartTypes
  <1>3. adding' \in [pc : {"none", "vector", "text"}, doc : 0 .. next - 1] /\ adding'.doc = adding.doc
        /\ adding'.pc = "text"
    BY <1>1, <1>2
  <1>4. phase = "ready" /\ Serving /\ StepInv' /\ VersionHonest'
    BY <1>1, ReadyOnly
  <1>5. StartTypes' /\ PhaseInv'
    BY <1>1, <1>2, <1>3, <1>4 DEF StartInv, StartTypes, PhaseInv, Given
  <1>6. lost' = (lost \ Entries({adding.doc}, "vec")) \cup Entries({}, "vec")
    BY <1>1 DEF Entries
  <1>7. /\ \A d : TextSafe(d)' <=> TextSafe(d)
        /\ \A d : <<d, "vec">> \in lost /\ d # adding.doc => <<d, "vec">> \in lost'
    <2>1. /\ \A d : TextSafe(d)' <=> TextSafe(d)
          /\ \A d : <<d, "vec">> \in lost /\ d \notin {adding.doc} => <<d, "vec">> \in lost'
      BY <1>1, <1>6, OtherIndex
    <2> QED
      BY <2>1
  <1>8. TextInv'
    <2> SUFFICES ASSUME NEW d \in docs \ Busy
                 PROVE  TextSafe(d)' \/ \E q \in Rebuilders : TextDue(reb'[q], d)
      BY <1>1, <1>3 DEF TextInv, Busy
    <2>1. TextSafe(d) \/ \E q \in Rebuilders : TextDue(reb[q], d)
      BY <1>4 DEF StartInv, TextInv
    <2> QED
      BY <1>1, <1>7, <2>1
  <1>9. VecInv'
    <2> SUFFICES ASSUME NEW d \in docs
                 PROVE  VecSafe(d)' \/ \E q \in Rebuilders : VecDue(reb'[q], d)
      BY <1>1 DEF VecInv
    <2>1. CASE d = adding.doc
      BY <1>1, <2>1 DEF VecSafe
    <2>2. CASE d # adding.doc
      <3>1. VecSafe(d) \/ \E q \in Rebuilders : VecDue(reb[q], d)
        BY <1>4, <2>2 DEF StartInv, VecInv
      <3> QED
        BY <1>1, <1>7, <2>2, <3>1 DEF VecSafe
    <2> QED
      BY <2>1, <2>2
  <1> QED
    BY <1>4, <1>5, <1>8, <1>9 DEF StartInv

LEMMA AddTextKeeps == StartInv /\ AddText => StartInv'
  <1> SUFFICES ASSUME StartInv, AddText PROVE StartInv'
    OBVIOUS
  <1>1. /\ adding.pc = "text" /\ fts' = [fts EXCEPT ![adding.doc] = More(@)]
        /\ adding' = [pc |-> "none", doc |-> 0]
        /\ UNCHANGED <<oldfts, row, done, flag, phase, step, reb, stamped, docs, next, vec, deleting, lost>>
    BY DEF AddText, others, dbvars, docvars
  <1>2. phase = "ready" /\ Serving /\ StepInv' /\ VersionHonest'
    BY <1>1, ReadyOnly
  <1>3. /\ fts \in [Ids -> 0 .. 2] /\ next - 1 \in Nat /\ docs \subseteq Ids
        /\ \A d \in Ids : fts[d] \in 0 .. 2 /\ More(fts[d]) \in 0 .. 2 /\ More(fts[d]) > 0
    BY StartFacts, MoreIs
  <1>4. /\ fts' \in [Ids -> 0 .. 2]
        /\ \A d \in Ids : fts'[d] = IF d = adding.doc THEN More(fts[d]) ELSE fts[d]
    BY <1>1, <1>3
  <1>5. StartTypes' /\ PhaseInv'
    <2>1. 0 \in 0 .. next - 1
      BY <1>3
    <2> QED
      BY <1>1, <1>2, <1>4, <2>1 DEF StartInv, StartTypes, PhaseInv, Given
  <1>6. TextInv'
    <2> SUFFICES ASSUME NEW d \in docs, d # deleting.doc
                 PROVE  TextSafe(d)' \/ \E q \in Rebuilders : TextDue(reb'[q], d)
      BY <1>1 DEF TextInv, Busy
    <2>1. CASE d = adding.doc
      BY <1>3, <1>4, <2>1 DEF TextSafe
    <2>2. CASE d # adding.doc
      <3>1. TextSafe(d) \/ \E q \in Rebuilders : TextDue(reb[q], d)
        BY <1>2, <2>2 DEF StartInv, TextInv, Busy
      <3>2. fts'[d] = fts[d]
        BY <1>3, <1>4, <2>2
      <3> QED
        BY <1>1, <3>1, <3>2 DEF TextSafe
    <2> QED
      BY <2>1, <2>2
  <1>7. VecInv'
    <2> SUFFICES ASSUME NEW d \in docs
                 PROVE  VecSafe(d)' \/ \E q \in Rebuilders : VecDue(reb'[q], d)
      BY <1>1 DEF VecInv
    <2>1. VecSafe(d) \/ \E q \in Rebuilders : VecDue(reb[q], d)
      BY <1>1, <1>2 DEF StartInv, VecInv
    <2> QED
      BY <1>1, <2>1 DEF VecSafe
  <1> QED
    BY <1>2, <1>5, <1>6, <1>7 DEF StartInv

LEMMA DeleteTextKeeps ==
    ASSUME StartInv, NEW k \in Ids, DeleteText(k)
    PROVE  StartInv'
  <1>1. /\ phase = "ready" /\ deleting.pc = "none" /\ k \in docs /\ fts' = [fts EXCEPT ![k] = 0]
        /\ deleting' = [pc |-> "rest", doc |-> k]
        /\ UNCHANGED <<oldfts, row, done, flag, phase, step, reb, stamped, docs, next, vec, adding, lost>>
    BY DEF DeleteText, others, dbvars, docvars
  <1>2. Serving /\ StepInv' /\ VersionHonest'
    BY <1>1, ReadyOnly
  <1>3. /\ fts \in [Ids -> 0 .. 2] /\ docs \subseteq Ids /\ k \in 0 .. next - 1 /\ k # 0 /\ 0 \notin docs
    BY <1>1, StartFacts
  <1>4. /\ fts' \in [Ids -> 0 .. 2] /\ \A d \in Ids : d # k => fts'[d] = fts[d]
    BY <1>1, <1>3
  <1>5. StartTypes' /\ PhaseInv'
    BY <1>1, <1>3, <1>4 DEF StartInv, StartTypes, PhaseInv, Given
  <1>6. TextInv'
    <2> SUFFICES ASSUME NEW d \in docs, d # adding.doc, d # k
                 PROVE  TextSafe(d)' \/ \E q \in Rebuilders : TextDue(reb'[q], d)
      BY <1>1 DEF TextInv, Busy
    <2>1. d # deleting.doc
      BY <1>1, <1>3 DEF StartInv, StartTypes
    <2>2. TextSafe(d) \/ \E q \in Rebuilders : TextDue(reb[q], d)
      BY <1>2, <2>1 DEF StartInv, TextInv, Busy
    <2> QED
      BY <1>1, <1>3, <1>4, <2>2 DEF TextSafe
  <1>7. VecInv'
    <2> SUFFICES ASSUME NEW d \in docs, ~ (adding.pc = "vector" /\ adding.doc = d)
                 PROVE  VecSafe(d)' \/ \E q \in Rebuilders : VecDue(reb'[q], d)
      BY <1>1 DEF VecInv
    <2>1. VecSafe(d) \/ \E q \in Rebuilders : VecDue(reb[q], d)
      BY <1>2 DEF StartInv, VecInv
    <2> QED
      BY <1>1, <2>1 DEF VecSafe
  <1> QED
    BY <1>2, <1>5, <1>6, <1>7 DEF StartInv

LEMMA DeleteRestKeeps == StartInv /\ DeleteRest => StartInv'
  <1> SUFFICES ASSUME StartInv, DeleteRest PROVE StartInv'
    OBVIOUS
  <1>1. /\ deleting.pc = "rest" /\ docs' = docs \ {deleting.doc} /\ vec' = vec \ {deleting.doc}
        /\ deleting' = [pc |-> "none", doc |-> 0]
        /\ UNCHANGED <<oldfts, row, done, flag, phase, step, reb, stamped, next, fts, adding, lost>>
    BY DEF DeleteRest, others, dbvars
  <1>2. phase = "ready" /\ Serving /\ StepInv' /\ VersionHonest'
    BY <1>1, ReadyOnly
  <1>3. StartTypes' /\ PhaseInv'
    <2>1. 0 \in 0 .. next - 1
      BY StartFacts
    <2> QED
      BY <1>1, <1>2, <2>1 DEF StartInv, StartTypes, PhaseInv, Given
  <1>4. TextInv'
    <2> SUFFICES ASSUME NEW d \in docs \ Busy
                 PROVE  TextSafe(d)' \/ \E q \in Rebuilders : TextDue(reb'[q], d)
      BY <1>1 DEF TextInv, Busy
    <2>1. TextSafe(d) \/ \E q \in Rebuilders : TextDue(reb[q], d)
      BY <1>2 DEF StartInv, TextInv
    <2> QED
      BY <1>1, <2>1 DEF TextSafe
  <1>5. VecInv'
    <2> SUFFICES ASSUME NEW d \in docs, d # deleting.doc, ~ (adding.pc = "vector" /\ adding.doc = d)
                 PROVE  VecSafe(d)' \/ \E q \in Rebuilders : VecDue(reb'[q], d)
      BY <1>1 DEF VecInv
    <2>1. VecSafe(d) \/ \E q \in Rebuilders : VecDue(reb[q], d)
      BY <1>2 DEF StartInv, VecInv
    <2> QED
      BY <1>1, <2>1 DEF VecSafe
  <1> QED
    BY <1>2, <1>3, <1>4, <1>5 DEF StartInv

LEMMA StartCrashKeeps == StartInv /\ Crash => StartInv'
  <1> SUFFICES ASSUME StartInv, Crash PROVE StartInv'
    OBVIOUS
  <1>1. /\ phase' = "off" /\ step' = 0 /\ reb' = [r \in Rebuilders |-> NoRebuild]
        /\ adding' = [pc |-> "none", doc |-> 0] /\ deleting' = [pc |-> "none", doc |-> 0]
        /\ UNCHANGED <<docs, next, fts, oldfts, row, done, vec, stamped>>
    BY DEF Crash, docvars, dbvars
  <1>2. reb' \in [Rebuilders -> RebuildAt(next' - 1)] /\ AtStart \in Rebuilders
    BY <1>1, NoRebuildFits, StartAssumption
  <1>3. 0 \in 0 .. next - 1 /\ 0 \in 0 .. Current
    BY StartFacts, StartAssumption
  <1>4. StartTypes' /\ PhaseInv'
    BY <1>1, <1>2, <1>3 DEF StartInv, StartTypes, PhaseInv, Given
  <1>5. TextInv' /\ VecInv' /\ StepInv' /\ VersionHonest'
    BY <1>1 DEF StartInv, TextInv, VecInv, StepInv, VersionHonest, Serving
  <1> QED
    BY <1>4, <1>5 DEF StartInv

LEMMA StartKept == StartInv /\ [Next]_vars => StartInv'
  <1> SUFFICES ASSUME StartInv, [Next]_vars PROVE StartInv'
    OBVIOUS
  <1>1. CASE UNCHANGED vars
    <2>1. UNCHANGED <<docs, next, fts, oldfts, row, done, vec, flag, phase, step, reb, adding, deleting, stamped, lost>>
      BY <1>1 DEF vars, docvars, dbvars, writers
    <2>2. StartTypes' /\ PhaseInv'
      BY <2>1 DEF StartInv, StartTypes, PhaseInv, Given
    <2>3. TextInv' /\ VecInv'
      BY <2>1 DEF StartInv, TextInv, VecInv, TextSafe, VecSafe, Serving, Busy
    <2>4. StepInv' /\ VersionHonest'
      BY <2>1 DEF StartInv, StepInv, VersionHonest
    <2> QED
      BY <2>2, <2>3, <2>4 DEF StartInv
  <1>2. CASE StartStep
    BY <1>2, BootKeeps, StepDoneKeeps, StepFailsKeeps, SetVersionKeeps, EngineInitKeeps, CheckKeeps DEF StartStep
  <1>3. ASSUME NEW r \in Rebuilders, Rebuild(r) PROVE StartInv'
    BY <1>3, CountKeeps, ClearKeeps, ReadTextKeeps, WriteTextKeeps, CompareKeeps, ReadMissingKeeps,
       WriteMissingKeeps, ReadNewKeeps, WriteNewKeeps, SwitchKeeps, AcceptKeeps DEF Rebuild
  <1>4. ASSUME NEW r \in Rebuilders, r # AtStart, Command(r) PROVE StartInv'
    BY <1>4, CommandKeeps
  <1>5. CASE AddDocument \/ AddVector \/ AddText \/ DeleteRest \/ Crash
    BY <1>5, AddDocumentKeeps, AddVectorKeeps, AddTextKeeps, DeleteRestKeeps, StartCrashKeeps
  <1>6. ASSUME NEW d \in Ids, DeleteText(d) PROVE StartInv'
    BY <1>6, DeleteTextKeeps
  <1> QED
    BY <1>1, <1>2, <1>3, <1>4, <1>5, <1>6 DEF Next

LEMMA StartStarts == Init => StartInv
  <1> SUFFICES ASSUME Init PROVE StartInv
    OBVIOUS
  <1>1. PICK d \in {{}, 1 .. Old}, v \in {0, FtsStep, Current} :
           /\ docs = d /\ next = Cardinality(d) + 1 /\ row = v
           /\ done = IF d = {} /\ v = 0 THEN Steps ELSE {k \in Steps : k < v}
           /\ oldfts = IF FtsStep \in done THEN {} ELSE d
           /\ fts = [i \in Ids |-> IF i \in d \ oldfts THEN 1 ELSE 0]
           /\ vec \in SUBSET d
    BY DEF Init
  <1>2. /\ phase = "off" /\ step = 0 /\ reb = [r \in Rebuilders |-> NoRebuild]
        /\ adding = [pc |-> "none", doc |-> 0] /\ deleting = [pc |-> "none", doc |-> 0]
    BY DEF Init
  <1>3. Current \in Nat \ {0} /\ FtsStep \in 1 .. Current /\ Old \in 0 .. MaxDocs /\ MaxDocs \in Nat /\ AtStart \in Rebuilders
    BY StartAssumption
  <1>4. next \in 1 .. MaxDocs + 1 /\ docs = 1 .. next - 1
    <2>1. CASE d = {}
      <3>1. next = 1
        BY <1>1, <2>1, FS_EmptySet
      <3> QED
        BY <1>1, <1>3, <2>1, <3>1
    <2>2. CASE d = 1 .. Old
      <3>1. Cardinality(1 .. Old) = IF 1 > Old THEN 0 ELSE Old - 1 + 1
        BY <1>3, FS_Interval
      <3>2. Cardinality(1 .. Old) = Old
        BY <1>3, <3>1
      <3>3. next = Old + 1 /\ docs = 1 .. Old
        BY <1>1, <2>2, <3>2
      <3> QED
        BY <1>3, <3>3
    <2> QED
      BY <1>1, <2>1, <2>2
  <1>5. docs \subseteq Ids /\ vec \subseteq docs /\ oldfts \subseteq docs
    <2>1. docs \subseteq Ids
      BY <1>3, <1>4 DEF Ids
    <2> QED
      BY <1>1, <2>1
  <1>6. row \in 0 .. Current /\ done \subseteq Steps /\ 0 \in 0 .. Current /\ 0 \in 0 .. next - 1
    BY <1>1, <1>3, <1>4
  <1>7. fts \in [Ids -> 0 .. 2] /\ reb \in [Rebuilders -> RebuildAt(next - 1)]
    BY <1>1, <1>2, NoRebuildFits
  <1>8. StartTypes
    BY <1>2, <1>4, <1>5, <1>6, <1>7 DEF StartTypes, Given
  <1>9. PhaseInv
    BY <1>2, <1>3 DEF PhaseInv
  <1>10. TextInv /\ VecInv /\ StepInv
    BY <1>2 DEF TextInv, VecInv, StepInv, Serving
  <1>11. VersionHonest
    BY <1>1 DEF VersionHonest
  <1> QED
    BY <1>8, <1>9, <1>10, <1>11 DEF StartInv

\* Once a start is over the stores are whole, and a version on record is one
\* whose steps were made.
THEOREM StartsLeaveStoresWhole == Spec => []StoresWhole
  <1>1. StartInv => StoresWhole
    <2> SUFFICES ASSUME StartInv PROVE StoresWhole
      OBVIOUS
    <2>1. TypeOK
      BY DEF StartInv, StartTypes, PhaseInv, TypeOK, Given
    <2>2. IndexWhole
      <3> SUFFICES ASSUME phase = "ready", \A r \in Rebuilders : reb[r] = NoRebuild, NEW d \in docs \ Busy
                   PROVE  (d \in Indexed \/ <<d, "fts">> \in lost) /\ (d \in vec \/ <<d, "vec">> \in lost)
        BY DEF IndexWhole
      <3>1. \A r \in Rebuilders : ~TextDue(reb[r], d) /\ ~VecDue(reb[r], d)
        <4>1. \A r \in Rebuilders : reb[r].pc = "none"
          BY NoRebuildFits
        <4> QED
          BY <4>1 DEF TextDue, VecDue
      <3>2. TextSafe(d) /\ VecSafe(d)
        BY <3>1 DEF StartInv, TextInv, VecInv, Serving, Busy
      <3>3. d \in Ids
        BY StartFacts
      <3> QED
        BY <3>2, <3>3 DEF TextSafe, VecSafe, Indexed
    <2> QED
      BY <2>1, <2>2 DEF StartInv, StoresWhole
  <1>2. QED
    BY <1>1, StartStarts, StartKept, PTL DEF Spec
=============================================================================
