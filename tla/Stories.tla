------------------------------ MODULE Stories -------------------------------
(***************************************************************************)
(* The daily story and the drift bottle (core/managers/v11_features.py,    *)
(* core/schedulers/v11_scheduler.py): one loop sleeps until 22:30, writes  *)
(* the story of the day, keeps it as a memory and pushes it; another       *)
(* sleeps until 08:00, takes an old memory that was not pushed yet, pushes *)
(* it and marks it.  /lmem bottle does the same by hand, with the mark     *)
(* before the message.                                                     *)
(*                                                                         *)
(* A text is what it was made from.  A request to the model is repeated    *)
(* and then replaced by a template: either way there is a text.            *)
(***************************************************************************)
EXTENDS Integers

CONSTANTS
    MinAge,   \* days before a memory may be a bottle, 3
    Window,   \* memories of the session looked at, the newest ones, 200
    MaxKept, MaxDays, MaxRuns, MaxMishaps   \* bounds: memories, days, commands and other
              \* writers, failures and restarts

ASSUME StoriesAssumption == {MinAge, Window, MaxKept, MaxDays, MaxRuns, MaxMishaps} \subseteq Nat

VARIABLES
    day, hour,   \* the clock; hour 1: before 08:00, 2: before 22:30, 3: after
    kept,        \* memories, in the order of their ids
    on,          \* _running
    tale,        \* _story_loop
    bottle,      \* launch_bottle, of _bottle_loop and of /lmem bottle
    writer,      \* another coroutine that writes the whole metadata of a memory
    runs, mishaps,   \* counted against the bounds
    stored,      \* history: stories stored of a day
    sent,        \* history: times a memory went out
    slipped,     \* history: days whose story was read before its time or late, after midnight
    excused      \* history: memories that may go out again

clockvars == <<day, hour>>
storyvars == <<day, hour, kept, on, tale, bottle, writer, runs, mishaps, stored, sent, slipped, excused>>

Days == 0 .. MaxDays
Kept == 1 .. MaxKept
Launches == {"daily", "manual"}
Missing == [kind |-> "none", day |-> 0, pushed |-> FALSE]
Existing == {m \in Kept : kept[m].kind # "none"}

NextAt(h) == IF hour >= h THEN day + 1 ELSE day
Reached(d, h) == day > d \/ (day = d /\ hour >= h)
NoTale == [pc |-> "sleep", due |-> 0, of |-> 0]
NoLaunch == [pc |-> "sleep", due |-> 0, mem |-> 0]

StoriesInit ==
    /\ day = 0 /\ hour = 1 /\ on = TRUE
    /\ kept = [m \in Kept |-> Missing]
    /\ tale = NoTale /\ bottle = [l \in Launches |-> NoLaunch]
    /\ writer = [mem |-> 0, pushed |-> FALSE]
    /\ runs = 0 /\ mishaps = 0
    /\ stored = [d \in Days |-> 0] /\ sent = [m \in Kept |-> 0]
    /\ slipped = {} /\ excused = {}

Mishap == mishaps < MaxMishaps /\ mishaps' = mishaps + 1
Another == runs < MaxRuns /\ runs' = runs + 1
\* A coroutine that only waits for the model lets the clock go on.
PassTime ==
    /\ day < MaxDays \/ hour < 3
    /\ IF hour = 3 THEN day' = day + 1 /\ hour' = 1
       ELSE UNCHANGED day /\ hour' = hour + 1
    /\ UNCHANGED <<kept, on, tale, bottle, writer, runs, mishaps, stored, sent, slipped, excused>>
Keep(kind) ==
    \E m \in Kept \ Existing :
        /\ \A k \in 1 .. m - 1 : k \in Existing
        /\ kept' = [kept EXCEPT ![m] = [kind |-> kind, day |-> day, pushed |-> FALSE]]
Remember ==
    /\ Another /\ \E kind \in {"told", "story"} : Keep(kind)
    /\ UNCHANGED <<clockvars, on, tale, bottle, writer, mishaps, stored, sent, slipped, excused>>

-----------------------------------------------------------------------------
(* The story.                                                              *)
TaleAt(pc) == tale.pc = pc
TaleGoes(pc) == tale' = [tale EXCEPT !.pc = pc]
TaleSleeps == tale' = [pc |-> "sleep", due |-> NextAt(3), of |-> 0]
tales == <<clockvars, on, bottle, writer, sent, excused>>

\* The sleep ends when the hour has come, some time later, or by the clock a
\* little before it.
TaleWakes ==
    /\ on /\ TaleAt("sleep")
    /\ IF Reached(tale.due, 3) THEN UNCHANGED mishaps ELSE hour = 2 /\ tale.due = day /\ Mishap
    /\ TaleGoes("read")
    /\ UNCHANGED <<tales, kept, runs, stored, slipped>>
\* No messages of today, or a query that fails: no story.
ReadToday ==
    /\ TaleAt("read")
    /\ \/ tale' = [tale EXCEPT !.pc = "save", !.of = day]
       \/ TaleSleeps
    /\ slipped' = IF tale.due = day /\ hour = 3 THEN slipped ELSE slipped \cup {day}
    /\ UNCHANGED <<tales, kept, runs, mishaps, stored>>
SaveStory ==
    /\ TaleAt("save") /\ TaleGoes("push")
    /\ \/ /\ Keep("story") \/ (Existing = Kept /\ UNCHANGED kept)
          /\ UNCHANGED mishaps
          /\ stored' = [stored EXCEPT ![tale.of] = @ + 1]
       \/ Mishap /\ UNCHANGED <<kept, stored>>
    /\ UNCHANGED <<tales, runs, slipped>>
\* Pushed or not, that was it for the day.
PushStory ==
    /\ TaleAt("push") /\ TaleSleeps
    /\ UNCHANGED <<tales, kept, runs, mishaps, stored, slipped>>

-----------------------------------------------------------------------------
(* The bottle of launch l.                                                 *)
At(l, pc) == bottle[l].pc = pc
Leads(l, pc) == bottle' = [bottle EXCEPT ![l].pc = pc]
Ends(l) == bottle' = [bottle EXCEPT ![l] = [pc |-> "sleep", due |-> NextAt(2), mem |-> 0]]
bottles == <<clockvars, on, tale, stored, slipped>>

Launched ==
    \/ /\ on /\ At("daily", "sleep") /\ Leads("daily", "pick")
       /\ IF Reached(bottle["daily"].due, 2) THEN UNCHANGED mishaps
          ELSE hour = 1 /\ bottle["daily"].due = day /\ Mishap
       /\ UNCHANGED <<bottles, kept, writer, runs, sent, excused>>
    \/ /\ on /\ At("manual", "sleep") /\ Leads("manual", "pick") /\ Another
       /\ UNCHANGED <<bottles, kept, writer, mishaps, sent, excused>>

Newest == {m \in Existing : m + Window \notin Existing}
\* Mutant: what was pushed is not left out.
Candidates_Pushed == {m \in Newest : kept[m].kind = "told" /\ kept[m].day + MinAge <= day}
Candidates == {m \in Newest : kept[m].kind = "told" /\ ~kept[m].pushed /\ kept[m].day + MinAge <= day}
Taken(m) == \E l \in Launches : bottle[l].mem = m
Pick(l) ==
    /\ At(l, "pick")
    /\ \/ \E m \in Candidates :
            /\ bottle' = [bottle EXCEPT ![l] = [@ EXCEPT !.pc = IF l = "daily" THEN "push" ELSE "mark", !.mem = m]]
            /\ excused' = IF Taken(m) THEN excused \cup {m} ELSE excused
            /\ UNCHANGED mishaps
       \/ Candidates = {} /\ Leads(l, "fall back") /\ UNCHANGED <<excused, mishaps>>
       \/ Mishap /\ Leads(l, "fall back") /\ UNCHANGED excused
    /\ UNCHANGED <<bottles, kept, writer, runs, sent>>
\* Nothing new to send: anything but a story will do, whatever its age.
FallBack(l) ==
    LET any == {m \in Newest : kept[m].kind = "told"}
    IN /\ At(l, "fall back")
       /\ IF any = {} THEN Ends(l) /\ UNCHANGED excused
          ELSE \E m \in any :
                 /\ bottle' = [bottle EXCEPT ![l] = [@ EXCEPT !.pc = IF l = "daily" THEN "push" ELSE "mark", !.mem = m]]
                 /\ excused' = excused \cup {m}
       /\ UNCHANGED <<bottles, kept, writer, runs, mishaps, sent>>

\* A message goes out; by hand it is the answer to the command.
Sent(m) == sent' = [sent EXCEPT ![m] = IF @ = 2 THEN 2 ELSE @ + 1]
\* A push that fails may have been delivered; the memory is not marked.
PushBottle ==
    /\ At("daily", "push")
    /\ \/ Sent(bottle["daily"].mem) /\ Leads("daily", "mark") /\ UNCHANGED <<excused, mishaps>>
       \/ Mishap /\ Ends("daily") /\ UNCHANGED <<sent, excused>>
       \/ /\ Mishap /\ Ends("daily") /\ Sent(bottle["daily"].mem)
          /\ excused' = excused \cup {bottle["daily"].mem}
    /\ UNCHANGED <<bottles, kept, writer, runs>>
\* mark_bottle_pushed: the row is read, and written after an await; a
\* writer that read it before writes it back as it was.
MarkBottle(l) ==
    LET m == bottle[l].mem
    IN /\ At(l, "mark")
       /\ IF l = "daily" THEN Ends(l) ELSE Leads(l, "answer")
       /\ \/ /\ kept' = [kept EXCEPT ![m].pushed = TRUE]
             /\ excused' = IF writer.mem = m /\ ~writer.pushed THEN excused \cup {m} ELSE excused
             /\ UNCHANGED mishaps
          \/ Mishap /\ UNCHANGED kept /\ excused' = excused \cup {m}
       /\ UNCHANGED <<bottles, writer, runs, sent>>
Answer ==
    /\ At("manual", "answer")
    /\ Sent(bottle["manual"].mem) /\ Ends("manual")
    /\ UNCHANGED <<bottles, kept, writer, runs, mishaps, excused>>

WriterReads(m) ==
    /\ writer.mem = 0 /\ m \in Existing /\ Another
    /\ writer' = [mem |-> m, pushed |-> kept[m].pushed]
    /\ UNCHANGED <<bottles, kept, bottle, mishaps, sent, excused>>
WriterWrites ==
    /\ writer.mem # 0
    /\ kept' = [kept EXCEPT ![writer.mem].pushed = writer.pushed]
    /\ writer' = [mem |-> 0, pushed |-> FALSE]
    /\ UNCHANGED <<bottles, bottle, runs, mishaps, sent, excused>>

-----------------------------------------------------------------------------
(* stop() cancels both loops wherever they are; start() makes new ones.  A *)
(* command that has begun goes on, unless the process ends.                *)
StopStories ==
    LET m == bottle["daily"].mem
        cut == IF At("daily", "push") \/ At("daily", "mark") THEN {m} ELSE {}
    IN /\ on /\ Mishap
       /\ \E over \in {{}, {"manual"}} :
            /\ bottle' = [l \in Launches |-> IF l = "daily" \/ l \in over THEN NoLaunch ELSE bottle[l]]
            /\ writer' = IF over = {} THEN writer ELSE [mem |-> 0, pushed |-> FALSE]
       /\ (At("daily", "push") /\ Sent(m)) \/ UNCHANGED sent
       /\ excused' = excused \cup cut
       /\ on' = FALSE /\ tale' = NoTale
       /\ UNCHANGED <<clockvars, kept, runs, stored, slipped>>
StartStories ==
    /\ ~on /\ on' = TRUE
    /\ TaleSleeps /\ Ends("daily")
    /\ UNCHANGED <<clockvars, kept, writer, runs, mishaps, stored, sent, slipped, excused>>

StoryStep == TaleWakes \/ ReadToday \/ SaveStory \/ PushStory
BottleStep ==
    \/ Remember \/ Launched \/ PushBottle \/ Answer
    \/ \E l \in Launches : Pick(l) \/ FallBack(l) \/ MarkBottle(l)
    \/ (\E m \in Kept : WriterReads(m)) \/ WriterWrites
Outside == PassTime \/ StopStories \/ StartStories
StoriesNext == StoryStep \/ BottleStep \/ Outside
StoriesSpec == StoriesInit /\ [][StoriesNext]_storyvars

-----------------------------------------------------------------------------
StoriesTypeOK ==
    /\ day \in Days /\ hour \in 1 .. 3
    /\ \A m \in Kept : m \in Existing \/ kept[m] = Missing
    /\ \A l \in Launches : At(l, "sleep") => bottle[l].mem = 0

(* A day has one story, over restarts and whatever fails, unless the loop  *)
(* read its messages before its time, or those of the day before so late.  *)
StoryOnce == \A d \in Days \ slipped : stored[d] <= 1

(* A memory is a bottle once, unless its mark was not made or written over *)
(* by another writer, two launches took it at once, or there was nothing   *)
(* else to send.                                                           *)
BottleAgainExplained == \A m \in Kept \ excused : sent[m] <= 1

(* Neither a day's story nor a bottle comes twice (StoryOnce,              *)
(* BottleAgainExplained), and no variable leaves its type.                 *)
StoriesOnce == StoriesTypeOK /\ StoryOnce /\ BottleAgainExplained
=============================================================================
