----------------------------- MODULE Ecosystem -------------------------------
(***************************************************************************)
(* What follows a stored memory (core/v2/): a hook, one task per memory,   *)
(* records its cause, the conflicts it may be in, its trait of the profile *)
(* and a prophecy; an hourly loop verifies the prophecies that are due;    *)
(* the event bus (core/events/event_bus.py) hands events to the            *)
(* subscribers, one of which weakens prophecies after a conflict.  Every   *)
(* coroutine may be overtaken at any await.                                *)
(*                                                                         *)
(* Memories are numbered as they are written and belong to one persona.    *)
(* What a text is about is its topic: the key of its trait, and what       *)
(* has_shared_topic compares.  Confidence, strength and importance are     *)
(* numbers nothing here depends on; events nobody subscribes to are left   *)
(* out.                                                                    *)
(***************************************************************************)
EXTENDS Integers, Sequences, FiniteSets

CONSTANTS
    Topics,
    Topic,       \* of each memory
    Periodic,    \* memories that tell of something periodic
    Opposed,     \* pairs of memories that contradict each other
    Limit,       \* prophecies verified in a pass
    MaxWritten, MaxConflicts, MaxTroubles   \* bounds: memories, conflicts resolved, and
                 \* reloads of the plugin, failures and ends of the process together

Mems == 1 .. MaxWritten
Processors == 1 .. 2   \* tasks of the bus: a stop and a start leave two at most

ASSUME EcosystemAssumption ==
    /\ {Limit, MaxWritten, MaxConflicts, MaxTroubles} \subseteq Nat
    /\ Topic \in [Mems -> Topics] /\ Periodic \subseteq Mems
    /\ Opposed \subseteq Mems \X Mems

VARIABLES
    written,   \* the newest memory
    cause,     \* memory_causality: pre_cause_id, 0 for none, Unset for no row
    conflict,  \* memory_conflicts: status of a pair <<new, old>>
    trait,     \* memory_profile: the evidence of a topic's trait, which is there if it has any
    prophecy,  \* memory_prophecies, by the memory they are based on
    hook,      \* hook[m]: the task of memory m
    loop,      \* _v2_prophecy_loop
    bus,       \* the event bus: running, queue, tasks, the one stop() cancelled
    plugin,    \* "up", "stopping" the bus, "stopped" it, "closing" the engine, "down"
    count,     \* of each bound
    told       \* history, see the properties

ecovars == <<written, cause, conflict, trait, prophecy, hook, loop, bus, plugin, count, told>>
tablevars == <<written, cause, conflict, trait, prophecy>>

Unset == -1
NoHook == [pc |-> "none", pre |-> 0, left |-> {}, found |-> {}, seen |-> {}]
NoPass == [pc |-> "sleep", list |-> <<>>, match |-> FALSE, seen |-> {}]
NoProcessor == [pc |-> "off", topic |-> 0, left |-> {}]
FreshBus == [running |-> TRUE, queue |-> <<>>, cancelled |-> 0, awaited |-> 0, newest |-> 1,
             task |-> [i \in Processors |-> IF i = 1 THEN [NoProcessor EXCEPT !.pc = "get"] ELSE NoProcessor]]

EcoInit ==
    /\ written = 0
    /\ cause = [m \in Mems |-> Unset] /\ conflict = [p \in Opposed |-> "none"]
    /\ trait = [t \in Topics |-> {}]
    /\ prophecy = [m \in Mems |-> [state |-> "none", born |-> 0, topic |-> Topic[m]]]
    /\ hook = [m \in Mems |-> NoHook] /\ loop = NoPass /\ bus = FreshBus /\ plugin = "up"
    /\ count = [conflicts |-> 0, troubles |-> 0]
    /\ told = [verdicts |-> [m \in Mems |-> 0], overtaken |-> {}, updated |-> {}, overwritten |-> {},
               resolved |-> {}, underway |-> {}, revived |-> FALSE]

Trouble == count.troubles < MaxTroubles /\ count' = [count EXCEPT !.troubles = @ + 1]

-----------------------------------------------------------------------------
(* The bus: publish() puts, and starts a bus that is not running.          *)
\* Mutant: a bus that runs is started again.
Started_Always(b) ==
    LET free == {i \in Processors : b.task[i].pc = "off"}
        new == CHOOSE i \in free : TRUE
    IN IF free = {} THEN b
       ELSE [b EXCEPT !.running = TRUE, !.newest = new, !.task[new] = [NoProcessor EXCEPT !.pc = "get"]]
Started(b) ==
    LET new == CHOOSE i \in Processors : b.task[i].pc = "off"
    IN IF b.running THEN b
       ELSE [b EXCEPT !.running = TRUE, !.newest = new, !.task[new] = [NoProcessor EXCEPT !.pc = "get"]]
Published(b, e) == Started([b EXCEPT !.queue = Append(@, e)])

-----------------------------------------------------------------------------
(* The hook of memory m, on_memory_written.                                *)
Goto(m, pc) == hook' = [hook EXCEPT ![m] = [NoHook EXCEPT !.pc = pc]]
Older(m) == 1 .. written \ {m}   \* the other memories there are
Latest(S) == CHOOSE o \in S : \A k \in S : k <= o

Write ==
    /\ plugin \notin {"closing", "down"} /\ written < MaxWritten
    /\ written' = written + 1
    /\ Goto(written + 1, "find")
    /\ UNCHANGED <<cause, conflict, trait, prophecy, loop, bus, plugin, count, told>>

FindCause(m) ==
    /\ hook[m].pc = "find"
    /\ hook' = [hook EXCEPT ![m].pc = "cause", ![m].pre = IF Older(m) = {} THEN 0 ELSE Latest(Older(m))]
    /\ UNCHANGED <<tablevars, loop, bus, plugin, count, told>>
RecordCause(m) ==
    /\ hook[m].pc = "cause"
    /\ cause' = [cause EXCEPT ![m] = hook[m].pre]
    /\ Goto(m, "recent")
    /\ UNCHANGED <<written, conflict, trait, prophecy, loop, bus, plugin, count, told>>

\* Conflicts with the recent memories, newest first; one about a memory with
\* a cause or an effect is then written again, as a candidate.
Opposes(m, o) == <<m, o>> \in Opposed
ReadRecent(m) ==
    LET against == {o \in Older(m) : Opposes(m, o)}
    IN /\ hook[m].pc = "recent"
       /\ hook' = [hook EXCEPT ![m].pc = IF against = {} THEN "read" ELSE "conflicts", ![m].left = against]
       /\ UNCHANGED <<tablevars, loop, bus, plugin, count, told>>
AddConflict(m) ==
    LET o == Latest(hook[m].left)
    IN /\ hook[m].pc = "conflicts"
       /\ conflict' = [conflict EXCEPT ![<<m, o>>] = "candidate"]
       /\ hook' = [hook EXCEPT ![m].left = @ \ {o}, ![m].found = @ \cup {o},
                               ![m].pc = IF hook[m].left = {o} THEN "upgrade" ELSE @]
       /\ UNCHANGED <<written, cause, trait, prophecy, loop, bus, plugin, count, told>>
InChain(o) == cause[o] # Unset \/ \E k \in Mems : cause[k] = o
Upgrade(m) ==
    LET o == Latest(hook[m].found)
    IN /\ hook[m].pc = "upgrade"
       /\ conflict' = IF InChain(o) THEN [conflict EXCEPT ![<<m, o>>] = "candidate"] ELSE conflict
       /\ hook' = [hook EXCEPT ![m].found = @ \ {o}, ![m].pc = IF hook[m].found = {o} THEN "read" ELSE @]
       /\ UNCHANGED <<written, cause, trait, prophecy, loop, bus, plugin, count, told>>

\* The profile: the trait is read, and written as it was read, with more.
TraitOf(m) == Topic[m]
Readers(t) == {m \in Mems : hook[m].pc = "write" /\ Topic[m] = t}
              \cup (IF loop.pc = "raise" /\ prophecy[Head(loop.list)].topic = t THEN {0} ELSE {})
ReadTrait(m) ==
    /\ hook[m].pc = "read"
    /\ hook' = [hook EXCEPT ![m].pc = "write", ![m].seen = trait[TraitOf(m)]]
    /\ UNCHANGED <<tablevars, loop, bus, plugin, count, told>>
Joined(seen, m) == seen \cup {m}
WriteTrait(m) ==
    /\ hook[m].pc = "write"
    /\ hook[m].seen # {} \/ trait[TraitOf(m)] = {}
    /\ trait' = [trait EXCEPT ![TraitOf(m)] = Joined(hook[m].seen, m)]
    /\ told' = [told EXCEPT !.updated = @ \cup {m},
                            !.overwritten = IF Readers(TraitOf(m)) # {m} THEN @ \cup {m} ELSE @]
    /\ Goto(m, "publish")
    /\ UNCHANGED <<written, cause, conflict, prophecy, loop, bus, plugin, count>>
\* Another task has inserted the trait meanwhile: UNIQUE(persona_id, trait_key).
InsertFails(m) ==
    /\ hook[m].pc = "write" /\ hook[m].seen = {} /\ trait[TraitOf(m)] # {}
    /\ Goto(m, "generate")
    /\ UNCHANGED <<tablevars, loop, bus, plugin, count, told>>
PublishProfile(m) ==
    /\ hook[m].pc = "publish"
    /\ bus' = Published(bus, [kind |-> "profile", topic |-> Topic[m]])
    /\ told' = [told EXCEPT !.revived = @ \/ (plugin = "stopping" /\ ~bus.running)]
    /\ Goto(m, "generate")
    /\ UNCHANGED <<tablevars, loop, plugin, count>>

\* A prophecy of something periodic, of what has a cause and no effect yet,
\* or of a trait that is confident enough.
Told(m) == m \in Periodic \/ (cause[m] # Unset /\ ~ \E k \in Mems : cause[k] = m)
Generate(m) ==
    /\ hook[m].pc = "generate"
    /\ \/ /\ Told(m)
          /\ prophecy' = [prophecy EXCEPT ![m] = [state |-> "active", born |-> written, topic |-> Topic[m]]]
       \/ \E t \in {u \in Topics : trait[u] # {}} :
          /\ ~Told(m)
          /\ prophecy' = [prophecy EXCEPT ![m] = [state |-> "active", born |-> written, topic |-> t]]
       \/ ~Told(m) /\ UNCHANGED prophecy
    /\ Goto(m, "none")
    /\ UNCHANGED <<written, cause, conflict, trait, loop, bus, plugin, count, told>>

\* A stage that raises, or is cancelled, is over, and the next one follows.
NextStage(pc) ==
    CASE pc \in {"find", "cause"} -> "recent"
      [] pc \in {"recent", "conflicts", "upgrade"} -> "read"
      [] pc \in {"read", "write", "publish"} -> "generate"
      [] OTHER -> "none"
Skipped(m) == [NoHook EXCEPT !.pc = NextStage(hook[m].pc)]
StageFails(m) ==
    /\ hook[m].pc # "none" /\ Trouble
    /\ hook' = [hook EXCEPT ![m] = Skipped(m)]
    /\ UNCHANGED <<tablevars, loop, bus, plugin, told>>

HookStep(m) ==
    \/ FindCause(m) \/ RecordCause(m) \/ ReadRecent(m) \/ AddConflict(m) \/ Upgrade(m)
    \/ ReadTrait(m) \/ WriteTrait(m) \/ InsertFails(m) \/ PublishProfile(m) \/ Generate(m)

-----------------------------------------------------------------------------
(* The hourly pass over the prophecies that are due.                       *)
\* Mutant: whatever its status.
Overdue_Any == {m \in Mems : prophecy[m].state # "none"}
Overdue == {m \in Mems : prophecy[m].state = "active"}
Judged == Head(loop.list)
Rest(pass) == IF Len(pass.list) = 1 THEN NoPass
              ELSE [NoPass EXCEPT !.pc = "fetch", !.list = Tail(pass.list)]

\* Those whose expires_at has come, whichever that are, in that order.
Lists(S) == {s \in UNION {[1 .. n -> S] : n \in 1 .. Limit} : \A i, j \in DOMAIN s : s[i] = s[j] => i = j}
ReadDue ==
    /\ loop.pc = "sleep" /\ plugin = "up"
    /\ \E list \in Lists(Overdue) : loop' = [NoPass EXCEPT !.pc = "fetch", !.list = list]
    /\ UNCHANGED <<tablevars, hook, bus, plugin, count, told>>
\* Newer memories on the topic prove it right; a query that fails finds none.
Follows(m) == \E k \in prophecy[m].born + 1 .. written : k # m /\ Topic[k] = prophecy[m].topic
Fetch ==
    /\ loop.pc = "fetch"
    /\ \/ loop' = [loop EXCEPT !.pc = "verdict", !.match = Follows(Judged)] /\ UNCHANGED count
       \/ /\ Trouble
          /\ loop' = [loop EXCEPT !.pc = "verdict", !.match = FALSE]
    /\ UNCHANGED <<tablevars, hook, bus, plugin, told>>
Reevaluating(m) == \E i \in Processors : bus.task[i].pc = "weaken" /\ m \in bus.task[i].left
Verdict ==
    /\ loop.pc = "verdict"
    /\ prophecy' = [prophecy EXCEPT ![Judged].state = IF loop.match THEN "verified" ELSE "failed"]
    /\ loop' = [loop EXCEPT !.pc = "profile"]
    /\ told' = [told EXCEPT !.verdicts[Judged] = @ + 1,
                            !.overtaken = IF Reevaluating(Judged) THEN @ \cup {Judged} ELSE @]
    /\ UNCHANGED <<written, cause, conflict, trait, hook, bus, plugin, count>>
\* A verified one raises its trait, which is written as it was read; a failed
\* one lowers its confidence.
ReadProfile ==
    LET t == trait[prophecy[Judged].topic]
    IN /\ loop.pc = "profile"
       /\ loop' = IF loop.match /\ t # {}
                  THEN [loop EXCEPT !.pc = "raise", !.seen = t] ELSE Rest(loop)
       /\ UNCHANGED <<tablevars, hook, bus, plugin, count, told>>
RaiseTrait ==
    /\ loop.pc = "raise"
    /\ trait' = [trait EXCEPT ![prophecy[Judged].topic] = loop.seen]
    /\ loop' = Rest(loop)
    /\ UNCHANGED <<written, cause, conflict, prophecy, hook, bus, plugin, count, told>>
\* An exception ends the pass; the next one comes an hour later.
PassFails ==
    /\ loop.pc \in {"verdict", "profile", "raise"} /\ Trouble
    /\ loop' = NoPass
    /\ UNCHANGED <<tablevars, hook, bus, plugin, told>>
LoopStep == ReadDue \/ Fetch \/ Verdict \/ ReadProfile \/ RaiseTrait

-----------------------------------------------------------------------------
(* A conflict is resolved, which publishes an event; its subscriber lists  *)
(* the active prophecies on the topic and then writes each as active.      *)
Resolve ==
    /\ plugin # "down" /\ count.conflicts < MaxConflicts /\ count' = [count EXCEPT !.conflicts = @ + 1]
    /\ \E p \in {q \in Opposed : conflict[q] = "candidate"}, t \in Topics :
          /\ conflict' = [conflict EXCEPT ![p] = "resolved"]
          /\ bus' = Published(bus, [kind |-> "conflict", topic |-> t])
          /\ told' = [told EXCEPT !.resolved = @ \cup {p},
                                  !.revived = @ \/ (plugin = "stopping" /\ ~bus.running),
                                  !.underway = IF p[2] \in hook[p[1]].found THEN @ \cup {p} ELSE @]
    /\ UNCHANGED <<written, cause, trait, prophecy, hook, loop, plugin>>

\* What a task of the bus does after an event: its loop asks whether the bus runs.
\* Mutant: a handler's end is the task's.
Back_Ends(b) == [NoProcessor EXCEPT !.pc = "off"]
Back(b) == [NoProcessor EXCEPT !.pc = IF b.running THEN "get" ELSE "off"]
Working(i, pc) == bus.task[i].pc = pc /\ bus.cancelled # i
Take(i) ==
    LET e == Head(bus.queue)
    IN /\ Working(i, "get") /\ bus.queue # <<>>
       /\ bus' = [bus EXCEPT !.queue = Tail(@),
            !.task[i] = IF plugin = "down" THEN Back(bus)
                        ELSE [NoProcessor EXCEPT !.pc = IF e.kind = "profile" THEN "style" ELSE "list",
                                                 !.topic = e.topic]]
       /\ UNCHANGED <<tablevars, hook, loop, plugin, count, told>>
LogStyle(i) ==
    /\ Working(i, "style")
    /\ bus' = [bus EXCEPT !.task[i] = Back(bus)]
    /\ UNCHANGED <<tablevars, hook, loop, plugin, count, told>>
ListActive(i) ==
    LET on == {m \in Mems : prophecy[m].state = "active" /\ prophecy[m].topic = bus.task[i].topic}
    IN /\ Working(i, "list")
       /\ bus' = [bus EXCEPT !.task[i] = IF on = {} THEN Back(bus)
                                         ELSE [NoProcessor EXCEPT !.pc = "weaken", !.left = on]]
       /\ UNCHANGED <<tablevars, hook, loop, plugin, count, told>>
Weaken(i) ==
    LET m == Latest(bus.task[i].left)
    IN /\ Working(i, "weaken")
       /\ prophecy' = [prophecy EXCEPT ![m].state = "active"]
       /\ bus' = [bus EXCEPT !.task[i] = IF bus.task[i].left = {m} THEN Back(bus)
                                         ELSE [bus.task[i] EXCEPT !.left = @ \ {m}]]
       /\ UNCHANGED <<written, cause, conflict, trait, hook, loop, plugin, count, told>>
\* cancel() ends a task that waits for an event; a subscriber swallows it.
Cancelled(i) ==
    /\ bus.cancelled = i
    /\ bus' = [bus EXCEPT !.cancelled = 0, !.task[i] = IF @.pc = "get" THEN NoProcessor ELSE Back(bus)]
    /\ UNCHANGED <<tablevars, hook, loop, plugin, count, told>>
BusStep(i) == Take(i) \/ LogStyle(i) \/ ListActive(i) \/ Weaken(i) \/ Cancelled(i)

-----------------------------------------------------------------------------
(* terminate(): the loop is cancelled, the bus stopped, the hooks are      *)
(* cancelled, once, and awaited.  The bus outlives the plugin, with what   *)
(* is queued, and is started by the next one.                              *)
StopBus ==
    /\ plugin = "up" /\ loop.pc = "sleep" /\ Trouble
    /\ plugin' = "stopping"
    /\ bus' = [bus EXCEPT !.running = FALSE, !.cancelled = bus.newest, !.awaited = bus.newest]
    /\ UNCHANGED <<tablevars, hook, loop, told>>
StopReturns ==
    /\ plugin = "stopping" /\ bus.task[bus.awaited].pc = "off"
    /\ plugin' = "stopped" /\ bus' = [bus EXCEPT !.awaited = 0]
    /\ UNCHANGED <<tablevars, hook, loop, count, told>>
CancelHooks ==
    /\ plugin = "stopped" /\ plugin' = "closing"
    /\ hook' = [m \in Mems |-> Skipped(m)]
    /\ UNCHANGED <<tablevars, loop, bus, count, told>>
CloseEngine ==
    /\ plugin = "closing" /\ \A m \in Mems : hook[m].pc = "none"
    /\ plugin' = "down"
    /\ UNCHANGED <<tablevars, hook, loop, bus, count, told>>
Reload ==
    /\ plugin = "down" /\ plugin' = "up" /\ bus' = Started(bus)
    /\ UNCHANGED <<tablevars, hook, loop, count, told>>
ProcessEnds ==
    /\ Trouble
    /\ hook' = [m \in Mems |-> NoHook] /\ loop' = NoPass /\ bus' = FreshBus /\ plugin' = "up"
    /\ UNCHANGED <<tablevars, told>>

EcoNext ==
    \/ Write \/ (\E m \in Mems : HookStep(m) \/ StageFails(m))
    \/ LoopStep \/ PassFails \/ Resolve \/ \E i \in Processors : BusStep(i)
    \/ StopBus \/ StopReturns \/ CancelHooks \/ CloseEngine \/ Reload \/ ProcessEnds
\* The event loop resumes the hourly loop and the tasks of the bus.
EcoSpec == EcoInit /\ [][EcoNext]_ecovars /\ WF_ecovars(LoopStep) /\ \A i \in Processors : WF_ecovars(BusStep(i))

-----------------------------------------------------------------------------
EcoTypeOK ==
    /\ written \in 0 .. MaxWritten /\ cause \in [Mems -> {Unset} \cup 0 .. MaxWritten]
    /\ conflict \in [Opposed -> {"none", "candidate", "resolved"}]
    /\ \A m \in Mems : prophecy[m].state \in {"none", "active", "verified", "failed"}
    /\ loop.pc = "sleep" <=> loop.list = <<>>

(* A prophecy gets one verdict, and what follows from it happens once,     *)
(* unless a re-evaluation that had listed it before wrote it as active     *)
(* again; and a conflict that was resolved stays so unless the hook that   *)
(* found it had not come to its second write.                              *)
DecisionsStand ==
    /\ \A m \in Mems : told.verdicts[m] > 1 => m \in told.overtaken
    /\ \A p \in told.resolved : conflict[p] = "candidate" => p \in told.underway

(* Every memory whose profile update was made is among the evidence of its *)
(* trait, unless another writer had read the trait before.                 *)
EvidenceKept == \A m \in told.updated \ told.overwritten : m \in trait[Topic[m]]

(* Verdicts, resolved conflicts and evidence stay as they were recorded    *)
(* (DecisionsStand, EvidenceKept), and no variable leaves its type.        *)
RecordsStand == EcoTypeOK /\ DecisionsStand /\ EvidenceKept

(* One task of the bus handles events, and a stop that has cancelled it    *)
(* returns, unless a publish() started the bus while it was being stopped. *)
BusSound ==
    ~told.revived =>
        /\ Cardinality({i \in Processors : bus.task[i].pc # "off"}) <= 1
        /\ plugin = "stopping" /\ bus.cancelled = 0 => bus.task[bus.awaited].pc = "off"

(* Whatever fails once: while the plugin stays up and nothing more is      *)
(* written, every prophecy comes to its verdict, and every event that is   *)
(* queued is handled.                                                      *)
Undone == Overdue # {} \/ bus.queue # <<>>
WorkDone == plugin = "up" /\ Undone ~> ~Undone \/ plugin # "up"
=============================================================================
