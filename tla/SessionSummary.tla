--------------------------- MODULE SessionSummary ---------------------------
(***************************************************************************)
(* Summaries of sessions (SessionSummaryManager): a loop that summarises   *)
(* the sessions nobody has written to for a while, the same on command,    *)
(* and a digest every Interval turns of a session.  Both are atoms; each   *)
(* names the newest summary of another session, so that summaries form     *)
(* chains.  Marks and activity live in memory, turn counts in a file.      *)
(***************************************************************************)
EXTENDS Integers, Sequences, FiniteSets

CONSTANTS
    Chats,        \* sessions
    Slots, Loop,  \* coroutines of handlers and commands; the loop's own
    NoChat,
    MinMsgs,      \* fewer messages are not summarised
    MinDigest,    \* nor made a digest of
    Interval,     \* turns from digest to digest
    MaxHeard,     \* bound: messages of a session
    MaxTurns,     \* bound: handled replies
    MaxRare       \* bound: commands, failures, expiries, stops and restarts

ASSUME SummaryAssumption ==
    /\ Loop \notin Slots /\ NoChat \notin Chats
    /\ MinMsgs \in Nat /\ MinDigest \in Nat /\ Interval \in Nat \ {0}
    /\ MaxHeard \in Nat /\ MaxTurns \in Nat /\ MaxRare \in Nat

VARIABLES
    told,      \* messages of a session in the store
    act,       \* _last_activity: none, recent or old
    mark,      \* _summarized_sessions
    turns,     \* _turn_counters
    saved,     \* table digest_turns
    gen,       \* _digest_generated_turns
    sums,      \* the summaries among the atoms, in order of insertion
    loop,      \* the loop: sleeping, busy or stopped
    queue,     \* expired_sessions not looked at yet
    work,      \* work[x]: the summary or digest coroutine x makes
    turned, rare,   \* counted against the bounds
    heard,     \* history: told at the last touch
    late,      \* history: sessions whose mark may be wrong, with a cause
    begun,     \* history: turns a digest was triggered at, with repetitions
    unsaved    \* history: sessions with a turn that was not saved

svars == <<told, act, mark, turns, saved, gen, sums, loop, queue, work,
           turned, rare, heard, late, begun, unsaved>>
memory == <<act, mark, turns, gen>>
stores == <<told, saved, sums>>
bounds == <<turned, rare>>
history == <<heard, late, begun, unsaved>>

NoWork == [pc |-> "none", kind |-> "none", sess |-> NoChat, got |-> 0, prev |-> 0, seq |-> 0]
Rare == rare < MaxRare /\ rare' = rare + 1
Start(kind, s) == [NoWork EXCEPT !.pc = "read", !.kind = kind, !.sess = s]

SumInit ==
    /\ told = [s \in Chats |-> 0] /\ act = [s \in Chats |-> "none"] /\ mark = {}
    /\ turns = [s \in Chats |-> 0] /\ saved = turns /\ gen = {}
    /\ sums = <<>>
    /\ loop = "sleeping" /\ queue = {} /\ work = [x \in Slots \cup {Loop} |-> NoWork]
    /\ turned = 0 /\ rare = 0
    /\ heard = told /\ late = {} /\ begun = <<>> /\ unsaved = {}

-----------------------------------------------------------------------------
(* Messages, replies and commands.                                         *)
Hear(s) ==
    /\ told[s] < MaxHeard
    /\ told' = [told EXCEPT ![s] = @ + 1]
    /\ UNCHANGED <<saved, sums, memory, loop, queue, work, bounds, history>>

Summarising(s) == \E x \in DOMAIN work : work[x].kind = "summary" /\ work[x].sess = s

\* touch: the session is active and not summarised any more.
\* Mutant: touch does not take the mark away.
Touch_KeepsMark(s) ==
    /\ act' = [act EXCEPT ![s] = "recent"]
    /\ mark' = mark
    /\ heard' = [heard EXCEPT ![s] = told[s]]
    /\ late' = IF Summarising(s) THEN late \cup {s} ELSE late \ {s}
Touch(s) ==
    /\ act' = [act EXCEPT ![s] = "recent"]
    /\ mark' = mark \ {s}
    /\ heard' = [heard EXCEPT ![s] = told[s]]
    /\ late' = IF Summarising(s) THEN late \cup {s} ELSE late \ {s}

\* _save_counter replaces the row; an error is logged and forgotten.
\* Mutant: the count before the turn is saved.
SaveCounter_Before(s, n) ==
    /\ saved' = [saved EXCEPT ![s] = n - 1]
    /\ UNCHANGED <<rare, unsaved>>
SaveCounter(s, n) ==
    \/ /\ saved' = [saved EXCEPT ![s] = n]
       /\ UNCHANGED <<rare, unsaved>>
    \/ /\ Rare
       /\ unsaved' = unsaved \cup {s}
       /\ UNCHANGED saved

\* A handled reply: touch and increment_turn, without an await between them.
Turn(x, s) ==
    /\ x \in Slots /\ work[x] = NoWork
    /\ turned < MaxTurns /\ turned' = turned + 1
    /\ Touch(s)
    /\ LET n == turns[s] + 1
           due == n % Interval = 0 /\ <<s, n>> \notin gen
       IN /\ turns' = [turns EXCEPT ![s] = n]
          /\ SaveCounter(s, n)
          /\ gen' = IF due THEN gen \cup {<<s, n>>} ELSE gen
          /\ begun' = IF due THEN Append(begun, <<s, n>>) ELSE begun
          /\ work' = IF due THEN [work EXCEPT ![x] = Start("digest", s)] ELSE work
    /\ UNCHANGED <<told, sums, loop, queue>>
\* The commands summary and digest.
Command(x, s, kind) ==
    /\ x \in Slots /\ work[x] = NoWork
    /\ Rare
    /\ work' = [work EXCEPT ![x] = Start(kind, s)]
    /\ UNCHANGED <<stores, memory, loop, queue, turned, history>>

-----------------------------------------------------------------------------
(* The loop.                                                               *)
Grow(s) ==          \* the time-out passes
    /\ act[s] = "recent" /\ act' = [act EXCEPT ![s] = "old"]
    /\ UNCHANGED <<stores, mark, turns, gen, loop, queue, work, bounds, history>>
Expired == {s \in Chats \ mark : act[s] = "old"}
Collect ==
    /\ loop = "sleeping" /\ Expired # {}
    /\ loop' = "busy" /\ queue' = Expired
    /\ UNCHANGED <<stores, memory, work, bounds, history>>
LoopNext ==
    /\ loop = "busy" /\ work[Loop] = NoWork
    /\ IF queue = {} THEN loop' = "sleeping" /\ UNCHANGED <<queue, work>>
       ELSE \E s \in queue :
            /\ queue' = queue \ {s}
            /\ work' = [work EXCEPT ![Loop] = Start("summary", s)]
            /\ UNCHANGED loop
    /\ UNCHANGED <<stores, memory, bounds, history>>
\* stop cancels the loop at its await.
StopLoop ==
    /\ loop # "stopped" /\ loop' = "stopped"
    /\ Rare
    /\ queue' = {} /\ work' = [work EXCEPT ![Loop] = NoWork]
    /\ UNCHANGED <<stores, memory, turned, history>>

-----------------------------------------------------------------------------
(* generate_summary and generate_digest.                                   *)
At(x, pc) == work[x].pc = pc
Leave(x) == work' = [work EXCEPT ![x] = NoWork]

\* Messages that cannot be read count as none.  Too few: a summary marks
\* the session all the same.
\* Mutant: a session with too few messages is not marked.
Read_NoMark(x) ==
    /\ At(x, "read")
    /\ \E n \in {0, told[work[x].sess]} :
        LET w == work[x]
            enough == n >= IF w.kind = "summary" THEN MinMsgs ELSE MinDigest
        IN /\ IF n < told[w.sess] THEN Rare ELSE UNCHANGED rare
           /\ IF enough THEN work' = [work EXCEPT ![x].pc = "prev", ![x].got = n] ELSE Leave(x)
    /\ UNCHANGED <<stores, memory, loop, queue, turned, history>>
Read(x) ==
    /\ At(x, "read")
    /\ \E n \in {0, told[work[x].sess]} :
        LET w == work[x]
            enough == n >= IF w.kind = "summary" THEN MinMsgs ELSE MinDigest
        IN /\ IF n < told[w.sess]
              THEN Rare /\ late' = late \cup {w.sess}
              ELSE UNCHANGED <<rare, late>>
           /\ IF enough THEN work' = [work EXCEPT ![x].pc = "prev", ![x].got = n] ELSE Leave(x)
           /\ mark' = IF ~enough /\ w.kind = "summary" THEN mark \cup {w.sess} ELSE mark
    /\ UNCHANGED <<stores, act, turns, gen, loop, queue, turned, heard, begun, unsaved>>

Others(s) == {i \in 1 .. Len(sums) : sums[i].sess # s /\ sums[i].alive}
FindPrev(x) ==
    /\ At(x, "prev")
    /\ \E p \in {0} \cup Others(work[x].sess) :
        /\ \A i \in Others(work[x].sess) : p = 0 \/ i <= p
        /\ IF p = 0 /\ Others(work[x].sess) # {} THEN Rare ELSE UNCHANGED rare
        /\ work' = [work EXCEPT ![x].prev = p, ![x].pc = "insert",
                                ![x].seq = IF p = 0 THEN 0 ELSE sums[p].seq + 1]
    /\ UNCHANGED <<stores, memory, loop, queue, turned, history>>

\* insert_many; an error is logged, and the session is marked all the same.
Insert(x) ==
    /\ At(x, "insert")
    /\ LET w == work[x] IN
       \/ /\ sums' = Append(sums, [sess |-> w.sess, upto |-> w.got, prev |-> w.prev,
                                   seq |-> w.seq, alive |-> TRUE])
          /\ UNCHANGED <<rare, late>>
       \/ Rare /\ late' = late \cup {w.sess} /\ UNCHANGED sums
    /\ IF work[x].kind = "summary" THEN work' = [work EXCEPT ![x].pc = "mark"] ELSE Leave(x)
    /\ UNCHANGED <<told, saved, memory, loop, queue, turned, heard, begun, unsaved>>
SetMark(x) ==
    /\ At(x, "mark")
    /\ mark' = mark \cup {work[x].sess}
    /\ Leave(x)
    /\ UNCHANGED <<stores, act, turns, gen, loop, queue, bounds, history>>
Step(x) == Read(x) \/ FindPrev(x) \/ Insert(x) \/ SetMark(x)

\* A summary's atom expires.
Fade(i) ==
    /\ Rare /\ sums[i].alive /\ sums' = [sums EXCEPT ![i].alive = FALSE]
    /\ UNCHANGED <<told, saved, memory, loop, queue, work, turned, history>>

\* The end of the process and the next start, which reads the counts.
End ==
    /\ Rare
    /\ act' = [s \in Chats |-> "none"] /\ mark' = {} /\ gen' = {} /\ turns' = saved
    /\ loop' = "sleeping" /\ queue' = {}
    /\ work' = [x \in DOMAIN work |-> NoWork]
    /\ late' = {}
    /\ UNCHANGED <<stores, turned, heard, begun, unsaved>>

LoopStep == Collect \/ LoopNext \/ Step(Loop)
SumNext ==
    \/ LoopStep \/ StopLoop \/ End
    \/ \E x \in Slots : Step(x)
    \/ \E s \in Chats : Hear(s) \/ Grow(s)
    \/ \E s \in Chats, x \in Slots : Turn(x, s) \/ Command(x, s, "summary") \/ Command(x, s, "digest")
    \/ \E i \in 1 .. Len(sums) : Fade(i)

\* The event loop resumes the loop's task; calls to the LLM time out.
SumSpec == SumInit /\ [][SumNext]_svars /\ WF_svars(LoopStep)

-----------------------------------------------------------------------------
SumTypeOK ==
    /\ told \in [Chats -> 0 .. MaxHeard] /\ mark \subseteq Chats
    /\ \A s \in Chats : saved[s] <= turns[s] /\ heard[s] <= told[s]
    /\ queue # {} => loop = "busy"
    /\ loop # "busy" => work[Loop] = NoWork

(* A session that is marked as summarised has a summary of all messages it *)
(* had when it was last touched, or too few of them; except when it was    *)
(* touched while its summary was being made, or a read or write failed.    *)
MarkedIsSummarised ==
    \A s \in mark \ late :
        \/ heard[s] < MinMsgs
        \/ \E i \in 1 .. Len(sums) : sums[i].sess = s /\ sums[i].upto >= heard[s]

(* A session nobody writes to any more gets its mark, unless the loop is   *)
(* stopped or the process ends: no session keeps the loop from it.         *)
IdleIsMarked ==
    \A s \in Chats : act[s] = "old" /\ s \notin mark
                     ~> s \in mark \/ act[s] # "old" \/ loop = "stopped"

(* Over restarts, a turn of a session triggers a digest once, unless a     *)
(* turn could not be saved.                                                *)
DigestOnce ==
    \A i, k \in 1 .. Len(begun) : i # k /\ begun[i] = begun[k] => begun[i][1] \in unsaved

(* Each summary names an older one of another session and has the next     *)
(* place in its chain, whatever was made or expired meanwhile: chains end. *)
ChainsGoBack ==
    \A i \in 1 .. Len(sums) :
        LET e == sums[i] IN
        IF e.prev = 0 THEN e.seq = 0
        ELSE e.prev < i /\ sums[e.prev].sess # e.sess /\ e.seq = sums[e.prev].seq + 1

(* A turn triggers one digest, chains of summaries go back to a first one, *)
(* and no variable leaves its type.                                        *)
DigestsSound == SumTypeOK /\ DigestOnce /\ ChainsGoBack
=============================================================================
