--------------------------- MODULE SessionsProofs ---------------------------
(***************************************************************************)
(* Proofs about the two halves of a session's life, for any sessions, any  *)
(* number of coroutines and of restarts.                                   *)
(*                                                                         *)
(* SessionSummary: a mark stands for a summary, a turn triggers one        *)
(* digest, and chains of summaries end.  MarkedIsSummarised needs that a   *)
(* summary under way has read all its session had told, or its session is  *)
(* late (MarkInv).  DigestOnce needs that without an unsaved turn the      *)
(* count on disk is the one in memory, past every digest triggered         *)
(* (TurnsInv).  ChainsGoBack needs that a summary about to be inserted has *)
(* its place (ChainInv).                                                   *)
(*                                                                         *)
(* Conversation: counts are right and cached lists are the newest          *)
(* messages.  CountRight needs that who is at a statement holds the lock   *)
(* (LockInv), that a message about to be added is nowhere yet (NewInv),    *)
(* and what is true of the count between the two statements and on disk    *)
(* (CountInv).  StaleOnlyByRace needs the same of the lists about to be    *)
(* cached (StaleInv), and a cache of one list a session (OneEach).         *)
(***************************************************************************)
EXTENDS Conversation, SessionSummary, FiniteSetTheorems, SequenceTheorems, TLAPS

(* The types of the summaries, with those of the coroutines' records.      *)
Coroutines == Slots \cup {Loop}
Working == [pc : {"none", "read", "prev", "insert", "mark"}, kind : {"none", "summary", "digest"},
            sess : Chats \cup {NoChat}, got : Nat, prev : Nat, seq : Nat]
Summary == [sess : Chats, upto : Nat, prev : Nat, seq : Nat, alive : BOOLEAN]
WorkFits(w) ==
    /\ w.pc # "none" => w.sess \in Chats
    /\ w.pc = "none" => w.kind = "none"
    /\ w.pc = "mark" => w.kind = "summary"
SumTypes ==
    /\ told \in [Chats -> 0 .. MaxHeard] /\ heard \in [Chats -> Nat]
    /\ mark \subseteq Chats /\ late \subseteq Chats /\ unsaved \subseteq Chats
    /\ turns \in [Chats -> Nat] /\ saved \in [Chats -> Nat]
    /\ gen \subseteq Chats \X Nat
    /\ begun \in Seq(Chats \X Nat) /\ sums \in Seq(Summary)
    /\ queue \subseteq Chats
    /\ work \in [Coroutines -> Working] /\ \A x \in Coroutines : WorkFits(work[x])

\* What SumTypeOK says beside the types.
CountsInv == \A s \in Chats : saved[s] <= turns[s] /\ heard[s] <= told[s]
LoopInv == (queue # {} => loop = "busy") /\ (loop # "busy" => work[Loop] = NoWork)

\* A summary under way has read all its session had told when last touched.
Covered(s) == \E i \in 1 .. Len(sums) : sums[i].sess = s /\ sums[i].upto >= heard[s]
Explained(s) == s \in late \/ heard[s] < MinMsgs \/ Covered(s)
MarkInv ==
    /\ \A s \in mark : Explained(s)
    /\ \A x \in Coroutines : work[x].kind = "summary" =>
        /\ work[x].pc \in {"prev", "insert"} => work[x].sess \in late \/ work[x].got >= heard[work[x].sess]
        /\ work[x].pc = "mark" => Explained(work[x].sess)

\* Without a turn that was not saved, the count is on disk and no digest was
\* triggered at a later turn.
TurnsInv ==
    /\ \A s \in Chats \ unsaved :
        saved[s] = turns[s] /\ \A i \in 1 .. Len(begun) : begun[i][1] = s => begun[i][2] <= turns[s]
    /\ DigestOnce

\* A summary about to be inserted has its place in a chain.
Linked(n, e) ==
    IF e.prev = 0 THEN e.seq = 0
    ELSE e.prev \in 1 .. n /\ sums[e.prev].sess # e.sess /\ e.seq = sums[e.prev].seq + 1
ChainInv ==
    /\ \A i \in 1 .. Len(sums) : Linked(i - 1, sums[i])
    /\ \A x \in Coroutines : work[x].pc = "insert" => Linked(Len(sums), work[x])

SumInv == SumTypes /\ CountsInv /\ LoopInv /\ MarkInv /\ TurnsInv /\ ChainInv

LEMMA WorkKinds ==
    /\ NoWork \in Working /\ NoWork.pc = "none" /\ NoWork.kind = "none" /\ WorkFits(NoWork)
    /\ \A s \in Chats, kind \in {"summary", "digest"} :
        /\ Start(kind, s) \in Working /\ Start(kind, s).pc = "read" /\ Start(kind, s).kind = kind
        /\ Start(kind, s).sess = s /\ WorkFits(Start(kind, s))
  <1>1. NoWork \in Working /\ NoWork.pc = "none" /\ NoWork.kind = "none"
    BY DEF NoWork, Working
  <1>2. ASSUME NEW s \in Chats, NEW kind \in {"summary", "digest"}
        PROVE  /\ Start(kind, s) \in Working /\ Start(kind, s).pc = "read" /\ Start(kind, s).kind = kind
               /\ Start(kind, s).sess = s
    BY <1>1 DEF Start, Working
  <1>3. QED
    BY <1>1, <1>2 DEF WorkFits

LEMMA OneWork ==
    ASSUME SumTypes, NEW x \in Coroutines, NEW w \in Working, WorkFits(w), work' = [work EXCEPT ![x] = w]
    PROVE  /\ work' \in [Coroutines -> Working] /\ \A y \in Coroutines : WorkFits(work'[y])
           /\ work'[x] = w /\ \A y \in Coroutines \ {x} : work'[y] = work[y]
  BY DEF SumTypes

(* What the steps of the handlers, the loop and the commands do to the     *)
(* coroutines: nothing, or one begins, or one is done.                     *)
Begins(x) ==
    /\ x \in Coroutines
    /\ \/ work' = work
       \/ work' = [work EXCEPT ![x] = NoWork]
       \/ \E s \in Chats, kind \in {"summary", "digest"} : work' = [work EXCEPT ![x] = Start(kind, s)]

LEMMA BeginsWork ==
    ASSUME SumTypes, NEW x, Begins(x)
    PROVE  /\ work' \in [Coroutines -> Working] /\ \A y \in Coroutines : WorkFits(work'[y])
           /\ \A y \in Coroutines : work'[y] = work[y] \/ (y = x /\ work'[y].pc \in {"none", "read"})
  <1>1. x \in Coroutines
    BY DEF Begins
  <1>2. CASE work' = work
    BY <1>2 DEF SumTypes
  <1>3. CASE work' = [work EXCEPT ![x] = NoWork]
    BY <1>1, <1>3, OneWork, WorkKinds
  <1>4. ASSUME NEW s \in Chats, NEW kind \in {"summary", "digest"}, work' = [work EXCEPT ![x] = Start(kind, s)]
        PROVE  /\ work' \in [Coroutines -> Working] /\ \A y \in Coroutines : WorkFits(work'[y])
               /\ \A y \in Coroutines : work'[y] = work[y] \/ (y = x /\ work'[y].pc \in {"none", "read"})
    <2>1. Start(kind, s) \in Working /\ WorkFits(Start(kind, s)) /\ Start(kind, s).pc = "read"
      BY WorkKinds
    <2>2. QED
      BY <1>1, <1>4, <2>1, OneWork
  <1>5. QED
    BY <1>2, <1>3, <1>4 DEF Begins

-----------------------------------------------------------------------------
(* Marks.                                                                  *)
SumsGrow ==
    \A i \in 1 .. Len(sums) :
        i \in 1 .. Len(sums') /\ sums'[i].sess = sums[i].sess /\ sums'[i].upto = sums[i].upto

LEMMA ExplainedKept ==
    ASSUME SumsGrow, heard' = heard, late \subseteq late'
    PROVE  \A s : Explained(s) => Explained(s)'
  <1>1. \A s : Covered(s) => Covered(s)'
    BY DEF Covered, SumsGrow
  <1>2. QED
    BY <1>1 DEF Explained

\* No new mark, and no summary under way but those that were.
LEMMA MarkKept ==
    ASSUME SumTypes, MarkInv, SumsGrow, heard' = heard, late \subseteq late', mark' \subseteq mark,
           \A x \in Coroutines : \/ work'[x] = work[x] \/ work'[x].pc \in {"none", "read"}
                                 \/ /\ work'[x].pc = "insert" /\ work[x].pc = "prev"
                                    /\ work'[x].kind = work[x].kind
                                    /\ work'[x].got = work[x].got /\ work'[x].sess = work[x].sess
    PROVE  MarkInv'
  <1>1. \A s : Explained(s) => Explained(s)'
    BY ExplainedKept
  <1>2. \A s \in mark' : Explained(s)'
    BY <1>1 DEF MarkInv
  <1>3. ASSUME NEW x \in Coroutines, work'[x].kind = "summary"
        PROVE  /\ work'[x].pc \in {"prev", "insert"} => work'[x].sess \in late' \/ work'[x].got >= heard'[work'[x].sess]
               /\ work'[x].pc = "mark" => Explained(work[x].sess)'
    BY <1>1, <1>3 DEF MarkInv
  <1>4. QED
    BY <1>2, <1>3 DEF MarkInv

LEMMA SameSums == sums' = sums => SumsGrow
  BY DEF SumsGrow

LEMMA TouchMark ==
    ASSUME SumTypes, MarkInv, sums' = sums, NEW s \in Chats, Touch(s), NEW y, Begins(y), work[y] = NoWork
    PROVE  MarkInv'
  <1>1. \A x \in Coroutines : work'[x] = work[x] \/ work'[x].pc \in {"none", "read"}
    BY BeginsWork
  <1>2. \A t \in Chats \ {s} : heard'[t] = heard[t] /\ (t \in late' <=> t \in late)
    BY DEF Touch, SumTypes
  <1>3. \A t \in Chats \ {s} : Explained(t) => Explained(t)'
    BY <1>2 DEF Explained, Covered
  <1>4. ASSUME NEW x \in Coroutines, work[x].kind = "summary", work[x].sess = s
        PROVE  s \in late'
    BY <1>4 DEF Touch, Summarising, SumTypes
  <1>5. \A t \in mark' : Explained(t)'
    BY <1>3 DEF MarkInv, Touch, SumTypes
  <1>6. ASSUME NEW x \in Coroutines, work'[x].kind = "summary"
        PROVE  /\ work'[x].pc \in {"prev", "insert"} => work'[x].sess \in late' \/ work'[x].got >= heard'[work'[x].sess]
               /\ work'[x].pc = "mark" => Explained(work[x].sess)'
    <2>1. CASE work'[x].pc \in {"prev", "insert", "mark"}
      <3>1. work'[x] = work[x] /\ work[x].sess \in Chats
        BY <1>1, <2>1 DEF SumTypes, WorkFits
      <3>2. CASE work[x].sess = s
        BY <1>4, <1>6, <3>1, <3>2 DEF Explained
      <3>3. CASE work[x].sess # s
        BY <1>2, <1>3, <1>6, <2>1, <3>1, <3>3 DEF MarkInv
      <3>4. QED
        BY <3>2, <3>3
    <2>2. QED
      BY <2>1
  <1>7. QED
    BY <1>5, <1>6 DEF MarkInv

-----------------------------------------------------------------------------
(* Which steps begin or leave a coroutine's work, and which go on with it. *)
Beginnings(x) ==
    \/ \E s \in Chats : Hear(s) \/ Grow(s)
    \/ \E s \in Chats : Turn(x, s) \/ Command(x, s, "summary") \/ Command(x, s, "digest")
    \/ x = Loop /\ (Collect \/ LoopNext \/ StopLoop)
    \/ \E i \in 1 .. Len(sums) : Fade(i)

LEMMA BeginningsWork ==
    ASSUME SumTypes, NEW x \in Coroutines, Beginnings(x)
    PROVE  Begins(x)
  <1>1. CASE \E s \in Chats : Hear(s) \/ Grow(s)
    BY <1>1 DEF Hear, Grow, Begins
  <1>2. CASE \E s \in Chats : Turn(x, s)
    BY <1>2 DEF Turn, Begins
  <1>3. CASE \E s \in Chats : Command(x, s, "summary") \/ Command(x, s, "digest")
    BY <1>3 DEF Command, Begins
  <1>4. CASE x = Loop /\ Collect
    BY <1>4 DEF Collect, Begins
  <1>5. CASE x = Loop /\ LoopNext
    BY <1>5 DEF LoopNext, Begins, SumTypes
  <1>6. CASE x = Loop /\ StopLoop
    BY <1>6 DEF StopLoop, Begins
  <1>7. CASE \E i \in 1 .. Len(sums) : Fade(i)
    BY <1>7 DEF Fade, Begins
  <1>8. QED
    BY <1>1, <1>2, <1>3, <1>4, <1>5, <1>6, <1>7 DEF Beginnings

LEMMA TouchTypes ==
    ASSUME SumTypes, CountsInv, NEW s \in Chats, Touch(s), told' = told
    PROVE  /\ heard' \in [Chats -> Nat] /\ mark' \subseteq Chats /\ late' \subseteq Chats
           /\ \A t \in Chats : heard'[t] <= told'[t]
  <1>1. \A t \in Chats : told[t] \in Nat
    BY SummaryAssumption DEF SumTypes
  <1>2. QED
    BY <1>1 DEF Touch, SumTypes, CountsInv

\* A turn counts and saves, or the save fails and the turn is unsaved.
LEMMA TurnDoes ==
    ASSUME SumTypes, NEW x, NEW s \in Chats, Turn(x, s)
    PROVE  /\ turns' = [turns EXCEPT ![s] = turns[s] + 1]
           /\ \/ saved' = [saved EXCEPT ![s] = turns[s] + 1] /\ unsaved' = unsaved
              \/ saved' = saved /\ unsaved' = unsaved \cup {s}
           /\ gen' \in {gen, gen \cup {<<s, turns[s] + 1>>}}
           /\ begun' \in {begun, Append(begun, <<s, turns[s] + 1>>)}
  BY DEF Turn, SaveCounter

LEMMA BeginningsTypes ==
    ASSUME SumTypes, CountsInv, LoopInv, NEW x \in Coroutines, Beginnings(x)
    PROVE  SumTypes' /\ CountsInv' /\ LoopInv'
  <1> DEFINE Done == SumTypes' /\ CountsInv' /\ LoopInv'
  <1>0. work' \in [Coroutines -> Working] /\ \A y \in Coroutines : WorkFits(work'[y])
    BY BeginningsWork, BeginsWork
  <1>w. \A y \in Coroutines : work'[y] = work[y] \/ y = x
    BY BeginningsWork, BeginsWork
  <1>1. ASSUME NEW s \in Chats, Hear(s)
        PROVE  Done
    <2>1. told' \in [Chats -> 0 .. MaxHeard] /\ \A t \in Chats : told'[t] >= told[t]
      BY <1>1, SummaryAssumption DEF Hear, SumTypes
    <2>2. \A t \in Chats : heard[t] <= told'[t]
      BY <2>1, SummaryAssumption DEF CountsInv, SumTypes
    <2>3. QED
      BY <1>0, <1>1, <2>1, <2>2 DEF Hear, SumTypes, CountsInv, LoopInv, memory, history, bounds
  <1>2. ASSUME NEW s \in Chats, Grow(s)
        PROVE  Done
    BY <1>0, <1>2 DEF Grow, SumTypes, CountsInv, LoopInv, stores, history
  <1>3. ASSUME NEW s \in Chats, Turn(x, s)
        PROVE  Done
    <2>1. /\ turns' \in [Chats -> Nat] /\ saved' \in [Chats -> Nat] /\ unsaved' \subseteq Chats
          /\ gen' \subseteq Chats \X Nat /\ begun' \in Seq(Chats \X Nat)
          /\ \A t \in Chats : saved'[t] <= turns'[t]
      <3>0. /\ turns' = [turns EXCEPT ![s] = turns[s] + 1]
            /\ \/ saved' = [saved EXCEPT ![s] = turns[s] + 1] /\ unsaved' = unsaved
               \/ saved' = saved /\ unsaved' = unsaved \cup {s}
            /\ gen' \in {gen, gen \cup {<<s, turns[s] + 1>>}}
            /\ begun' \in {begun, Append(begun, <<s, turns[s] + 1>>)}
        BY <1>3, TurnDoes
      <3>1. turns[s] + 1 \in Nat /\ <<s, turns[s] + 1>> \in Chats \X Nat
        BY DEF SumTypes
      <3>2. \A t \in Chats : turns[t] \in Nat /\ saved[t] \in Nat /\ saved[t] <= turns[t]
        BY DEF SumTypes, CountsInv
      <3>3. turns' \in [Chats -> Nat] /\ saved' \in [Chats -> Nat] /\ unsaved' \subseteq Chats
        BY <3>0, <3>1 DEF SumTypes
      <3>4. gen' \subseteq Chats \X Nat /\ begun' \in Seq(Chats \X Nat)
        <4>1. gen' \subseteq Chats \X Nat
          BY <3>0, <3>1 DEF SumTypes
        <4>2. Append(begun, <<s, turns[s] + 1>>) \in Seq(Chats \X Nat)
          BY <3>1, AppendProperties DEF SumTypes
        <4>3. begun' \in Seq(Chats \X Nat)
          BY <3>0, <4>2 DEF SumTypes
        <4>4. QED
          BY <4>1, <4>3
      <3>5. \A t \in Chats : saved'[t] <= turns'[t]
        BY <3>0, <3>2 DEF SumTypes
      <3>6. QED
        BY <3>3, <3>4, <3>5
    <2>2. told' = told /\ Touch(s) /\ UNCHANGED <<sums, loop, queue>>
      BY <1>3 DEF Turn
    <2>3. /\ heard' \in [Chats -> Nat] /\ mark' \subseteq Chats /\ late' \subseteq Chats
          /\ \A t \in Chats : heard'[t] <= told'[t]
      BY <2>2, TouchTypes
    <2>4. x # Loop /\ Loop \in Coroutines
      BY <1>3, SummaryAssumption DEF Turn, Coroutines
    <2>5. LoopInv'
      BY <1>w, <2>2, <2>4 DEF LoopInv
    <2>6. QED
      BY <1>0, <2>1, <2>2, <2>3, <2>5 DEF SumTypes, CountsInv
  <1>4. ASSUME NEW s \in Chats, Command(x, s, "summary") \/ Command(x, s, "digest")
        PROVE  Done
    <2>1. x # Loop /\ Loop \in Coroutines /\ UNCHANGED <<stores, memory, loop, queue, history>>
      BY <1>4, SummaryAssumption DEF Command, Coroutines
    <2>2. LoopInv'
      BY <1>w, <2>1 DEF LoopInv
    <2>3. QED
      BY <1>0, <2>1, <2>2 DEF SumTypes, CountsInv, stores, memory, history
  <1>5. CASE x = Loop /\ Collect
    <2>1. queue' \subseteq Chats /\ loop' = "busy"
      BY <1>5 DEF Collect, Expired
    <2>2. QED
      BY <1>0, <1>5, <2>1 DEF Collect, SumTypes, CountsInv, LoopInv, stores, memory, history
  <1>6. CASE x = Loop /\ LoopNext
    <2>1. queue' \subseteq queue /\ UNCHANGED <<stores, memory, bounds, history>>
      BY <1>6 DEF LoopNext
    <2>2. LoopInv'
      BY <1>6 DEF LoopNext, LoopInv
    <2>3. QED
      BY <1>0, <2>1, <2>2 DEF SumTypes, CountsInv, stores, memory, history
  <1>7. CASE x = Loop /\ StopLoop
    <2>1. queue' = {} /\ work'[Loop] = NoWork /\ UNCHANGED <<stores, memory, history>>
      BY <1>7 DEF StopLoop, SumTypes
    <2>2. QED
      BY <1>0, <2>1 DEF SumTypes, CountsInv, LoopInv, stores, memory, history
  <1>8. ASSUME NEW i \in 1 .. Len(sums), Fade(i)
        PROVE  Done
    <2>1. sums' = [sums EXCEPT ![i] = [sums[i] EXCEPT !.alive = FALSE]]
      BY <1>8 DEF Fade
    <2>2. sums[i] \in Summary
      BY ElementOfSeq DEF SumTypes
    <2>4. [sums[i] EXCEPT !.alive = FALSE] \in Summary
      BY <2>2 DEF Summary
    <2>3. sums' \in Seq(Summary)
      BY <2>1, <2>4, ExceptSeq DEF SumTypes
    <2>5. QED
      BY <1>0, <1>8, <2>3 DEF Fade, SumTypes, CountsInv, LoopInv, memory, history
  <1>9. QED
    BY <1>1, <1>2, <1>3, <1>4, <1>5, <1>6, <1>7, <1>8 DEF Beginnings

(* The steps of a summary or digest.                                       *)
Moves(x, w) == w \in Working /\ WorkFits(w) /\ work' = [work EXCEPT ![x] = w]
ReadEnds(x) ==
    /\ Moves(x, NoWork)
    /\ \/ mark' = mark
       \/ /\ mark' = mark \cup {work[x].sess}
          /\ work[x].sess \in late' \/ told[work[x].sess] < MinMsgs
ReadGoesOn(x) ==
    /\ mark' = mark
    /\ \E n \in Nat : /\ n = told[work[x].sess] \/ work[x].sess \in late'
                      /\ Moves(x, [work[x] EXCEPT !.pc = "prev", !.got = n])

LEMMA ReadDoes ==
    ASSUME SumTypes, NEW x \in Coroutines, Read(x)
    PROVE  /\ work[x].sess \in Chats /\ work[x].pc = "read"
           /\ late' = late \/ late' = late \cup {work[x].sess}
           /\ ReadEnds(x) \/ ReadGoesOn(x)
           /\ UNCHANGED <<stores, act, turns, gen, loop, queue, heard, begun, unsaved>>
  <1>1. work[x] \in Working /\ work[x].sess \in Chats /\ work[x].pc = "read" /\ (Moves(x, NoWork) <=> Leave(x))
    BY WorkKinds DEF SumTypes, WorkFits, Read, At, Leave, Moves
  <1>2. told[work[x].sess] \in Nat
    BY <1>1, SummaryAssumption DEF SumTypes
  <1>3. PICK n \in {0, told[work[x].sess]} :
         LET w == work[x]
             enough == n >= IF w.kind = "summary" THEN MinMsgs ELSE MinDigest
         IN /\ IF n < told[w.sess]
               THEN Rare /\ late' = late \cup {w.sess}
               ELSE UNCHANGED <<rare, late>>
            /\ IF enough THEN work' = [work EXCEPT ![x].pc = "prev", ![x].got = n] ELSE Leave(x)
            /\ mark' = IF ~enough /\ w.kind = "summary" THEN mark \cup {w.sess} ELSE mark
    BY DEF Read
  <1> DEFINE enough == n >= IF work[x].kind = "summary" THEN MinMsgs ELSE MinDigest
  <1>4. n \in Nat /\ (n = told[work[x].sess] \/ work[x].sess \in late')
    BY <1>2, <1>3
  <1>5. CASE enough
    <2>1. work' = [work EXCEPT ![x] = [work[x] EXCEPT !.pc = "prev", !.got = n]] /\ mark' = mark
      BY <1>3, <1>5
    <2>2. [work[x] EXCEPT !.pc = "prev", !.got = n] \in Working /\ WorkFits([work[x] EXCEPT !.pc = "prev", !.got = n])
      BY <1>1, <1>4 DEF Working, WorkFits
    <2>3. ReadGoesOn(x)
      BY <1>4, <2>1, <2>2 DEF ReadGoesOn, Moves
    <2>4. QED
      BY <1>1, <1>3, <2>3 DEF Read
  <1>6. CASE ~enough
    <2>1. work[x].kind = "summary" => n < MinMsgs
      BY <1>4, <1>6, SummaryAssumption
    <2>2. ReadEnds(x)
      BY <1>1, <1>3, <1>4, <1>6, <2>1 DEF ReadEnds
    <2>3. QED
      BY <1>1, <1>3, <2>2 DEF Read
  <1>7. QED
    BY <1>5, <1>6

LEMMA FindPrevDoes ==
    ASSUME SumTypes, NEW x \in Coroutines, FindPrev(x)
    PROVE  /\ work[x].pc = "prev"
           /\ \E p \in {0} \cup Others(work[x].sess) :
                Moves(x, [work[x] EXCEPT !.prev = p, !.pc = "insert", !.seq = IF p = 0 THEN 0 ELSE sums[p].seq + 1])
           /\ UNCHANGED <<stores, memory, loop, queue, history>>
  <1>1. work[x] \in Working /\ WorkFits(work[x]) /\ work[x].pc = "prev"
    BY DEF SumTypes, FindPrev, At
  <1>2. PICK p \in {0} \cup Others(work[x].sess) :
          work' = [work EXCEPT ![x].prev = p, ![x].pc = "insert",
                               ![x].seq = IF p = 0 THEN 0 ELSE sums[p].seq + 1]
    BY DEF FindPrev
  <1> DEFINE q == IF p = 0 THEN 0 ELSE sums[p].seq + 1
  <1>3. p \in Nat /\ q \in Nat
    <2>1. CASE p = 0
      BY <2>1
    <2>2. CASE p # 0
      <3>1. p \in 1 .. Len(sums)
        BY <2>2 DEF Others
      <3>2. p \in Nat
        BY <3>1
      <3>3. sums[p] \in Summary
        BY <3>1, ElementOfSeq DEF SumTypes
      <3>4. QED
        BY <2>2, <3>2, <3>3 DEF Summary
    <2>3. QED
      BY <2>1, <2>2
  <1> HIDE DEF q
  <1>4. [work[x] EXCEPT !.prev = p, !.pc = "insert", !.seq = q] \in Working
    BY <1>1, <1>3 DEF Working
  <1>5. WorkFits([work[x] EXCEPT !.prev = p, !.pc = "insert", !.seq = q])
    BY <1>1 DEF WorkFits, Working
  <1>6. work' = [work EXCEPT ![x] = [work[x] EXCEPT !.prev = p, !.pc = "insert", !.seq = q]]
    BY <1>2 DEF q
  <1>7. Moves(x, [work[x] EXCEPT !.prev = p, !.pc = "insert", !.seq = q])
    BY <1>4, <1>5, <1>6 DEF Moves
  <1>8. QED
    BY <1>1, <1>7 DEF q, FindPrev

Inserted(w) == [sess |-> w.sess, upto |-> w.got, prev |-> w.prev, seq |-> w.seq, alive |-> TRUE]
InsertStores(x) ==
    sums' = Append(sums, Inserted(work[x])) /\ late' = late
InsertFails(x) ==
    sums' = sums /\ late' = late \cup {work[x].sess}
LEMMA InsertDoes ==
    ASSUME SumTypes, NEW x \in Coroutines, Insert(x)
    PROVE  /\ work[x].pc = "insert" /\ work[x].sess \in Chats /\ Inserted(work[x]) \in Summary
           /\ InsertStores(x) \/ InsertFails(x)
           /\ \/ work[x].kind = "summary" /\ Moves(x, [work[x] EXCEPT !.pc = "mark"])
              \/ Moves(x, NoWork)
           /\ UNCHANGED <<told, saved, memory, loop, queue, heard, begun, unsaved>>
  <1>1. work[x] \in Working /\ work[x].sess \in Chats /\ work[x].pc = "insert"
    BY DEF SumTypes, WorkFits, Insert, At
  <1>2. Inserted(work[x]) \in Summary
    BY <1>1 DEF Inserted, Working, Summary
  <1>3. InsertStores(x) \/ InsertFails(x)
    BY DEF Insert, InsertStores, InsertFails, Inserted
  <1>4. CASE work[x].kind = "summary"
    <2>1. [work[x] EXCEPT !.pc = "mark"] \in Working /\ WorkFits([work[x] EXCEPT !.pc = "mark"])
      BY <1>1, <1>4 DEF Working, WorkFits
    <2>2. Moves(x, [work[x] EXCEPT !.pc = "mark"])
      BY <1>4, <2>1 DEF Moves, Insert
    <2>3. QED
      BY <1>1, <1>2, <1>3, <1>4, <2>2 DEF Insert
  <1>5. CASE work[x].kind # "summary"
    <2>1. Moves(x, NoWork)
      BY <1>5, WorkKinds DEF Moves, Insert, Leave
    <2>2. QED
      BY <1>1, <1>2, <1>3, <2>1 DEF Insert
  <1>6. QED
    BY <1>4, <1>5

LEMMA SetMarkDoes ==
    ASSUME SumTypes, NEW x \in Coroutines, SetMark(x)
    PROVE  /\ work[x].pc = "mark" /\ work[x].kind = "summary" /\ work[x].sess \in Chats
           /\ Moves(x, NoWork) /\ mark' = mark \cup {work[x].sess}
           /\ UNCHANGED <<stores, act, turns, gen, loop, queue, history>>
  BY WorkKinds DEF SumTypes, WorkFits, SetMark, At, Leave, Moves

LEMMA MovesTypes ==
    ASSUME SumTypes, LoopInv, NEW x \in Coroutines, NEW w, Moves(x, w), work[x].pc # "none",
           UNCHANGED <<loop, queue>>
    PROVE  /\ work' \in [Coroutines -> Working] /\ \A y \in Coroutines : WorkFits(work'[y])
           /\ work'[x] = w /\ (\A y \in Coroutines \ {x} : work'[y] = work[y])
           /\ LoopInv'
  <1>1. /\ work' \in [Coroutines -> Working] /\ \A y \in Coroutines : WorkFits(work'[y])
        /\ work'[x] = w /\ \A y \in Coroutines \ {x} : work'[y] = work[y]
    BY OneWork DEF Moves
  <1>2. loop # "busy" => x # Loop
    BY WorkKinds DEF LoopInv
  <1>3. LoopInv'
    BY <1>1, <1>2 DEF LoopInv, Coroutines
  <1>4. QED
    BY <1>1, <1>3

LEMMA StepTypes ==
    ASSUME SumTypes, CountsInv, LoopInv, NEW x \in Coroutines, Step(x)
    PROVE  SumTypes' /\ CountsInv' /\ LoopInv'
  <1>1. CASE Read(x)
    <2>1. PICK w : Moves(x, w)
      BY <1>1, ReadDoes DEF ReadEnds, ReadGoesOn
    <2>2. mark' \subseteq Chats /\ late' \subseteq Chats
      BY <1>1, ReadDoes DEF ReadEnds, ReadGoesOn, SumTypes
    <2>3. /\ work' \in [Coroutines -> Working] /\ \A y \in Coroutines : WorkFits(work'[y])
          /\ LoopInv'
      BY <1>1, <2>1, ReadDoes, MovesTypes
    <2>4. UNCHANGED <<stores, act, turns, gen, loop, queue, heard, begun, unsaved>>
      BY <1>1 DEF Read
    <2>5. QED
      BY <2>2, <2>3, <2>4 DEF SumTypes, CountsInv, stores
  <1>2. CASE FindPrev(x)
    <2>1. PICK w : Moves(x, w)
      BY <1>2, FindPrevDoes
    <2>2. /\ work' \in [Coroutines -> Working] /\ \A y \in Coroutines : WorkFits(work'[y])
          /\ LoopInv'
      BY <1>2, <2>1, FindPrevDoes, MovesTypes
    <2>3. UNCHANGED <<stores, memory, loop, queue, history>>
      BY <1>2 DEF FindPrev
    <2>4. QED
      BY <2>2, <2>3 DEF SumTypes, CountsInv, stores, memory, history
  <1>3. CASE Insert(x)
    <2>1. PICK w : Moves(x, w)
      BY <1>3, InsertDoes
    <2>2. /\ work' \in [Coroutines -> Working] /\ \A y \in Coroutines : WorkFits(work'[y])
          /\ LoopInv'
      BY <1>3, <2>1, InsertDoes, MovesTypes
    <2>3. sums' \in Seq(Summary) /\ late' \subseteq Chats
      <3>1. Append(sums, Inserted(work[x])) \in Seq(Summary)
        BY <1>3, InsertDoes, AppendProperties DEF SumTypes
      <3>2. QED
        BY <1>3, <3>1, InsertDoes DEF InsertStores, InsertFails, SumTypes
    <2>4. UNCHANGED <<told, saved, memory, loop, queue, heard, begun, unsaved>>
      BY <1>3 DEF Insert
    <2>5. QED
      BY <2>2, <2>3, <2>4 DEF SumTypes, CountsInv, memory
  <1>4. CASE SetMark(x)
    <2>0. mark' \subseteq Chats
      BY <1>4, SetMarkDoes DEF SumTypes
    <2>1. /\ work' \in [Coroutines -> Working] /\ \A y \in Coroutines : WorkFits(work'[y])
          /\ LoopInv'
      BY <1>4, SetMarkDoes, MovesTypes
    <2>2. UNCHANGED <<stores, act, turns, gen, loop, queue, history>>
      BY <1>4 DEF SetMark
    <2>3. QED
      BY <2>0, <2>1, <2>2 DEF SumTypes, CountsInv, stores, history
  <1>5. QED
    BY <1>1, <1>2, <1>3, <1>4 DEF Step

LEMMA EndTypes ==
    ASSUME SumTypes, CountsInv, LoopInv, End
    PROVE  SumTypes' /\ CountsInv' /\ LoopInv'
  <1>1. work' = [x \in Coroutines |-> NoWork]
    BY DEF End, SumTypes
  <1>2. \A x \in Coroutines : work'[x] = NoWork /\ WorkFits(work'[x])
    BY <1>1, WorkKinds
  <1>3. LoopInv'
    BY <1>2 DEF End, LoopInv, Coroutines
  <1>4. CountsInv'
    BY DEF End, CountsInv, stores, SumTypes
  <1>5. SumTypes'
    BY <1>1, <1>2, WorkKinds DEF End, SumTypes, stores
  <1>6. QED
    BY <1>3, <1>4, <1>5

-----------------------------------------------------------------------------
(* The marks, at each step.                                                *)
LEMMA BeginningsMark ==
    ASSUME SumTypes, MarkInv, NEW x \in Coroutines, Beginnings(x)
    PROVE  MarkInv'
  <1>0. \A y \in Coroutines : work'[y] = work[y] \/ work'[y].pc \in {"none", "read"}
    BY BeginningsWork, BeginsWork
  <1>1. ASSUME NEW s \in Chats, Turn(x, s)
        PROVE  MarkInv'
    BY <1>1, BeginningsWork, TouchMark DEF Turn
  <1>2. ASSUME NEW i \in 1 .. Len(sums), Fade(i)
        PROVE  MarkInv'
    <2>1. sums' = [sums EXCEPT ![i] = [sums[i] EXCEPT !.alive = FALSE]] /\ UNCHANGED <<memory, history>>
      BY <1>2 DEF Fade
    <2>2. sums[i] \in Summary
      BY ElementOfSeq DEF SumTypes
    <2>3. [sums[i] EXCEPT !.alive = FALSE].sess = sums[i].sess /\ [sums[i] EXCEPT !.alive = FALSE].upto = sums[i].upto
      BY <2>2 DEF Summary
    <2>4. Len(sums') = Len(sums)
      BY <2>1 DEF SumTypes
    <2>5. SumsGrow
      BY <2>1, <2>3, <2>4 DEF SumsGrow, SumTypes
    <2>6. QED
      BY <1>0, <2>1, <2>5, MarkKept DEF memory, history
  <1>3. CASE /\ \A s \in Chats : ~Turn(x, s)
             /\ \A i \in 1 .. Len(sums) : ~Fade(i)
    <2>1. sums' = sums /\ mark' = mark /\ heard' = heard /\ late' = late
      BY <1>3 DEF Beginnings, Hear, Grow, Command, Collect, LoopNext, StopLoop, stores, memory, history
    <2>2. QED
      BY <1>0, <2>1, MarkKept, SameSums
  <1>4. QED
    BY <1>1, <1>2, <1>3

LEMMA StepMark ==
    ASSUME SumTypes, CountsInv, LoopInv, MarkInv, NEW x \in Coroutines, Step(x)
    PROVE  MarkInv'
  <1> DEFINE s == work[x].sess
  <1>0. \A t \in Chats : heard[t] \in Nat /\ told[t] \in Nat /\ heard[t] <= told[t]
    BY SummaryAssumption DEF SumTypes, CountsInv
  <1>1. CASE Read(x)
    <2>0. /\ sums' = sums /\ heard' = heard /\ late \subseteq late' /\ s \in Chats /\ UNCHANGED <<loop, queue>>
          /\ work[x].pc = "read" /\ work[x] \in Working
      BY <1>1, ReadDoes DEF stores, SumTypes
    <2>1. \A t : Explained(t) => Explained(t)'
      BY <2>0, SameSums, ExplainedKept
    <2>2. CASE ReadEnds(x)
      <3>1. \A y \in Coroutines : work'[y] = work[y] \/ work'[y].pc = "none"
        BY <2>0, <2>2, MovesTypes, WorkKinds DEF ReadEnds
      <3>2. \A t \in mark' : Explained(t)'
        BY <1>0, <2>0, <2>1, <2>2, SummaryAssumption DEF ReadEnds, MarkInv, Explained
      <3>3. QED
        BY <2>0, <2>1, <3>1, <3>2 DEF MarkInv
    <2>3. CASE ReadGoesOn(x)
      <3>1. PICK n \in Nat : /\ n = told[s] \/ s \in late'
                             /\ Moves(x, [work[x] EXCEPT !.pc = "prev", !.got = n])
        BY <2>3 DEF ReadGoesOn
      <3>2. /\ work'[x] = [work[x] EXCEPT !.pc = "prev", !.got = n]
            /\ \A y \in Coroutines \ {x} : work'[y] = work[y]
        BY <2>0, <3>1, MovesTypes
      <3>3. work'[x].pc = "prev" /\ work'[x].got = n /\ work'[x].sess = s
        BY <2>0, <3>2 DEF Working
      <3>4. s \in late' \/ n >= heard[s]
        BY <1>0, <2>0, <3>1
      <3>5. mark' = mark
        BY <2>3 DEF ReadGoesOn
      <3>6. QED
        BY <2>0, <2>1, <3>2, <3>3, <3>4, <3>5 DEF MarkInv
    <2>4. QED
      BY <1>1, <2>2, <2>3, ReadDoes
  <1>2. CASE FindPrev(x)
    <2>1. PICK p, q : Moves(x, [work[x] EXCEPT !.prev = p, !.pc = "insert", !.seq = q])
      BY <1>2, FindPrevDoes
    <2>2. /\ work[x].pc = "prev" /\ work[x] \in Working
          /\ UNCHANGED <<sums, heard, late, mark, loop, queue>>
      BY <1>2, FindPrevDoes DEF stores, memory, history, SumTypes
    <2>3. /\ work'[x] = [work[x] EXCEPT !.prev = p, !.pc = "insert", !.seq = q]
          /\ \A y \in Coroutines \ {x} : work'[y] = work[y]
      BY <2>1, <2>2, MovesTypes
    <2>4. /\ work'[x].pc = "insert" /\ work'[x].kind = work[x].kind
          /\ work'[x].got = work[x].got /\ work'[x].sess = work[x].sess
      BY <2>2, <2>3 DEF Working
    <2>5. QED
      BY <2>2, <2>3, <2>4, MarkKept, SameSums
  <1>3. CASE Insert(x)
    <2>0. /\ work[x].pc = "insert" /\ s \in Chats /\ work[x] \in Working /\ heard' = heard /\ mark' = mark
          /\ UNCHANGED <<loop, queue>> /\ Inserted(work[x]) \in Summary
      BY <1>3, InsertDoes DEF memory, SumTypes
    <2>1. late \subseteq late' /\ SumsGrow
      <3>1. CASE InsertStores(x)
        BY <3>1, <2>0, AppendProperties DEF InsertStores, SumsGrow, SumTypes
      <3>2. CASE InsertFails(x)
        BY <3>2, SameSums DEF InsertFails
      <3>3. QED
        BY <1>3, <3>1, <3>2, InsertDoes
    <2>2. \A t : Explained(t) => Explained(t)'
      BY <2>0, <2>1, ExplainedKept
    <2>c. PICK c \in Chats : c = s
      BY <2>0
    <2>3. work[x].kind = "summary" => Explained(c)'
      <3>1. CASE InsertStores(x)
        <4>1. sums'[Len(sums) + 1] = Inserted(work[x]) /\ Len(sums') = Len(sums) + 1 /\ Len(sums) \in Nat
          BY <2>0, <3>1, AppendProperties DEF InsertStores, SumTypes
        <4>2. Inserted(work[x]).sess = c /\ Inserted(work[x]).upto = work[x].got
          BY <2>c DEF Inserted
        <4>3. work[x].kind = "summary" => c \in late \/ work[x].got >= heard[c]
          BY <2>0, <2>c DEF MarkInv
        <4>4. work[x].got >= heard[c] => Covered(c)'
          BY <2>0, <4>1, <4>2 DEF Covered
        <4>5. QED
          BY <2>0, <2>1, <4>3, <4>4 DEF Explained
      <3>2. CASE InsertFails(x)
        BY <2>0, <2>c, <3>2 DEF InsertFails, Explained
      <3>3. QED
        BY <1>3, <3>1, <3>2, InsertDoes
    <2>4. PICK w : /\ Moves(x, w)
                   /\ w.kind = "summary" => w.pc = "mark" /\ w.sess = c /\ work[x].kind = "summary"
      <3>1. NoWork.kind = "none"
        BY WorkKinds
      <3>2. [work[x] EXCEPT !.pc = "mark"].pc = "mark" /\ [work[x] EXCEPT !.pc = "mark"].sess = s
            /\ [work[x] EXCEPT !.pc = "mark"].kind = work[x].kind
        BY <2>0 DEF Working
      <3>3. QED
        BY <1>3, <2>c, <3>1, <3>2, InsertDoes
    <2>5. work'[x] = w /\ \A y \in Coroutines \ {x} : work'[y] = work[y]
      BY <2>0, <2>4, MovesTypes
    <2>6. QED
      BY <2>0, <2>1, <2>2, <2>3, <2>4, <2>5 DEF MarkInv
  <1>4. CASE SetMark(x)
    <2>0. /\ work[x].pc = "mark" /\ work[x].kind = "summary" /\ s \in Chats
          /\ Moves(x, NoWork) /\ mark' = mark \cup {s}
          /\ UNCHANGED <<sums, heard, late, loop, queue>>
      BY <1>4, SetMarkDoes DEF stores, history
    <2>1. \A t : Explained(t) => Explained(t)'
      BY <2>0, SameSums, ExplainedKept
    <2>2. \A t \in mark' : Explained(t)'
      BY <2>0, <2>1 DEF MarkInv
    <2>3. \A y \in Coroutines : work'[y] = work[y] \/ work'[y].kind = "none"
      BY <2>0, MovesTypes, WorkKinds
    <2>4. QED
      BY <2>0, <2>1, <2>2, <2>3 DEF MarkInv
  <1>5. QED
    BY <1>1, <1>2, <1>3, <1>4 DEF Step

-----------------------------------------------------------------------------
(* The turns and the chains.                                               *)
LEMMA TurnTurns ==
    ASSUME SumTypes, TurnsInv, NEW x, NEW s \in Chats, Turn(x, s)
    PROVE  TurnsInv'
  <1> DEFINE n == turns[s] + 1
  <1>0. /\ turns \in [Chats -> Nat] /\ saved \in [Chats -> Nat] /\ begun \in Seq(Chats \X Nat) /\ n \in Nat
        /\ turns' = [turns EXCEPT ![s] = n]
        /\ \/ saved' = [saved EXCEPT ![s] = n] /\ unsaved' = unsaved
           \/ saved' = saved /\ unsaved' = unsaved \cup {s}
        /\ begun' = begun \/ begun' = Append(begun, <<s, n>>)
    <2>1. turns \in [Chats -> Nat] /\ saved \in [Chats -> Nat] /\ begun \in Seq(Chats \X Nat)
      BY DEF SumTypes
    <2>2. n \in Nat
      BY <2>1
    <2>3. QED
      BY <2>1, <2>2, TurnDoes
  <1>1. /\ Len(begun) \in Nat /\ Len(begun') \in {Len(begun), Len(begun) + 1}
        /\ \A i \in 1 .. Len(begun') : \/ i \in 1 .. Len(begun) /\ begun'[i] = begun[i]
                                       \/ i = Len(begun) + 1 /\ begun'[i] = <<s, n>>
    <2>1. CASE begun' = begun
      BY <1>0, <2>1
    <2>2. CASE begun' = Append(begun, <<s, n>>)
      <3>1. <<s, n>> \in Chats \X Nat
        BY <1>0
      <3>2. QED
        BY <1>0, <2>2, <3>1, AppendProperties
    <2>3. QED
      BY <1>0, <2>1, <2>2
  <1>2. \A i \in 1 .. Len(begun) : begun[i] \in Chats \X Nat
    BY <1>0, ElementOfSeq
  <1>3. ASSUME NEW t \in Chats \ unsaved'
        PROVE  saved'[t] = turns'[t] /\ \A i \in 1 .. Len(begun') : begun'[i][1] = t => begun'[i][2] <= turns'[t]
    <2>1. t \notin unsaved /\ (t = s => saved' = [saved EXCEPT ![s] = n])
      BY <1>0
    <2>2. saved'[t] = turns'[t]
      BY <1>0, <2>1 DEF TurnsInv
    <2>3. ASSUME NEW i \in 1 .. Len(begun'), begun'[i][1] = t
          PROVE  begun'[i][2] <= turns'[t]
      <3>1. CASE i \in 1 .. Len(begun) /\ begun'[i] = begun[i]
        <4>1. begun[i][2] <= turns[t] /\ begun[i][2] \in Nat /\ turns[t] \in Nat
          BY <1>0, <1>2, <2>1, <2>3, <3>1 DEF TurnsInv
        <4>2. turns'[t] = turns[t] \/ turns'[t] = turns[t] + 1
          BY <1>0
        <4>3. QED
          BY <3>1, <4>1, <4>2
      <3>2. CASE begun'[i] = <<s, n>>
        BY <1>0, <2>3, <3>2
      <3>3. QED
        BY <1>1, <3>1, <3>2
    <2>4. QED
      BY <2>2, <2>3
  <1>4. ASSUME NEW i \in 1 .. Len(begun), s \notin unsaved
        PROVE  begun[i] # <<s, n>>
    <2>1. begun[i][1] = s => begun[i][2] <= turns[s]
      BY <1>4 DEF TurnsInv
    <2>2. begun[i][2] \in Nat /\ turns[s] \in Nat
      BY <1>0, <1>2
    <2>3. ~ turns[s] + 1 <= turns[s]
      BY <2>2
    <2>4. ASSUME begun[i] = <<s, n>>
          PROVE  FALSE
      <3>1. begun[i][1] = s /\ begun[i][2] = turns[s] + 1
        BY <2>4
      <3>2. QED
        BY <2>1, <2>3, <3>1
    <2>5. QED
      BY <2>4
  <1>5. DigestOnce'
    <2> SUFFICES ASSUME NEW i \in 1 .. Len(begun'), NEW k \in 1 .. Len(begun'), i # k, begun'[i] = begun'[k]
                 PROVE  begun'[i][1] \in unsaved'
      BY DEF DigestOnce
    <2>1. unsaved \subseteq unsaved'
      BY <1>0
    <2>2. CASE i \in 1 .. Len(begun) /\ k \in 1 .. Len(begun)
      <3>1. begun'[i] = begun[i] /\ begun'[k] = begun[k]
        BY <1>1, <2>2
      <3>2. QED
        BY <2>1, <2>2, <3>1 DEF TurnsInv, DigestOnce
    <2>3. CASE i \notin 1 .. Len(begun) /\ k \in 1 .. Len(begun)
      BY <1>1, <1>4, <2>1, <2>3
    <2>4. CASE k \notin 1 .. Len(begun) /\ i \in 1 .. Len(begun)
      BY <1>1, <1>4, <2>1, <2>4
    <2>5. CASE k \notin 1 .. Len(begun) /\ i \notin 1 .. Len(begun)
      BY <1>1, <2>5
    <2>6. QED
      BY <2>2, <2>3, <2>4, <2>5
  <1>6. QED
    BY <1>3, <1>5 DEF TurnsInv

LEMMA ChainKept ==
    ASSUME SumTypes, ChainInv, Len(sums') = Len(sums),
           \A i \in 1 .. Len(sums) : /\ sums'[i].sess = sums[i].sess /\ sums'[i].seq = sums[i].seq
                                     /\ sums'[i].prev = sums[i].prev,
           \A x \in Coroutines : work'[x].pc = "insert" => work'[x] = work[x]
    PROVE  ChainInv'
  <1>1. \A n \in 0 .. Len(sums) : \A e : Linked(n, e) => Linked(n, e)'
    BY DEF Linked, SumTypes
  <1>2. ASSUME NEW i \in 1 .. Len(sums)
        PROVE  Linked(i - 1, sums[i])'
    <2>1. Linked(i - 1, sums[i]) /\ i - 1 \in 0 .. Len(sums)
      BY DEF ChainInv, SumTypes
    <2>2. QED
      BY <2>1 DEF Linked, SumTypes
  <1>3. ASSUME NEW x \in Coroutines, work'[x].pc = "insert"
        PROVE  Linked(Len(sums), work[x])'
    <2>1. Linked(Len(sums), work[x]) /\ work'[x] = work[x]
      BY <1>3 DEF ChainInv
    <2>2. QED
      BY <2>1 DEF Linked, SumTypes
  <1>4. QED
    BY <1>2, <1>3 DEF ChainInv

LEMMA BeginningsRest ==
    ASSUME SumTypes, TurnsInv, ChainInv, NEW x \in Coroutines, Beginnings(x)
    PROVE  TurnsInv' /\ ChainInv'
  <1>1. \A y \in Coroutines : work'[y] = work[y] \/ work'[y].pc \in {"none", "read"}
    BY BeginningsWork, BeginsWork
  <1>2. ChainInv'
    <2>1. ASSUME NEW i \in 1 .. Len(sums), Fade(i)
          PROVE  ChainInv'
      <3>1. sums' = [sums EXCEPT ![i] = [sums[i] EXCEPT !.alive = FALSE]] /\ sums \in Seq(Summary)
        BY <2>1 DEF Fade, SumTypes
      <3>2. sums[i] \in Summary
        BY <3>1, ElementOfSeq
      <3>3. /\ [sums[i] EXCEPT !.alive = FALSE].sess = sums[i].sess
            /\ [sums[i] EXCEPT !.alive = FALSE].seq = sums[i].seq
            /\ [sums[i] EXCEPT !.alive = FALSE].prev = sums[i].prev
        BY <3>2 DEF Summary
      <3>4. Len(sums') = Len(sums)
        BY <3>1
      <3>5. \A k \in 1 .. Len(sums) : /\ sums'[k].sess = sums[k].sess /\ sums'[k].seq = sums[k].seq
                                      /\ sums'[k].prev = sums[k].prev
        BY <3>1, <3>3
      <3>6. QED
        BY <1>1, <3>4, <3>5, ChainKept
    <2>2. CASE \A i \in 1 .. Len(sums) : ~Fade(i)
      <3>1. sums' = sums
        BY <2>2 DEF Beginnings, Hear, Grow, Turn, Command, Collect, LoopNext, StopLoop, stores
      <3>2. QED
        BY <1>1, <3>1, ChainKept
    <2>3. QED
      BY <2>1, <2>2
  <1>3. TurnsInv'
    <2>1. CASE \E s \in Chats : Turn(x, s)
      BY <2>1, TurnTurns
    <2>2. CASE \A s \in Chats : ~Turn(x, s)
      <3>1. UNCHANGED <<turns, saved, begun, unsaved>>
        BY <2>2 DEF Beginnings, Hear, Grow, Command, Collect, LoopNext, StopLoop, Fade, stores, memory, history
      <3>2. QED
        BY <3>1 DEF TurnsInv, DigestOnce
    <2>3. QED
      BY <2>1, <2>2
  <1>4. QED
    BY <1>2, <1>3

LEMMA StepChain ==
    ASSUME SumTypes, LoopInv, ChainInv, NEW x \in Coroutines, Step(x)
    PROVE  ChainInv'
  <1>0. work[x] \in Working /\ Len(sums) \in Nat
    BY DEF SumTypes
  <1>1. CASE Read(x)
    <2>1. work[x].pc = "read" /\ UNCHANGED <<sums, loop, queue>>
      BY <1>1, ReadDoes DEF stores
    <2>2. PICK w : Moves(x, w) /\ w.pc # "insert"
      <3>1. NoWork.pc # "insert"
        BY WorkKinds
      <3>2. \A n : [work[x] EXCEPT !.pc = "prev", !.got = n].pc # "insert"
        BY <1>0 DEF Working
      <3>3. QED
        BY <1>1, <3>1, <3>2, ReadDoes DEF ReadEnds, ReadGoesOn
    <2>3. \A y \in Coroutines : work'[y].pc = "insert" => work'[y] = work[y]
      BY <2>1, <2>2, MovesTypes
    <2>4. QED
      BY <2>1, <2>3, ChainKept
  <1>2. CASE FindPrev(x)
    <2>1. work[x].pc = "prev" /\ UNCHANGED <<sums, loop, queue>>
      BY <1>2, FindPrevDoes DEF stores
    <2>2. PICK p \in {0} \cup Others(work[x].sess) :
             Moves(x, [work[x] EXCEPT !.prev = p, !.pc = "insert", !.seq = IF p = 0 THEN 0 ELSE sums[p].seq + 1])
      BY <1>2, FindPrevDoes
    <2> DEFINE q == IF p = 0 THEN 0 ELSE sums[p].seq + 1
    <2>3. /\ work'[x] = [work[x] EXCEPT !.prev = p, !.pc = "insert", !.seq = q]
          /\ \A y \in Coroutines \ {x} : work'[y] = work[y]
      BY <2>1, <2>2, MovesTypes
    <2>4. work'[x].prev = p /\ work'[x].seq = q /\ work'[x].sess = work[x].sess
      <3> HIDE DEF q
      <3>1. QED
        BY <1>0, <2>3 DEF Working
    <2>5. \A i \in 1 .. Len(sums) : Linked(i - 1, sums[i])'
      <3>1. \A i \in 1 .. Len(sums) : Linked(i - 1, sums[i])
        BY DEF ChainInv
      <3>2. QED
        BY <2>1, <3>1 DEF Linked
    <2>6. Linked(Len(sums), work[x])'
      BY <2>1, <2>4 DEF Linked, Others
    <2>7. \A y \in Coroutines : work'[y].pc = "insert" => Linked(Len(sums), work[y])'
      <3>1. ASSUME NEW y \in Coroutines, y # x, work'[y].pc = "insert"
            PROVE  Linked(Len(sums), work[y])'
        <4>1. work'[y] = work[y] /\ Linked(Len(sums), work[y])
          BY <2>3, <3>1 DEF ChainInv
        <4>2. QED
          BY <2>1, <4>1 DEF Linked
      <3>2. QED
        BY <2>6, <3>1
    <2>8. QED
      BY <2>1, <2>5, <2>7 DEF ChainInv
  <1>3. CASE Insert(x)
    <2>1. /\ work[x].pc = "insert" /\ Inserted(work[x]) \in Summary /\ UNCHANGED <<loop, queue>>
          /\ InsertStores(x) \/ InsertFails(x)
      BY <1>3, InsertDoes
    <2>2. PICK w : Moves(x, w) /\ w.pc # "insert"
      <3>1. NoWork.pc # "insert"
        BY WorkKinds
      <3>2. [work[x] EXCEPT !.pc = "mark"].pc # "insert"
        BY <1>0 DEF Working
      <3>3. QED
        BY <1>3, <3>1, <3>2, InsertDoes
    <2>3. \A y \in Coroutines : work'[y].pc = "insert" => work'[y] = work[y]
      BY <2>1, <2>2, MovesTypes
    <2>4. CASE InsertFails(x)
      BY <2>3, <2>4, ChainKept DEF InsertFails
    <2>5. CASE InsertStores(x)
      <3>1. /\ Len(sums') = Len(sums) + 1 /\ sums'[Len(sums) + 1] = Inserted(work[x])
            /\ \A i \in 1 .. Len(sums) : sums'[i] = sums[i]
        BY <2>1, <2>5, AppendProperties DEF InsertStores, SumTypes
      <3>2. \A n \in 0 .. Len(sums) : \A e, f : Linked(n, e) /\ f.prev = e.prev /\ f.seq = e.seq /\ f.sess = e.sess =>
                  IF f.prev = 0 THEN f.seq = 0
                  ELSE f.prev \in 1 .. n /\ sums'[f.prev].sess # f.sess /\ f.seq = sums'[f.prev].seq + 1
        BY <1>0, <3>1 DEF Linked
      <3>3. ASSUME NEW i \in 1 .. Len(sums')
            PROVE  Linked(i - 1, sums[i])'
        <4>1. CASE i \in 1 .. Len(sums)
          BY <1>0, <3>1, <3>2, <4>1 DEF ChainInv, Linked
        <4>2. CASE i = Len(sums) + 1
          <5>1. Linked(Len(sums), work[x])
            BY <2>1 DEF ChainInv
          <5>2. /\ sums'[i].prev = work[x].prev /\ sums'[i].seq = work[x].seq /\ sums'[i].sess = work[x].sess
            BY <3>1, <4>2 DEF Inserted
          <5>3. i - 1 = Len(sums) /\ Len(sums) \in 0 .. Len(sums)
            BY <1>0, <4>2
          <5>4. IF sums'[i].prev = 0 THEN sums'[i].seq = 0
                ELSE /\ sums'[i].prev \in 1 .. Len(sums) /\ sums'[sums'[i].prev].sess # sums'[i].sess
                     /\ sums'[i].seq = sums'[sums'[i].prev].seq + 1
            <6>1. CASE work[x].prev = 0
              BY <5>1, <5>2, <6>1 DEF Linked
            <6>2. CASE work[x].prev # 0
              <7>1. /\ work[x].prev \in 1 .. Len(sums) /\ sums[work[x].prev].sess # work[x].sess
                    /\ work[x].seq = sums[work[x].prev].seq + 1
                BY <5>1, <6>2 DEF Linked
              <7>2. sums'[work[x].prev] = sums[work[x].prev]
                BY <3>1, <7>1
              <7>3. QED
                BY <5>2, <6>2, <7>1, <7>2
            <6>3. QED
              BY <6>1, <6>2
          <5>5. QED
            BY <5>3, <5>4 DEF Linked
        <4>3. QED
          BY <1>0, <3>1, <4>1, <4>2
      <3>4. ASSUME NEW y \in Coroutines, work'[y].pc = "insert"
            PROVE  Linked(Len(sums), work[y])'
        <4>1. Linked(Len(sums), work[y]) /\ work'[y] = work[y]
          BY <2>3, <3>4 DEF ChainInv
        <4>2. QED
          BY <1>0, <3>1, <4>1 DEF Linked
      <3>5. QED
        BY <3>3, <3>4 DEF ChainInv
    <2>6. QED
      BY <2>1, <2>4, <2>5
  <1>4. CASE SetMark(x)
    <2>1. work[x].pc = "mark" /\ Moves(x, NoWork) /\ UNCHANGED <<sums, loop, queue>>
      BY <1>4, SetMarkDoes DEF stores
    <2>2. \A y \in Coroutines : work'[y].pc = "insert" => work'[y] = work[y]
      BY <2>1, MovesTypes, WorkKinds
    <2>3. QED
      BY <2>1, <2>2, ChainKept
  <1>5. QED
    BY <1>1, <1>2, <1>3, <1>4 DEF Step

LEMMA StepTurns ==
    ASSUME TurnsInv, NEW x, Step(x)
    PROVE  TurnsInv'
  <1>1. UNCHANGED <<turns, saved, begun, unsaved>>
    BY DEF Step, Read, FindPrev, Insert, SetMark, stores, memory, history
  <1>2. QED
    BY <1>1 DEF TurnsInv, DigestOnce

LEMMA EndRest ==
    ASSUME SumInv, End
    PROVE  MarkInv' /\ TurnsInv' /\ ChainInv'
  <1>0. SumTypes /\ TurnsInv /\ ChainInv
    BY DEF SumInv
  <1>1. /\ mark' = {} /\ turns' = saved /\ UNCHANGED <<saved, sums, begun, unsaved>>
        /\ work' = [x \in Coroutines |-> NoWork]
    BY <1>0 DEF End, stores, SumTypes
  <1>2. \A x \in Coroutines : work'[x] = NoWork
    BY <1>1
  <1>3. MarkInv'
    BY <1>1, <1>2, WorkKinds DEF MarkInv
  <1>4. TurnsInv'
    BY <1>0, <1>1 DEF TurnsInv, DigestOnce
  <1>5. ChainInv'
    BY <1>0, <1>1, <1>2, WorkKinds, ChainKept
  <1>6. QED
    BY <1>3, <1>4, <1>5

-----------------------------------------------------------------------------
(* The inductive invariant of the summaries.                               *)
LEMMA SumInitInv == SumInit => SumInv
  <1> SUFFICES ASSUME SumInit
               PROVE  SumInv
    OBVIOUS
  <1>0. \A x \in Coroutines : work[x] = NoWork
    BY DEF SumInit, Coroutines
  <1>1. SumTypes
    BY <1>0, WorkKinds, SummaryAssumption DEF SumInit, SumTypes, Coroutines
  <1>2. CountsInv /\ LoopInv
    BY DEF SumInit, CountsInv, LoopInv, Coroutines
  <1>3. MarkInv /\ TurnsInv /\ ChainInv
    BY <1>0, WorkKinds DEF SumInit, MarkInv, TurnsInv, DigestOnce, ChainInv
  <1>4. QED
    BY <1>1, <1>2, <1>3 DEF SumInv

LEMMA SumNextInv == SumInv /\ [SumNext]_svars => SumInv'
  <1> SUFFICES ASSUME SumInv, [SumNext]_svars
               PROVE  SumInv'
    OBVIOUS
  <1>0. SumTypes /\ CountsInv /\ LoopInv /\ MarkInv /\ TurnsInv /\ ChainInv
    BY DEF SumInv
  <1>1. ASSUME NEW x \in Coroutines, Beginnings(x)
        PROVE  SumInv'
    BY <1>0, <1>1, BeginningsTypes, BeginningsMark, BeginningsRest DEF SumInv
  <1>2. ASSUME NEW x \in Coroutines, Step(x)
        PROVE  SumInv'
    BY <1>0, <1>2, StepTypes, StepMark, StepTurns, StepChain DEF SumInv
  <1>3. CASE End
    BY <1>0, <1>3, EndTypes, EndRest DEF SumInv
  <1>4. CASE UNCHANGED svars
    <2>1. SumTypes' /\ CountsInv' /\ LoopInv'
      BY <1>0, <1>4 DEF svars, stores, memory, history, bounds, SumTypes, CountsInv, LoopInv
    <2>2. MarkInv'
      BY <1>0, <1>4, MarkKept, SameSums DEF svars, stores, memory, history, bounds
    <2>3. TurnsInv' /\ ChainInv'
      BY <1>0, <1>4, ChainKept DEF svars, stores, memory, history, bounds, TurnsInv, DigestOnce
    <2>4. QED
      BY <2>1, <2>2, <2>3 DEF SumInv
  <1>5. Slots \subseteq Coroutines /\ Loop \in Coroutines
    BY DEF Coroutines
  <1>6. QED
    BY <1>1, <1>2, <1>3, <1>4, <1>5 DEF SumNext, LoopStep, Beginnings

LEMMA SumInvariance == SumSpec => []SumInv
  BY SumInitInv, SumNextInv, PTL DEF SumSpec

(* A marked session has a summary of all it had told when last touched, or *)
(* its mark has a cause.                                                   *)
THEOREM MarksAreTrue == SumSpec => []MarkedIsSummarised
  <1>1. SumInv => MarkedIsSummarised
    BY DEF SumInv, MarkInv, Explained, Covered, MarkedIsSummarised, SumTypes
  <1>2. QED
    BY <1>1, SumInvariance, PTL

(* Over restarts a turn triggers one digest, and each summary names an     *)
(* older one of another session: chains of summaries end.                  *)
THEOREM DigestsAreSound == SumSpec => []DigestsSound
  <1>1. SumInv => SumTypeOK
    BY DEF SumInv, SumTypes, CountsInv, LoopInv, SumTypeOK
  <1>2. SumInv => DigestOnce
    BY DEF SumInv, TurnsInv
  <1>3. SumInv => ChainsGoBack
    <2> SUFFICES ASSUME SumInv, NEW i \in 1 .. Len(sums)
                 PROVE  LET e == sums[i] IN
                        IF e.prev = 0 THEN e.seq = 0
                        ELSE e.prev < i /\ sums[e.prev].sess # e.sess /\ e.seq = sums[e.prev].seq + 1
      BY DEF ChainsGoBack
    <2>1. Linked(i - 1, sums[i])
      BY DEF SumInv, ChainInv
    <2>2. QED
      BY <2>1 DEF Linked
  <1>4. QED
    BY <1>1, <1>2, <1>3, SumInvariance, PTL DEF DigestsSound

-----------------------------------------------------------------------------
(* Conversation: the types.                                                *)
Operation == [op : {"none", "get", "add", "trim", "clear", "sync"},
              pc : {"none", "filling", "locking", "first", "second", "committing", "committed", "added", "limit"},
              ids : SUBSET Sessions, msg : 0 .. MaxMsgs, key : Keys \cup {NoKey}, n : Nat, last : Nat, snap : SUBSET Msgs]
Listing == [sess : Sessions, msgs : SUBSET Msgs]
OperationFits(o) ==
    /\ o \in Operation
    /\ o.pc = "none" <=> o.op = "none"
    /\ o.pc = "filling" <=> o.op = "get"
    /\ o.pc \in {"added", "limit"} => o.op = "add"
    /\ o.op \notin {"none", "sync"} => \E s \in Sessions : o.ids = {s}
ConvTypes ==
    /\ db \in Store /\ conn \in Store
    /\ lock \in Jobs \cup {NoJob} /\ seen \subseteq Keys
    /\ cjob \in [Jobs -> Operation] /\ \A j \in Jobs : OperationFits(cjob[j])
    /\ sent \in 0 .. MaxMsgs
    /\ cache \in Seq(Listing) /\ Len(cache) <= CacheSize

\* A session has one cached list.
OneEach == \A i, k \in 1 .. Len(cache) : cache[i].sess = cache[k].sess => i = k

\* Who is at a statement holds the lock.
Held == {"first", "second", "committing"}
LockInv ==
    /\ \A j \in Jobs : cjob[j].pc \in Held => lock = j
    /\ lock # NoJob => lock \in Jobs /\ cjob[lock].pc \in Held

\* A message that is about to be added is nowhere yet.
Adding(j) == cjob[j].op = "add" /\ cjob[j].pc \in {"locking", "first"}
NewInv ==
    /\ \A s \in Sessions : db.msgs[s] \subseteq 1 .. sent /\ conn.msgs[s] \subseteq 1 .. sent
    /\ \A j \in Jobs : Adding(j) =>
         /\ cjob[j].msg \in 1 .. sent /\ \A s \in Sessions : cjob[j].msg \notin conn.msgs[s]
         /\ \A k \in Jobs \ {j} : Adding(k) => cjob[k].msg # cjob[j].msg

\* The count of a session is right but where an add has made one half of its
\* write, and on disk but where such a half was committed.
Half == IF lock # NoJob /\ cjob[lock].pc = "second" THEN cjob[lock].ids ELSE {}
Counts(st, s) == st.count[s] = Cardinality(st.msgs[s])
CountInv ==
    /\ \A s \in Sessions \ torn :
         IF s \in Half THEN cjob[lock].op = "add" => conn.count[s] + 1 = Cardinality(conn.msgs[s])
         ELSE Counts(conn, s)
    /\ lock # NoJob /\ cjob[lock].pc = "committing" /\ cjob[lock].op # "add" =>
         \A s \in cjob[lock].ids : Counts(conn, s)
    /\ \A s \in Sessions \ (torn \cup leaked) : Counts(db, s)

\* A list, cached or about to be, is the newest messages, or one that writes
\* is to drop it, or it is excused.
Dirty == {s \in Sessions : \E j \in Jobs : /\ cjob[j].op # "sync" /\ s \in cjob[j].ids
                                           /\ cjob[j].pc \in {"second", "committing", "committed"}}
TopOf(s, M) == M = Newest(conn.msgs[s], Cardinality(M))
Stands(s, M) == s \in Dirty \cup excused \/ TopOf(s, M)
StaleInv ==
    /\ \A i \in 1 .. Len(cache) : Stands(cache[i].sess, cache[i].msgs)
    /\ \A j \in Jobs : cjob[j].pc = "filling" => \A s \in cjob[j].ids : Stands(s, cjob[j].snap)

ConvInv == ConvTypes /\ OneEach /\ LockInv /\ NewInv /\ CountInv /\ StaleInv

LEMMA ConvNats ==
    /\ NoJob \notin Jobs /\ NoKey \notin Keys /\ MaxMsgs \in Nat /\ CacheSize \in Nat /\ Limit \in Nat
  BY ConversationAssumption

LEMMA FiniteMsgs ==
    ASSUME NEW S \in SUBSET Msgs
    PROVE  IsFiniteSet(S) /\ Cardinality(S) \in Nat /\ S \subseteq Nat
  <1>1. IsFiniteSet(1 .. MaxMsgs)
    BY ConvNats, FS_Interval
  <1>2. S \in SUBSET (1 .. MaxMsgs)
    BY DEF Msgs
  <1>3. IsFiniteSet(S)
    BY <1>1, <1>2, FS_Subset
  <1>4. QED
    BY <1>2, <1>3, FS_CardinalityType

\* The newest n are the newest that many.
LEMMA NewestIs ==
    ASSUME NEW S \in SUBSET Msgs, NEW n \in Int
    PROVE  LET N == Newest(S, n) IN N \in SUBSET Msgs /\ N = Newest(S, Cardinality(N))
  <1> DEFINE N == Newest(S, n)
             Above(m) == {x \in S : x > m}
             c == Cardinality(N)
  <1>1. /\ N \in SUBSET S /\ S \subseteq Nat /\ IsFiniteSet(S) /\ IsFiniteSet(N) /\ c \in Nat
        /\ \A m \in S : Above(m) \in SUBSET S /\ IsFiniteSet(Above(m)) /\ Cardinality(Above(m)) \in Nat
    <2>1. N \in SUBSET S /\ \A m \in S : Above(m) \in SUBSET S
      BY DEF Newest
    <2>2. QED
      BY <2>1, FiniteMsgs
  <1>2. \A m \in S : m \in N <=> Cardinality(Above(m)) < n
    BY DEF Newest
  <1>3. \A m \in S : m \in Newest(S, c) <=> Cardinality(Above(m)) < c
    BY DEF Newest
  <1>4. \A m, x \in S : x \in Above(m) <=> x > m
    OBVIOUS
  <1> HIDE DEF N, Above, c
  <1>5. ASSUME NEW m \in N, NEW y \in S, y > m
        PROVE  y \in N
    <2>1. Above(y) \in SUBSET Above(m)
      <3>1. ASSUME NEW x \in Above(y)
            PROVE  x \in Above(m)
        <4>1. x \in S /\ m \in S /\ x > y
          BY <1>1, <1>4
        <4>2. x > m
          BY <1>1, <1>5, <4>1
        <4>3. QED
          BY <1>4, <4>1, <4>2
      <3>2. QED
        BY <3>1
    <2>2. Cardinality(Above(y)) <= Cardinality(Above(m)) /\ m \in S
      BY <1>1, <2>1, FS_Subset
    <2>3. Cardinality(Above(m)) < n
      BY <1>2, <2>2
    <2>4. Cardinality(Above(y)) < n
      BY <1>1, <2>2, <2>3
    <2>5. QED
      BY <1>2, <2>4
  <1>6. ASSUME NEW m \in N
        PROVE  Cardinality(Above(m)) < c
    <2>1. Above(m) \in SUBSET (N \ {m})
      <3>1. ASSUME NEW x \in Above(m)
            PROVE  x \in N \ {m}
        <4>1. x \in S /\ m \in S /\ x > m
          BY <1>1, <1>4
        <4>2. x # m
          BY <1>1, <4>1
        <4>3. QED
          BY <1>5, <4>1, <4>2
      <3>2. QED
        BY <3>1
    <2>2. IsFiniteSet(N \ {m}) /\ Cardinality(N \ {m}) = c - 1
      BY <1>1, FS_RemoveElement DEF c
    <2>3. Cardinality(Above(m)) <= c - 1 /\ Cardinality(Above(m)) \in Nat
      BY <1>1, <2>1, <2>2, FS_Subset
    <2>4. QED
      BY <1>1, <2>3
  <1>7. ASSUME NEW m \in S \ N
        PROVE  ~ (Cardinality(Above(m)) < c)
    <2>1. N \in SUBSET Above(m)
      <3>1. ASSUME NEW y \in N
            PROVE  y \in Above(m)
        <4>1. y \in S /\ y # m /\ y \in Nat /\ m \in Nat
          BY <1>1
        <4>2. ~ (m > y)
          BY <1>5
        <4>3. y > m
          BY <4>1, <4>2
        <4>4. QED
          BY <1>4, <4>1, <4>3
      <3>2. QED
        BY <3>1
    <2>2. c <= Cardinality(Above(m))
      BY <1>1, <2>1, FS_Subset DEF c
    <2>3. QED
      BY <1>1, <2>2
  <1>8. Newest(S, c) \in SUBSET S
    BY DEF Newest
  <1>9. N = Newest(S, c)
    BY <1>1, <1>3, <1>6, <1>7, <1>8
  <1>10. QED
    BY <1>1, <1>9 DEF N, c

LEMMA CIdleFits ==
    CIdle \in Operation /\ OperationFits(CIdle) /\ CIdle.pc = "none" /\ CIdle.op = "none"
  <1>1. CIdle.pc = "none" /\ CIdle.op = "none"
    BY DEF CIdle, Call
  <1>2. CIdle \in Operation
    BY ConvNats DEF CIdle, Call, Operation
  <1>3. QED
    BY <1>1, <1>2 DEF OperationFits

\* The fields of what the connection sees.
LEMMA StoreFacts ==
    ASSUME NEW st \in Store
    PROVE  /\ st.msgs \in [Sessions -> SUBSET Msgs] /\ st.count \in [Sessions -> Nat] /\ st.last \in [Sessions -> Nat]
           /\ st.has \in SUBSET Sessions
           /\ \A s \in Sessions : st.msgs[s] \in SUBSET Msgs /\ IsFiniteSet(st.msgs[s]) /\ Cardinality(st.msgs[s]) \in Nat
                                  /\ st.count[s] \in Nat /\ st.last[s] \in Nat
  <1>1. /\ st.msgs \in [Sessions -> SUBSET Msgs] /\ st.count \in [Sessions -> Nat] /\ st.last \in [Sessions -> Nat]
        /\ st.has \in SUBSET Sessions
    BY DEF Store
  <1>2. QED
    BY <1>1, FiniteMsgs

LEMMA ConvInitInv == ConvInit => ConvInv
  <1> SUFFICES ASSUME ConvInit
               PROVE  ConvInv
    OBVIOUS
  <1>1. db \in Store /\ conn = db /\ \A s \in Sessions : db.msgs[s] = {} /\ db.count[s] = 0
    BY DEF ConvInit, Store
  <1>2. \A j \in Jobs : cjob[j] = CIdle
    BY DEF ConvInit
  <1>3. cache = <<>> /\ cache \in Seq(Listing) /\ Len(cache) = 0 /\ lock = NoJob /\ sent = 0
    BY DEF ConvInit
  <1>4. ConvTypes
    <2>1. cjob \in [Jobs -> Operation]
      BY CIdleFits DEF ConvInit
    <2>2. seen \subseteq Keys
      BY DEF ConvInit
    <2>3. QED
      BY <1>1, <1>2, <1>3, <2>1, <2>2, CIdleFits, ConvNats DEF ConvTypes
  <1>5. OneEach
    BY <1>3 DEF OneEach
  <1>6. LockInv
    BY <1>2, <1>3, CIdleFits DEF LockInv, Held
  <1>7. NewInv
    BY <1>1, <1>2, CIdleFits DEF NewInv, Adding
  <1>8. CountInv
    BY <1>1, <1>3, FS_EmptySet DEF CountInv, Counts, Half
  <1>9. StaleInv
    BY <1>2, <1>3, CIdleFits DEF StaleInv
  <1>10. QED
    BY <1>4, <1>5, <1>6, <1>7, <1>8, <1>9 DEF ConvInv

-----------------------------------------------------------------------------
(* The cache: its lists less those of a session, and with another one.     *)
Entries(c) == \A i, k \in 1 .. Len(c) : c[i].sess = c[k].sess => i = k

LEMMA WithoutIs ==
    ASSUME cache \in Seq(Listing), OneEach, NEW S, NEW s, S = {s} \/ S = {}
    PROVE  /\ Without(S) \in Seq(Listing) /\ Entries(Without(S))
           /\ Len(Without(S)) <= Len(cache)
           /\ \A i \in 1 .. Len(Without(S)) : /\ \E k \in 1 .. Len(cache) : Without(S)[i] = cache[k]
                                              /\ Without(S)[i].sess \notin S
  <1>1. CASE S \cap Cached = {}
    BY <1>1 DEF Without, Cached, OneEach, Entries
  <1>2. CASE S \cap Cached # {}
    <2> DEFINE p == Place(S)
               n == Len(cache)
               a == SubSeq(cache, 1, p - 1)
               b == SubSeq(cache, p + 1, n)
               t == a \o b
    <2>0. S = {s}
      BY <1>2
    <2>1. p \in 1 .. n /\ cache[p].sess \in S
      BY <1>2 DEF Place, Cached
    <2>2. Without(S) = t
      BY <1>2 DEF Without, Seqs!RemoveAt
    <2>3. n \in Nat /\ p \in Int /\ 1 <= p /\ p <= n
      BY <2>1
    <2> HIDE DEF p, n
    <2>4. a \in Seq(Listing) /\ Len(a) = p - 1 /\ \A i \in 1 .. p - 1 : a[i] = cache[i]
      BY <2>3, SubSeqProperties DEF n
    <2>5. b \in Seq(Listing) /\ Len(b) = n - p /\ \A i \in 1 .. n - p : b[i] = cache[p + i]
      BY <2>3, SubSeqProperties DEF n
    <2> HIDE DEF a, b
    <2>6. /\ t \in Seq(Listing) /\ Len(t) = n - 1
          /\ \A i \in 1 .. n - 1 : t[i] = IF i < p THEN cache[i] ELSE cache[i + 1]
      <3>1. t \in Seq(Listing) /\ Len(t) = Len(a) + Len(b)
                /\ \A i \in 1 .. Len(a) + Len(b) : t[i] = IF i <= Len(a) THEN a[i] ELSE b[i - Len(a)]
        BY <2>4, <2>5, ConcatProperties
      <3>2. Len(a) + Len(b) = n - 1
        BY <2>3, <2>4, <2>5
      <3>3. ASSUME NEW i \in 1 .. n - 1
            PROVE  t[i] = IF i < p THEN cache[i] ELSE cache[i + 1]
        <4>1. CASE i < p
          BY <2>3, <2>4, <3>1, <3>2, <4>1
        <4>2. CASE ~ (i < p)
          <5>1. t[i] = b[i - (p - 1)] /\ i - (p - 1) \in 1 .. n - p
            BY <2>3, <2>4, <3>1, <3>2, <4>2
          <5>2. p + (i - (p - 1)) = i + 1
            BY <2>3
          <5>3. QED
            BY <2>5, <4>2, <5>1, <5>2
        <4>3. QED
          BY <4>1, <4>2
      <3>4. QED
        BY <3>1, <3>2, <3>3
    <2> HIDE DEF t
    <2>7. \A i \in 1 .. n - 1 : IF i < p THEN i \in 1 .. n /\ i # p ELSE i + 1 \in 1 .. n /\ i + 1 # p
      BY <2>3
    <2>8. \A i, k \in 1 .. n : cache[i].sess = cache[k].sess => i = k
      BY DEF OneEach, n
    <2>9. ASSUME NEW i \in 1 .. n - 1
          PROVE  \E k \in 1 .. n : k # p /\ t[i] = cache[k]
      BY <2>6, <2>7
    <2>10. Entries(t)
      <3>1. ASSUME NEW i \in 1 .. n - 1, NEW k \in 1 .. n - 1, t[i].sess = t[k].sess
            PROVE  i = k
        <4>1. (IF i < p THEN i ELSE i + 1) = (IF k < p THEN k ELSE k + 1)
          BY <2>6, <2>7, <2>8, <3>1
        <4>2. QED
          BY <2>3, <4>1
      <3>2. QED
        BY <2>6, <3>1 DEF Entries
    <2>11. \A k \in 1 .. n : k # p => cache[k].sess \notin S
      BY <2>0, <2>1, <2>8
    <2>12. Len(t) <= Len(cache)
      BY <2>3, <2>6 DEF n
    <2>13. \A i \in 1 .. Len(t) : (\E k \in 1 .. Len(cache) : t[i] = cache[k]) /\ t[i].sess \notin S
      BY <2>6, <2>9, <2>11 DEF n
    <2>14. QED
      BY <2>2, <2>6, <2>10, <2>12, <2>13
  <1>3. QED
    BY <1>1, <1>2

\* A list is put last, and the first goes if there are too many.
LEMMA PutIs ==
    ASSUME NEW c \in Seq(Listing), Entries(c), NEW e \in Listing, \A i \in 1 .. Len(c) : c[i].sess # e.sess
    PROVE  LET t == Append(c, e) IN
           /\ t \in Seq(Listing) /\ Entries(t) /\ Len(t) = Len(c) + 1
           /\ \A i \in 1 .. Len(t) : t[i] = e \/ \E k \in 1 .. Len(c) : t[i] = c[k]
           /\ Tail(t) \in Seq(Listing) /\ Entries(Tail(t)) /\ Len(Tail(t)) = Len(c)
           /\ \A i \in 1 .. Len(Tail(t)) : Tail(t)[i] = e \/ \E k \in 1 .. Len(c) : Tail(t)[i] = c[k]
  <1> DEFINE t == Append(c, e)
             n == Len(c)
             u == Tail(t)
  <1>1. n \in Nat
    OBVIOUS
  <1>2. t \in Seq(Listing) /\ Len(t) = n + 1 /\ (\A i \in 1 .. n : t[i] = c[i]) /\ t[n + 1] = e
    OBVIOUS
  <1> HIDE DEF t
  <1>3. t # <<>>
    BY <1>1, <1>2
  <1>4. u \in Seq(Listing) /\ Len(u) = n /\ \A i \in 1 .. n : u[i] = t[i + 1]
    BY <1>1, <1>2, <1>3
  <1> HIDE DEF u
  <1>5. \A i, k \in 1 .. n : c[i].sess = c[k].sess => i = k
    BY DEF Entries
  <1> HIDE DEF n
  <1>6. \A i \in 1 .. n + 1 : i \in 1 .. n \/ i = n + 1
    BY <1>1
  <1>7. \A i, k \in 1 .. n + 1 : t[i].sess = t[k].sess => i = k
    BY <1>2, <1>5, <1>6 DEF n
  <1>8. \A i \in 1 .. n : i + 1 \in 1 .. n + 1
    BY <1>1
  <1>9. \A i, k \in 1 .. n : u[i].sess = u[k].sess => i = k
    <2>1. ASSUME NEW i \in 1 .. n, NEW k \in 1 .. n, u[i].sess = u[k].sess
          PROVE  i = k
      <3>1. i + 1 = k + 1
        BY <1>4, <1>7, <1>8, <2>1
      <3>2. QED
        BY <3>1
    <2>2. QED
      BY <2>1
  <1>10. \A i \in 1 .. n + 1 : t[i] = e \/ \E k \in 1 .. n : t[i] = c[k]
    BY <1>2, <1>6
  <1>11. \A i \in 1 .. n : u[i] = e \/ \E k \in 1 .. n : u[i] = c[k]
    BY <1>4, <1>8, <1>10
  <1>12. QED
    BY <1>2, <1>4, <1>7, <1>9, <1>10, <1>11 DEF Entries, n, u, t

-----------------------------------------------------------------------------
(* One coroutine makes a step.                                             *)
LEMMA OneMoves ==
    ASSUME ConvTypes, NEW j \in Jobs, NEW o, OperationFits(o), cjob' = [cjob EXCEPT ![j] = o]
    PROVE  /\ cjob' \in [Jobs -> Operation] /\ \A k \in Jobs : OperationFits(cjob'[k])
           /\ cjob'[j] = o /\ \A k \in Jobs : k # j => cjob'[k] = cjob[k]
  <1>1. cjob \in [Jobs -> Operation] /\ (\A k \in Jobs : OperationFits(cjob[k])) /\ o \in Operation
    BY DEF ConvTypes, OperationFits
  <1>2. cjob'[j] = o /\ \A k \in Jobs : k # j => cjob'[k] = cjob[k]
    BY <1>1
  <1>3. cjob' \in [Jobs -> Operation]
    BY <1>1
  <1>4. QED
    BY <1>1, <1>2, <1>3

Places == {"none", "filling", "locking", "first", "second", "committing", "committed", "added", "limit"}
LEMMA OperationFields ==
    ASSUME NEW o \in Operation
    PROVE  /\ o.op \in {"none", "get", "add", "trim", "clear", "sync"} /\ o.pc \in Places /\ o.ids \in SUBSET Sessions
           /\ o.msg \in 0 .. MaxMsgs /\ o.n \in Nat /\ o.last \in Nat /\ o.snap \in SUBSET Msgs
  BY DEF Operation, Places

LEMMA GoIs ==
    ASSUME NEW o, OperationFits(o), NEW pc \in Places, o.op # "none" /\ pc # "none",
           pc = "filling" => o.op = "get", o.op # "get",
           pc \in {"added", "limit"} => o.op = "add"
    PROVE  LET r == [o EXCEPT !.pc = pc]
           IN OperationFits(r) /\ r.op = o.op /\ r.pc = pc /\ r.ids = o.ids /\ r.msg = o.msg /\ r.snap = o.snap
              /\ r.last = o.last /\ r.n = o.n /\ r.key = o.key
  <1> DEFINE r == [o EXCEPT !.pc = pc]
  <1>1. o \in Operation
    BY DEF OperationFits
  <1>2. r \in Operation
    BY <1>1 DEF Operation, Places
  <1>3. r.op = o.op /\ r.pc = pc /\ r.ids = o.ids /\ r.msg = o.msg /\ r.snap = o.snap
              /\ r.last = o.last /\ r.n = o.n /\ r.key = o.key
    BY <1>1 DEF Operation
  <1> HIDE DEF r
  <1>4. OperationFits(r)
    BY <1>2, <1>3 DEF OperationFits
  <1>5. QED
    BY <1>3, <1>4 DEF r

\* CGo says where the coroutine goes on.
LEMMA CGoMoves ==
    ASSUME ConvTypes, NEW j \in Jobs, NEW pc, CGo(j, pc)
    PROVE  cjob' = [cjob EXCEPT ![j] = [cjob[j] EXCEPT !.pc = pc]]
  BY DEF CGo, ConvTypes

-----------------------------------------------------------------------------
(* What leaves a part of the invariant as it is.                           *)
LEMMA NewKept ==
    ASSUME NewInv, sent' = sent,
           \A s \in Sessions : db'.msgs[s] \subseteq 1 .. sent /\ conn'.msgs[s] \subseteq 1 .. sent,
           \A k \in Jobs : Adding(k)' => /\ Adding(k) /\ cjob'[k].msg = cjob[k].msg
                                         /\ \A s \in Sessions : cjob[k].msg \notin conn'.msgs[s]
    PROVE  NewInv'
  <1>1. ASSUME NEW k \in Jobs, Adding(k)'
        PROVE  /\ cjob'[k].msg \in 1 .. sent' /\ \A s \in Sessions : cjob'[k].msg \notin conn'.msgs[s]
               /\ \A i \in Jobs \ {k} : Adding(i)' => cjob'[i].msg # cjob'[k].msg
    <2>1. Adding(k) /\ cjob'[k].msg = cjob[k].msg /\ \A s \in Sessions : cjob[k].msg \notin conn'.msgs[s]
      BY <1>1
    <2>2. cjob[k].msg \in 1 .. sent /\ \A i \in Jobs \ {k} : Adding(i) => cjob[i].msg # cjob[k].msg
      BY <2>1 DEF NewInv
    <2>3. QED
      BY <2>1, <2>2
  <1>2. QED
    BY <1>1 DEF NewInv

\* Messages stay, and nobody starts to add one.
LEMMA NewSame ==
    ASSUME NewInv, sent' = sent, conn'.msgs = conn.msgs, db'.msgs = db.msgs \/ db'.msgs = conn.msgs,
           \A k \in Jobs : Adding(k)' => Adding(k) /\ cjob'[k].msg = cjob[k].msg
    PROVE  NewInv'
  <1>1. \A s \in Sessions : db'.msgs[s] \subseteq 1 .. sent /\ conn'.msgs[s] \subseteq 1 .. sent
    BY DEF NewInv
  <1>2. ASSUME NEW k \in Jobs, Adding(k)'
        PROVE  /\ Adding(k) /\ cjob'[k].msg = cjob[k].msg
               /\ \A s \in Sessions : cjob[k].msg \notin conn'.msgs[s]
    BY <1>2 DEF NewInv
  <1>3. QED
    BY <1>1, <1>2, NewKept

LEMMA LockKept ==
    ASSUME LockInv, lock' = lock,
           \A k \in Jobs : cjob'[k].pc \in Held <=> cjob[k].pc \in Held
    PROVE  LockInv'
  BY DEF LockInv, Held

LEMMA LockLeft ==
    ASSUME LockInv, NEW j \in Jobs, Unlock(j), cjob'[j].pc \notin Held,
           \A k \in Jobs : k # j => cjob'[k] = cjob[k]
    PROVE  LockInv'
  BY DEF LockInv, Held, Unlock

Committing == IF lock # NoJob /\ cjob[lock].pc = "committing" /\ cjob[lock].op # "add" THEN cjob[lock].ids ELSE {}
\* The counts stay, or what the connection sees is committed.
LEMMA CountKept ==
    ASSUME CountInv, conn'.msgs = conn.msgs, conn'.count = conn.count, torn' = torn,
           Half' = Half, Half # {} => lock' = lock /\ cjob'[lock].op = cjob[lock].op,
           Committing' \subseteq Committing,
           \/ db'.msgs = db.msgs /\ db'.count = db.count /\ leaked' = leaked
           \/ db'.msgs = conn.msgs /\ db'.count = conn.count /\ leaked' = leaked \cup Half
    PROVE  CountInv'
  <1>1. \A s : Counts(conn, s)' <=> Counts(conn, s)
    BY DEF Counts
  <1>2. ASSUME NEW s \in Sessions \ torn'
        PROVE  IF s \in Half' THEN cjob'[lock'].op = "add" => conn'.count[s] + 1 = Cardinality(conn'.msgs[s])
               ELSE Counts(conn, s)'
    <2>1. s \in Sessions \ torn
      BY <1>2
    <2>2. CASE s \in Half
      BY <2>1, <2>2 DEF CountInv
    <2>3. CASE s \notin Half
      BY <1>1, <2>1, <2>3 DEF CountInv
    <2>4. QED
      BY <2>2, <2>3
  <1>3. ASSUME lock' # NoJob /\ cjob'[lock'].pc = "committing" /\ cjob'[lock'].op # "add", NEW s \in cjob'[lock'].ids
        PROVE  Counts(conn, s)'
    <2>1. s \in Committing
      BY <1>3 DEF Committing
    <2>2. lock # NoJob /\ cjob[lock].pc = "committing" /\ cjob[lock].op # "add" /\ s \in cjob[lock].ids
      BY <2>1 DEF Committing
    <2>3. QED
      BY <1>1, <2>2 DEF CountInv
  <1>4. ASSUME NEW s \in Sessions \ (torn' \cup leaked')
        PROVE  Counts(db, s)'
    <2>1. CASE db'.msgs = db.msgs /\ db'.count = db.count /\ leaked' = leaked
      BY <1>4, <2>1 DEF CountInv, Counts
    <2>2. CASE db'.msgs = conn.msgs /\ db'.count = conn.count /\ leaked' = leaked \cup Half
      <3>1. s \in Sessions \ torn /\ s \notin Half
        BY <1>4, <2>2
      <3>2. Counts(conn, s)
        BY <3>1 DEF CountInv
      <3>3. QED
        BY <2>2, <3>2 DEF Counts
    <2>3. QED
      BY <2>1, <2>2
  <1>5. QED
    BY <1>2, <1>3, <1>4 DEF CountInv

\* The lists of S go; the others stand as they did.
LEMMA StaleKept ==
    ASSUME StaleInv, NEW S,
           \A s \in Sessions \ S : s \in Dirty \cup excused => s \in Dirty' \cup excused',
           \A s \in Sessions \ S : conn'.msgs[s] = conn.msgs[s] \/ s \in Dirty' \cup excused',
           \A i \in 1 .. Len(cache') :
              \/ cache'[i].sess \in Sessions \ S /\ \E k \in 1 .. Len(cache) : cache'[i] = cache[k]
              \/ Stands(cache[i].sess, cache[i].msgs)',
           \A k \in Jobs : cjob'[k].pc = "filling" =>
              \/ cjob'[k] = cjob[k] /\ cjob[k].ids \subseteq Sessions /\ cjob[k].ids \cap S \subseteq excused'
              \/ \A s \in cjob'[k].ids : Stands(s, cjob[k].snap)'
    PROVE  StaleInv'
  <1>1. ASSUME NEW s \in Sessions \ S, NEW M, Stands(s, M)
        PROVE  s \in Dirty' \cup excused' \/ M = Newest(conn'.msgs[s], Cardinality(M))
    <2>1. CASE s \in Dirty \cup excused
      BY <2>1
    <2>2. CASE s \notin Dirty \cup excused /\ conn'.msgs[s] = conn.msgs[s]
      BY <1>1, <2>2 DEF Stands, TopOf
    <2>3. CASE s \in Dirty' \cup excused'
      BY <2>3
    <2>4. QED
      BY <2>1, <2>2, <2>3
  <1>2. ASSUME NEW i \in 1 .. Len(cache')
        PROVE  Stands(cache[i].sess, cache[i].msgs)'
    <2>1. CASE cache'[i].sess \in Sessions \ S /\ \E k \in 1 .. Len(cache) : cache'[i] = cache[k]
      <3>1. Stands(cache'[i].sess, cache'[i].msgs)
        BY <2>1 DEF StaleInv
      <3>2. cache'[i].sess \in Dirty' \cup excused'
              \/ cache'[i].msgs = Newest(conn'.msgs[cache'[i].sess], Cardinality(cache'[i].msgs))
        BY <1>1, <2>1, <3>1
      <3>3. QED
        BY <3>2 DEF Stands, TopOf
    <2>2. QED
      BY <2>1
  <1>3. ASSUME NEW k \in Jobs, cjob'[k].pc = "filling", NEW s \in cjob'[k].ids
        PROVE  Stands(s, cjob[k].snap)'
    <2>1. CASE cjob'[k] = cjob[k] /\ cjob[k].ids \subseteq Sessions /\ cjob[k].ids \cap S \subseteq excused'
      <3>1. Stands(s, cjob[k].snap) /\ s \in Sessions
        BY <1>3, <2>1 DEF StaleInv
      <3>2. s \in Dirty' \cup excused' \/ cjob[k].snap = Newest(conn'.msgs[s], Cardinality(cjob[k].snap))
        <4>1. CASE s \in S
          BY <1>3, <2>1, <4>1
        <4>2. CASE s \notin S
          BY <1>1, <3>1, <4>2
        <4>3. QED
          BY <4>1, <4>2
      <3>3. QED
        BY <2>1, <3>2 DEF Stands, TopOf
    <2>2. QED
      BY <1>3, <2>1
  <1>4. QED
    BY <1>2, <1>3 DEF StaleInv

\* A session is dirty by somebody.
LEMMA DirtyStays ==
    ASSUME NEW j \in Jobs, \A k \in Jobs : k # j => cjob'[k] = cjob[k], NEW s \in Dirty,
           ~ (s \in cjob[j].ids /\ cjob[j].op # "sync" /\ cjob[j].pc \in {"second", "committing", "committed"})
             \/ (s \in cjob'[j].ids /\ cjob'[j].op # "sync" /\ cjob'[j].pc \in {"second", "committing", "committed"})
    PROVE  s \in Dirty'
  <1>1. PICK k \in Jobs : /\ cjob[k].op # "sync" /\ s \in cjob[k].ids
                          /\ cjob[k].pc \in {"second", "committing", "committed"}
    BY DEF Dirty
  <1>2. s \in Sessions
    BY DEF Dirty
  <1>3. CASE k = j
    BY <1>1, <1>2, <1>3 DEF Dirty
  <1>4. CASE k # j
    <2>1. cjob'[k] = cjob[k]
      BY <1>4
    <2>2. QED
      BY <1>1, <1>2, <2>1 DEF Dirty
  <1>5. QED
    BY <1>3, <1>4

-----------------------------------------------------------------------------
(* The steps outside of the lock.                                          *)
Quiet == {"none", "filling", "locking", "added", "limit"}
LEMMA QuietMoves ==
    ASSUME ConvInv, NEW j \in Jobs, NEW o, OperationFits(o), cjob' = [cjob EXCEPT ![j] = o],
           cjob[j].pc \in Quiet, o.pc \in Quiet, UNCHANGED <<db, conn, lock, torn, leaked, excused>>
    PROVE  /\ cjob' \in [Jobs -> Operation] /\ \A k \in Jobs : OperationFits(cjob'[k])
           /\ cjob'[j] = o /\ \A k \in Jobs : k # j => cjob'[k] = cjob[k]
           /\ LockInv' /\ CountInv' /\ \A s \in Dirty : s \in Dirty'
  <1>1. /\ cjob' \in [Jobs -> Operation] /\ \A k \in Jobs : OperationFits(cjob'[k])
        /\ cjob'[j] = o /\ \A k \in Jobs : k # j => cjob'[k] = cjob[k]
    BY OneMoves DEF ConvInv
  <1>2. LockInv
    BY DEF ConvInv
  <1>3. LockInv'
    <2>1. \A k \in Jobs : cjob'[k].pc \in Held <=> cjob[k].pc \in Held
      BY <1>1 DEF Held, Quiet
    <2>2. QED
      BY <1>2, <2>1, LockKept
  <1>4. lock # NoJob => lock \in Jobs /\ cjob'[lock] = cjob[lock]
    BY <1>1, <1>2 DEF LockInv, Held, Quiet
  <1>5. CountInv'
    <2>1. Half' = Half
      BY <1>4 DEF Half
    <2>2. Committing' \subseteq Committing
      BY <1>4 DEF Committing
    <2>3. Half # {} => lock' = lock /\ cjob'[lock].op = cjob[lock].op
      BY <1>4 DEF Half
    <2>4. CountInv
      BY DEF ConvInv
    <2>5. conn'.msgs = conn.msgs /\ conn'.count = conn.count /\ torn' = torn /\ db'.msgs = db.msgs
          /\ db'.count = db.count /\ leaked' = leaked
      OBVIOUS
    <2>6. QED
      BY <2>1, <2>2, <2>3, <2>4, <2>5, CountKept
  <1>6. ASSUME NEW s \in Dirty
        PROVE  s \in Dirty'
    <2>1. cjob[j].pc \notin {"second", "committing", "committed"}
      BY DEF Quiet
    <2>2. QED
      BY <1>1, <2>1, DirtyStays
  <1>7. QED
    BY <1>1, <1>3, <1>5, <1>6

\* Nothing is done to the cache, and no list is read.
LEMMA QuietStale ==
    ASSUME ConvInv, NEW j \in Jobs, cjob'[j].pc # "filling", \A k \in Jobs : k # j => cjob'[k] = cjob[k],
           \A s \in Dirty \cup excused : s \in Dirty' \cup excused',
           \A s \in Sessions : conn'.msgs[s] = conn.msgs[s] \/ s \in Dirty' \cup excused', cache' = cache
    PROVE  StaleInv' /\ OneEach'
  <1>1. StaleInv /\ OneEach /\ ConvTypes
    BY DEF ConvInv
  <1>2. ASSUME NEW i \in 1 .. Len(cache)
        PROVE  cache[i].sess \in Sessions
    <2>1. cache[i] \in Listing
      BY <1>1, ElementOfSeq DEF ConvTypes
    <2>2. QED
      BY <2>1 DEF Listing
  <1>3. \A i \in 1 .. Len(cache') : cache'[i].sess \in Sessions \ {} /\ \E k \in 1 .. Len(cache) : cache'[i] = cache[k]
    BY <1>2
  <1>4. \A k \in Jobs : cjob'[k].pc = "filling" => cjob'[k] = cjob[k] /\ cjob[k].ids \subseteq Sessions /\ cjob[k].ids \cap {} \subseteq excused'
    <2>1. \A k \in Jobs : cjob[k].ids \subseteq Sessions
      BY <1>1 DEF ConvTypes, Operation
    <2>2. QED
      BY <2>1
  <1>5. StaleInv'
    <2>1. \A s \in Sessions \ {} : s \in Dirty \cup excused => s \in Dirty' \cup excused'
      OBVIOUS
    <2>2. \A s \in Sessions \ {} : conn'.msgs[s] = conn.msgs[s] \/ s \in Dirty' \cup excused'
      OBVIOUS
    <2>3. QED
      BY <1>1, <1>3, <1>4, <2>1, <2>2, StaleKept
  <1>6. OneEach'
    BY <1>1 DEF OneEach
  <1>7. QED
    BY <1>5, <1>6

LEMMA GetHitInv ==
    ASSUME ConvInv, NEW s \in Sessions, GetHit(s)
    PROVE  ConvInv'
  <1> DEFINE w == Without({s})
             e == cache[Place({s})]
             t == Append(w, e)
  <1>1. /\ ConvTypes /\ OneEach /\ LockInv /\ NewInv /\ CountInv /\ StaleInv
        /\ s \in Cached /\ cache' = t
        /\ UNCHANGED <<db, conn, lock, seen, cjob, sent, cops, ccrashes, torn, leaked, excused>>
    BY DEF GetHit, ConvInv
  <1>2. Place({s}) \in 1 .. Len(cache) /\ e.sess = s
    BY <1>1 DEF Place, Cached
  <1>3. cache \in Seq(Listing) /\ Len(cache) <= CacheSize
    BY <1>1 DEF ConvTypes
  <1>4. e \in Listing /\ \E k \in 1 .. Len(cache) : e = cache[k]
    BY <1>2, <1>3, ElementOfSeq
  <1>5. /\ w \in Seq(Listing) /\ Entries(w) /\ Len(w) <= Len(cache)
        /\ \A i \in 1 .. Len(w) : (\E k \in 1 .. Len(cache) : w[i] = cache[k]) /\ w[i].sess \notin {s}
    BY <1>1, <1>3, WithoutIs
  <1>6. Len(w) < Len(cache)
    <2>1. Without({s}) = Seqs!RemoveAt(cache, Place({s}))
      BY <1>1 DEF Without
    <2> DEFINE p == Place({s})
               n == Len(cache)
    <2>2. n \in Nat /\ p \in Int /\ 1 <= p /\ p <= n
      BY <1>2
    <2>3. w = SubSeq(cache, 1, p - 1) \o SubSeq(cache, p + 1, n)
      BY <2>1 DEF Seqs!RemoveAt
    <2> HIDE DEF p, n, w
    <2>4. SubSeq(cache, 1, p - 1) \in Seq(Listing) /\ Len(SubSeq(cache, 1, p - 1)) = p - 1
      BY <1>3, <2>2, SubSeqProperties DEF n
    <2>5. SubSeq(cache, p + 1, n) \in Seq(Listing) /\ Len(SubSeq(cache, p + 1, n)) = n - p
      BY <1>3, <2>2, SubSeqProperties DEF n
    <2>6. Len(w) = (p - 1) + (n - p)
      BY <2>3, <2>4, <2>5, ConcatProperties
    <2>7. QED
      BY <2>2, <2>6 DEF n
  <1> HIDE DEF w, e
  <1>7. /\ t \in Seq(Listing) /\ Entries(t) /\ Len(t) = Len(w) + 1
        /\ \A i \in 1 .. Len(t) : t[i] = e \/ \E k \in 1 .. Len(w) : t[i] = w[k]
    <2>1. \A i \in 1 .. Len(w) : w[i].sess # e.sess
      BY <1>2, <1>5
    <2>2. w \in Seq(Listing) /\ Entries(w) /\ e \in Listing
      BY <1>4, <1>5
    <2>3. QED
      BY <2>1, <2>2, PutIs
  <1> HIDE DEF t
  <1>8. ASSUME NEW i \in 1 .. Len(t)
        PROVE  \E k \in 1 .. Len(cache) : t[i] = cache[k]
    <2>1. CASE t[i] = e
      BY <1>4, <2>1
    <2>2. CASE \E k \in 1 .. Len(w) : t[i] = w[k]
      BY <1>5, <2>2
    <2>3. QED
      BY <1>7, <2>1, <2>2
  <1>9. ASSUME NEW i \in 1 .. Len(cache')
        PROVE  cache'[i].sess \in Sessions /\ \E k \in 1 .. Len(cache) : cache'[i] = cache[k]
    <2>1. i \in 1 .. Len(t) /\ cache'[i] = t[i]
      BY <1>1
    <2>2. t[i] \in Listing
      BY <1>7, <2>1, ElementOfSeq
    <2>3. t[i].sess \in Sessions
      BY <2>2 DEF Listing
    <2>4. QED
      BY <1>8, <2>1, <2>3
  <1>10. ConvTypes'
    <2>1. Len(t) <= CacheSize
      BY <1>3, <1>5, <1>6, <1>7, ConvNats
    <2>2. QED
      BY <1>1, <1>7, <2>1 DEF ConvTypes
  <1>11. OneEach'
    BY <1>1, <1>7 DEF OneEach, Entries
  <1>12. LockInv' /\ NewInv' /\ CountInv'
    BY <1>1 DEF LockInv, NewInv, Adding, CountInv, Half, Counts
  <1>13. Dirty' = Dirty
    BY <1>1 DEF Dirty
  <1>14. \A k \in Jobs : cjob[k].ids \subseteq Sessions
    BY <1>1 DEF ConvTypes, Operation
  <1>15. StaleInv'
    <2>1. \A x \in Sessions \ {} : x \in Dirty \cup excused => x \in Dirty' \cup excused'
      BY <1>1, <1>13
    <2>2. \A x \in Sessions \ {} : conn'.msgs[x] = conn.msgs[x] \/ x \in Dirty' \cup excused'
      BY <1>1
    <2>3. \A k \in Jobs : cjob'[k].pc = "filling" => cjob'[k] = cjob[k] /\ cjob[k].ids \subseteq Sessions /\ cjob[k].ids \cap {} \subseteq excused'
      BY <1>1, <1>14
    <2>4. \A i \in 1 .. Len(cache') : cache'[i].sess \in Sessions \ {} /\ \E k \in 1 .. Len(cache) : cache'[i] = cache[k]
      BY <1>9
    <2>5. QED
      BY <1>1, <2>1, <2>2, <2>3, <2>4, StaleKept
  <1>16. QED
    BY <1>10, <1>11, <1>12, <1>15 DEF ConvInv

LEMMA ForgetInv ==
    ASSUME ConvInv, NEW k \in Keys, Forget(k)
    PROVE  ConvInv'
  <1>1. UNCHANGED <<db, conn, lock, cache, cjob, sent, torn, leaked, excused>> /\ seen' \subseteq seen
    BY DEF Forget
  <1>2. ConvTypes'
    BY <1>1 DEF ConvInv, ConvTypes
  <1>3. OneEach' /\ LockInv' /\ NewInv' /\ CountInv'
    BY <1>1 DEF ConvInv, OneEach, LockInv, NewInv, Adding, CountInv, Half, Counts
  <1>4. StaleInv'
    BY <1>1 DEF ConvInv, StaleInv, Stands, Dirty, TopOf
  <1>5. QED
    BY <1>2, <1>3, <1>4 DEF ConvInv

\* A coroutine that is not reading begins, goes on or ends outside of the lock.
LEMMA QuietInv ==
    ASSUME ConvInv, NEW j \in Jobs, NEW o, OperationFits(o), cjob' = [cjob EXCEPT ![j] = o],
           cjob[j].pc \in Quiet, o.pc \in Quiet \ {"filling"}, o.pc # "locking" \/ o.op # "add",
           UNCHANGED <<db, conn, lock, cache, sent, torn, leaked, excused>>, seen' \subseteq Keys
    PROVE  ConvInv'
  <1>1. /\ cjob' \in [Jobs -> Operation] /\ \A k \in Jobs : OperationFits(cjob'[k])
        /\ cjob'[j] = o /\ \A k \in Jobs : k # j => cjob'[k] = cjob[k]
        /\ LockInv' /\ CountInv' /\ \A s \in Dirty : s \in Dirty'
    BY QuietMoves
  <1>2. ConvTypes'
    BY <1>1 DEF ConvInv, ConvTypes
  <1>3. NewInv'
    <2>1. \A k \in Jobs : Adding(k)' => Adding(k) /\ cjob'[k].msg = cjob[k].msg
      BY <1>1 DEF Adding, Quiet
    <2>2. QED
      BY <2>1, NewSame DEF ConvInv
  <1>4. StaleInv' /\ OneEach'
    <2>1. \A s \in Dirty \cup excused : s \in Dirty' \cup excused'
      BY <1>1
    <2>2. QED
      BY <1>1, <2>1, QuietStale
  <1>5. QED
    BY <1>1, <1>2, <1>3, <1>4 DEF ConvInv

\* A call begins.
LEMMA CallIs ==
    ASSUME NEW op, NEW pc, NEW S \in SUBSET Sessions,
           \/ op = "get" /\ pc = "filling"
           \/ op \in {"add", "trim", "clear", "sync"} /\ pc = "locking",
           op # "sync" => \E s \in Sessions : S = {s}
    PROVE  LET o == Call(op, pc, S) IN OperationFits(o) /\ o.op = op /\ o.pc = pc /\ o.ids = S /\ o.snap = {}
  <1> DEFINE o == Call(op, pc, S)
  <1>1. o.op = op /\ o.pc = pc /\ o.ids = S /\ o.snap = {}
    BY DEF Call
  <1>2. o \in Operation
    BY ConvNats DEF Operation, Call
  <1> HIDE DEF o
  <1>3. OperationFits(o)
    BY <1>1, <1>2 DEF OperationFits
  <1>4. QED
    BY <1>1, <1>3 DEF o

\* It is given a message and its key, a number, or a list.
Given(o, m, k) == [o EXCEPT !.msg = m, !.key = k]
LEMMA MessageGiven ==
    ASSUME NEW o, OperationFits(o), NEW m \in 0 .. MaxMsgs, NEW k \in Keys \cup {NoKey}
    PROVE  LET a == Given(o, m, k)
           IN OperationFits(a) /\ a.op = o.op /\ a.pc = o.pc /\ a.ids = o.ids /\ a.msg = m
  <1> DEFINE d == [o EXCEPT !.msg = m]
             a == [d EXCEPT !.key = k]
  <1>1. o \in Operation
    BY DEF OperationFits
  <1>2. d \in Operation /\ d.op = o.op /\ d.pc = o.pc /\ d.ids = o.ids /\ d.msg = m
    BY <1>1 DEF Operation
  <1>3. a = Given(o, m, k)
    BY DEF Given
  <1> HIDE DEF d
  <1>4. a \in Operation /\ a.op = o.op /\ a.pc = o.pc /\ a.ids = o.ids /\ a.msg = m
    BY <1>2 DEF Operation
  <1> HIDE DEF a
  <1>5. OperationFits(a)
    BY <1>1, <1>4 DEF OperationFits
  <1>6. QED
    BY <1>3, <1>4, <1>5

LEMMA NumberGiven ==
    ASSUME NEW o, OperationFits(o), NEW n \in Nat
    PROVE  LET b == [o EXCEPT !.n = n] IN OperationFits(b) /\ b.op = o.op /\ b.pc = o.pc /\ b.ids = o.ids
  <1> DEFINE b == [o EXCEPT !.n = n]
  <1>1. b \in Operation /\ b.op = o.op /\ b.pc = o.pc /\ b.ids = o.ids
    BY DEF Operation, OperationFits
  <1> HIDE DEF b
  <1>2. OperationFits(b)
    BY <1>1 DEF OperationFits
  <1>3. QED
    BY <1>1, <1>2 DEF b

LEMMA ListGiven ==
    ASSUME NEW o, OperationFits(o), NEW M \in SUBSET Msgs
    PROVE  LET c == [o EXCEPT !.snap = M]
           IN OperationFits(c) /\ c.op = o.op /\ c.pc = o.pc /\ c.ids = o.ids /\ c.snap = M
  <1> DEFINE c == [o EXCEPT !.snap = M]
  <1>1. c \in Operation /\ c.op = o.op /\ c.pc = o.pc /\ c.ids = o.ids /\ c.snap = M
    BY DEF Operation, OperationFits
  <1> HIDE DEF c
  <1>2. OperationFits(c)
    BY <1>1 DEF OperationFits
  <1>3. QED
    BY <1>1, <1>2 DEF c

LEMMA COpInv ==
    ASSUME ConvInv, NEW j \in Jobs, NEW op \in {"clear", "sync"}, NEW S \in SUBSET Sessions,
           op # "sync" => \E s \in Sessions : S = {s}, COp(j, op, S)
    PROVE  ConvInv'
  <1> DEFINE o == Call(op, "locking", S)
  <1>1. cjob' = [cjob EXCEPT ![j] = o] /\ cjob[j].pc = "none"
        /\ UNCHANGED <<db, conn, lock, cache, seen, sent, torn, leaked, excused>>
    BY DEF COp, CAt
  <1>2. OperationFits(o) /\ o.op = op /\ o.pc = "locking"
    BY CallIs
  <1> HIDE DEF o
  <1>3. seen' \subseteq Keys
    BY <1>1 DEF ConvInv, ConvTypes
  <1>4. cjob[j].pc \in Quiet /\ o.pc \in Quiet \ {"filling"} /\ (o.pc # "locking" \/ o.op # "add")
    BY <1>1, <1>2 DEF Quiet
  <1>5. QED
    BY <1>1, <1>2, <1>3, <1>4, QuietInv

LEMMA LimitCheckInv ==
    ASSUME ConvInv, NEW j \in Jobs, LimitCheck(j)
    PROVE  ConvInv'
  <1>1. cjob[j].pc \in Quiet /\ UNCHANGED <<db, conn, lock, cache, seen, sent, torn, leaked, excused>>
    BY DEF LimitCheck, CAt, Quiet
  <1>2. seen' \subseteq Keys /\ cjob[j] \in Operation /\ conn \in Store
    BY <1>1 DEF ConvInv, ConvTypes
  <1>3. PICK s \in cjob[j].ids :
          LET n == Least(Greatest(Cardinality(conn.msgs[s]) - Limit, 1), conn.last[s])
          IN \/ cjob' = [cjob EXCEPT ![j] = [Call("trim", "locking", {s}) EXCEPT !.n = n]]
             \/ CEnd(j)
    BY DEF LimitCheck
  <1> DEFINE actual == Cardinality(conn.msgs[s])
             n == Least(Greatest(actual - Limit, 1), conn.last[s])
             o == [Call("trim", "locking", {s}) EXCEPT !.n = n]
  <1>4. s \in Sessions
    BY <1>2, OperationFields
  <1>5. actual \in Nat /\ conn.last[s] \in Nat
    BY <1>2, <1>4, StoreFacts
  <1>6. n \in Nat
    BY <1>5, ConvNats DEF Least, Greatest
  <1>7. CASE cjob' = [cjob EXCEPT ![j] = o]
    <2> HIDE DEF n
    <2>1. OperationFits(o) /\ o.op = "trim" /\ o.pc = "locking"
      <3> DEFINE a == Call("trim", "locking", {s})
      <3>1. OperationFits(a) /\ a.op = "trim" /\ a.pc = "locking"
        BY <1>4, CallIs
      <3> HIDE DEF a
      <3>2. OperationFits([a EXCEPT !.n = n]) /\ [a EXCEPT !.n = n].op = a.op /\ [a EXCEPT !.n = n].pc = a.pc
        BY <1>6, <3>1, NumberGiven
      <3>3. QED
        BY <3>1, <3>2 DEF a
    <2> HIDE DEF o
    <2>2. o.pc \in Quiet \ {"filling"} /\ (o.pc # "locking" \/ o.op # "add")
      BY <2>1 DEF Quiet
    <2>3. QED
      BY <1>1, <1>2, <1>7, <2>1, <2>2, QuietInv
  <1>8. CASE CEnd(j)
    <2>1. cjob' = [cjob EXCEPT ![j] = CIdle]
      BY <1>8 DEF CEnd
    <2>2. CIdle.pc \in Quiet \ {"filling"} /\ CIdle.pc # "locking"
      BY CIdleFits DEF Quiet
    <2>3. QED
      BY <1>1, <1>2, <2>1, <2>2, CIdleFits, QuietInv
  <1>9. QED
    BY <1>3, <1>7, <1>8

LEMMA MarkKeeps ==
    ASSUME ConvInv, NEW j \in Jobs, Mark(j)
    PROVE  ConvInv'
  <1> DEFINE o == [cjob[j] EXCEPT !.pc = "limit"]
  <1>1. cjob[j].op = "add" /\ cjob[j].pc = "added" /\ CGo(j, "limit")
        /\ UNCHANGED <<db, conn, lock, cache, sent, torn, leaked, excused>>
    BY DEF Mark, CAt
  <1>2. cjob' = [cjob EXCEPT ![j] = o] /\ OperationFits(cjob[j])
    BY <1>1, CGoMoves DEF ConvInv, ConvTypes
  <1>3. OperationFits(o) /\ o.op = "add" /\ o.pc = "limit"
    <2>1. "limit" \in Places
      BY DEF Places
    <2>2. QED
      BY <1>1, <1>2, <2>1, GoIs
  <1> HIDE DEF o
  <1>4. seen' \subseteq Keys
    <2>1. cjob[j].key \in Keys \cup {NoKey}
      BY <1>2 DEF OperationFits, Operation
    <2>2. QED
      BY <2>1 DEF ConvInv, ConvTypes, Mark
  <1>5. cjob[j].pc \in Quiet /\ o.pc \in Quiet \ {"filling"} /\ (o.pc # "locking" \/ o.op # "add")
    BY <1>1, <1>3 DEF Quiet
  <1>6. UNCHANGED <<db, conn, lock, cache, sent, torn, leaked, excused>>
    BY <1>1
  <1>7. QED
    BY <1>2, <1>3, <1>4, <1>5, <1>6, QuietInv

LEMMA CaptureInv ==
    ASSUME ConvInv, NEW j \in Jobs, NEW s \in Sessions, NEW k \in Keys \cup {NoKey}, Capture(j, s, k)
    PROVE  ConvInv'
  <1> DEFINE o == [Call("add", "locking", {s}) EXCEPT !.msg = sent + 1, !.key = k]
  <1>1. cjob' = [cjob EXCEPT ![j] = o] /\ cjob[j].pc = "none" /\ sent < MaxMsgs /\ sent' = sent + 1
        /\ UNCHANGED <<db, conn, lock, cache, seen, torn, leaked, excused>>
    BY DEF Capture, CAt
  <1>2. /\ ConvTypes /\ NewInv /\ sent \in 0 .. MaxMsgs /\ sent \in Nat /\ sent + 1 \in 0 .. MaxMsgs
        /\ \A i \in 1 .. sent : i \in 1 .. sent' /\ i # sent + 1
    BY <1>1, ConvNats DEF ConvInv, ConvTypes
  <1>3. OperationFits(o) /\ o.op = "add" /\ o.pc = "locking" /\ o.msg = sent + 1
    <2> DEFINE a == Call("add", "locking", {s})
    <2>1. OperationFits(a) /\ a.op = "add" /\ a.pc = "locking"
      BY CallIs
    <2>2. o = Given(a, sent + 1, k)
      BY DEF Given
    <2> HIDE DEF a
    <2>3. OperationFits(a) /\ sent + 1 \in 0 .. MaxMsgs
      BY <1>2, <2>1
    <2> DEFINE b == Given(a, sent + 1, k)
    <2>4. OperationFits(b) /\ b.op = a.op /\ b.pc = a.pc /\ b.msg = sent + 1
      BY <2>3, MessageGiven
    <2>5. QED
      BY <2>1, <2>2, <2>4
  <1> HIDE DEF o
  <1>4. /\ cjob' \in [Jobs -> Operation] /\ \A i \in Jobs : OperationFits(cjob'[i])
        /\ cjob'[j] = o /\ \A i \in Jobs : i # j => cjob'[i] = cjob[i]
        /\ LockInv' /\ CountInv' /\ \A x \in Dirty : x \in Dirty'
    <2>1. cjob[j].pc \in Quiet /\ o.pc \in Quiet
      BY <1>1, <1>3 DEF Quiet
    <2>2. QED
      BY <1>1, <1>3, <2>1, QuietMoves
  <1>5. ConvTypes'
    BY <1>1, <1>2, <1>4 DEF ConvTypes
  <1>6. NewInv'
    <2>1. \A x \in Sessions : /\ db'.msgs[x] \subseteq 1 .. sent' /\ conn'.msgs[x] \subseteq 1 .. sent'
                              /\ sent + 1 \notin conn'.msgs[x]
      BY <1>1, <1>2 DEF NewInv
    <2>2. \A i \in Jobs : i # j /\ Adding(i)' => Adding(i) /\ cjob'[i].msg = cjob[i].msg
      BY <1>4 DEF Adding
    <2>3. \A i \in Jobs : Adding(i) => /\ cjob[i].msg \in 1 .. sent' /\ cjob[i].msg # sent + 1
                                       /\ \A x \in Sessions : cjob[i].msg \notin conn'.msgs[x]
      BY <1>1, <1>2 DEF NewInv
    <2>4. \A i \in Jobs : i # j /\ Adding(i)' => /\ cjob'[i].msg \in 1 .. sent' /\ cjob'[i].msg # sent + 1
                                                /\ \A x \in Sessions : cjob'[i].msg \notin conn'.msgs[x]
      BY <2>2, <2>3
    <2>5. cjob'[j].msg = sent + 1 /\ sent + 1 \in 1 .. sent'
      BY <1>1, <1>2, <1>3, <1>4
    <2>6. \A i, l \in Jobs : i # l /\ i # j /\ l # j /\ Adding(i)' /\ Adding(l)' => cjob'[i].msg # cjob'[l].msg
      BY <1>2, <2>2 DEF NewInv
    <2>7. ASSUME NEW i \in Jobs, Adding(i)'
          PROVE  /\ cjob'[i].msg \in 1 .. sent' /\ \A x \in Sessions : cjob'[i].msg \notin conn'.msgs[x]
                 /\ \A l \in Jobs \ {i} : Adding(l)' => cjob'[l].msg # cjob'[i].msg
      <3>1. CASE i = j
        BY <2>1, <2>4, <2>5, <3>1
      <3>2. CASE i # j
        BY <2>4, <2>5, <2>6, <2>7, <3>2
      <3>3. QED
        BY <3>1, <3>2
    <2>8. QED
      BY <2>1, <2>7 DEF NewInv
  <1>7. StaleInv' /\ OneEach'
    <2>1. \A x \in Dirty \cup excused : x \in Dirty' \cup excused'
      BY <1>1, <1>4
    <2>2. cjob'[j].pc # "filling"
      BY <1>3, <1>4
    <2>3. \A x \in Sessions : conn'.msgs[x] = conn.msgs[x] \/ x \in Dirty' \cup excused'
      BY <1>1
    <2>4. QED
      BY <1>1, <1>4, <2>1, <2>2, <2>3, QuietStale
  <1>8. QED
    BY <1>4, <1>5, <1>6, <1>7 DEF ConvInv

LEMMA GetMissInv ==
    ASSUME ConvInv, NEW j \in Jobs, NEW s \in Sessions, NEW n \in 1 .. 2, GetMiss(j, s, n)
    PROVE  ConvInv'
  <1> DEFINE M == Newest(conn.msgs[s], n)
             a == Call("get", "filling", {s})
             o == [a EXCEPT !.snap = M]
  <1>1. /\ cjob' = [cjob EXCEPT ![j] = o] /\ cjob[j].pc = "none"
        /\ UNCHANGED <<db, conn, lock, cache, seen, sent, torn, leaked, excused>>
    BY DEF GetMiss, CAt
  <1>2. conn \in Store /\ conn.msgs[s] \in SUBSET Msgs /\ n \in Int
    BY StoreFacts DEF ConvInv, ConvTypes
  <1>3. M \in SUBSET Msgs /\ TopOf(s, M)
    BY <1>2, NewestIs DEF TopOf
  <1> HIDE DEF M
  <1>4. OperationFits(a) /\ a.op = "get" /\ a.pc = "filling" /\ a.ids = {s}
    BY CallIs
  <1> HIDE DEF a
  <1>5. OperationFits(o) /\ o.op = "get" /\ o.pc = "filling" /\ o.ids = {s} /\ o.snap = M
    BY <1>3, <1>4, ListGiven
  <1> HIDE DEF o
  <1>6. /\ cjob' \in [Jobs -> Operation] /\ \A k \in Jobs : OperationFits(cjob'[k])
        /\ cjob'[j] = o /\ \A k \in Jobs : k # j => cjob'[k] = cjob[k]
        /\ LockInv' /\ CountInv' /\ \A x \in Dirty : x \in Dirty'
    <2>1. cjob[j].pc \in Quiet /\ o.pc \in Quiet /\ UNCHANGED <<db, conn, lock, torn, leaked, excused>>
      BY <1>1, <1>5 DEF Quiet
    <2>2. QED
      BY <1>1, <1>5, <2>1, QuietMoves
  <1>7. ConvTypes'
    BY <1>1, <1>6 DEF ConvInv, ConvTypes
  <1>8. NewInv'
    <2>1. \A k \in Jobs : Adding(k)' => Adding(k) /\ cjob'[k].msg = cjob[k].msg
      BY <1>5, <1>6 DEF Adding
    <2>2. sent' = sent /\ conn'.msgs = conn.msgs /\ db'.msgs = db.msgs
      BY <1>1
    <2>3. QED
      BY <2>1, <2>2, NewSame DEF ConvInv
  <1>9. OneEach'
    BY <1>1 DEF ConvInv, OneEach
  <1>10. StaleInv'
    <2>1. \A x \in Sessions \ {} : x \in Dirty \cup excused => x \in Dirty' \cup excused'
      BY <1>1, <1>6
    <2>2. \A x \in Sessions \ {} : conn'.msgs[x] = conn.msgs[x] \/ x \in Dirty' \cup excused'
      BY <1>1
    <2>3. ASSUME NEW i \in 1 .. Len(cache')
          PROVE  cache'[i].sess \in Sessions \ {} /\ \E k \in 1 .. Len(cache) : cache'[i] = cache[k]
      <3>1. cache[i] \in Listing /\ i \in 1 .. Len(cache)
        BY <1>1, ElementOfSeq DEF ConvInv, ConvTypes
      <3>2. QED
        BY <1>1, <3>1 DEF Listing
    <2>4. \A x \in cjob'[j].ids : Stands(x, cjob[j].snap)'
      BY <1>1, <1>3, <1>5, <1>6 DEF Stands, TopOf
    <2>5. ASSUME NEW k \in Jobs, cjob'[k].pc = "filling"
          PROVE  \/ cjob'[k] = cjob[k] /\ cjob[k].ids \subseteq Sessions /\ cjob[k].ids \cap {} \subseteq excused'
                 \/ \A x \in cjob'[k].ids : Stands(x, cjob[k].snap)'
      <3>1. CASE k = j
        BY <2>4, <3>1
      <3>2. CASE k # j
        <4>1. cjob[k].ids \subseteq Sessions
          BY DEF ConvInv, ConvTypes, Operation
        <4>2. QED
          BY <1>6, <3>2, <4>1
      <3>3. QED
        BY <3>1, <3>2
    <2>6. StaleInv
      BY DEF ConvInv
    <2>7. QED
      BY <2>1, <2>2, <2>3, <2>5, <2>6, StaleKept
  <1>11. QED
    BY <1>6, <1>7, <1>8, <1>9, <1>10 DEF ConvInv

LEMMA GetFillInv ==
    ASSUME ConvInv, NEW j \in Jobs, GetFill(j)
    PROVE  ConvInv'
  <1>1. /\ ConvTypes /\ OneEach /\ NewInv /\ StaleInv /\ cjob[j].pc = "filling" /\ cjob[j].op = "get"
        /\ cjob' = [cjob EXCEPT ![j] = CIdle]
        /\ UNCHANGED <<db, conn, lock, seen, sent, torn, leaked, excused>>
    BY DEF GetFill, CAt, CEnd, ConvInv
  <1>2. PICK s \in cjob[j].ids :
          cache' = LET filled == Append(Without({s}), [sess |-> s, msgs |-> cjob[j].snap])
                   IN IF Len(filled) > CacheSize THEN Tail(filled) ELSE filled
    BY DEF GetFill
  <1> DEFINE w == Without({s})
             e == [sess |-> s, msgs |-> cjob[j].snap]
             t == Append(w, e)
  <1>3. s \in Sessions /\ cjob[j].snap \in SUBSET Msgs
    <2>1. cjob[j] \in Operation
      BY <1>1 DEF ConvTypes
    <2>2. QED
      BY <2>1, OperationFields
  <1>4. e \in Listing /\ e.sess = s /\ e.msgs = cjob[j].snap
    BY <1>3 DEF Listing
  <1>5. cache \in Seq(Listing) /\ Len(cache) <= CacheSize
    BY <1>1 DEF ConvTypes
  <1>6. /\ w \in Seq(Listing) /\ Entries(w) /\ Len(w) <= Len(cache)
        /\ \A i \in 1 .. Len(w) : (\E k \in 1 .. Len(cache) : w[i] = cache[k]) /\ w[i].sess \notin {s}
    BY <1>1, <1>5, WithoutIs
  <1>7. cache' = IF Len(t) > CacheSize THEN Tail(t) ELSE t
    BY <1>2
  <1> HIDE DEF w, e
  <1>8. \A i \in 1 .. Len(w) : w[i].sess # e.sess
    BY <1>4, <1>6
  <1>9. /\ t \in Seq(Listing) /\ Entries(t) /\ Len(t) = Len(w) + 1
        /\ \A i \in 1 .. Len(t) : t[i] = e \/ \E k \in 1 .. Len(w) : t[i] = w[k]
        /\ Tail(t) \in Seq(Listing) /\ Entries(Tail(t)) /\ Len(Tail(t)) = Len(w)
        /\ \A i \in 1 .. Len(Tail(t)) : Tail(t)[i] = e \/ \E k \in 1 .. Len(w) : Tail(t)[i] = w[k]
    BY <1>4, <1>6, <1>8, PutIs
  <1> HIDE DEF t
  <1>10. /\ cache' \in Seq(Listing) /\ Entries(cache') /\ Len(cache') <= CacheSize
         /\ \A i \in 1 .. Len(cache') : cache'[i] = e \/ \E k \in 1 .. Len(w) : cache'[i] = w[k]
    <2>1. CASE Len(t) > CacheSize
      <3>1. Len(w) <= CacheSize
        BY <1>5, <1>6, ConvNats
      <3>2. QED
        BY <1>7, <1>9, <2>1, <3>1
    <2>2. CASE ~ (Len(t) > CacheSize)
      <3>1. Len(t) <= CacheSize
        BY <1>9, <2>2, ConvNats
      <3>2. QED
        BY <1>7, <1>9, <2>2, <3>1
    <2>3. QED
      BY <2>1, <2>2
  <1>11. /\ cjob' \in [Jobs -> Operation] /\ \A k \in Jobs : OperationFits(cjob'[k])
         /\ cjob'[j] = CIdle /\ \A k \in Jobs : k # j => cjob'[k] = cjob[k]
         /\ LockInv' /\ CountInv' /\ \A x \in Dirty : x \in Dirty'
    <2>1. cjob[j].pc \in Quiet /\ CIdle.pc \in Quiet /\ UNCHANGED <<db, conn, lock, torn, leaked, excused>>
      BY <1>1, CIdleFits DEF Quiet
    <2>2. QED
      BY <1>1, CIdleFits, <2>1, QuietMoves
  <1>12. ConvTypes'
    BY <1>1, <1>10, <1>11 DEF ConvTypes
  <1>13. NewInv'
    <2>1. \A k \in Jobs : Adding(k)' => Adding(k) /\ cjob'[k].msg = cjob[k].msg
      BY <1>11, CIdleFits DEF Adding
    <2>2. sent' = sent /\ conn'.msgs = conn.msgs /\ db'.msgs = db.msgs
      BY <1>1
    <2>3. QED
      BY <1>1, <2>1, <2>2, NewSame
  <1>14. OneEach'
    BY <1>10 DEF Entries, OneEach
  <1>15. StaleInv'
    <2>1. \A x \in Sessions \ {} : x \in Dirty \cup excused => x \in Dirty' \cup excused'
      BY <1>1, <1>11
    <2>2. \A x \in Sessions \ {} : conn'.msgs[x] = conn.msgs[x] \/ x \in Dirty' \cup excused'
      BY <1>1
    <2>3. s \in Dirty' \cup excused' \/ e.msgs = Newest(conn'.msgs[s], Cardinality(e.msgs))
      <3>1. Stands(s, cjob[j].snap)
        BY <1>1 DEF StaleInv
      <3>2. QED
        BY <1>1, <1>4, <2>1, <3>1, <1>3 DEF Stands, TopOf
    <2>4. ASSUME NEW i \in 1 .. Len(cache')
          PROVE  \/ cache'[i].sess \in Sessions \ {} /\ \E k \in 1 .. Len(cache) : cache'[i] = cache[k]
                 \/ Stands(cache[i].sess, cache[i].msgs)'
      <3>1. CASE cache'[i] = e
        BY <1>4, <2>3, <3>1 DEF Stands, TopOf
      <3>2. CASE \E k \in 1 .. Len(w) : cache'[i] = w[k]
        <4>1. \E k \in 1 .. Len(cache) : cache'[i] = cache[k]
          BY <1>6, <3>2
        <4>2. cache'[i] \in Listing
          BY <1>10, ElementOfSeq
        <4>3. QED
          BY <4>1, <4>2 DEF Listing
      <3>3. QED
        BY <1>10, <3>1, <3>2
    <2>5. ASSUME NEW k \in Jobs, cjob'[k].pc = "filling"
          PROVE  cjob'[k] = cjob[k] /\ cjob[k].ids \subseteq Sessions /\ cjob[k].ids \cap {} \subseteq excused'
      <3>1. cjob[k].ids \subseteq Sessions
        BY <1>1 DEF ConvTypes, Operation
      <3>2. QED
        BY <1>11, <2>5, <3>1, CIdleFits
    <2>6. QED
      BY <1>1, <2>1, <2>2, <2>4, <2>5, StaleKept
  <1>16. QED
    BY <1>11, <1>12, <1>13, <1>14, <1>15 DEF ConvInv

-----------------------------------------------------------------------------
(* The steps of a write.                                                   *)
\* The index a trim will write is put down.
Indexed(o, n) == [o EXCEPT !.last = n]
LEMMA IndexGiven ==
    ASSUME NEW o, OperationFits(o), NEW n \in Nat
    PROVE  LET r == Indexed(o, n)
           IN OperationFits(r) /\ r.op = o.op /\ r.pc = o.pc /\ r.ids = o.ids /\ r.msg = o.msg /\ r.last = n
  <1> DEFINE r == Indexed(o, n)
  <1>1. r \in Operation /\ r.op = o.op /\ r.pc = o.pc /\ r.ids = o.ids /\ r.msg = o.msg /\ r.last = n
    BY DEF Operation, OperationFits, Indexed
  <1> HIDE DEF r
  <1>2. OperationFits(r)
    BY <1>1 DEF OperationFits
  <1>3. QED
    BY <1>1, <1>2 DEF r

\* A write goes on to another place.
LEMMA WriteGoes ==
    ASSUME ConvTypes, NEW j \in Jobs, NEW pc \in {"first", "second", "committing", "committed", "added"}, CGo(j, pc),
           cjob[j].pc \in {"locking", "first", "second", "committing", "committed"}, pc = "added" => cjob[j].op = "add"
    PROVE  /\ cjob' \in [Jobs -> Operation] /\ \A k \in Jobs : OperationFits(cjob'[k])
           /\ \A k \in Jobs : k # j => cjob'[k] = cjob[k]
           /\ cjob'[j].op = cjob[j].op /\ cjob'[j].pc = pc /\ cjob'[j].ids = cjob[j].ids /\ cjob'[j].msg = cjob[j].msg
           /\ cjob'[j].last = cjob[j].last
  <1> DEFINE o == [cjob[j] EXCEPT !.pc = pc]
  <1>1. cjob' = [cjob EXCEPT ![j] = o] /\ OperationFits(cjob[j])
    BY CGoMoves DEF ConvTypes
  <1>2. pc \in Places /\ pc # "none" /\ pc # "filling" /\ pc # "limit" /\ cjob[j].op # "none" /\ cjob[j].op # "get"
    BY <1>1 DEF Places, OperationFits
  <1>3. OperationFits(o) /\ o.op = cjob[j].op /\ o.pc = pc /\ o.ids = cjob[j].ids /\ o.msg = cjob[j].msg
        /\ o.last = cjob[j].last
    BY <1>1, <1>2, GoIs
  <1> HIDE DEF o
  <1>4. QED
    BY <1>1, <1>3, OneMoves

LEMMA LockStep ==
    ASSUME ConvInv, NEW j \in Jobs, Lock(j)
    PROVE  ConvInv'
  <1>1. /\ ConvTypes /\ NewInv /\ LockInv /\ CountInv /\ cjob[j].pc = "locking" /\ lock = NoJob /\ lock' = j /\ CGo(j, "first")
        /\ UNCHANGED <<db, conn, cache, seen, sent, torn, leaked, excused>>
    BY DEF Lock, ConvInv
  <1>2. /\ cjob' \in [Jobs -> Operation] /\ \A k \in Jobs : OperationFits(cjob'[k])
        /\ \A k \in Jobs : k # j => cjob'[k] = cjob[k]
        /\ cjob'[j].op = cjob[j].op /\ cjob'[j].pc = "first" /\ cjob'[j].msg = cjob[j].msg
    BY <1>1, WriteGoes
  <1>3. ConvTypes'
    BY <1>1, <1>2 DEF ConvTypes
  <1>4. LockInv'
    BY <1>1, <1>2, ConvNats DEF LockInv, Held
  <1>5. NewInv'
    <2>1. \A k \in Jobs : Adding(k)' => Adding(k) /\ cjob'[k].msg = cjob[k].msg
      BY <1>1, <1>2 DEF Adding
    <2>2. sent' = sent /\ conn'.msgs = conn.msgs /\ db'.msgs = db.msgs
      BY <1>1
    <2>3. QED
      BY <1>1, <2>1, <2>2, NewSame
  <1>6. CountInv'
    <2>1. Half' = {} /\ Half = {} /\ Committing' = {}
      BY <1>1, <1>2 DEF Half, Committing
    <2>2. conn'.msgs = conn.msgs /\ conn'.count = conn.count /\ torn' = torn /\ db'.msgs = db.msgs
          /\ db'.count = db.count /\ leaked' = leaked
      BY <1>1
    <2>3. Half' = Half /\ Committing' \subseteq Committing /\ (Half # {} => lock' = lock /\ cjob'[lock].op = cjob[lock].op)
      BY <2>1
    <2>4. QED
      BY <1>1, <2>2, <2>3, CountKept
  <1>7. StaleInv' /\ OneEach'
    <2>1. ASSUME NEW s \in Dirty
          PROVE  s \in Dirty'
      BY <1>1, <1>2, DirtyStays
    <2>2. \A s \in Dirty \cup excused : s \in Dirty' \cup excused'
      BY <1>1, <2>1
    <2>3. \A s \in Sessions : conn'.msgs[s] = conn.msgs[s] \/ s \in Dirty' \cup excused'
      BY <1>1
    <2>4. cjob'[j].pc # "filling" /\ cache' = cache
      BY <1>1, <1>2
    <2>5. QED
      BY <1>2, <2>2, <2>3, <2>4, QuietStale
  <1>8. QED
    BY <1>3, <1>4, <1>5, <1>6, <1>7 DEF ConvInv

LEMMA TrimNothingInv ==
    ASSUME ConvInv, NEW j \in Jobs, TrimNothing(j)
    PROVE  ConvInv'
  <1>1. /\ ConvTypes /\ NewInv /\ LockInv /\ CountInv /\ cjob[j].pc = "first" /\ cjob[j].op = "trim"
        /\ lock = j /\ lock' = NoJob /\ Unlock(j) /\ CGo(j, "committed")
        /\ UNCHANGED <<db, conn, cache, seen, sent, torn, leaked, excused>>
    BY DEF TrimNothing, Nothing, Unlock, ConvInv
  <1>2. /\ cjob' \in [Jobs -> Operation] /\ \A k \in Jobs : OperationFits(cjob'[k])
        /\ \A k \in Jobs : k # j => cjob'[k] = cjob[k]
        /\ cjob'[j].op = cjob[j].op /\ cjob'[j].pc = "committed" /\ cjob'[j].ids = cjob[j].ids
    BY <1>1, WriteGoes
  <1>3. ConvTypes'
    BY <1>1, <1>2 DEF ConvTypes
  <1>4. LockInv'
    <2>1. cjob'[j].pc \notin Held
      BY <1>2 DEF Held
    <2>2. QED
      BY <1>1, <1>2, <2>1, LockLeft
  <1>5. NewInv'
    <2>1. \A k \in Jobs : Adding(k)' => Adding(k) /\ cjob'[k].msg = cjob[k].msg
      BY <1>1, <1>2 DEF Adding
    <2>2. sent' = sent /\ conn'.msgs = conn.msgs /\ db'.msgs = db.msgs
      BY <1>1
    <2>3. QED
      BY <1>1, <2>1, <2>2, NewSame
  <1>6. CountInv'
    <2>1. Half' = {} /\ Half = {} /\ Committing' = {}
      BY <1>1, <1>2 DEF Half, Committing
    <2>2. conn'.msgs = conn.msgs /\ conn'.count = conn.count /\ torn' = torn /\ db'.msgs = db.msgs
          /\ db'.count = db.count /\ leaked' = leaked
      BY <1>1
    <2>3. Half' = Half /\ Committing' \subseteq Committing /\ (Half # {} => lock' = lock /\ cjob'[lock].op = cjob[lock].op)
      BY <2>1
    <2>4. QED
      BY <1>1, <2>2, <2>3, CountKept
  <1>7. StaleInv' /\ OneEach'
    <2>1. ASSUME NEW s \in Dirty
          PROVE  s \in Dirty'
      BY <1>1, <1>2, DirtyStays
    <2>2. \A s \in Dirty \cup excused : s \in Dirty' \cup excused'
      BY <1>1, <2>1
    <2>3. \A s \in Sessions : conn'.msgs[s] = conn.msgs[s] \/ s \in Dirty' \cup excused'
      BY <1>1
    <2>4. cjob'[j].pc # "filling" /\ cache' = cache
      BY <1>1, <1>2
    <2>5. QED
      BY <1>2, <2>2, <2>3, <2>4, QuietStale
  <1>8. QED
    BY <1>3, <1>4, <1>5, <1>6, <1>7 DEF ConvInv

LEMMA FirstInv ==
    ASSUME ConvInv, NEW j \in Jobs, First(j)
    PROVE  ConvInv'
  <1>1. /\ ConvTypes /\ NewInv /\ LockInv /\ CountInv /\ cjob[j].pc = "first"
        /\ UNCHANGED <<db, lock, cache, seen, sent, torn, leaked, excused>>
    BY DEF First, ConvInv
  <1>2. conn \in Store /\ OperationFits(cjob[j]) /\ cjob[j] \in Operation
    BY <1>1 DEF ConvTypes
  <1>3. cjob[j].ids \in SUBSET Sessions /\ cjob[j].msg \in 0 .. MaxMsgs
    BY <1>2, OperationFields
  <1>4. lock = j /\ lock # NoJob
    BY <1>1, ConvNats DEF LockInv, Held
  <1>5. /\ conn'.msgs = [s \in Sessions |-> IF s \in cjob[j].ids THEN After1(j, s) ELSE conn.msgs[s]]
        /\ conn'.count = conn.count /\ conn'.last = conn.last
        /\ conn' = [msgs |-> conn'.msgs, count |-> conn'.count, last |-> conn'.last, has |-> conn'.has]
        /\ conn'.has \in SUBSET Sessions
    <2> DEFINE m == [s \in Sessions |-> IF s \in cjob[j].ids THEN After1(j, s) ELSE conn.msgs[s]]
               h == IF cjob[j].op = "add" THEN conn.has \cup cjob[j].ids ELSE conn.has
    <2>1. conn' = [conn EXCEPT !.msgs = m, !.has = h]
      BY DEF First
    <2>2. h \in SUBSET Sessions
      BY <1>2, <1>3, StoreFacts
    <2> HIDE DEF m, h
    <2>3. conn = [msgs |-> conn.msgs, count |-> conn.count, last |-> conn.last, has |-> conn.has]
      BY <1>2 DEF Store
    <2>4. conn' = [msgs |-> m, count |-> conn.count, last |-> conn.last, has |-> h]
      BY <2>1, <2>3
    <2>5. QED
      BY <2>2, <2>4 DEF m
  <1>6. ASSUME NEW s \in Sessions
        PROVE  /\ After1(j, s) \in SUBSET Msgs
               /\ cjob[j].op = "sync" => After1(j, s) = conn.msgs[s]
               /\ cjob[j].op = "add" => After1(j, s) = conn.msgs[s] \cup {cjob[j].msg}
               /\ After1(j, s) \subseteq conn.msgs[s] \cup {cjob[j].msg}
               /\ cjob[j].op # "add" => After1(j, s) \subseteq conn.msgs[s]
    <2>1. conn.msgs[s] \in SUBSET Msgs
      BY <1>2, StoreFacts
    <2>2. cjob[j].op = "add" => cjob[j].msg \in Msgs
      <3>1. ASSUME cjob[j].op = "add"
            PROVE  cjob[j].msg \in Msgs
        <4>1. cjob[j].msg \in 1 .. sent
          BY <1>1, <3>1 DEF NewInv, Adding
        <4>2. sent \in 0 .. MaxMsgs
          BY <1>1 DEF ConvTypes
        <4>3. QED
          BY <4>1, <4>2, ConvNats DEF Msgs
      <3>2. QED
        BY <3>1
    <2>3. QED
      BY <2>1, <2>2 DEF After1
  <1>7. /\ \A s \in Sessions : s \notin cjob[j].ids => conn'.msgs[s] = conn.msgs[s]
        /\ \A s \in Sessions : s \in cjob[j].ids => conn'.msgs[s] = After1(j, s)
    BY <1>5
  <1>8. conn' \in Store
    <2>1. conn.msgs \in [Sessions -> SUBSET Msgs] /\ conn.count \in [Sessions -> Nat] /\ conn.last \in [Sessions -> Nat]
      BY <1>2, StoreFacts
    <2>2. \A s \in Sessions : (IF s \in cjob[j].ids THEN After1(j, s) ELSE conn.msgs[s]) \in SUBSET Msgs
      BY <1>6, <2>1
    <2>3. conn'.msgs \in [Sessions -> SUBSET Msgs]
      BY <1>5, <2>2
    <2>4. QED
      BY <1>5, <2>1, <2>3 DEF Store
  <1>9. /\ cjob' \in [Jobs -> Operation] /\ \A k \in Jobs : OperationFits(cjob'[k])
        /\ \A k \in Jobs : k # j => cjob'[k] = cjob[k]
        /\ cjob'[j].op = cjob[j].op /\ cjob'[j].pc = "second" /\ cjob'[j].ids = cjob[j].ids
    <2>1. PICK s \in cjob[j].ids : cjob' = [cjob EXCEPT ![j].pc = "second", ![j].last = Index(j, s)]
      BY DEF First
    <2> DEFINE a == [cjob[j] EXCEPT !.pc = "second"]
               o == Indexed(a, Index(j, s))
    <2>2. OperationFits(a) /\ a.op = cjob[j].op /\ a.pc = "second" /\ a.ids = cjob[j].ids
      <3>1. "second" \in Places /\ cjob[j].op # "none" /\ cjob[j].op # "get"
        BY <1>1, <1>2 DEF Places, OperationFits
      <3>2. QED
        BY <1>2, <3>1, GoIs
    <2>3. Index(j, s) \in Nat
      <3>1. conn.last[s] \in Nat /\ cjob[j].n \in Nat
        BY <1>2, <1>3, StoreFacts, OperationFields
      <3>2. QED
        BY <3>1 DEF Index, TrimCount, Least
    <2>4. cjob' = [cjob EXCEPT ![j] = o]
      BY <1>1, <2>1 DEF Indexed, ConvTypes
    <2> HIDE DEF a
    <2>5. OperationFits(o) /\ o.op = a.op /\ o.pc = a.pc /\ o.ids = a.ids
      BY <2>2, <2>3, IndexGiven
    <2> HIDE DEF o
    <2>6. QED
      BY <1>1, <2>2, <2>4, <2>5, OneMoves
  <1>10. ConvTypes'
    BY <1>1, <1>8, <1>9 DEF ConvTypes
  <1>11. LockInv'
    <2>1. \A k \in Jobs : cjob'[k].pc \in Held <=> cjob[k].pc \in Held
      BY <1>1, <1>9 DEF Held
    <2>2. QED
      BY <1>1, <2>1, LockKept
  <1>12. NewInv'
    <2>1. ASSUME NEW s \in Sessions
          PROVE  /\ db'.msgs[s] \subseteq 1 .. sent /\ conn'.msgs[s] \subseteq 1 .. sent
                 /\ conn'.msgs[s] \subseteq conn.msgs[s] \cup {cjob[j].msg}
                 /\ cjob[j].op # "add" => conn'.msgs[s] \subseteq conn.msgs[s]
      <3>1. db.msgs[s] \subseteq 1 .. sent /\ conn.msgs[s] \subseteq 1 .. sent
        BY <1>1 DEF NewInv
      <3>2. cjob[j].op = "add" => cjob[j].msg \in 1 .. sent
        BY <1>1 DEF NewInv, Adding
      <3>3. QED
        BY <1>1, <1>6, <1>7, <3>1, <3>2
    <2>2. ASSUME NEW k \in Jobs, Adding(k)'
          PROVE  /\ Adding(k) /\ cjob'[k].msg = cjob[k].msg
                 /\ \A s \in Sessions : cjob[k].msg \notin conn'.msgs[s]
      <3>1. k # j /\ Adding(k) /\ cjob'[k] = cjob[k]
        BY <1>9, <2>2 DEF Adding
      <3>2. \A s \in Sessions : cjob[k].msg \notin conn.msgs[s]
        BY <1>1, <3>1 DEF NewInv
      <3>3. cjob[j].op = "add" => cjob[k].msg # cjob[j].msg
        BY <1>1, <3>1 DEF NewInv, Adding
      <3>4. QED
        BY <2>1, <3>1, <3>2, <3>3
    <2>3. \A s \in Sessions : db'.msgs[s] \subseteq 1 .. sent /\ conn'.msgs[s] \subseteq 1 .. sent
      BY <2>1
    <2>4. QED
      BY <1>1, <2>2, <2>3, NewKept
  <1>13. CountInv'
    <2>1. Half = {} /\ Half' = cjob[j].ids /\ lock' = j
      BY <1>1, <1>4, <1>9 DEF Half
    <2>2. ASSUME NEW s \in Sessions \ torn'
          PROVE  IF s \in Half' THEN cjob'[lock'].op = "add" => conn'.count[s] + 1 = Cardinality(conn'.msgs[s])
                 ELSE Counts(conn, s)'
      <3>1. Counts(conn, s) /\ s \in Sessions
        BY <1>1, <2>1, <2>2 DEF CountInv
      <3>2. CASE s \in cjob[j].ids
        <4>1. ASSUME cjob[j].op = "add"
              PROVE  conn'.count[s] + 1 = Cardinality(conn'.msgs[s])
          <5>1. conn'.msgs[s] = conn.msgs[s] \cup {cjob[j].msg} /\ conn'.count[s] = conn.count[s]
            BY <1>5, <1>6, <1>7, <3>1, <3>2, <4>1
          <5>2. cjob[j].msg \notin conn.msgs[s]
            BY <1>1, <3>1, <4>1 DEF NewInv, Adding
          <5>3. IsFiniteSet(conn.msgs[s]) /\ Cardinality(conn.msgs[s]) \in Nat
            BY <1>2, <3>1, StoreFacts
          <5>4. Cardinality(conn.msgs[s] \cup {cjob[j].msg}) = Cardinality(conn.msgs[s]) + 1
            BY <5>2, <5>3, FS_AddElement
          <5>5. QED
            BY <3>1, <5>1, <5>4 DEF Counts
        <4>2. QED
          BY <1>9, <2>1, <3>2, <4>1
      <3>3. CASE s \notin cjob[j].ids
        BY <1>5, <1>7, <2>1, <3>1, <3>3 DEF Counts
      <3>4. QED
        BY <3>2, <3>3
    <2>3. ~ (lock' # NoJob /\ cjob'[lock'].pc = "committing")
      BY <1>9, <2>1
    <2>4. \A s \in Sessions \ (torn' \cup leaked') : Counts(db, s)'
      BY <1>1 DEF CountInv, Counts
    <2>5. QED
      BY <2>2, <2>3, <2>4 DEF CountInv
  <1>14. StaleInv' /\ OneEach'
    <2>1. ASSUME NEW s \in Dirty
          PROVE  s \in Dirty'
      BY <1>1, <1>9, DirtyStays
    <2>2. \A s \in Dirty \cup excused : s \in Dirty' \cup excused'
      BY <1>1, <2>1
    <2>3. ASSUME NEW s \in Sessions
          PROVE  conn'.msgs[s] = conn.msgs[s] \/ s \in Dirty' \cup excused'
      <3>1. CASE s \in cjob[j].ids /\ cjob[j].op # "sync"
        BY <1>9, <3>1 DEF Dirty
      <3>2. CASE s \notin cjob[j].ids \/ cjob[j].op = "sync"
        BY <1>6, <1>7, <3>2
      <3>3. QED
        BY <3>1, <3>2
    <2>4. cjob'[j].pc # "filling" /\ cache' = cache
      BY <1>1, <1>9
    <2>5. QED
      BY <1>9, <2>2, <2>3, <2>4, QuietStale
  <1>15. QED
    BY <1>10, <1>11, <1>12, <1>13, <1>14 DEF ConvInv

LEMMA SecondInv ==
    ASSUME ConvInv, NEW j \in Jobs, Second(j)
    PROVE  ConvInv'
  <1>1. /\ ConvTypes /\ NewInv /\ LockInv /\ CountInv /\ cjob[j].pc = "second" /\ CGo(j, "committing")
        /\ UNCHANGED <<db, lock, cache, seen, sent, torn, leaked, excused>>
    BY DEF Second, ConvInv
  <1>2. conn \in Store /\ cjob[j] \in Operation
    BY <1>1 DEF ConvTypes
  <1>3. cjob[j].ids \in SUBSET Sessions /\ cjob[j].last \in Nat
    BY <1>2, OperationFields
  <1>4. lock = j /\ lock # NoJob
    BY <1>1, ConvNats DEF LockInv, Held
  <1>5. /\ cjob' \in [Jobs -> Operation] /\ \A k \in Jobs : OperationFits(cjob'[k])
        /\ \A k \in Jobs : k # j => cjob'[k] = cjob[k]
        /\ cjob'[j].op = cjob[j].op /\ cjob'[j].pc = "committing" /\ cjob'[j].ids = cjob[j].ids
    BY <1>1, WriteGoes
  <1> DEFINE c == [s \in Sessions |-> IF s \in cjob[j].ids THEN Counted(j, s) ELSE conn.count[s]]
             l == [s \in Sessions |-> IF s \in cjob[j].ids /\ cjob[j].op = "trim" THEN cjob[j].last ELSE conn.last[s]]
  <1>6. conn.msgs \in [Sessions -> SUBSET Msgs] /\ \A s \in Sessions : Counted(j, s) \in Nat /\ conn.count[s] \in Nat /\ conn.last[s] \in Nat
    BY <1>2, StoreFacts DEF Counted
  <1>7. c \in [Sessions -> Nat] /\ l \in [Sessions -> Nat]
    BY <1>3, <1>6
  <1>8. \A s \in Sessions : c[s] = IF s \in cjob[j].ids THEN Counted(j, s) ELSE conn.count[s]
    OBVIOUS
  <1>9. conn' = [conn EXCEPT !.count = c, !.last = l]
    BY DEF Second
  <1> HIDE DEF c, l
  <1>10. conn'.msgs = conn.msgs /\ conn'.count = c /\ conn' \in Store
    <2>1. conn = [msgs |-> conn.msgs, count |-> conn.count, last |-> conn.last, has |-> conn.has] /\ conn.has \in SUBSET Sessions
      BY <1>2 DEF Store
    <2>2. conn' = [msgs |-> conn.msgs, count |-> c, last |-> l, has |-> conn.has]
      BY <1>9, <2>1
    <2>3. QED
      BY <1>6, <1>7, <2>1, <2>2 DEF Store
  <1>11. ConvTypes'
    BY <1>1, <1>5, <1>10 DEF ConvTypes
  <1>12. LockInv'
    <2>1. \A k \in Jobs : cjob'[k].pc \in Held <=> cjob[k].pc \in Held
      BY <1>1, <1>5 DEF Held
    <2>2. QED
      BY <1>1, <2>1, LockKept
  <1>13. NewInv'
    <2>1. \A k \in Jobs : Adding(k)' => Adding(k) /\ cjob'[k].msg = cjob[k].msg
      BY <1>5 DEF Adding
    <2>2. sent' = sent /\ conn'.msgs = conn.msgs /\ db'.msgs = db.msgs
      BY <1>1, <1>10
    <2>3. QED
      BY <1>1, <2>1, <2>2, NewSame
  <1>14. CountInv'
    <2>1. Half = cjob[j].ids /\ Half' = {} /\ lock' = j
      BY <1>1, <1>4, <1>5 DEF Half
    <2>2. ASSUME NEW s \in Sessions, s \in cjob[j].ids, cjob[j].op # "add"
          PROVE  Counts(conn, s)'
      BY <1>8, <1>10, <2>2 DEF Counts, Counted
    <2>3. ASSUME NEW s \in Sessions \ torn'
          PROVE  Counts(conn, s)'
      <3>1. s \in Sessions /\ s \notin torn
        BY <1>1, <2>3
      <3>2. CASE s \in cjob[j].ids /\ cjob[j].op = "add"
        <4>1. conn.count[s] + 1 = Cardinality(conn.msgs[s])
          BY <1>1, <1>4, <2>1, <3>1, <3>2 DEF CountInv
        <4>2. c[s] = conn.count[s] + 1
          BY <1>8, <3>1, <3>2 DEF Counted
        <4>3. QED
          BY <1>10, <4>1, <4>2 DEF Counts
      <3>3. CASE s \in cjob[j].ids /\ cjob[j].op # "add"
        BY <2>2, <3>1, <3>3
      <3>4. CASE s \notin cjob[j].ids
        <4>1. Counts(conn, s)
          BY <1>1, <2>1, <3>1, <3>4 DEF CountInv
        <4>2. QED
          BY <1>8, <1>10, <3>1, <3>4, <4>1 DEF Counts
      <3>5. QED
        BY <3>2, <3>3, <3>4
    <2>4. lock' # NoJob /\ cjob'[lock'].pc = "committing" /\ cjob'[lock'].op # "add" =>
             \A s \in cjob'[lock'].ids : Counts(conn, s)'
      BY <1>3, <1>5, <2>1, <2>2
    <2>5. \A s \in Sessions \ (torn' \cup leaked') : Counts(db, s)'
      BY <1>1 DEF CountInv, Counts
    <2>6. QED
      BY <2>1, <2>3, <2>4, <2>5 DEF CountInv
  <1>15. StaleInv' /\ OneEach'
    <2>1. ASSUME NEW s \in Dirty
          PROVE  s \in Dirty'
      BY <1>1, <1>5, DirtyStays
    <2>2. \A s \in Dirty \cup excused : s \in Dirty' \cup excused'
      BY <1>1, <2>1
    <2>3. \A s \in Sessions : conn'.msgs[s] = conn.msgs[s] \/ s \in Dirty' \cup excused'
      BY <1>10
    <2>4. cjob'[j].pc # "filling" /\ cache' = cache
      BY <1>1, <1>5
    <2>5. QED
      BY <1>5, <2>2, <2>3, <2>4, QuietStale
  <1>16. QED
    BY <1>11, <1>12, <1>13, <1>14, <1>15 DEF ConvInv

LEMMA SecondFailsInv ==
    ASSUME ConvInv, NEW j \in Jobs, SecondFails(j)
    PROVE  ConvInv'
  <1>1. /\ ConvTypes /\ NewInv /\ LockInv /\ CountInv /\ cjob[j].pc = "second" /\ Unlock(j) /\ lock = j /\ lock' = NoJob
        /\ cjob' = [cjob EXCEPT ![j] = CIdle]
        /\ torn' = torn \cup cjob[j].ids /\ excused' = excused \cup cjob[j].ids
        /\ UNCHANGED <<db, conn, cache, seen, sent, leaked>>
    BY DEF SecondFails, CAt, CEnd, Unlock, ConvInv
  <1>2. /\ cjob' \in [Jobs -> Operation] /\ \A k \in Jobs : OperationFits(cjob'[k])
        /\ cjob'[j] = CIdle /\ \A k \in Jobs : k # j => cjob'[k] = cjob[k]
    BY <1>1, CIdleFits, OneMoves
  <1>3. ConvTypes'
    BY <1>1, <1>2 DEF ConvTypes
  <1>4. LockInv'
    <2>1. cjob'[j].pc \notin Held
      BY <1>2, CIdleFits DEF Held
    <2>2. QED
      BY <1>1, <1>2, <2>1, LockLeft
  <1>5. NewInv'
    <2>1. \A k \in Jobs : Adding(k)' => Adding(k) /\ cjob'[k].msg = cjob[k].msg
      BY <1>2, CIdleFits DEF Adding
    <2>2. sent' = sent /\ conn'.msgs = conn.msgs /\ db'.msgs = db.msgs
      BY <1>1
    <2>3. QED
      BY <1>1, <2>1, <2>2, NewSame
  <1>6. CountInv'
    <2>1. Half = cjob[j].ids /\ Half' = {}
      BY <1>1, ConvNats DEF Half
    <2>2. ASSUME NEW s \in Sessions \ torn'
          PROVE  Counts(conn, s)'
      <3>1. s \in Sessions \ torn /\ s \notin Half
        BY <1>1, <2>1, <2>2
      <3>2. Counts(conn, s)
        BY <1>1, <3>1 DEF CountInv
      <3>3. QED
        BY <1>1, <3>2 DEF Counts
    <2>3. \A s \in Sessions \ (torn' \cup leaked') : Counts(db, s)'
      BY <1>1 DEF CountInv, Counts
    <2>4. QED
      BY <1>1, <2>1, <2>2, <2>3 DEF CountInv
  <1>7. StaleInv' /\ OneEach'
    <2>1. ASSUME NEW s \in Dirty \cup excused
          PROVE  s \in Dirty' \cup excused'
      <3>1. CASE s \in cjob[j].ids \/ s \in excused
        BY <1>1, <3>1
      <3>2. CASE s \in Dirty /\ s \notin cjob[j].ids
        BY <1>2, <3>2, DirtyStays
      <3>3. QED
        BY <3>1, <3>2
    <2>2. \A s \in Sessions : conn'.msgs[s] = conn.msgs[s] \/ s \in Dirty' \cup excused'
      BY <1>1
    <2>3. cjob'[j].pc # "filling" /\ cache' = cache
      BY <1>1, <1>2, CIdleFits
    <2>4. QED
      BY <1>2, <2>1, <2>2, <2>3, QuietStale
  <1>8. QED
    BY <1>3, <1>4, <1>5, <1>6, <1>7 DEF ConvInv

LEMMA CommitInv ==
    ASSUME ConvInv, NEW j \in Jobs, Commit(j)
    PROVE  ConvInv'
  <1>1. /\ ConvTypes /\ NewInv /\ LockInv /\ CountInv /\ cjob[j].pc = "committing" /\ Unlock(j) /\ lock = j /\ lock' = NoJob
        /\ CGo(j, "committed") /\ db' = conn
        /\ torn' = (IF cjob[j].op = "add" THEN torn ELSE torn \ cjob[j].ids) /\ leaked' = leaked \ cjob[j].ids
        /\ UNCHANGED <<conn, cache, seen, sent, excused>>
    BY DEF Commit, Unlock, ConvInv
  <1>2. /\ cjob' \in [Jobs -> Operation] /\ \A k \in Jobs : OperationFits(cjob'[k])
        /\ \A k \in Jobs : k # j => cjob'[k] = cjob[k]
        /\ cjob'[j].op = cjob[j].op /\ cjob'[j].pc = "committed" /\ cjob'[j].ids = cjob[j].ids
    BY <1>1, WriteGoes
  <1>3. ConvTypes'
    BY <1>1, <1>2 DEF ConvTypes
  <1>4. LockInv'
    <2>1. cjob'[j].pc \notin Held
      BY <1>2 DEF Held
    <2>2. QED
      BY <1>1, <1>2, <2>1, LockLeft
  <1>5. NewInv'
    <2>1. \A k \in Jobs : Adding(k)' => Adding(k) /\ cjob'[k].msg = cjob[k].msg
      BY <1>2 DEF Adding
    <2>2. sent' = sent /\ conn'.msgs = conn.msgs /\ db'.msgs = conn.msgs
      BY <1>1
    <2>3. QED
      BY <1>1, <2>1, <2>2, NewSame
  <1>6. CountInv'
    <2>1. Half = {} /\ Half' = {} /\ lock # NoJob
      BY <1>1, ConvNats DEF Half
    <2>2. ASSUME NEW s \in Sessions \ torn'
          PROVE  Counts(conn, s)
      <3>1. CASE s \in torn
        <4>1. s \in cjob[j].ids /\ cjob[j].op # "add"
          BY <1>1, <2>2, <3>1
        <4>2. QED
          BY <1>1, <2>1, <4>1 DEF CountInv
      <3>2. CASE s \notin torn
        BY <1>1, <2>1, <2>2, <3>2 DEF CountInv
      <3>3. QED
        BY <3>1, <3>2
    <2>3. \A s \in Sessions \ torn' : Counts(conn, s)' /\ Counts(db, s)'
      BY <1>1, <2>2 DEF Counts
    <2>4. QED
      BY <1>1, <2>1, <2>3 DEF CountInv
  <1>7. StaleInv' /\ OneEach'
    <2>1. ASSUME NEW s \in Dirty
          PROVE  s \in Dirty'
      BY <1>1, <1>2, DirtyStays
    <2>2. \A s \in Dirty \cup excused : s \in Dirty' \cup excused'
      BY <1>1, <2>1
    <2>3. \A s \in Sessions : conn'.msgs[s] = conn.msgs[s] \/ s \in Dirty' \cup excused'
      BY <1>1
    <2>4. cjob'[j].pc # "filling" /\ cache' = cache
      BY <1>1, <1>2
    <2>5. QED
      BY <1>2, <2>2, <2>3, <2>4, QuietStale
  <1>8. QED
    BY <1>3, <1>4, <1>5, <1>6, <1>7 DEF ConvInv

\* A session's row gets another index.
LEMMA LastMoves ==
    ASSUME NEW st \in Store, NEW l \in [Sessions -> Nat]
    PROVE  LET r == [st EXCEPT !.last = l] IN r \in Store /\ r.msgs = st.msgs /\ r.count = st.count
  BY DEF Store

LEMMA WriteEndInv ==
    ASSUME ConvInv, NEW j \in Jobs, WriteEnd(j)
    PROVE  ConvInv'
  <1> DEFINE S == Invalidated(j)
  <1>1. /\ ConvTypes /\ OneEach /\ NewInv /\ LockInv /\ CountInv /\ StaleInv /\ cjob[j].pc = "committed"
        /\ Drop(S) /\ UNCHANGED <<lock, seen, sent, torn>>
        /\ IF cjob[j].op = "add" THEN CGo(j, "added") ELSE CEnd(j)
    BY DEF WriteEnd, ConvInv
  <1>2. cjob[j] \in Operation /\ OperationFits(cjob[j]) /\ cjob[j].ids \in SUBSET Sessions
    <2>1. cjob[j] \in Operation /\ OperationFits(cjob[j])
      BY <1>1 DEF ConvTypes
    <2>2. QED
      BY <2>1, OperationFields
  <1>3. PICK s : S = {s} \/ S = {}
    BY <1>1, <1>2 DEF Invalidated, OperationFits
  <1>4. S \subseteq cjob[j].ids /\ (cjob[j].op # "sync" => S = cjob[j].ids)
    BY DEF Invalidated
  <1>5. cache' = Without(S) /\ excused' = (excused \ S) \cup Filling(S)
    BY <1>1 DEF Drop
  <1> HIDE DEF S
  <1>6. /\ cjob' \in [Jobs -> Operation] /\ \A k \in Jobs : OperationFits(cjob'[k])
        /\ \A k \in Jobs : k # j => cjob'[k] = cjob[k]
        /\ cjob'[j].pc \in {"none", "added"}
    <2>1. CASE cjob[j].op = "add"
      BY <1>1, <2>1, WriteGoes
    <2>2. CASE cjob[j].op # "add"
      <3>1. cjob' = [cjob EXCEPT ![j] = CIdle]
        BY <1>1, <2>2 DEF CEnd
      <3>2. QED
        BY <1>1, <3>1, CIdleFits, OneMoves
    <2>3. QED
      BY <2>1, <2>2
  <1>7. /\ db' \in Store /\ conn' \in Store /\ conn'.msgs = conn.msgs /\ conn'.count = conn.count
        /\ \/ db'.msgs = db.msgs /\ db'.count = db.count /\ leaked' = leaked
           \/ db'.msgs = conn.msgs /\ db'.count = conn.count /\ leaked' = leaked \cup Half
    <2>1. db \in Store /\ conn \in Store
      BY <1>1 DEF ConvTypes
    <2>2. CASE cjob[j].op = "clear"
      <3> DEFINE l == [x \in Sessions |-> IF x \in cjob[j].ids THEN 0 ELSE conn.last[x]]
      <3>1. conn' = [conn EXCEPT !.last = l] /\ db' = conn' /\ leaked' = leaked \cup HalfDone
        BY <2>2 DEF WriteEnd
      <3>2. l \in [Sessions -> Nat]
        BY <2>1, StoreFacts
      <3> HIDE DEF l
      <3>3. conn' \in Store /\ conn'.msgs = conn.msgs /\ conn'.count = conn.count
        BY <2>1, <3>1, <3>2, LastMoves
      <3>4. QED
        BY <3>1, <3>3 DEF Half, HalfDone
    <2>3. CASE cjob[j].op # "clear"
      BY <2>1, <2>3 DEF WriteEnd
    <2>4. QED
      BY <2>2, <2>3
  <1>8. cache \in Seq(Listing) /\ Len(cache) <= CacheSize
    BY <1>1 DEF ConvTypes
  <1>9. /\ cache' \in Seq(Listing) /\ Entries(cache') /\ Len(cache') <= Len(cache)
        /\ \A i \in 1 .. Len(cache') : (\E k \in 1 .. Len(cache) : cache'[i] = cache[k]) /\ cache'[i].sess \notin S
    <2>1. /\ Without(S) \in Seq(Listing) /\ Entries(Without(S)) /\ Len(Without(S)) <= Len(cache)
          /\ \A i \in 1 .. Len(Without(S)) : (\E k \in 1 .. Len(cache) : Without(S)[i] = cache[k]) /\ Without(S)[i].sess \notin S
      BY <1>1, <1>3, <1>8, WithoutIs
    <2>2. QED
      BY <1>5, <2>1
  <1>10. ConvTypes'
    <2>1. Len(cache') <= CacheSize
      BY <1>8, <1>9, ConvNats
    <2>2. QED
      BY <1>1, <1>6, <1>7, <1>9, <2>1 DEF ConvTypes
  <1>11. OneEach'
    BY <1>9 DEF OneEach, Entries
  <1>12. LockInv'
    <2>1. \A k \in Jobs : cjob'[k].pc \in Held <=> cjob[k].pc \in Held
      BY <1>1, <1>6 DEF Held
    <2>2. QED
      BY <1>1, <2>1, LockKept
  <1>13. NewInv'
    <2>1. \A k \in Jobs : Adding(k)' => Adding(k) /\ cjob'[k].msg = cjob[k].msg
      BY <1>6 DEF Adding
    <2>2. sent' = sent /\ conn'.msgs = conn.msgs /\ (db'.msgs = db.msgs \/ db'.msgs = conn.msgs)
      BY <1>1, <1>7
    <2>3. QED
      BY <1>1, <2>1, <2>2, NewSame
  <1>14. CountInv'
    <2>1. lock # NoJob => lock \in Jobs /\ lock # j /\ cjob'[lock] = cjob[lock]
      BY <1>1, <1>6 DEF LockInv, Held
    <2>2. Half' = Half /\ Committing' \subseteq Committing /\ (Half # {} => lock' = lock /\ cjob'[lock].op = cjob[lock].op)
      BY <1>1, <2>1 DEF Half, Committing
    <2>3. QED
      BY <1>1, <1>7, <2>2, CountKept
  <1>15. StaleInv'
    <2>1. ASSUME NEW x \in Sessions \ S, x \in Dirty \cup excused
          PROVE  x \in Dirty' \cup excused'
      <3>1. CASE x \in excused
        BY <1>5, <2>1, <3>1
      <3>2. CASE x \in Dirty
        <4>1. ~ (x \in cjob[j].ids /\ cjob[j].op # "sync")
          BY <1>4, <2>1
        <4>2. x \in Dirty'
          BY <1>6, <3>2, <4>1, DirtyStays
        <4>3. QED
          BY <4>2
      <3>3. QED
        BY <2>1, <3>1, <3>2
    <2>2. \A x \in Sessions \ S : conn'.msgs[x] = conn.msgs[x] \/ x \in Dirty' \cup excused'
      BY <1>7
    <2>3. ASSUME NEW i \in 1 .. Len(cache')
          PROVE  cache'[i].sess \in Sessions \ S /\ \E k \in 1 .. Len(cache) : cache'[i] = cache[k]
      <3>1. cache'[i] \in Listing
        BY <1>9, ElementOfSeq
      <3>2. QED
        BY <1>9, <3>1 DEF Listing
    <2>4. ASSUME NEW k \in Jobs, cjob'[k].pc = "filling"
          PROVE  cjob'[k] = cjob[k] /\ cjob[k].ids \subseteq Sessions /\ cjob[k].ids \cap S \subseteq excused'
      <3>1. k # j /\ cjob'[k] = cjob[k]
        BY <1>6, <2>4
      <3>2. cjob[k].ids \subseteq Sessions /\ OperationFits(cjob[k])
        BY <1>1 DEF ConvTypes, Operation
      <3>3. CAt(k, "get", "filling")
        BY <2>4, <3>1, <3>2 DEF CAt, OperationFits
      <3>4. cjob[k].ids \cap S \subseteq Filling(S)
        BY <3>3 DEF Filling
      <3>5. QED
        BY <1>5, <3>1, <3>2, <3>4
    <2>5. \A x \in Sessions \ S : x \in Dirty \cup excused => x \in Dirty' \cup excused'
      BY <2>1
    <2>6. StaleInv
      BY <1>1
    <2>7. QED
      BY <2>2, <2>3, <2>4, <2>5, <2>6, StaleKept
  <1>16. QED
    BY <1>10, <1>11, <1>12, <1>13, <1>14, <1>15 DEF ConvInv

LEMMA SummariseStep ==
    ASSUME ConvInv, NEW s \in Sessions, Summarise(s)
    PROVE  ConvInv'
  <1>1. /\ ConvTypes /\ NewInv /\ CountInv
        /\ UNCHANGED <<lock, cache, seen, cjob, sent, torn, excused>>
        /\ db' = conn' /\ leaked' = leaked \cup Half
    BY DEF Summarise, Half, HalfDone, ConvInv
  <1>2. PICK n \in 1 .. sent : conn' = [conn EXCEPT !.last[s] = n]
    BY DEF Summarise
  <1>3. conn' \in Store /\ conn'.msgs = conn.msgs /\ conn'.count = conn.count
    <2> DEFINE l == [conn.last EXCEPT ![s] = n]
    <2>1. conn \in Store /\ conn.last \in [Sessions -> Nat] /\ n \in Nat
      BY <1>1, StoreFacts DEF ConvTypes
    <2>2. l \in [Sessions -> Nat]
      BY <2>1
    <2>3. conn' = [conn EXCEPT !.last = l]
      BY <1>2, <2>1 DEF Store
    <2> HIDE DEF l
    <2>4. QED
      BY <2>1, <2>2, <2>3, LastMoves
  <1>4. ConvTypes'
    BY <1>1, <1>3 DEF ConvTypes
  <1>5. OneEach' /\ LockInv'
    BY <1>1 DEF ConvInv, OneEach, LockInv
  <1>6. NewInv'
    <2>1. \A k \in Jobs : Adding(k)' => Adding(k) /\ cjob'[k].msg = cjob[k].msg
      BY <1>1 DEF Adding
    <2>2. sent' = sent /\ conn'.msgs = conn.msgs /\ db'.msgs = conn.msgs
      BY <1>1, <1>3
    <2>3. QED
      BY <1>1, <2>1, <2>2, NewSame
  <1>7. CountInv'
    <2>1. Half' = Half /\ Committing' \subseteq Committing /\ (Half # {} => lock' = lock /\ cjob'[lock].op = cjob[lock].op)
      BY <1>1 DEF Half, Committing
    <2>2. db'.msgs = conn.msgs /\ db'.count = conn.count /\ torn' = torn
      BY <1>1, <1>3
    <2>3. QED
      BY <1>1, <1>3, <2>1, <2>2, CountKept
  <1>8. StaleInv'
    <2>1. \A x, M : Stands(x, M) => Stands(x, M)'
      BY <1>1, <1>3 DEF Stands, TopOf, Dirty
    <2>2. StaleInv
      BY DEF ConvInv
    <2>3. QED
      BY <1>1, <1>3, <2>2 DEF StaleInv, Stands, TopOf, Dirty
  <1>9. QED
    BY <1>4, <1>5, <1>6, <1>7, <1>8 DEF ConvInv

LEMMA CCrashInv ==
    ASSUME ConvInv, CCrash
    PROVE  ConvInv'
  <1>1. /\ ConvTypes /\ NewInv /\ CountInv
        /\ conn' = db /\ lock' = NoJob /\ cache' = <<>> /\ seen' = {} /\ cjob' = [j \in Jobs |-> CIdle]
        /\ torn' = torn \cup leaked /\ leaked' = {} /\ UNCHANGED <<db, sent>>
    BY DEF CCrash, ConvInv
  <1>2. cjob' \in [Jobs -> Operation] /\ \A j \in Jobs : cjob'[j] = CIdle
    BY <1>1, CIdleFits
  <1>3. cache' \in Seq(Listing) /\ Len(cache') = 0
    BY <1>1
  <1>4. ConvTypes'
    <2>1. \A j \in Jobs : OperationFits(cjob'[j])
      BY <1>2, CIdleFits
    <2>2. QED
      BY <1>1, <1>2, <1>3, <2>1, ConvNats DEF ConvTypes
  <1>5. OneEach'
    BY <1>3 DEF OneEach
  <1>6. LockInv'
    BY <1>1, <1>2, CIdleFits DEF LockInv, Held
  <1>7. NewInv'
    BY <1>1, <1>2, CIdleFits DEF NewInv, Adding
  <1>8. CountInv'
    <2>1. \A s \in Sessions \ torn' : Counts(db, s)
      BY <1>1 DEF CountInv
    <2>2. Half' = {}
      BY <1>1 DEF Half
    <2>3. \A s \in Sessions \ torn' : Counts(conn, s)' /\ Counts(db, s)'
      BY <1>1, <2>1 DEF Counts
    <2>4. QED
      BY <1>1, <2>2, <2>3 DEF CountInv
  <1>9. StaleInv'
    BY <1>2, <1>3, CIdleFits DEF StaleInv
  <1>10. QED
    BY <1>4, <1>5, <1>6, <1>7, <1>8, <1>9 DEF ConvInv

LEMMA CJobStepInv ==
    ASSUME ConvInv, NEW j \in Jobs, CJobStep(j)
    PROVE  ConvInv'
  <1>1. CASE GetFill(j)
    BY <1>1, GetFillInv
  <1>2. CASE Sync(j)
    <2>1. COp(j, "sync", Sessions)
      BY <1>2 DEF Sync
    <2>2. QED
      BY <2>1, COpInv
  <1>3. CASE LimitCheck(j)
    BY <1>3, LimitCheckInv
  <1>4. CASE Lock(j)
    BY <1>4, LockStep
  <1>5. CASE TrimNothing(j)
    BY <1>5, TrimNothingInv
  <1>6. CASE First(j)
    BY <1>6, FirstInv
  <1>7. CASE Second(j)
    BY <1>7, SecondInv
  <1>8. CASE SecondFails(j)
    BY <1>8, SecondFailsInv
  <1>9. CASE Commit(j)
    BY <1>9, CommitInv
  <1>10. CASE WriteEnd(j)
    BY <1>10, WriteEndInv
  <1>11. CASE Mark(j)
    BY <1>11, MarkKeeps
  <1>12. CASE \E s \in Sessions : Clear(j, s)
    <2>1. PICK s \in Sessions : COp(j, "clear", {s})
      BY <1>12 DEF Clear
    <2>2. {s} \in SUBSET Sessions /\ \E x \in Sessions : {s} = {x}
      OBVIOUS
    <2>3. QED
      BY <2>1, <2>2, COpInv
  <1>13. CASE \E s \in Sessions : \E n \in 1 .. 2 : GetMiss(j, s, n)
    BY <1>13, GetMissInv
  <1>14. CASE \E s \in Sessions : \E k \in Keys \cup {NoKey} : Capture(j, s, k)
    BY <1>14, CaptureInv
  <1>15. QED
    BY <1>1, <1>2, <1>3, <1>4, <1>5, <1>6, <1>7, <1>8, <1>9, <1>10, <1>11, <1>12, <1>13, <1>14 DEF CJobStep

LEMMA ConvNextInv == ConvInv /\ [ConvNext]_cvars => ConvInv'
  <1> SUFFICES ASSUME ConvInv, [ConvNext]_cvars
               PROVE  ConvInv'
    OBVIOUS
  <1>1. CASE \E j \in Jobs : CJobStep(j)
    BY <1>1, CJobStepInv
  <1>2. CASE \E s \in Sessions : GetHit(s)
    BY <1>2, GetHitInv
  <1>3. CASE \E s \in Sessions : Summarise(s)
    BY <1>3, SummariseStep
  <1>4. CASE \E k \in Keys : Forget(k)
    BY <1>4, ForgetInv
  <1>5. CASE CCrash
    BY <1>5, CCrashInv
  <1>6. CASE UNCHANGED cvars
    <2>1. UNCHANGED <<db, conn, lock, cache, seen, cjob, sent, torn, leaked, excused>>
      BY <1>6 DEF cvars
    <2>2. ConvTypes' /\ OneEach' /\ LockInv'
      BY <2>1 DEF ConvInv, ConvTypes, OneEach, LockInv
    <2>3. NewInv' /\ CountInv'
      BY <2>1 DEF ConvInv, NewInv, Adding, CountInv, Half, Counts
    <2>4. StaleInv'
      BY <2>1 DEF ConvInv, StaleInv, Stands, Dirty, TopOf
    <2>5. QED
      BY <2>2, <2>3, <2>4 DEF ConvInv
  <1>7. QED
    BY <1>1, <1>2, <1>3, <1>4, <1>5, <1>6 DEF ConvNext

LEMMA ConvAlways == ConvSpec => []ConvInv
  BY ConvInitInv, ConvNextInv, PTL DEF ConvSpec

-----------------------------------------------------------------------------
\* Whenever nobody holds the write lock, the count of a session is the number
\* of its messages, but where a write was cut off.
THEOREM CountsAreRight == ConvSpec => []CountRight
  <1>1. ConvInv => CountRight
    <2> SUFFICES ASSUME CountInv, lock = NoJob, NEW s \in Sessions \ torn
                 PROVE  conn.count[s] = Cardinality(conn.msgs[s])
      BY DEF ConvInv, CountRight
    <2>1. Half = {}
      BY DEF Half
    <2>2. QED
      BY <2>1 DEF CountInv, Counts
  <1>2. QED
    BY <1>1, ConvAlways, PTL

\* A session has one cached list, there are no more than may be, and each is
\* the newest of its messages but while a write to it is under way or where
\* one raced with a read or failed.
THEOREM CacheIsSound == ConvSpec => []CacheSound
  <1>1. ConvTypes /\ OneEach => Cardinality(Cached) = Len(cache)
    <2> SUFFICES ASSUME ConvTypes, OneEach
                 PROVE  Cardinality(Cached) = Len(cache)
      OBVIOUS
    <2> DEFINE D == 1 .. Len(cache)
               f == [i \in D |-> cache[i].sess]
    <2>1. Len(cache) \in Nat /\ 1 \in Int
      BY DEF ConvTypes
    <2>2. IsFiniteSet(D) /\ Cardinality(D) = Len(cache)
      <3> DEFINE n == Len(cache)
      <3>1. n \in Nat /\ n \in Int
        BY <2>1
      <3> HIDE DEF n
      <3>2. IsFiniteSet(1 .. n) /\ Cardinality(1 .. n) = IF 1 > n THEN 0 ELSE n - 1 + 1
        BY <3>1, FS_Interval
      <3>3. Cardinality(1 .. n) = n
        BY <3>1, <3>2
      <3>4. QED
        BY <3>2, <3>3 DEF n
    <2>3. f \in Bijection(D, Cached)
      <3>1. f \in [D -> Cached]
        BY DEF Cached
      <3>2. \A i, k \in D : f[i] = f[k] => i = k
        BY DEF OneEach
      <3>3. \A s \in Cached : \E i \in D : f[i] = s
        BY DEF Cached
      <3>4. QED
        BY <3>1, <3>2, <3>3 DEF Bijection, Injection, Surjection, IsInjective
    <2>4. ExistsBijection(D, Cached)
      BY <2>3 DEF ExistsBijection
    <2>5. QED
      BY <2>2, <2>4, FS_Bijection
  <1>2. ConvInv => ConvTypeOK
    BY <1>1 DEF ConvInv, ConvTypes, ConvTypeOK
  <1>3. ConvInv => StaleOnlyByRace
    <2> SUFFICES ASSUME ConvInv, NEW i \in 1 .. Len(cache)
                 PROVE  \/ cache[i].sess \in Writing \cup excused
                        \/ cache[i].msgs = Newest(conn.msgs[cache[i].sess], Cardinality(cache[i].msgs))
      BY DEF StaleOnlyByRace
    <2>1. Stands(cache[i].sess, cache[i].msgs)
      BY DEF ConvInv, StaleInv
    <2>2. Dirty \subseteq Writing
      BY DEF Dirty, Writing
    <2>3. QED
      BY <2>1, <2>2 DEF Stands, TopOf
  <1>4. QED
    BY <1>2, <1>3, ConvAlways, PTL DEF CacheSound
=============================================================================
