-------------------------------- MODULE Gate --------------------------------
(***************************************************************************)
(* The security gate: sentences that weigh enough become candidates        *)
(* (RuleGate.process), a reflection round judges them when its timer, its  *)
(* retry and its fuse allow (ReflectionScheduler), so does a visitor of    *)
(* the page, and what is confirmed is added to the memories, by the judge  *)
(* or, if that left no trace, by the backfill of a later reply.            *)
(*                                                                         *)
(* A sentence is a value with a score and a likeness to the others.  A     *)
(* reply brings one, of the user or of the model, or none for the gate.    *)
(* Declined, merged and absorbed candidates are closed: none comes back.   *)
(* Calls of the gate database happen within a step: nothing is awaited.    *)
(***************************************************************************)
EXTENDS Integers, Sequences, FiniteSets, FiniteSetsExt

CONSTANTS
    Replies,           \* coroutines that scan a reply
    Texts, Score,      \* sentences and their scores, of 100
    Express,           \* those let in for their emotion
    Liable,            \* those with a word that can be learned
    Likeness,          \* Jaccard of two sentences, of 100
    GateThreshold, MergeJ, PenaltyJ, ExemptJ, OverlapJ, Penalty, Bonus,
    Recent,            \* COMPARE_RECENT
    MaxRound,          \* MAX_PER_ROUND
    Idle, Grace, Defer, Quiet, RetryDelay, FuseCooldown, FuseFailures,
    MaxRows, MaxPage, MaxMishaps, MaxCrashes   \* bounds

ASSUME GateAssumption ==
    /\ Score \in [Texts -> Nat]
    /\ {Bonus, Penalty, MaxRound, Idle, Grace, Defer, Quiet} \subseteq Nat
    /\ {RetryDelay, FuseCooldown, FuseFailures, MaxRows} \subseteq Nat

VARIABLES
    rows,       \* gate_candidates; stored: history, memories made of it, 2 for more
    prints,     \* memorized_fp: sentences the agent memorised itself
    manual,     \* those of today
    learned, active,   \* uses of the word, and whether this process knows it
    reply,      \* reply[r]: the backfill of a scan
    page,       \* a verdict of the page on its way into the memories
    sch,        \* the scheduler's fields; times are ages or what is left
    round,      \* the reflection round
    loop,       \* the loop that looks for work runs
    count,      \* used of each bound
    excused     \* history: candidates that may be stored again

gatevars == <<rows, prints, manual, learned, active>>
workvars == <<reply, page, round>>
vars == <<gatevars, workvars, sch, loop, count, excused>>

NoReply == [pc |-> "none", todo |-> {}, doing |-> 0]
NoRound == [pc |-> "off", open |-> {}, doing |-> 0]
Fresh == [armed |-> TRUE, since |-> 0, quiet |-> 0, fuse |-> 0, retry |-> 0, failures |-> 0]
Used(b, max) == count[b] < max /\ count' = [count EXCEPT ![b] = @ + 1]
Mishap == Used("faults", MaxMishaps)

Init ==
    /\ rows = <<>> /\ prints = {} /\ manual = {} /\ learned = 0 /\ active = FALSE
    /\ reply = [r \in Replies |-> NoReply] /\ page = 0
    /\ sch = Fresh /\ round = NoRound /\ loop = FALSE
    /\ count = [page |-> 0, faults |-> 0, crashes |-> 0]
    /\ excused = {}

-----------------------------------------------------------------------------
(* process                                                                 *)
Worth(t) == IF t \in Liable /\ active THEN Score[t] + Bonus ELSE Score[t]
Row(t, s, status) == [text |-> t, score |-> s, status |-> status, mem |-> FALSE, stored |-> 0]
Like(S, t, j) == \E x \in S : Likeness[x, t] >= j
\* Judged candidates are compared with, too.
Enter(rs, t) ==
    LET s == Worth(t)
        near == {c \in DOMAIN rs : c > Len(rs) - Recent}
        best == Max({0} \cup {Likeness[rs[c].text, t] : c \in near})
        twin == Max({0} \cup {c \in near : Likeness[rs[c].text, t] = best})
        final == IF best >= PenaltyJ THEN (s * Penalty) \div 100 ELSE s
    IN CASE s < GateThreshold /\ t \notin Express -> rs
         [] OTHER ->
            IF Like(prints, t, ExemptJ) \/ Like(manual, t, OverlapJ) THEN Append(rs, Row(t, s, "closed"))
            ELSE IF best >= MergeJ THEN [rs EXCEPT ![twin].score = Max({@, s})]
            ELSE IF final < GateThreshold /\ t \notin Express THEN rs
            ELSE Append(rs, Row(t, final, "candidate"))

Having(rs, status) == {c \in DOMAIN rs : rs[c].status = status}
Candidates == Having(rows, "candidate")

-----------------------------------------------------------------------------
(* The timer.                                                              *)
Busy == round.pc \notin {"off", "begin"}
OnUserMessage ==
    LET arm == ~sch.armed /\ ~Busy
    IN sch' = [sch EXCEPT !.quiet = 0, !.fuse = 0, !.armed = @ \/ arm,
                          !.since = IF arm THEN 0 ELSE @]
\* Mutant: nothing limits how long a chat puts the round off.
MayTrigger_NoCap ==
    /\ ~Busy /\ sch.armed /\ sch.fuse = 0 /\ sch.retry = 0
    /\ sch.since >= Idle /\ sch.quiet >= Grace
    /\ Candidates # {}
MayTrigger ==
    /\ ~Busy /\ sch.armed /\ sch.fuse = 0 /\ sch.retry = 0
    /\ sch.since >= Idle
    /\ sch.quiet >= Grace \/ sch.since >= Idle + Defer
    /\ Candidates # {}
Older(age, max) == IF age < max THEN age + 1 ELSE age
Less(left) == IF left > 0 THEN left - 1 ELSE 0
Tick ==
    /\ sch' = [sch EXCEPT !.since = Older(@, Idle + Defer), !.quiet = Older(@, Max({Grace, Quiet})),
                          !.fuse = Less(@), !.retry = Less(@)]
    /\ UNCHANGED <<gatevars, workvars, loop, count, excused>>

-----------------------------------------------------------------------------
(* Confirmed candidates become memories: _materialize_confirmed is awaited,*)
(* the memory's id is written to the row afterwards.                       *)
Adding(c) ==
    \/ \E r \in Replies : reply[r].doing = c
    \/ round.doing = c \/ page = c
\* Two at once, or one that goes on with an old list.
Again(c, rs) == IF Adding(c) \/ rs[c].mem THEN {c} ELSE {}
Stored(rs, c) == [rs EXCEPT ![c].stored = Min({@ + 1, 2})]

\* A reply: the backfill of what is confirmed without a memory, one after
\* the other, then the sentence.
\* The end of the scan: a message of the user, if it was one, then the
\* sentence.
Scanned(rs) ==
    /\ rows' \in {rs} \cup {Enter(rs, t) : t \in Texts}
    /\ Len(rows') <= MaxRows
    /\ (OnUserMessage /\ loop' = TRUE) \/ UNCHANGED <<sch, loop>>
Backfill(r, rs, todo) ==
    IF todo = {} THEN
        /\ reply' = [reply EXCEPT ![r] = NoReply]
        /\ Scanned(rs) /\ UNCHANGED excused
    ELSE
        /\ reply' = [reply EXCEPT ![r] = [pc |-> "adding", todo |-> todo \ {Min(todo)}, doing |-> Min(todo)]]
        /\ rows' = rs /\ excused' = excused \cup Again(Min(todo), rs)
        /\ UNCHANGED <<sch, loop>>
ReplyArrives(r) ==
    /\ reply[r] = NoReply
    /\ Backfill(r, rows, {c \in Having(rows, "confirmed") : ~rows[c].mem})
    /\ UNCHANGED <<prints, manual, learned, active, page, round, count>>
BackfillStored(r) ==
    /\ reply[r].pc = "adding"
    /\ rows' = Stored(rows, reply[r].doing)
    /\ reply' = [reply EXCEPT ![r].pc = "stored"]
    /\ UNCHANGED <<prints, manual, learned, active, page, round, sch, loop, count, excused>>
\* The engine is not there, or fails: the next one is tried.
BackfillFails(r) ==
    /\ reply[r].pc = "adding" /\ Mishap
    /\ Backfill(r, rows, reply[r].todo)
    /\ UNCHANGED <<prints, manual, learned, active, page, round>>
BackfillMark(r) ==
    /\ reply[r].pc = "stored"
    /\ Backfill(r, [rows EXCEPT ![reply[r].doing].mem = TRUE], reply[r].todo)
    /\ UNCHANGED <<prints, manual, learned, active, page, round, count>>
\* The UPDATE fails: the rest is left to a later reply.
BackfillMarkFails(r) ==
    /\ reply[r].pc = "stored" /\ Mishap
    /\ reply' = [reply EXCEPT ![r] = NoReply]
    /\ Scanned(rows)
    /\ excused' = excused \cup {reply[r].doing}
    /\ UNCHANGED <<prints, manual, learned, active, page, round>>
ReplyStep(r) ==
    BackfillStored(r) \/ BackfillFails(r) \/ BackfillMark(r) \/ BackfillMarkFails(r)

-----------------------------------------------------------------------------
(* A round.                                                                *)
roundsame == <<prints, manual, active, reply, page, loop>>
Trigger ==
    /\ loop /\ round.pc = "off" /\ MayTrigger
    /\ round' = [NoRound EXCEPT !.pc = "begin"]
    /\ UNCHANGED <<gatevars, reply, page, sch, loop, count, excused>>
Foremost(S, n) == {c \in S : Cardinality({x \in S : rows[x].score > rows[c].score
                                       \/ (rows[x].score = rows[c].score /\ x < c)}) < n}
Begin ==
    /\ round.pc = "begin"
    /\ sch' = [sch EXCEPT !.armed = FALSE]
    /\ round' = IF Candidates = {} THEN NoRound
                ELSE [pc |-> "llm", open |-> Foremost(Candidates, MaxRound), doing |-> 0]
    /\ UNCHANGED <<roundsame, rows, learned, count, excused>>
\* No answer: again after a while, or after the fuse's time.
RoundLlmFails ==
    /\ round.pc = "llm"
    /\ LET n == Min({sch.failures + 1, FuseFailures})
       IN sch' = IF n >= FuseFailures
                 THEN [sch EXCEPT !.failures = n, !.fuse = FuseCooldown, !.armed = FALSE]
                 ELSE [sch EXCEPT !.failures = n, !.armed = TRUE, !.since = Idle, !.retry = RetryDelay]
    /\ round' = NoRound
    /\ UNCHANGED <<roundsame, rows, learned, count, excused>>

Learn(c, rs) == learned' = IF rs[c].text \in Liable THEN Min({learned + 1, 2}) ELSE learned
\* Nothing left, nobody there, or a chat going on.
RoundEnds(rs) ==
    /\ rows' = rs /\ round' = NoRound /\ UNCHANGED <<learned, excused>>
    /\ LET done == [sch EXCEPT !.failures = 0, !.retry = 0]
       IN sch' = IF Having(rs, "candidate") = {} THEN [done EXCEPT !.armed = FALSE]
                 ELSE [done EXCEPT !.armed = TRUE, !.since = IF sch.quiet >= Quiet THEN Idle ELSE 0]
\* The verdicts of the answer, for what still is a candidate, up to the next
\* that is a confirmation.
RoundJudges(rs) ==
    LET open == round.open \cap Having(rs, "candidate") IN
    \E D \in SUBSET open : \E f \in [D -> {"pending", "closed"}] :
        LET judged == [c \in DOMAIN rs |-> IF c \in D THEN [rs[c] EXCEPT !.status = f[c]] ELSE rs[c]]
        IN \/ RoundEnds(judged)
           \/ \E c \in open \ D :
               /\ rows' = [judged EXCEPT ![c].status = "confirmed"]
               /\ Learn(c, rs)
               /\ round' = [pc |-> "adding", open |-> open \ (D \cup {c}), doing |-> c]
               /\ excused' = excused \cup Again(c, rs)
               /\ UNCHANGED sch
RoundAnswer == round.pc = "llm" /\ RoundJudges(rows) /\ UNCHANGED <<roundsame, count>>
RoundStored ==
    /\ round.pc = "adding"
    /\ rows' = Stored(rows, round.doing)
    /\ round' = [round EXCEPT !.pc = "stored"]
    /\ UNCHANGED <<roundsame, learned, sch, count, excused>>
RoundAddFails == round.pc = "adding" /\ Mishap /\ RoundJudges(rows) /\ UNCHANGED roundsame
\* Mutant: the id is not written, as before the repair the comment tells of.
RoundMark_Forgets == round.pc = "stored" /\ RoundJudges(rows) /\ UNCHANGED <<roundsame, count>>
RoundMark ==
    /\ round.pc = "stored"
    /\ RoundJudges([rows EXCEPT ![round.doing].mem = TRUE])
    /\ UNCHANGED <<roundsame, count>>
\* The watchdog, or an error of the database: the verdicts made remain, and
\* the timer stays off until the next message.
RoundBreaks ==
    /\ Busy /\ Mishap
    /\ excused' = IF round.pc = "stored" THEN excused \cup {round.doing} ELSE excused
    /\ round' = NoRound
    /\ UNCHANGED <<roundsame, rows, learned, sch>>
RoundStep == Begin \/ RoundLlmFails \/ RoundAnswer \/ RoundStored \/ RoundAddFails \/ RoundMark \/ RoundBreaks

-----------------------------------------------------------------------------
(* The page, the agent's tool, and the end of the process.                 *)
pagesame == <<prints, manual, active, reply, round, sch, loop>>
PageVerdict(c, status) ==
    /\ page = 0 /\ c \in Candidates /\ Used("page", MaxPage)
    /\ rows' = [rows EXCEPT ![c].status = status]
    /\ IF status = "confirmed"
       THEN page' = c /\ Learn(c, rows) /\ excused' = excused \cup Again(c, rows)
       ELSE UNCHANGED <<page, learned, excused>>
    /\ UNCHANGED pagesame
\* The page does not write the id to the row.
PageStored ==
    /\ page # 0
    /\ rows' = Stored(rows, page) /\ excused' = excused \cup {page} /\ page' = 0
    /\ UNCHANGED <<pagesame, learned, count>>
PageFails ==
    /\ page # 0 /\ Mishap
    /\ page' = 0
    /\ UNCHANGED <<pagesame, rows, learned, excused>>
Restore(c) ==
    /\ c \in Having(rows, "pending") /\ Used("page", MaxPage)
    /\ rows' = [rows EXCEPT ![c].status = "candidate"]
    /\ UNCHANGED <<pagesame, page, learned, excused>>
\* The memory is there, its print may not be.
Memorize(t) ==
    /\ Used("page", MaxPage)
    /\ manual' = manual \cup {t}
    /\ prints' = prints \cup {t} \/ UNCHANGED prints
    /\ UNCHANGED <<rows, learned, active, workvars, sch, loop, excused>>
Revoke(t) ==
    /\ t \in prints
    /\ prints' = prints \ {t}
    /\ UNCHANGED <<rows, manual, learned, active, workvars, sch, loop, count, excused>>
Midnight ==
    /\ manual # {} /\ manual' = {}
    /\ UNCHANGED <<rows, prints, learned, active, workvars, sch, loop, count, excused>>
Crash ==
    /\ Used("crashes", MaxCrashes)
    /\ reply' = [r \in Replies |-> NoReply] /\ page' = 0 /\ round' = NoRound
    /\ sch' = Fresh /\ loop' = FALSE /\ active' = (learned >= 2)
    /\ excused' = excused \cup {c \in DOMAIN rows : \/ round.pc = "stored" /\ round.doing = c
                                                  \/ \E r \in Replies : reply[r].pc = "stored" /\ reply[r].doing = c}
    /\ UNCHANGED <<rows, prints, manual, learned>>

Next ==
    \/ Tick \/ Trigger \/ RoundStep
    \/ \E r \in Replies : ReplyArrives(r) \/ ReplyStep(r)
    \/ \E c \in DOMAIN rows : Restore(c)
          \/ \E s \in {"confirmed", "pending", "closed"} : PageVerdict(c, s)
    \/ PageStored \/ PageFails
    \/ \E t \in Texts : Memorize(t) \/ Revoke(t)
    \/ Midnight \/ Crash

\* Time passes, and the loop looks every minute.
Spec == Init /\ [][Next]_vars /\ WF_vars(Tick) /\ WF_vars(Trigger \/ Begin)

-----------------------------------------------------------------------------
TypeOK ==
    /\ Len(rows) <= MaxRows /\ prints \subseteq Texts /\ manual \subseteq Texts
    /\ sch.since \in 0 .. Idle + Defer /\ sch.failures \in 0 .. FuseFailures
    /\ round.doing \in 0 .. Len(rows) /\ round.open \subseteq DOMAIN rows
    /\ Cardinality(round.open) <= MaxRound

(* A candidate becomes a memory once: the backfill of a reply and the      *)
(* round leave the id behind for each other.  Twice only if two of them    *)
(* were at it at a time or with an old list, if the writing of the id      *)
(* failed or never came, or if the page confirmed it.                      *)
StoredAgainExplained == \A c \in DOMAIN rows : rows[c].stored > 1 => c \in excused

(* A candidate becomes a memory twice only for a reason                    *)
(* (StoredAgainExplained), and no variable leaves its type.                *)
RowsSound == TypeOK /\ StoredAgainExplained

(* A chat puts a round off but never for ever: when the timer is set and a *)
(* candidate waits, a round begins, whatever is said meanwhile.            *)
RoundComes == loop /\ sch.armed /\ Candidates # {} ~> Busy \/ Candidates = {} \/ ~loop \/ ~sch.armed

(* "Idempotent: a candidate that was stored has its memory_id, the next    *)
(* scan skips it" (main.py:853).  TLC refutes it, see StoredAgainExplained.*)
StoredOnce == \A c \in DOMAIN rows : rows[c].stored <= 1
=============================================================================
