------------------------------- MODULE Emotions -------------------------------
(***************************************************************************)
(* The feelings beside the memories: each message of a user is appraised   *)
(* in a task of its own (core/event_handler.py,                            *)
(* core/v2/appraisal_engine.py), the appraisal moves the emotional state   *)
(* (core/v2/emotion_core.py), and the last one is put as a tag on the      *)
(* atoms of the next memory stored (core/managers/memory_engine.py), for   *)
(* which a storage task waits twelve seconds (memory_reflection.py).       *)
(*                                                                         *)
(* Whoever writes, and in whatever chat, appraisals are kept for one       *)
(* persona, "default".  Of the emotional state the trust is modelled, in   *)
(* hundredths: it alone is kept by evidence and does not fade.  /lmem      *)
(* summarize stores without waiting and is left out.                       *)
(***************************************************************************)
EXTENDS Integers, Sequences, FiniteSetsExt

CONSTANTS
    Messages,                  \* those of all chats
    Shown,                     \* kinds of evidence found in them
    EmoFaults, EmoRestarts     \* bounds

VARIABLES
    eval,      \* eval[m]: the task that appraises m
    cooling,   \* an appraisal began less than 20 seconds ago
    recent,    \* _last_appraisal, while younger than 600 seconds
    store,     \* store[m]: the storage task the answer to m began
    tag,       \* tag[m]: the message of the appraisal on its memory
    trust,     \* [here, kept, sweet]: in the cache, the row, _sweet_session
    connected, \* EmotionCore has its connection
    spent,     \* of each bound
    finished,  \* history: messages in the order their records were made
    late,      \* history: storage tasks that waited in vain
    settled    \* history: what the evidence makes the trust

emovars == <<eval, cooling, recent, store, tag, trust, connected, spent,
             finished, late, settled>>

Baseline == 82
Floor == 15
Ceil == 98
SweetCap == 3
Evidence == {"kept_promise", "plan_kept", "honest_admission", "sweet_words",
             "broken_promise", "lie_detected", "boundary_violation"}
RuleEvidence == {"kept_promise", "sweet_words"}   \* what a keyword can show
\* TRUST_EVIDENCE
Weight(evidence) ==
    CASE evidence = "kept_promise" -> 5 [] evidence = "plan_kept" -> 4
      [] evidence = "honest_admission" -> 2 [] evidence = "sweet_words" -> 1
      [] evidence = "broken_promise" -> -8 [] evidence = "lie_detected" -> -10
      [] evidence = "boundary_violation" -> -12

None == "none"
ASSUME EmotionsAssumption ==
    {EmoFaults, EmoRestarts} \subseteq Nat /\ Shown \subseteq Evidence /\ None \notin Messages

Unknown == -1    \* not loaded; no row
NoRecord == [of |-> None, labelled |-> FALSE]

EmoFault == spent.faults < EmoFaults /\ spent' = [spent EXCEPT !.faults = @ + 1]
EmoSound == UNCHANGED spent

\* The row may be near either end of the scale, left by an earlier process
\* or by this one, which may have had sweet words before.
EmoInit ==
    /\ eval = [m \in Messages |-> "none"] /\ cooling = FALSE /\ recent = NoRecord
    /\ store = [m \in Messages |-> "none"] /\ tag = [m \in Messages |-> None]
    /\ \E row \in {Unknown, 16, 97}, sweet \in {0, SweetCap - 1} :
          /\ trust = [here |-> IF sweet > 0 THEN row ELSE Unknown, kept |-> row, sweet |-> sweet]
          /\ sweet > 0 => row # Unknown
          /\ settled = IF row = Unknown THEN Baseline ELSE row
    /\ connected = TRUE /\ spent = [faults |-> 0, restarts |-> 0]
    /\ finished = <<>> /\ late = {}

-----------------------------------------------------------------------------
(* The hook of a request.                                                  *)
\* _load: from the cache, the row, or the baseline, also if the row cannot
\* be read.
FromRow(t) == IF t.kept = Unknown \/ ~connected THEN Baseline ELSE t.kept
Load ==
    \/ trust.here # Unknown /\ UNCHANGED trust /\ EmoSound
    \/ trust.here = Unknown /\ trust' = [trust EXCEPT !.here = FromRow(trust)] /\ EmoSound
    \/ trust.here = Unknown /\ trust' = [trust EXCEPT !.here = Baseline] /\ EmoFault

\* A text too short, or too soon after another, is not appraised; the card
\* of the mood loads the state in any case.
Hear(m) ==
    /\ eval[m] = "none" /\ Load
    /\ \/ eval' = [eval EXCEPT ![m] = "skipped"] /\ UNCHANGED cooling
       \/ ~cooling /\ eval' = [eval EXCEPT ![m] = "running"] /\ cooling' = TRUE
    /\ UNCHANGED <<recent, store, tag, connected, finished, late, settled>>

-----------------------------------------------------------------------------
(* The end of an appraisal.                                                *)
Clamped(v) == Max({Floor, Min({Ceil, v})})
\* Sweet words count up to a cap, per process.
Delta(t, evidence) ==
    IF evidence = "sweet_words" THEN Min({Weight(evidence), SweetCap - t.sweet})
    ELSE Weight(evidence)
Settle(t, evidence) ==
    LET d == Delta(t, evidence)
    IN [t EXCEPT !.here = IF d = 0 THEN @ ELSE Clamped(@ + d),
                 !.sweet = IF evidence = "sweet_words" THEN @ + d ELSE @]
Saved(t) == IF connected THEN [t EXCEPT !.kept = t.here] ELSE t

\* on_appraisal moves the state and saves it, also without evidence.
Appraise(m, evidence) ==
    LET t == IF evidence = None THEN trust ELSE Settle(trust, evidence)
    IN /\ settled' = IF evidence = None THEN settled
                     ELSE LET d == Delta(trust, evidence)
                          IN IF d = 0 THEN settled ELSE Clamped(settled + d)
       /\ finished' = Append(finished, m)
       /\ \/ trust' = Saved(t) /\ EmoSound
          \/ trust' = t /\ EmoFault      \* logged

\* What the model may answer, at once or, after an error of the network, at
\* the second try; evidence of unknown kinds is dropped, and a label may be
\* missing.  And what the rules make of keywords when it does not answer, or
\* with no object: their records have no label (its key is another).
FromModel == [evidence : Shown \cup {None}, labelled : BOOLEAN]
FromRules == [evidence : (Shown \cap RuleEvidence) \cup {None}, labelled : {FALSE}]
\* An answer with something else in the place of a number ends all in an
\* exception: nothing is recorded.
AppraisalEnds(m) ==
    /\ eval[m] = "running"
    /\ \/ \E a \in FromModel \cup FromRules :
             /\ Appraise(m, a.evidence)
             /\ recent' = [of |-> m, labelled |-> a.labelled]
             /\ eval' = [eval EXCEPT ![m] = "recorded"]
       \/ /\ eval' = [eval EXCEPT ![m] = "failed"]
          /\ EmoSound /\ UNCHANGED <<recent, trust, finished, settled>>
    /\ UNCHANGED <<cooling, store, tag, connected, late>>

-----------------------------------------------------------------------------
(* The storage task of an answer.                                          *)
StoreTo(m, from, to) == store[m] = from /\ store' = [store EXCEPT ![m] = to]

Answer(m) ==
    /\ eval[m] # "none" /\ StoreTo(m, "none", "summarising")
    /\ UNCHANGED <<eval, cooling, recent, tag, trust, connected, spent, finished, late, settled>>
\* The summary is there; if it fails the window is noted for a retry.
Summarised(m) ==
    /\ \/ StoreTo(m, "summarising", "waiting") \/ StoreTo(m, "summarising", "ended")
    /\ UNCHANGED <<eval, cooling, recent, tag, trust, connected, spent, finished, late, settled>>
\* await_appraisal_task: until the appraisal of the message is over ...
\* Mutant: the task is not awaited.
Appraised_NotAsked(m) == TRUE
Appraised(m) == eval[m] # "running"
Awaited(m) ==
    /\ Appraised(m) /\ StoreTo(m, "waiting", "adding")
    /\ UNCHANGED <<eval, cooling, recent, tag, trust, connected, spent, finished, late, settled>>
\* ... or twelve seconds; the task, which is shielded, goes on.
TimesOut(m) ==
    /\ eval[m] = "running" /\ StoreTo(m, "waiting", "adding")
    /\ late' = late \cup {m}
    /\ UNCHANGED <<eval, cooling, recent, tag, trust, connected, spent, finished, settled>>

\* _apply_emotion_tag, once the document is stored: whatever record is the
\* last one, for atoms of the persona "default".
Tagged(default) == IF default /\ recent.labelled THEN recent.of ELSE None
AddMemory(m) ==
    /\ StoreTo(m, "adding", "ended")
    /\ \E default \in BOOLEAN : tag' = [tag EXCEPT ![m] = Tagged(default)]
    /\ UNCHANGED <<eval, cooling, recent, trust, connected, spent, finished, late, settled>>

-----------------------------------------------------------------------------
CoolsDown ==
    /\ cooling /\ cooling' = FALSE
    /\ UNCHANGED <<eval, recent, store, tag, trust, connected, spent, finished, late, settled>>
\* A record older than ten minutes is not read any more.
Expires ==
    /\ recent # NoRecord /\ recent' = NoRecord
    /\ UNCHANGED <<eval, cooling, store, tag, trust, connected, spent, finished, late, settled>>

\* The process ends and another starts, whose connection may fail: its state
\* is then in memory only.
Restart ==
    /\ spent.restarts < EmoRestarts
    /\ \E ok \in BOOLEAN :
          /\ connected' = ok
          /\ ok \/ spent.faults < EmoFaults
          /\ spent' = [faults |-> spent.faults + (IF ok THEN 0 ELSE 1),
                       restarts |-> spent.restarts + 1]
    /\ eval' = [m \in Messages |-> IF eval[m] = "running" THEN "failed" ELSE eval[m]]
    /\ store' = [m \in Messages |-> IF store[m] = "none" THEN "none" ELSE "ended"]
    /\ cooling' = FALSE /\ recent' = NoRecord
    /\ trust' = [trust EXCEPT !.here = Unknown, !.sweet = 0]
    /\ UNCHANGED <<tag, finished, late, settled>>

EmoStep(m) ==
    \/ Hear(m) \/ AppraisalEnds(m) \/ Answer(m) \/ Summarised(m)
    \/ Awaited(m) \/ TimesOut(m) \/ AddMemory(m)
EmoNext == (\E m \in Messages : EmoStep(m)) \/ CoolsDown \/ Expires \/ Restart
EmoSpec == EmoInit /\ [][EmoNext]_emovars

-----------------------------------------------------------------------------
EmoTypeOK ==
    /\ eval \in [Messages -> {"none", "skipped", "running", "failed", "recorded"}]
    /\ store \in [Messages -> {"none", "summarising", "waiting", "adding", "ended"}]
    /\ tag \in [Messages -> Messages \cup {None}]
    /\ {cooling, connected} \subseteq BOOLEAN
    /\ recent \in [of : Messages, labelled : BOOLEAN] \cup {NoRecord}
    /\ {trust.here, trust.kept} \subseteq Floor .. Ceil \cup {Unknown}
    /\ trust.sweet \in 0 .. SweetCap

(* A memory carries the appraisal of another message only for a reason:    *)
(* its own message was not appraised or the appraisal left no record, the  *)
(* wait for it was in vain, or the other appraisal ended after it (the     *)
(* tag of a confession is not to land on the memory of the bug fixed next).*)
After(n, m) ==
    \E i, j \in DOMAIN finished : i < j /\ finished[i] = m /\ finished[j] = n
TagExplained ==
    \A m \in Messages :
        LET n == tag[m]
        IN n \in Messages \ {m} =>
              eval[m] \in {"skipped", "failed"} \/ m \in late \/ After(n, m)

(* The trust is what the evidence of all processes made it, sweet words    *)
(* counted up to the cap of each process, unless the database failed: it   *)
(* fades in no restart and is not settled twice.                           *)
TrustKept ==
    spent.faults = 0 =>
        settled = (IF trust.here = Unknown THEN FromRow(trust) ELSE trust.here)

(* Both, and no variable leaves its type.                                  *)
EmotionsSound == EmoTypeOK /\ TrustKept /\ TagExplained

(* The docstring of await_appraisal_task promises more, which TLC refutes: *)
(* a memory has the tag of its own message, or none.                       *)
TagFitsMessage == \A m \in Messages : tag[m] \in {None, m}
=============================================================================
