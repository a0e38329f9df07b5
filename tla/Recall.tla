------------------------------- MODULE Recall -------------------------------
(***************************************************************************)
(* The hook on_llm_request (core/event_handler_modules/memory_recall.py):  *)
(* what a request of a chat takes with it before it goes to the model, the *)
(* warm-up of a session that rested, and the memories found for it.  What  *)
(* the search finds is in Retrieval; here it finds something, nothing, or  *)
(* fails.                                                                  *)
(*                                                                         *)
(* One session.  A hook is the coroutine of one request; two requests may  *)
(* overlap.  AstrBot's history keeps the pretended tool calls a request    *)
(* ended with (and blocks put into the user's text, which nobody removes), *)
(* not the temporary parts.  The metadata of the session is one JSON       *)
(* object, which the warm-up writes, and the storage task of a reflection  *)
(* (memory_reflection.py).                                                 *)
(***************************************************************************)
EXTENDS Integers, FiniteSetsExt

CONSTANTS
    Hooks,            \* requests at once
    Methods,          \* injection methods that may be configured
    WarmFor,          \* 6 hours, in ticks
    MaxRequests, MaxFaults, MaxIndex   \* bounds

ASSUME RecallAssumption ==
    /\ Methods \subseteq {"part", "call", "text"}
    /\ {WarmFor, MaxRequests, MaxFaults, MaxIndex} \subseteq Nat

VARIABLES
    session,   \* the row in sessions; the keys of its metadata
    history,   \* pretended calls in AstrBot's history
    hook,      \* hook[h]: a request between two awaits
    task,      \* a storage task about to write last_summarized_index
    used,      \* of each bound
    warmth     \* history: age of the last warm-up, whether a new one is excused

recallvars == <<session, history, hook, task, used, warmth>>

Never == WarmFor + 1
NoHook == [pc |-> "none", calls |-> 0, parts |-> 0, own |-> 0, warm |-> FALSE,
           age |-> 0, meta |-> <<>>]
NoTask == [pc |-> "none", meta |-> <<>>, index |-> 0]

Use(b, max) == used[b] < max /\ used' = [used EXCEPT ![b] = @ + 1]
Fault == Use("faults", MaxFaults)
Now(h, pc) == hook[h].pc = pc

RecallInit ==
    /\ session = [exists |-> FALSE, meta |-> [warmed |-> Never, index |-> 0]]
    /\ history = 0
    /\ hook = [h \in Hooks |-> NoHook] /\ task = NoTask
    /\ used = [requests |-> 0, faults |-> 0]
    /\ warmth = [age |-> Never, excused |-> FALSE, again |-> FALSE]

-----------------------------------------------------------------------------
(* The request arrives with a copy of the history.  The summary of the     *)
(* last session never gets in: reading it raises, and nothing is injected. *)
Arrive(h) ==
    /\ Now(h, "none") /\ Use("requests", MaxRequests)
    /\ hook' = [hook EXCEPT ![h] = [NoHook EXCEPT !.pc = "warm", !.calls = history]]
    /\ UNCHANGED <<session, history, task, warmth>>

-----------------------------------------------------------------------------
(* _prefetch_warmup: hot memories and the profile, once in six hours.      *)
Cooling == session.exists /\ session.meta.warmed <= WarmFor
Overlap(h) == \E g \in Hooks \ {h} : hook[g].pc \in {"stamp", "stamping"}
Warmed(h, misread) ==
    /\ hook' = [hook EXCEPT ![h].pc = "stamp", ![h].warm = TRUE]
    /\ warmth' = [warmth EXCEPT !.age = 0, !.again = @ \/
                     (warmth.age <= WarmFor /\ ~warmth.excused /\ ~Overlap(h) /\ ~misread)]
WarmUp(h) ==
    /\ Now(h, "warm")
    /\ \/ \* cooling, or neither a hot memory nor a trait
          /\ hook' = [hook EXCEPT ![h].pc = "body"] /\ UNCHANGED <<warmth, used>>
       \/ ~Cooling /\ Warmed(h, FALSE) /\ UNCHANGED used
       \/ Cooling /\ Fault /\ Warmed(h, TRUE)   \* metadata not readable: 0
    /\ UNCHANGED <<session, history, task>>

\* update_session_metadata: read the whole object ...
StampRead(h) ==
    /\ Now(h, "stamp")
    /\ IF session.exists
       THEN /\ hook' = [hook EXCEPT ![h].pc = "stamping", ![h].meta = session.meta]
            /\ UNCHANGED warmth
       ELSE /\ hook' = [hook EXCEPT ![h].pc = "body", ![h].age = 0]
            /\ warmth' = [warmth EXCEPT !.excused = TRUE]
    /\ UNCHANGED <<session, history, task, used>>
Updated(meta, key, value) == [meta EXCEPT ![key] = value]
\* ... and write it back, whatever is in the row by now.
StampWrite(h) ==
    /\ Now(h, "stamping")
    /\ hook' = [hook EXCEPT ![h].pc = "body", ![h].age = 0, ![h].meta = <<>>]
    /\ \/ /\ session' = [session EXCEPT !.meta = Updated(hook[h].meta, "warmed", hook[h].age)]
          /\ warmth' = [warmth EXCEPT !.excused = hook[h].age > warmth.age]
          /\ UNCHANGED used
       \/ /\ Fault   \* logged
          /\ warmth' = [warmth EXCEPT !.excused = TRUE] /\ UNCHANGED session
    /\ UNCHANGED <<history, task>>

\* The storage task of an earlier message does the same with its index.
TaskRead ==
    /\ task = NoTask /\ session.exists /\ session.meta.index < MaxIndex
    /\ task' = [pc |-> "writing", meta |-> session.meta, index |-> session.meta.index + 1]
    /\ UNCHANGED <<session, history, hook, used, warmth>>
TaskWrite ==
    /\ task.pc = "writing" /\ task' = NoTask
    /\ session' = [session EXCEPT !.meta = Updated(task.meta, "index", task.index)]
    /\ warmth' = [warmth EXCEPT !.excused = @ \/ task.meta.warmed > session.meta.warmed]
    /\ UNCHANGED <<history, hook, used>>

-----------------------------------------------------------------------------
(* The request itself.                                                     *)
\* What earlier requests left in it goes: temporary parts and the pairs of
\* pretended calls and their results.  Blocks in the user's texts stay.
\* Mutant: the pretended calls stay, too.
Cleaned_KeepsCalls(r) == [r EXCEPT !.parts = 0, !.warm = FALSE]
Cleaned(r) == [r EXCEPT !.calls = 0, !.parts = 0, !.warm = FALSE]
\* Without a prompt and without parts (a warm-up is one) nothing is done.
Clean(h) ==
    /\ Now(h, "body")
    /\ \/ ~hook[h].warm /\ hook' = [hook EXCEPT ![h].pc = "sending"]
       \/ hook' = [hook EXCEPT ![h] = Cleaned([@ EXCEPT !.pc = "storing"])]
    /\ UNCHANGED <<session, history, task, used, warmth>>

\* A private message is stored, which makes the session; the atoms found in
\* it cannot fail the hook.  Then the search, if it is wanted and there is a
\* text.
StoreMessage(h) ==
    /\ Now(h, "storing")
    /\ \/ /\ UNCHANGED used
          /\ \E private \in BOOLEAN : session' = [session EXCEPT !.exists = @ \/ private]
          /\ \/ hook' = [hook EXCEPT ![h].pc = "sending"]
             \/ hook' = [hook EXCEPT ![h].pc = "searching"]
       \/ Fault /\ hook' = [hook EXCEPT ![h].pc = "sending"] /\ UNCHANGED session
    /\ UNCHANGED <<history, task, warmth>>

-----------------------------------------------------------------------------
(* What was found is cut to the budget, which may leave nothing, and goes  *)
(* in by the configured method, or as a part if the provider cannot take   *)
(* calls.  A search that fails fails the hook, which is noted in the trace.*)
\* A provider that cannot take calls gets a part.
Resolved(how, capable) == IF how = "call" /\ ~capable THEN "part" ELSE how
AsCall(r) == [r EXCEPT !.calls = @ + 1]   \* call and result, kept by AstrBot
AsPart(r) == [r EXCEPT !.parts = @ + 1]
AsText(r) == [r EXCEPT !.own = 1]
Injected(r, how) ==
    CASE how = "call" -> AsCall(r)
      [] how = "text" -> AsText(r)
      [] OTHER -> AsPart(r)
Inject(h) ==
    /\ Now(h, "searching")
    /\ LET r == [hook[h] EXCEPT !.pc = "sending"]
       IN \/ hook' = [hook EXCEPT ![h] = r]
          \/ \E how \in Methods, capable \in BOOLEAN :
                hook' = [hook EXCEPT ![h] = Injected(r, Resolved(how, capable))]
    /\ UNCHANGED <<session, history, task, used, warmth>>

\* AstrBot sends the request and keeps it as its history.
Send(h) ==
    /\ Now(h, "sending")
    /\ history' = hook[h].calls
    /\ hook' = [hook EXCEPT ![h] = NoHook]
    /\ UNCHANGED <<session, task, used, warmth>>

Later(age) == Min({age + 1, Never})
Aged(meta) == IF meta = <<>> THEN meta ELSE [meta EXCEPT !.warmed = Later(@)]
TimePasses ==
    /\ session' = [session EXCEPT !.meta = Aged(@)]
    /\ hook' = [h \in Hooks |-> IF hook[h].pc \in {"stamp", "stamping"}
                  THEN [hook[h] EXCEPT !.age = Later(@), !.meta = Aged(@)] ELSE hook[h]]
    /\ task' = [task EXCEPT !.meta = Aged(@)]
    /\ warmth' = [warmth EXCEPT !.age = Later(@)]
    /\ UNCHANGED <<history, used>>

HookStep(h) ==
    \/ Arrive(h) \/ WarmUp(h) \/ StampRead(h) \/ StampWrite(h)
    \/ Clean(h) \/ StoreMessage(h) \/ Inject(h) \/ Send(h)
RecallNext == (\E h \in Hooks : HookStep(h)) \/ TaskRead \/ TaskWrite \/ TimePasses

-----------------------------------------------------------------------------
(* A request carries the memories once, apart from the blocks in texts of  *)
(* the user: neither pretended calls of earlier requests nor of one that   *)
(* overlapped are sent along with new ones.                                *)
OneInjection ==
    \A h \in Hooks : Now(h, "sending") => hook[h].calls + hook[h].parts + hook[h].own <= 1

(* A second warm-up within six hours has a reason: the requests overlapped,*)
(* the session did not exist when the first was to be noted, the note was  *)
(* not written or not readable, or a storage task wrote an older object    *)
(* over it.                                                                *)
WarmAgainExplained == ~warmth.again

(* A request carries the memories once, and a session is warmed again only *)
(* for a reason (OneInjection, WarmAgainExplained).                        *)
RequestsSound == OneInjection /\ WarmAgainExplained

(* What has been summarised stays so: the index in the metadata does not   *)
(* go back (memory_reflection.py: the index is advanced so that no message *)
(* is summarised again).                                                   *)
IndexNeverBack == [][session'.meta.index >= session.meta.index]_recallvars
=============================================================================
