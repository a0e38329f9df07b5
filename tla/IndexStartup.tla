---------------------------- MODULE IndexStartup ----------------------------
(***************************************************************************)
(* What a start does to the stores: DBMigration brings the database from   *)
(* its version to the current one, MemoryEngine.initialize sees to the     *)
(* version table, and IndexValidator compares the documents with the text  *)
(* index and the vectors and rebuilds or repairs them, batch by batch.     *)
(* The same rebuild runs on command while memories are added and deleted.  *)
(*                                                                         *)
(* A document is its id.  A rebuild never deletes one; what it may lose is *)
(* their entries in the indexes.  Back-ups and waits between the batches   *)
(* change no state here.                                                   *)
(***************************************************************************)
EXTENDS Integers, FiniteSets, FiniteSetsExt

CONSTANTS
    Rebuilders, AtStart,  \* coroutines that rebuild; the one of the start
    Batch,        \* documents of a batch
    Percent,      \* max_failure_ratio
    Current,      \* CURRENT_VERSION
    FlagStep,     \* the step that asks for a rebuild of the indexes
    FtsStep,      \* the step that moves the old text index
    Old,          \* documents a start may find
    MaxDocs, MaxOps, MaxFaults, MaxCrashes   \* bounds

ASSUME StartAssumption ==
    /\ AtStart \in Rebuilders /\ Batch \in Nat \ {0}
    /\ Current \in Nat \ {0} /\ FtsStep \in 1 .. Current
    /\ MaxDocs \in Nat /\ Old \in 0 .. MaxDocs

VARIABLES
    docs, next,   \* documents, and the next id
    fts,          \* rows of a document in the text index; two stand for more
    oldfts,       \* documents in the text index of before FtsStep
    vec,          \* ids in the vector index
    row,          \* newest row of db_version, 0: none
    done,         \* steps whose effect is in the database
    flag,         \* needs_index_rebuild of migration_status
    phase,        \* where the process is
    step,         \* the next migration step
    reb,          \* reb[r]: the rebuild of coroutine r
    adding, deleting,   \* memories on their way in and out
    ops, faults, crashes,   \* counted against the bounds
    stamped,      \* history: the current version was written over open steps
    lost          \* history: entries missing for a reason, in this process

docvars == <<docs, next>>
dbvars == <<oldfts, row, done>>
writers == <<adding, deleting>>
counters == <<ops, faults, crashes>>
vars == <<docvars, fts, dbvars, vec, flag, phase, step, reb, writers, counters, stamped, lost>>

Ids == 1 .. MaxDocs
Steps == 1 .. Current - 1
NoRebuild == [pc |-> "none", total |-> 0, last |-> 0, batch |-> {}, failed |-> {},
              open |-> {}, need |-> 0, temp |-> {}]
Fault == faults < MaxFaults /\ faults' = faults + 1
MayFail(ok, failed) == (ok /\ UNCHANGED faults) \/ (failed /\ Fault)
First(S, n) == {d \in S : Cardinality({x \in S : x < d}) < n}
More(n) == IF n >= 2 THEN 2 ELSE n + 1
Entries(S, index) == S \X {index}
Exceeded(failures, total) == total > 0 /\ 100 * failures > Percent * total

\* A new database, one of before the version table, one of an older version
\* and a current one.  Vectors may be missing.
Init ==
    /\ \E d \in {{}, 1 .. Old}, v \in {0, FtsStep, Current} :
        /\ docs = d /\ next = Cardinality(d) + 1 /\ row = v
        /\ done = IF d = {} /\ v = 0 THEN Steps ELSE {k \in Steps : k < v}
        /\ oldfts = IF FtsStep \in done THEN {} ELSE d
        /\ fts = [i \in Ids |-> IF i \in d \ oldfts THEN 1 ELSE 0]
        /\ vec \in SUBSET d
    /\ flag = FALSE /\ phase = "off" /\ step = 0
    /\ reb = [r \in Rebuilders |-> NoRebuild]
    /\ adding = [pc |-> "none", doc |-> 0] /\ deleting = adding
    /\ ops = 0 /\ faults = 0 /\ crashes = 0
    /\ stamped = FALSE /\ lost = {}

-----------------------------------------------------------------------------
(* The migration.                                                          *)
\* get_db_version: without a row, data mean version 1; an error means 1.
Version == IF row # 0 THEN row ELSE IF docs # {} THEN 1 ELSE Current
Boot ==
    /\ phase = "off"
    /\ \E v \in {Version, 1} :
        /\ IF v = Version THEN UNCHANGED faults ELSE Fault
        /\ step' = v
        /\ phase' = IF v >= Current THEN "engine" ELSE "migrate"
    /\ UNCHANGED <<docvars, fts, dbvars, vec, flag, reb, writers, ops, crashes, stamped, lost>>

\* v1 to v2: with data there is something to rebuild.
MarkRebuild == flag' = (flag \/ docs # {})
\* v5 to v6: the rows of the old table replace those of the new one, the
\* rows of memories added meanwhile, too.
MoveFts ==
    IF oldfts = {} THEN UNCHANGED <<fts, oldfts>>
    ELSE fts' = [i \in Ids |-> IF i \in oldfts THEN 1 ELSE 0] /\ oldfts' = {}
StepDone ==
    /\ phase = "migrate" /\ step < Current
    /\ done' = done \cup {step} /\ step' = step + 1
    /\ IF step = FlagStep THEN MarkRebuild ELSE UNCHANGED flag
    /\ IF step = FtsStep THEN MoveFts ELSE UNCHANGED <<fts, oldfts>>
    /\ UNCHANGED <<docvars, row, vec, phase, reb, writers, counters, stamped, lost>>
\* A failure ends the migration; it is logged and the start goes on.
\* Mutant: the next step is made instead.
StepFails_NextOne ==
    /\ phase = "migrate" /\ Fault
    /\ step' = step + 1 /\ phase' = IF step < Current THEN "migrate" ELSE "engine"
    /\ UNCHANGED <<docvars, fts, dbvars, vec, flag, reb, writers, ops, crashes, stamped, lost>>
StepFails ==
    /\ phase = "migrate" /\ Fault
    /\ phase' = "engine" /\ step' = 0
    /\ UNCHANGED <<docvars, fts, dbvars, vec, flag, reb, writers, ops, crashes, stamped, lost>>
SetVersion ==
    /\ phase = "migrate" /\ step = Current
    /\ row' = Current /\ phase' = "engine" /\ step' = 0
    /\ UNCHANGED <<docvars, fts, oldfts, done, vec, flag, reb, writers, counters, stamped, lost>>

\* MemoryEngine.initialize: an empty version table gets the current version.
EngineInit ==
    /\ phase = "engine"
    /\ row' = IF row = 0 THEN Current ELSE row
    /\ stamped' = (stamped \/ (row = 0 /\ done # Steps))
    /\ phase' = "status" /\ step' = 0
    /\ UNCHANGED <<docvars, fts, oldfts, done, vec, flag, reb, writers, counters, lost>>

-----------------------------------------------------------------------------
(* When to rebuild.                                                        *)
Indexed == {d \in Ids : fts[d] > 0}
Inconsistent ==
    docs # {} /\ (docs \ Indexed # {} \/ docs \ vec # {} \/ Cardinality(Indexed) > Cardinality(docs))
Begin(r) == reb' = [reb EXCEPT ![r] = [NoRebuild EXCEPT !.pc = "count"]]
\* _auto_rebuild_index_if_needed: an error of the check means a rebuild, one
\* of the flag's query means no flag.
Check ==
    /\ phase = "status"
    /\ \/ (flag \/ Inconsistent) /\ UNCHANGED faults /\ Begin(AtStart) /\ phase' = "rebuild"
       \/ ~flag /\ ~Inconsistent /\ UNCHANGED <<faults, reb>> /\ phase' = "ready"
       \/ Fault /\ Begin(AtStart) /\ phase' = "rebuild"
    /\ UNCHANGED <<docvars, fts, dbvars, vec, flag, step, writers, ops, crashes, stamped, lost>>
\* /lmem rebuild-index
Command(r) ==
    /\ phase = "ready" /\ reb[r] = NoRebuild /\ ops < MaxOps
    /\ ops' = ops + 1
    /\ Inconsistent /\ Begin(r)
    /\ UNCHANGED <<docvars, fts, dbvars, vec, flag, phase, step, writers, faults, crashes, stamped, lost>>

-----------------------------------------------------------------------------
(* rebuild_indexes.                                                        *)
RAt(r, pc) == reb[r].pc = pc
End(r) ==
    /\ reb' = [reb EXCEPT ![r] = NoRebuild]
    /\ phase' = IF r = AtStart THEN "ready" ELSE phase
Goes(r, new) == reb' = [reb EXCEPT ![r] = new] /\ UNCHANGED phase
rest == <<docvars, dbvars, step, writers, ops, crashes, stamped>>

Count(r) ==
    /\ RAt(r, "count")
    /\ IF docs = {} THEN End(r)
       ELSE Goes(r, [reb[r] EXCEPT !.pc = "clear", !.total = Cardinality(docs)])
    /\ UNCHANGED <<rest, fts, vec, flag, faults, lost>>
\* An error of the DELETE is logged, and the rows stay.
Clear(r) ==
    /\ RAt(r, "clear")
    /\ MayFail(fts' = [i \in Ids |-> 0], UNCHANGED fts)
    /\ Goes(r, [reb[r] EXCEPT !.pc = "read text"])
    /\ UNCHANGED <<rest, vec, flag, lost>>

Beyond(r) == {d \in docs : d > reb[r].last}
NextBatch(r) == First(Beyond(r), Batch)
\* Mutant: the next batch begins with the last document of this one.
ReadText_LastAgain(r) ==
    /\ RAt(r, "read text")
    /\ LET b == NextBatch(r) IN
       IF b = {} THEN Goes(r, [reb[r] EXCEPT !.pc = "compare"])
       ELSE Goes(r, [reb[r] EXCEPT !.pc = "write text", !.batch = b, !.last = Max(b) - 1])
    /\ UNCHANGED <<rest, fts, vec, flag, faults, lost>>
ReadText(r) ==
    /\ RAt(r, "read text")
    /\ LET b == NextBatch(r) IN
       IF b = {} THEN Goes(r, [reb[r] EXCEPT !.pc = "compare"])
       ELSE Goes(r, [reb[r] EXCEPT !.pc = "write text", !.batch = b, !.last = Max(b)])
    /\ UNCHANGED <<rest, fts, vec, flag, faults, lost>>
\* Rows that fail are tried one by one.  Too many failures end the rebuild,
\* vectors included.
WriteText(r) ==
    /\ RAt(r, "write text")
    /\ \E bad \in {{}} \cup {{d} : d \in reb[r].batch} :
        LET failed == reb[r].failed \cup bad
            good == reb[r].batch \ bad
            stop == Exceeded(Cardinality(failed), reb[r].total)
        IN /\ IF bad = {} THEN UNCHANGED faults ELSE Fault
           /\ fts' = [i \in Ids |-> IF i \in good THEN More(fts[i]) ELSE fts[i]]
           /\ lost' = (lost \ Entries(good, "fts")) \cup Entries(bad, "fts")
                      \cup IF stop THEN Entries(Beyond(r), "fts") \cup Entries(docs \ vec, "vec") ELSE {}
           /\ IF stop THEN End(r)
              ELSE Goes(r, [reb[r] EXCEPT !.pc = "read text", !.batch = {}, !.failed = failed])
    /\ UNCHANGED <<rest, vec, flag>>

\* Vectors that are missing are added; only if there are none at all, a new
\* index is built beside the old one.
Compare(r) ==
    /\ RAt(r, "compare")
    /\ LET missing == docs \ vec IN
       Goes(r, [reb[r] EXCEPT !.open = missing, !.last = 0,
                              !.need = IF vec = {} THEN reb[r].total ELSE Cardinality(missing),
                              !.pc = IF missing = {} THEN "accept" ELSE IF vec = {} THEN "read new" ELSE "read missing"])
    /\ UNCHANGED <<rest, fts, vec, flag, faults, lost>>
\* A batch whose documents were all deleted has no first id: the exception
\* ends the rebuild.
ReadMissing(r) ==
    /\ RAt(r, "read missing")
    /\ LET chunk == First(reb[r].open, Batch)
           b == chunk \cap docs
       IN IF chunk = {} THEN Goes(r, [reb[r] EXCEPT !.pc = "accept"]) /\ UNCHANGED lost
          ELSE IF b = {} THEN End(r) /\ lost' = lost \cup Entries(reb[r].open, "vec")
          ELSE /\ Goes(r, [reb[r] EXCEPT !.pc = "write missing", !.batch = b, !.open = @ \ chunk])
               /\ UNCHANGED lost
    /\ UNCHANGED <<rest, fts, vec, flag, faults>>
WriteMissing(r) ==
    /\ RAt(r, "write missing")
    /\ LET b == reb[r].batch
           failed == reb[r].failed \cup b
           stop == Exceeded(Cardinality(failed), reb[r].need)
       IN \/ /\ vec' = vec \cup b /\ lost' = lost \ Entries(b, "vec")
             /\ Goes(r, [reb[r] EXCEPT !.pc = "read missing", !.batch = {}])
             /\ UNCHANGED faults
          \/ /\ Fault /\ UNCHANGED vec
             /\ lost' = lost \cup Entries(b \cup IF stop THEN reb[r].open ELSE {}, "vec")
             /\ Goes(r, [reb[r] EXCEPT !.batch = {}, !.failed = failed,
                                       !.pc = IF stop THEN "accept" ELSE "read missing"])
    /\ UNCHANGED <<rest, fts, flag>>
ReadNew(r) ==
    /\ RAt(r, "read new")
    /\ LET b == NextBatch(r) IN
       IF b = {} THEN Goes(r, [reb[r] EXCEPT !.pc = "switch"])
       ELSE Goes(r, [reb[r] EXCEPT !.pc = "write new", !.batch = b, !.last = Max(b)])
    /\ UNCHANGED <<rest, fts, vec, flag, faults, lost>>
\* Too many failures: the index stays as it is.
WriteNew(r) ==
    /\ RAt(r, "write new")
    /\ LET b == reb[r].batch
           failed == reb[r].failed \cup b
           stop == Exceeded(Cardinality(failed), reb[r].need)
       IN \/ /\ Goes(r, [reb[r] EXCEPT !.pc = "read new", !.batch = {}, !.temp = @ \cup b])
             /\ UNCHANGED <<faults, lost>>
          \/ /\ Fault
             /\ lost' = lost \cup Entries(IF stop THEN docs \ vec ELSE b, "vec")
             /\ Goes(r, [reb[r] EXCEPT !.batch = {}, !.failed = failed,
                                       !.pc = IF stop THEN "accept" ELSE "read new"])
    /\ UNCHANGED <<rest, fts, vec, flag>>
\* The new index replaces the old one, file and object, and with it the
\* vectors of memories added since the last batch was read.
Switch(r) ==
    /\ RAt(r, "switch")
    /\ IF reb[r].temp = {}
       THEN UNCHANGED vec /\ lost' = lost \cup Entries(docs \ vec, "vec")
       ELSE vec' = reb[r].temp /\ lost' = lost \cup Entries(docs \ reb[r].temp, "vec")
    /\ Goes(r, [reb[r] EXCEPT !.pc = "accept"])
    /\ UNCHANGED <<rest, fts, flag, faults>>
Accept(r) ==
    /\ RAt(r, "accept")
    /\ IF Exceeded(Cardinality(reb[r].failed), reb[r].total)
       THEN UNCHANGED <<flag, faults>>
       ELSE MayFail(flag' = FALSE, UNCHANGED flag)
    /\ End(r)
    /\ UNCHANGED <<rest, fts, vec, lost>>
Rebuild(r) ==
    \/ Count(r) \/ Clear(r) \/ ReadText(r) \/ WriteText(r) \/ Compare(r) \/ ReadMissing(r)
    \/ WriteMissing(r) \/ ReadNew(r) \/ WriteNew(r) \/ Switch(r) \/ Accept(r)

-----------------------------------------------------------------------------
(* Memories come and go: documents and vectors, then the text index; text  *)
(* index, then the rest.                                                   *)
others == <<dbvars, flag, phase, step, reb, faults, crashes, stamped>>
AddDocument ==
    /\ phase = "ready" /\ adding.pc = "none" /\ ops < MaxOps /\ next <= MaxDocs
    /\ ops' = ops + 1
    /\ docs' = docs \cup {next} /\ next' = next + 1
    /\ adding' = [pc |-> "vector", doc |-> next]
    /\ UNCHANGED <<others, fts, vec, deleting, lost>>
AddVector ==
    /\ adding.pc = "vector"
    /\ vec' = vec \cup {adding.doc} /\ lost' = lost \ Entries({adding.doc}, "vec")
    /\ adding' = [adding EXCEPT !.pc = "text"]
    /\ UNCHANGED <<others, docvars, fts, deleting, ops>>
AddText ==
    /\ adding.pc = "text"
    /\ fts' = [fts EXCEPT ![adding.doc] = More(@)]
    /\ adding' = [pc |-> "none", doc |-> 0]
    /\ UNCHANGED <<others, docvars, vec, deleting, ops, lost>>
DeleteText(d) ==
    /\ phase = "ready" /\ deleting.pc = "none" /\ ops < MaxOps /\ d \in docs
    /\ ops' = ops + 1
    /\ fts' = [fts EXCEPT ![d] = 0]
    /\ deleting' = [pc |-> "rest", doc |-> d]
    /\ UNCHANGED <<others, docvars, vec, adding, lost>>
DeleteRest ==
    /\ deleting.pc = "rest"
    /\ docs' = docs \ {deleting.doc} /\ vec' = vec \ {deleting.doc}
    /\ deleting' = [pc |-> "none", doc |-> 0]
    /\ UNCHANGED <<others, next, fts, adding, ops, lost>>

Crash ==
    /\ phase # "off" /\ crashes < MaxCrashes
    /\ crashes' = crashes + 1
    /\ phase' = "off" /\ step' = 0 /\ lost' = {}
    /\ reb' = [r \in Rebuilders |-> NoRebuild]
    /\ adding' = [pc |-> "none", doc |-> 0] /\ deleting' = adding'
    /\ UNCHANGED <<docvars, fts, dbvars, vec, flag, ops, faults, stamped>>

StartStep == Boot \/ StepDone \/ StepFails \/ SetVersion \/ EngineInit \/ Check
Next ==
    \/ StartStep
    \/ \E r \in Rebuilders : Rebuild(r) \/ (r # AtStart /\ Command(r))
    \/ AddDocument \/ AddVector \/ AddText \/ \E d \in Ids : DeleteText(d)
    \/ DeleteRest \/ Crash

\* Start and rebuilds are coroutines the event loop resumes; requests for
\* embeddings are tried a limited number of times.
Spec == Init /\ [][Next]_vars /\ WF_vars(StartStep) /\ \A r \in Rebuilders : WF_vars(Rebuild(r))

-----------------------------------------------------------------------------
TypeOK ==
    /\ docs \subseteq 1 .. next - 1 /\ vec \subseteq 1 .. next - 1
    /\ fts \in [Ids -> 0 .. 2] /\ done \subseteq Steps /\ oldfts \subseteq Ids
    /\ phase = "rebuild" <=> reb[AtStart] # NoRebuild
    /\ phase \notin {"ready"} => \A r \in Rebuilders \ {AtStart} : reb[r] = NoRebuild

(* Once the plugin is ready and no rebuild runs, every memory is in the    *)
(* text index and has a vector, whatever the start found: an old database, *)
(* what a crash left of an earlier rebuild, missing vectors.  Except those *)
(* that failed or were cut off in this process, and a memory added after a *)
(* full rebuild had read its last batch.                                   *)
Busy == {adding.doc, deleting.doc}
IndexWhole ==
    phase = "ready" /\ (\A r \in Rebuilders : reb[r] = NoRebuild)
        => \A d \in docs \ Busy : (d \in Indexed \/ <<d, "fts">> \in lost)
                                  /\ (d \in vec \/ <<d, "vec">> \in lost)

(* A database whose version is on record has had every step before that    *)
(* version, over failures and ends of the process, except where the engine *)
(* itself wrote the version into an empty table.                           *)
VersionHonest == row # 0 /\ ~stamped => \A k \in Steps : k < row => k \in done

(* Once a start is over the stores are whole and their version is right    *)
(* (IndexWhole, VersionHonest), and no variable leaves its type.           *)
StoresWhole == TypeOK /\ IndexWhole /\ VersionHonest

(* A start comes to its end, and so does every rebuild, whatever fails and *)
(* however many memories are added meanwhile.                              *)
StartEnds ==
    /\ phase \notin {"off", "ready"} ~> phase \in {"off", "ready"}
    /\ \A r \in Rebuilders \ {AtStart} : reb[r] # NoRebuild ~> reb[r] = NoRebuild

(* The engine writes the current version into a new database only, as the  *)
(* comment there says (memory_engine.py:1046).  TLC refutes it: a database *)
(* of before the version table is taken for new when its migration failed. *)
VersionMeansMigrated == row = Current => done = Steps
=============================================================================
