---------------------------- MODULE SchemaModifier ----------------------------
(***************************************************************************)
(* CreateCollection, DropCollection and AlterCollection                    *)
(* (schema_modifier.go) and the registry of root collections (registry.go).*)
(*                                                                         *)
(* A collection is a directory with a definition.yaml and record files; it *)
(* is visible to transactions once root-collections.yaml names it.  Alter  *)
(* holds an advisory lock on definition.yaml and rewrites the record files *)
(* one by one; Create holds it while it writes the definition; Drop takes  *)
(* no lock, and nobody locks the registry, which is read, changed in       *)
(* memory and written back whole.                                          *)
(*                                                                         *)
(* A definition is its set of columns and a record the set of fields it    *)
(* has.  A collection has a form: records of their own in YAML files, YAML *)
(* maps of records, or another format.                                     *)
(***************************************************************************)
EXTENDS Naturals, FiniteSets

CONSTANTS
  Procs,              \* goroutines or processes that make DDL calls
  Names,              \* collection names
  Fields,
  Files,              \* record files of a collection, in the order of the walk
  YamlFiles,          \* the ones whose name ends in .yaml
  None, Absent,
  Torn,               \* a file that does not parse; for a definition also one
                      \* without a record file, as an empty one
  Scenarios,          \* who makes which calls of which collections, what there is at
                      \* first, and the bounds: calls begun, operations of one
                      \* AlterCollection, faults
  MaxCalls, MaxOps, MaxFaults  \* bounds: the largest of those

Forms == {"yaml", "map", "other"}

ASSUME DdlConstantsAssumption ==
  /\ Files \subseteq Nat
  /\ YamlFiles \subseteq Files
  /\ {None, Absent, Torn} \cap (Fields \cup Procs) = {}
  /\ Absent # Torn /\ \A cols \in SUBSET Fields : cols \notin {Absent, Torn}
  /\ MaxCalls \in Nat /\ MaxOps \in Nat /\ MaxFaults \in Nat
  /\ Scenarios \subseteq
       [procs : SUBSET Procs, names : SUBSET Names, kinds : SUBSET {"create", "drop", "alter"},
        defs : [Names -> {Absent} \cup SUBSET Fields], reg : [Names -> {"none", "self", "other"}],
        form : [Names -> Forms], calls : 0..MaxCalls, ops : 0..MaxOps, faults : 0..MaxFaults]

VARIABLES
  scenario,           \* one of the Scenarios; it never changes
  dir,                \* whether the collection's schema directory exists
  def,                \* definition.yaml: its columns ...
  form,               \* ... and the form of the records it describes
  recs,               \* the record files
  reg,                \* root-collections.yaml: no entry, name -> name, other path
  lock,               \* who holds the lock on definition.yaml
  pc, job,            \* the call each process is in, and its local state
  outcome,            \* how its last call returned
  spoilt,             \* history: calls that found the definition torn, or whose
                      \* definition a failed write of another call has torn
  calls, faults

vars == <<scenario, dir, def, form, recs, reg, lock, pc, job, outcome, spoilt, calls, faults>>

Columns == {Absent, Torn} \cup SUBSET Fields
Registries == [Names -> {"none", "self", "other"}]

\* An alter operation takes column `from` away and brings column `to`: AddField,
\* DropField, RenameField (and ModifyField with a new name).
AlterOps == [from : Fields \cup {None}, to : Fields \cup {None}] \ {[from |-> None, to |-> None]}
NoOp == [from |-> None, to |-> None]

NoJob == [call |-> "none", name |-> None, optional |-> FALSE, mem |-> {}, form |-> "yaml", op |-> NoOp,
          todo |-> {}, ops |-> 0, alone |-> TRUE, entries |-> [n \in Names |-> "none"]]
Jobs == [call : {"none", "create", "drop", "alter"}, name : Names \cup {None},
         optional : BOOLEAN, mem : SUBSET Fields, form : Forms, op : AlterOps \cup {NoOp},
         todo : SUBSET Files, ops : 0..MaxOps, alone : BOOLEAN, entries : Registries]

PCs == {"idle", "nothing", "mkdir", "createLock", "writeDef", "register", "writeEntry", "remove",
        "deregister", "dropEntry", "alterLock", "readDef", "apply", "rewrite", "flush"}
Outcomes == {"none", "ok", "error", "partial", "crashed"}

TypeOK ==
  /\ scenario \in Scenarios
  /\ dir \in [Names -> BOOLEAN]
  /\ def \in [Names -> Columns]
  /\ form \in [Names -> Forms]
  /\ recs \in [Names -> [Files -> Columns]]
  /\ reg \in Registries
  /\ lock \in [Names -> Procs \cup {None}]
  /\ pc \in [Procs -> PCs]
  /\ job \in [Procs -> Jobs]
  /\ outcome \in [Procs -> Outcomes]
  /\ spoilt \in SUBSET Procs
  /\ calls \in 0..MaxCalls /\ faults \in 0..MaxFaults
  /\ \A n \in Names : def[n] # Absent => dir[n]

Fault ==
  /\ faults < scenario.faults
  /\ faults' = faults + 1

Goto(p, l) == pc' = [pc EXCEPT ![p] = l]
Name(p) == job[p].name

-----------------------------------------------------------------------------
(* Calls begin and end. *)

\* The running calls of n from which a new one is not shielded: a drop takes no
\* lock, and a call that a drop overlapped may go on without one.  History: no
\* call of either is alone any more.
Overlapped(p, c, n) ==
  {q \in Procs \ {p} : /\ pc[q] # "idle" /\ Name(q) = n
                       /\ ("drop" \in {c, job[q].call} \/ ~job[q].alone)}

Begin(p, c, n, optional, l) ==
  /\ pc[p] = "idle" /\ p \in scenario.procs /\ n \in scenario.names
  /\ c \in scenario.kinds /\ calls < scenario.calls
  /\ calls' = calls + 1
  /\ job' = [q \in Procs |->
               IF q = p THEN [NoJob EXCEPT !.call = c, !.name = n, !.optional = optional,
                                           !.alone = Overlapped(p, c, n) = {}]
               ELSE [job[q] EXCEPT !.alone = @ /\ q \notin Overlapped(p, c, n)]]
  /\ outcome' = [outcome EXCEPT ![p] = "none"]
  /\ spoilt' = IF def[n] = Torn THEN spoilt \cup {p} ELSE spoilt \ {p}
  /\ Goto(p, l)
  /\ UNCHANGED <<dir, def, recs, reg, lock, faults, form, scenario>>

\* withExclusiveLock releases on every way out; a lock on a definition that has
\* been removed is on a file nobody else can open.
Unlock(p) == lock' = [n \in Names |-> IF lock[n] = p THEN None ELSE lock[n]]

End(p, result) ==
  /\ Goto(p, "idle")
  /\ job' = [job EXCEPT ![p] = NoJob]
  /\ outcome' = [outcome EXCEPT ![p] = result]

Return(p, result) == End(p, result) /\ Unlock(p)

\* An error inside AlterCollection's loop is a PartialSuccessError.
Refused(p) == Return(p, IF pc[p] \in {"apply", "rewrite", "flush"} THEN "partial" ELSE "error")

-----------------------------------------------------------------------------
(* CreateCollection. *)

\* Mutant: with IfNotExists an existing collection is left as it is.
CreateUnconfirmed(p, n, ifNotExists) ==
  IF def[n] = Absent THEN Begin(p, "create", n, ifNotExists, "mkdir")
  ELSE ifNotExists /\ Begin(p, "create", n, ifNotExists, "nothing")

\* The definition exists: with IfNotExists only its registration is confirmed.
CreateCollection(p, n, ifNotExists) ==
  \/ def[n] = Absent /\ Begin(p, "create", n, ifNotExists, "mkdir")
  \/ def[n] # Absent /\ ifNotExists /\ Begin(p, "create", n, ifNotExists, "register")

MakeSchemaDir(p) ==
  /\ pc[p] = "mkdir"
  /\ dir' = [dir EXCEPT ![Name(p)] = TRUE]
  /\ Goto(p, "createLock")
  /\ UNCHANGED <<def, recs, reg, lock, job, outcome, calls, faults, form, spoilt, scenario>>

\* flock creates the file it locks.
LockNewDefinition(p) ==
  LET n == Name(p) IN
  /\ pc[p] = "createLock"
  /\ dir[n] /\ lock[n] = None
  /\ lock' = [lock EXCEPT ![n] = p]
  /\ def' = [def EXCEPT ![n] = IF @ = Absent THEN Torn ELSE @]
  /\ Goto(p, "writeDef")
  /\ UNCHANGED <<dir, recs, reg, job, outcome, calls, faults, form, spoilt, scenario>>

\* writeCollectionDefYAML of the requested columns, with defaultRecordFile, and
\* Unlock.
WriteDefinition(p, cols) ==
  LET n == Name(p) IN
  /\ pc[p] = "writeDef" /\ dir[n]
  /\ def' = [def EXCEPT ![n] = cols]
  /\ form' = [form EXCEPT ![n] = "yaml"]
  /\ spoilt' = spoilt \ {p}
  /\ Unlock(p)
  /\ Goto(p, "register")
  /\ UNCHANGED <<dir, recs, reg, job, outcome, calls, faults, scenario>>

\* registerInRootCollections up to the write: a registered name is left alone,
\* a name registered with another path is ErrCollectionPathConflict.
Register(p) ==
  /\ pc[p] = "register"
  /\ \/ /\ reg[Name(p)] = "none"
        /\ job' = [job EXCEPT ![p].entries = reg]
        /\ Goto(p, "writeEntry")
        /\ UNCHANGED <<lock, outcome>>
     \/ reg[Name(p)] = "self" /\ Return(p, "ok")
     \/ reg[Name(p)] = "other" /\ Refused(p)
  /\ UNCHANGED <<dir, def, recs, reg, calls, faults, form, spoilt, scenario>>

WriteEntry(p) ==
  /\ pc[p] = "writeEntry"
  /\ reg' = [job[p].entries EXCEPT ![Name(p)] = "self"]
  /\ Return(p, "ok")
  /\ UNCHANGED <<dir, def, recs, calls, faults, form, spoilt, scenario>>

-----------------------------------------------------------------------------
(* DropCollection. *)

DropCollection(p, n, ifExists) ==
  \/ def[n] # Absent /\ Begin(p, "drop", n, ifExists, "remove")
  \/ def[n] = Absent /\ ifExists /\ Begin(p, "drop", n, ifExists, "nothing")

\* The collection is missing and IfExists was given.
NothingToDrop(p) ==
  /\ pc[p] = "nothing"
  /\ Return(p, "ok")
  /\ UNCHANGED <<dir, def, recs, reg, calls, faults, form, spoilt, scenario>>

\* RemoveAll of the collection directory, the locked definition.yaml included.
RemoveCollection(p) ==
  LET n == Name(p) IN
  /\ pc[p] = "remove"
  /\ dir' = [dir EXCEPT ![n] = FALSE]
  /\ def' = [def EXCEPT ![n] = Absent]
  /\ recs' = [recs EXCEPT ![n] = [f \in Files |-> Absent]]
  /\ lock' = [lock EXCEPT ![n] = None]
  /\ Goto(p, "deregister")
  /\ UNCHANGED <<reg, job, outcome, calls, faults, form, spoilt, scenario>>

\* deregisterFromRootCollections up to the write.
Deregister(p) ==
  /\ pc[p] = "deregister"
  /\ IF reg[Name(p)] = "none"
       THEN Return(p, "ok")
       ELSE /\ job' = [job EXCEPT ![p].entries = reg]
            /\ Goto(p, "dropEntry")
            /\ UNCHANGED <<lock, outcome>>
  /\ UNCHANGED <<dir, def, recs, reg, calls, faults, form, spoilt, scenario>>

DropEntry(p) ==
  /\ pc[p] = "dropEntry"
  /\ reg' = [job[p].entries EXCEPT ![Name(p)] = "none"]
  /\ Return(p, "ok")
  /\ UNCHANGED <<dir, def, recs, calls, faults, form, spoilt, scenario>>

-----------------------------------------------------------------------------
(* AlterCollection. *)

AlterCollection(p, n) == def[n] # Absent /\ Begin(p, "alter", n, FALSE, "alterLock")

\* Mutant: the lock does not exclude.
LockDefinitionShared(p) ==
  LET n == Name(p) IN
  /\ pc[p] = "alterLock" /\ dir[n]
  /\ lock' = [lock EXCEPT ![n] = p]
  /\ Goto(p, "readDef")
  /\ UNCHANGED <<dir, def, recs, reg, job, outcome, calls, faults, form, spoilt, scenario>>

\* flock on definition.yaml, which it creates if only the directory is left.
LockDefinition(p) ==
  LET n == Name(p) IN
  /\ pc[p] = "alterLock"
  /\ dir[n] /\ lock[n] = None
  /\ lock' = [lock EXCEPT ![n] = p]
  /\ def' = [def EXCEPT ![n] = IF @ = Absent THEN Torn ELSE @]
  /\ Goto(p, "readDef")
  /\ UNCHANGED <<dir, recs, reg, job, outcome, calls, faults, form, spoilt, scenario>>

\* The collection's directory is gone: the lock file cannot be opened, the
\* definition cannot be written or read.
DirectoryGone(p) ==
  /\ pc[p] \in {"createLock", "writeDef", "alterLock", "readDef", "flush"}
  /\ ~dir[Name(p)]
  /\ Refused(p)
  /\ UNCHANGED <<dir, def, recs, reg, calls, faults, form, spoilt, scenario>>

\* readCollectionDefYAML under the lock.  A definition without a record file is
\* parsed, and its use panics.
ReadDefinition(p) ==
  LET n == Name(p) IN
  /\ pc[p] = "readDef" /\ dir[n]
  /\ \/ /\ def[n] \notin {Absent, Torn}
        /\ job' = [job EXCEPT ![p].mem = def[n], ![p].form = form[n]]
        /\ Goto(p, "apply")
        /\ UNCHANGED <<lock, outcome>>
     \/ def[n] \in {Absent, Torn} /\ Refused(p)
     \/ def[n] = Torn /\ Return(p, "crashed")
  /\ UNCHANGED <<dir, def, recs, reg, calls, faults, form, spoilt, scenario>>

\* Mutant: dropping a column leaves one with an empty name.
AppliedLeavesBlank(op, cols) == (cols \ {op.from}) \cup {op.to}

\* ApplyAddField, ApplyDropField, ApplyRenameField on the columns.
Applied(op, cols) == (cols \ {op.from}) \cup ({op.to} \ {None})
Applicable(op, cols) == op.from \in cols \cup {None} /\ op.to \notin cols

\* Mutant: the walk leaves out the last file.
FilesToRewriteShort(p, op) ==
  IF op.from = None \/ job[p].form = "other" THEN {}
  ELSE {f \in YamlFiles : \E g \in YamlFiles : g > f}

\* When a column goes, rewriteRecordFiles walks every .yaml file, unless the
\* records are in another format.
FilesToRewrite(p, op) ==
  IF op.from = None \/ job[p].form = "other" THEN {} ELSE YamlFiles

\* mutate: the field of the record.  In a map of records it looks for the field
\* among the keys.
Rewritten(p, cols) ==
  IF job[p].form = "yaml" /\ job[p].op.from \in cols THEN Applied(job[p].op, cols) ELSE cols

\* The next operation on the definition in memory.
ApplyOp(p, op) ==
  /\ pc[p] = "apply" /\ job[p].ops < scenario.ops
  /\ Applicable(op, job[p].mem)
  /\ job' = [job EXCEPT ![p].op = op, ![p].mem = Applied(op, @), ![p].ops = @ + 1,
                        ![p].todo = FilesToRewrite(p, op)]
  /\ Goto(p, "rewrite")
  /\ UNCHANGED <<dir, def, recs, reg, lock, outcome, calls, faults, form, spoilt, scenario>>

\* The operation names a missing column, or one that is taken.
InapplicableOp(p, op) ==
  /\ pc[p] = "apply" /\ job[p].ops < scenario.ops
  /\ ~Applicable(op, job[p].mem)
  /\ Refused(p)
  /\ UNCHANGED <<dir, def, recs, reg, calls, faults, form, spoilt, scenario>>

\* An operation that leaves the columns as they are, and is flushed all the same:
\* ModifyField under the old name, AddIndex, DropIndex, AddField of an existing
\* column with IfNotExists, DropField of a missing one with IfExists.
KeepColumns(p) ==
  /\ pc[p] = "apply" /\ job[p].ops < scenario.ops
  /\ job' = [job EXCEPT ![p].op = NoOp, ![p].ops = @ + 1, ![p].todo = {}]
  /\ Goto(p, "flush")
  /\ UNCHANGED <<dir, def, recs, reg, lock, outcome, calls, faults, form, spoilt, scenario>>

FirstFile(S) == CHOOSE f \in S : \A g \in S : f <= g

\* For a map of records the walk starts at the collection directory and comes to
\* definition.yaml first, whose lock the call itself holds.
WalkBlocked(p) ==
  /\ job[p].form = "map" /\ job[p].op.from # None /\ lock[Name(p)] # None
  /\ job[p].todo = FilesToRewrite(p, job[p].op)

\* One record file, under a lock of its own.
RewriteRecord(p) ==
  LET n == Name(p)
      f == FirstFile(job[p].todo)
  IN
  /\ pc[p] = "rewrite" /\ job[p].todo # {} /\ ~WalkBlocked(p)
  /\ IF recs[n][f] = Torn
       THEN Refused(p) /\ UNCHANGED recs
       ELSE /\ recs' = IF recs[n][f] # Absent
                       THEN [recs EXCEPT ![n][f] = Rewritten(p, @)] ELSE recs
            /\ job' = [job EXCEPT ![p].todo = @ \ {f}]
            /\ UNCHANGED <<pc, lock, outcome>>
  /\ UNCHANGED <<dir, def, reg, calls, faults, form, spoilt, scenario>>

RewriteDone(p) ==
  /\ pc[p] = "rewrite" /\ job[p].todo = {} /\ ~WalkBlocked(p)
  /\ Goto(p, "flush")
  /\ UNCHANGED <<dir, def, recs, reg, lock, job, outcome, calls, faults, form, spoilt, scenario>>

\* writeCollectionDefYAML after the operation.
Flush(p) ==
  LET n == Name(p) IN
  /\ pc[p] = "flush" /\ dir[n]
  /\ def' = [def EXCEPT ![n] = job[p].mem]
  /\ form' = [form EXCEPT ![n] = job[p].form]
  /\ Goto(p, "apply")
  /\ UNCHANGED <<dir, recs, reg, lock, job, outcome, calls, faults, spoilt, scenario>>

\* Mutant: the lock stays with a call that returns.
AlterDoneLeaky(p) ==
  /\ pc[p] = "apply"
  /\ Goto(p, "idle")
  /\ job' = [job EXCEPT ![p] = NoJob]
  /\ outcome' = [outcome EXCEPT ![p] = "ok"]
  /\ UNCHANGED <<dir, def, recs, reg, lock, calls, faults, form, spoilt, scenario>>

\* No operation is left.
AlterDone(p) ==
  /\ pc[p] = "apply"
  /\ Return(p, "ok")
  /\ UNCHANGED <<dir, def, recs, reg, calls, faults, form, spoilt, scenario>>

-----------------------------------------------------------------------------
(* Faults. *)

\* A failed os.WriteFile has truncated the file and written a part of it: one
\* that does not parse, or one that reads as some of the fields (none, if a
\* record file is empty).
Partly(cols) == {Torn} \cup SUBSET cols

\* A step fails.  A truncated registry reads as one without entries.
StepFails(p) ==
  LET n == Name(p)
      f == FirstFile(job[p].todo)
  IN
  /\ pc[p] # "idle"
  /\ Fault
  /\ Refused(p)
  /\ \/ UNCHANGED <<dir, def, form, recs, reg, spoilt>>
     \/ /\ pc[p] \in {"writeDef", "flush"} /\ dir[n]
        /\ \E left \in Partly(IF pc[p] = "flush" THEN job[p].mem ELSE Fields) :
             def' = [def EXCEPT ![n] = left]
        /\ form' = [form EXCEPT ![n] = job[p].form]
        /\ spoilt' = spoilt \cup {q \in Procs \ {p} : Name(q) = n}
        /\ UNCHANGED <<dir, recs, reg>>
     \/ /\ pc[p] = "rewrite" /\ job[p].todo # {} /\ ~WalkBlocked(p)
        /\ recs[n][f] \notin {Absent, Torn}
        /\ \E left \in Partly(Rewritten(p, recs[n][f])) : recs' = [recs EXCEPT ![n][f] = left]
        /\ UNCHANGED <<dir, def, form, reg, spoilt>>
     \/ /\ pc[p] \in {"writeEntry", "dropEntry"}
        /\ reg' = [m \in Names |-> "none"] /\ UNCHANGED <<dir, def, form, recs, spoilt>>
  /\ UNCHANGED <<calls, scenario>>

\* RemoveAll fails after it has removed some of the record files, or the
\* definition with whoever's lock on it, or the schema directory too.
RemoveFails(p) ==
  LET n == Name(p) IN
  /\ pc[p] = "remove"
  /\ Fault
  /\ End(p, "error")
  /\ \E gone \in SUBSET Files :
       recs' = [recs EXCEPT ![n] = [f \in Files |-> IF f \in gone THEN Absent ELSE recs[n][f]]]
  /\ \/ UNCHANGED <<dir, def, lock>>
     \/ /\ dir' \in {dir, [dir EXCEPT ![n] = FALSE]}
        /\ def' = [def EXCEPT ![n] = Absent]
        /\ lock' = [lock EXCEPT ![n] = None]
  /\ UNCHANGED <<reg, calls, form, spoilt, scenario>>

\* The process is killed between two steps.
Crash(p) ==
  /\ pc[p] # "idle"
  /\ Fault
  /\ Return(p, "crashed")
  /\ UNCHANGED <<dir, def, recs, reg, calls, form, spoilt, scenario>>

-----------------------------------------------------------------------------
\* Every collection that exists is complete.
Init ==
  /\ scenario \in Scenarios
  /\ def = scenario.defs /\ form = scenario.form
  /\ dir = [n \in Names |-> def[n] # Absent]
  /\ recs = [n \in Names |-> [f \in Files |-> def[n]]]
  /\ reg = scenario.reg
  /\ lock = [n \in Names |-> None]
  /\ pc = [p \in Procs |-> "idle"]
  /\ job = [p \in Procs |-> NoJob]
  /\ outcome = [p \in Procs |-> "none"]
  /\ spoilt = {}
  /\ calls = 0 /\ faults = 0

Call(p) ==
  \E n \in Names : \/ \E o \in BOOLEAN : CreateCollection(p, n, o) \/ DropCollection(p, n, o)
                   \/ AlterCollection(p, n)

\* The steps that end a call once it has begun; the caller's list of operations
\* is finite, so AlterDone is among them.
Step(p) ==
  \/ MakeSchemaDir(p) \/ \E cols \in SUBSET Fields : WriteDefinition(p, cols)
  \/ Register(p) \/ WriteEntry(p)
  \/ NothingToDrop(p) \/ RemoveCollection(p) \/ Deregister(p) \/ DropEntry(p)
  \/ DirectoryGone(p) \/ ReadDefinition(p)
  \/ RewriteRecord(p) \/ RewriteDone(p) \/ Flush(p) \/ AlterDone(p)

TakeLock(p) == LockNewDefinition(p) \/ LockDefinition(p)

Next ==
  \E p \in Procs :
    \/ Call(p) \/ Step(p) \/ TakeLock(p)
    \/ \E op \in AlterOps : ApplyOp(p, op) \/ InapplicableOp(p, op)
    \/ KeepColumns(p)
    \/ StepFails(p) \/ RemoveFails(p) \/ Crash(p)

Spec == Init /\ [][Next]_vars

\* A running call goes on; flock grants a lock that stays free.
FairSpec == Spec /\ \A p \in Procs : WF_vars(Step(p) \/ TakeLock(p))

-----------------------------------------------------------------------------
(* Properties. *)

Returns(p, results) == pc[p] # "idle" /\ pc'[p] = "idle" /\ outcome'[p] \in results

\* The definition that AlterCollection flushes is the one on disk with the
\* operation applied, although it was read before the record files were
\* rewritten: no operation of another AlterCollection is undone (the lock on
\* definition.yaml around read, rewrite and flush), unless a DropCollection
\* overlaps it, or a call whose collection was dropped under it.
NoLostAlter ==
  [][\A p \in Procs : (job[p].alone /\ pc[p] = "flush" /\ pc'[p] = "apply") =>
       /\ def[Name(p)] \notin {Absent, Torn}
       /\ def'[Name(p)] = Applied(job[p].op, def[Name(p)])]_vars

\* When the definition of a collection with a YAML file per record loses a
\* column, no .yaml record file still has the field, be it the first attempt or
\* one that follows attempts which failed or died half way (rewriteRecordFiles
\* before the flush), again unless a drop overlaps.  For other forms the walk is
\* a no-op and the field stays.
ColumnLeavesEveryRecord ==
  [][\A p \in Procs :
       (/\ job[p].alone /\ pc[p] = "flush" /\ pc'[p] = "apply"
        /\ form'[Name(p)] = "yaml" /\ job[p].op.from # None) =>
         \A f \in YamlFiles :
           recs'[Name(p)][f] = Absent \/ job[p].op.from \notin recs'[Name(p)][f]]_vars

\* At the moment at which a CreateCollection returns success, the collection has
\* a definition and is registered, also when an earlier attempt died between the
\* two writes (registerInRootCollections on the IfNotExists path), and the
\* definition is whole unless the call found a torn one, which IfNotExists takes
\* for the collection, or another call's write of it failed meanwhile.  When a
\* DropCollection that found the collection returns success, neither its
\* definition, nor a record, nor its registration is left.  Calls of the same
\* collection that overlap it, one of the two being a drop, are excepted.
DdlTakesEffect ==
  [][\A p \in Procs : job[p].alone =>
       /\ job[p].call = "create" /\ Returns(p, {"ok"}) =>
            /\ reg'[Name(p)] = "self" /\ def'[Name(p)] # Absent
            /\ p \notin spoilt => def'[Name(p)] # Torn
       /\ pc[p] \in {"deregister", "dropEntry"} /\ Returns(p, {"ok"}) =>
            /\ reg'[Name(p)] = "none" /\ def'[Name(p)] = Absent
            /\ \A f \in Files : recs'[Name(p)][f] = Absent]_vars

\* Every DDL call returns and gives back the lock on the definition.
DdlCallsReturn == \A p \in Procs : pc[p] # "idle" ~> pc[p] = "idle"
=============================================================================
