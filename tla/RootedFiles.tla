------------------------------ MODULE RootedFiles ------------------------------
(***************************************************************************)
(* RootedFiles (rooted_files.go): a capability on one directory of the     *)
(* project through which threads append to and read a JSONL stream,        *)
(* publish and read a JSON document, create a directory, run a callback    *)
(* under an advisory lock, and close the capability.                       *)
(*                                                                         *)
(* Several handles, of different processes, work on the same directory.    *)
(* A handle counts the operations that run on it (a lease); Close refuses  *)
(* new ones, waits for those, and only then closes the descriptor.  The    *)
(* callback of WithExclusiveLock gets a view whose operations need no      *)
(* lease of their own and which expires with the callback.                 *)
(*                                                                         *)
(* The stream is its terminated lines, an unterminated tail, and how much  *)
(* of it is on stable storage.  Every call that writes has an identity,    *)
(* which stands for the line or the document it writes.                    *)
(***************************************************************************)
EXTENDS Naturals, Sequences, FiniteSets

CONSTANTS
  Handles,            \* opened capabilities, one process each
  Threads,
  Nested,             \* the files are in a directory below the scope, not in the scope itself
  None, Torn,
  FaultKinds,         \* which of "error", "kill", "power" may happen
  MaxCalls,           \* bound: calls begun
  MaxFaults,          \* bound: faults of any kind
  Settings            \* which thread works on which handle, what the threads call, within which bounds

ASSUME RootedConstantsAssumption ==
  /\ Nested \in BOOLEAN /\ IsFiniteSet(Threads)
  /\ None \notin Threads \cup Nat /\ Torn \notin Nat
  /\ MaxCalls \in Nat /\ MaxFaults \in Nat
  /\ \A s \in Settings : /\ s.home \in [Threads -> Handles]
                         /\ s.ops \subseteq {"append", "read", "write", "get", "ensure", "lock", "close"}
                         /\ s.views \subseteq {"append", "recover", "write", "get"}
                         /\ s.calls \in 0..MaxCalls /\ s.faults \in 0..MaxFaults

VARIABLES
  setting,            \* one of the Settings; it never changes
  handle,             \* handle[h]: closing/closed flags, operations, whether root is open
  view,               \* view[t]: the LockedFiles of t's last WithExclusiveLock
  dir,                \* the directory below the scope: "absent", "linked", "durable"
  lockFile,           \* whether the file of the advisory lock exists
  log,                \* the JSONL stream
  doc,                \* the versions of the JSON document, in the order of their renames
  temp,               \* temp[t]: the temporary file of t's document
  acked,              \* history: writes of the stream and of the document that returned success
  guarded,            \* history: <<line, owner of the view it was appended through>>
  pc, job,            \* the operation each thread is in, and its local state
  calls, faults

vars == <<setting, handle, view, dir, lockFile, log, doc, temp, acked, guarded, pc, job, calls, faults>>
files == <<dir, lockFile, log, doc>>
history == <<acked, guarded>>

Ids == 1..MaxCalls
PublicOps == {"append", "read", "write", "get", "ensure", "lock", "close"}
ViewOps   == {"append", "recover", "write", "get"}
Presence  == {"absent", "linked", "durable"}

NewHandle == [life |-> "open", operations |-> 0, root |-> TRUE]
NoJob     == [op |-> "none", id |-> 0, via |-> None, saw |-> None]
NoLog     == [entry |-> "absent", lines |-> <<>>, tail |-> FALSE, safe |-> 0, dirty |-> FALSE]
NoDoc     == [pubs |-> <<>>, safe |-> 0, soft |-> {}]

PCs == {"idle", "mkdir", "syncParent", "syncChild", "open", "openRead", "lockLog", "lockRead",
        "recover", "syncRecovered", "write", "writeRest", "writeTorn", "sync", "read",
        "openTemp", "syncTemp", "rename", "syncDir", "get", "openLock", "syncLockDir",
        "lockWait", "callback", "end", "drain", "closeRoot"}

TypeOK ==
  /\ setting \in Settings
  /\ handle \in [Handles -> [life : {"open", "closing", "closed"},
                             operations : 0..2 * Cardinality(Threads), root : BOOLEAN]]
  /\ view \in [Threads -> {"none", "active", "expired"}]
  /\ dir \in Presence /\ lockFile \in BOOLEAN
  /\ log \in [entry : Presence, lines : Seq(Ids \cup {Torn}), tail : BOOLEAN, safe : Nat,
              dirty : BOOLEAN]
  /\ log.safe <= Len(log.lines)
  /\ doc \in [pubs : Seq(Ids \cup {Torn}), safe : Nat, soft : SUBSET Ids]
  /\ doc.safe <= Len(doc.pubs)
  /\ temp \in [Threads -> {"none", "unsynced", "synced"}]
  /\ acked \in [{"log", "doc"} -> SUBSET Ids]
  /\ guarded \in SUBSET (Ids \X Threads)
  /\ pc \in [Threads -> PCs]
  /\ job \in [Threads -> [op : PublicOps \cup ViewOps \cup {"none"}, id : 0..MaxCalls,
                          via : Threads \cup {None}, saw : Nat \cup {None}]]
  /\ calls \in 0..MaxCalls /\ faults \in 0..MaxFaults

Fault(kind) ==
  /\ kind \in FaultKinds
  /\ faults < setting.faults
  /\ faults' = faults + 1

Goto(t, l) == pc' = [pc EXCEPT ![t] = l]
Op(t) == job[t].op
Home(t) == setting.home[t]
Mates(h) == {t \in Threads : Home(t) = h}

\* One step of an operation that touches neither files nor the handle.
Moves(t, from, to) ==
  /\ pc[t] = from
  /\ Goto(t, to)
  /\ UNCHANGED <<handle, view, lockFile, temp, history, job, calls, faults, setting>>

-----------------------------------------------------------------------------
(* The life of a handle. *)

\* What an operation opens, in a directory that is there.
Opens(op) ==
  CASE op = "append" -> "open" [] op = "write" -> "openTemp" [] op = "lock" -> "openLock"
    [] op = "ensure" -> "end"

\* Where an operation starts once it has its lease, or its view.
FirstStep(op) ==
  CASE op \in {"read", "recover"} -> "openRead"
    [] op = "get" -> "get"
    [] op = "ensure" \/ (Nested /\ op \in {"append", "write", "lock"}) -> "mkdir"
    [] OTHER -> Opens(op)

Enter(t, op, via) ==
  /\ calls < setting.calls
  /\ calls' = calls + 1
  /\ job' = [job EXCEPT ![t] = [op |-> op, via |-> via,
                                id |-> IF op \in {"append", "write"} THEN calls + 1 ELSE 0,
                                saw |-> IF op = "lock" THEN None ELSE @.saw]]
  /\ Goto(t, FirstStep(op))

\* A public operation: beginOperation refuses a handle that closes.  A callback
\* may call one too; the caller does not nest WithExclusiveLock.
BeginOperation(t, op) ==
  LET h == Home(t) IN
  /\ op \in setting.ops \ {"close"}
  /\ pc[t] = "idle" \/ (pc[t] = "callback" /\ op # "lock")
  /\ handle[h].life = "open"
  /\ handle' = [handle EXCEPT ![h].operations = @ + 1]
  /\ view' = [view EXCEPT ![t] = IF op = "lock" THEN "none" ELSE @]
  /\ Enter(t, op, None)
  /\ UNCHANGED <<files, temp, history, faults, setting>>

\* An operation through the view of t, by its callback or by a goroutine u that
\* got hold of the view: one at a time, and none once the view has expired.
ViewOperation(u, t, op) ==
  /\ view[t] = "active" /\ Home(u) = Home(t)
  /\ pc[u] = (IF u = t THEN "callback" ELSE "idle")
  /\ \A w \in Threads : job[w].via # t
  /\ op \in setting.views /\ Enter(u, op, t)
  /\ UNCHANGED <<handle, view, files, temp, history, faults, setting>>

\* Mutant: every operation gives a lease back, also one through a view.
EndOperationTwice(t) ==
  /\ pc[t] = "end"
  /\ handle' = [handle EXCEPT ![Home(t)].operations = @ - 1]
  /\ job' = [job EXCEPT ![t] = [NoJob EXCEPT !.saw = IF view[t] = "active" THEN job[t].saw ELSE None]]
  /\ Goto(t, IF view[t] = "active" THEN "callback" ELSE "idle")
  /\ UNCHANGED <<view, files, temp, history, calls, faults, setting>>

\* Mutant: WithExclusiveLock keeps its lease.
EndOperationLeaky(t) ==
  /\ pc[t] = "end"
  /\ handle' = IF job[t].via = None /\ Op(t) # "lock"
               THEN [handle EXCEPT ![Home(t)].operations = @ - 1] ELSE handle
  /\ job' = [job EXCEPT ![t] = [NoJob EXCEPT !.saw = IF view[t] = "active" THEN job[t].saw ELSE None]]
  /\ Goto(t, IF view[t] = "active" THEN "callback" ELSE "idle")
  /\ UNCHANGED <<view, files, temp, history, calls, faults, setting>>

\* The operation returns: a public one gives its lease back.
EndOperation(t) ==
  /\ pc[t] = "end"
  /\ handle' = IF job[t].via = None
               THEN [handle EXCEPT ![Home(t)].operations = @ - 1] ELSE handle
  /\ job' = [job EXCEPT ![t] = [NoJob EXCEPT !.saw = IF view[t] = "active" THEN job[t].saw ELSE None]]
  /\ Goto(t, IF view[t] = "active" THEN "callback" ELSE "idle")
  /\ UNCHANGED <<view, files, temp, history, calls, faults, setting>>

\* Close refuses new operations from here on.  A callback that closes its own
\* handle would wait for itself; the caller does not do that.
Close(t) ==
  /\ pc[t] = "idle" /\ "close" \in setting.ops /\ calls < setting.calls
  /\ calls' = calls + 1
  /\ job' = [job EXCEPT ![t] = [NoJob EXCEPT !.op = "close"]]
  /\ handle' = [handle EXCEPT ![Home(t)].life = IF @ = "open" THEN "closing" ELSE @]
  /\ Goto(t, "drain")
  /\ UNCHANGED <<view, files, temp, history, faults, setting>>

\* Mutant: Close does not wait for the operations.
CloseDrainsNothing(t) ==
  /\ pc[t] = "drain"
  /\ handle' = [handle EXCEPT ![Home(t)].life = "closed"]
  /\ Goto(t, "closeRoot")
  /\ UNCHANGED <<view, files, temp, history, job, calls, faults, setting>>

\* lifecycleCond: the last endOperation wakes Close.
CloseDrained(t) ==
  /\ pc[t] = "drain"
  /\ handle[Home(t)].operations = 0
  /\ handle' = [handle EXCEPT ![Home(t)].life = "closed"]
  /\ Goto(t, "closeRoot")
  /\ UNCHANGED <<view, files, temp, history, job, calls, faults, setting>>

\* The pcs in which an operation holds mu for reading: all but the wait for the
\* advisory lock and the callback.
HoldsMu == PCs \ {"idle", "lockWait", "callback", "end", "drain", "closeRoot"}

CloseRoot(t) ==
  /\ pc[t] = "closeRoot"
  /\ \A u \in Mates(Home(t)) : pc[u] \notin HoldsMu
  /\ handle' = [handle EXCEPT ![Home(t)].root = FALSE]
  /\ job' = [job EXCEPT ![t] = NoJob]
  /\ Goto(t, "idle")
  /\ UNCHANGED <<view, files, temp, history, calls, faults, setting>>

\* OpenRootedFiles gives a new capability on the scope, whose directory exists.
OpenRootedFiles(h) ==
  /\ ~handle[h].root /\ calls < setting.calls
  /\ \A t \in Mates(h) : pc[t] = "idle"
  /\ handle' = [handle EXCEPT ![h] = NewHandle]
  /\ view' = [t \in Threads |-> IF Home(t) = h THEN "none" ELSE view[t]]
  /\ UNCHANGED <<files, temp, history, pc, job, calls, faults, setting>>

-----------------------------------------------------------------------------
(* Directories.  creationMu lets one thread of a handle at a time create them. *)

Creating(h) == {t \in Mates(h) : pc[t] \in {"syncParent", "syncChild"}}

\* Mkdir: a directory that exists is taken as it is, a new one is synced.
Mkdir(t) ==
  /\ Creating(Home(t)) = {}
  /\ Moves(t, "mkdir", IF dir = "absent" THEN "syncParent" ELSE Opens(Op(t)))
  /\ dir' = IF dir = "absent" THEN "linked" ELSE dir
  /\ UNCHANGED <<log, doc>>

SyncParent(t) ==
  /\ Moves(t, "syncParent", "syncChild")
  /\ dir' = IF dir = "linked" THEN "durable" ELSE dir
  /\ UNCHANGED <<log, doc>>

\* What a sync of the files' directory makes durable: the entry of the stream,
\* and the document last renamed.
DirSynced ==
  /\ log' = [log EXCEPT !.entry = IF @ = "linked" THEN "durable" ELSE @]
  /\ doc' = [doc EXCEPT !.safe = Len(doc.pubs)]

SyncChild(t) ==
  /\ Moves(t, "syncChild", Opens(Op(t)))
  /\ IF Nested THEN DirSynced ELSE UNCHANGED <<log, doc>>
  /\ UNCHANGED dir

-----------------------------------------------------------------------------
(* The stream. *)

WritingLog == {"recover", "syncRecovered", "write", "writeRest", "writeTorn", "sync"}

\* flock on the stream: the exclusive holders and the shared ones.
ExclusiveLog(t) ==
  \/ pc[t] \in WritingLog
  \/ pc[t] = "read" /\ Op(t) = "recover"
  \/ pc[t] = "syncDir" /\ Op(t) = "append"
SharedLog(t) == pc[t] = "read" /\ Op(t) = "read"

OpenAppend(t) ==
  /\ Creating(Home(t)) = {}
  /\ Moves(t, "open", "lockLog")
  /\ log' = [log EXCEPT !.entry = IF @ = "absent" THEN "linked" ELSE @]
  /\ UNCHANGED <<dir, doc>>

\* Reading a stream that does not exist is an error.
OpenRead(t) ==
  /\ Moves(t, "openRead", IF log.entry = "absent" THEN "end"
                          ELSE IF Op(t) = "recover" THEN "lockLog" ELSE "lockRead")
  /\ UNCHANGED <<dir, log, doc>>

LockLog(t) ==
  /\ \A u \in Threads : ~ExclusiveLog(u) /\ ~SharedLog(u)
  /\ Moves(t, "lockLog", "recover")
  /\ UNCHANGED <<dir, log, doc>>

\* Mutant: the reader's lock does not keep writers out.
LockReadNever(t) ==
  /\ Moves(t, "lockRead", "read")
  /\ UNCHANGED <<dir, log, doc>>

LockRead(t) ==
  /\ \A u \in Threads : ~ExclusiveLog(u)
  /\ Moves(t, "lockRead", "read")
  /\ UNCHANGED <<dir, log, doc>>

Recovered(t) == IF Op(t) = "append" THEN "write" ELSE "read"

\* Mutant: an unterminated tail is left for the next writer.
RecoverTailNot(t) ==
  /\ Moves(t, "recover", IF Torn \in {log.lines[i] : i \in 1..Len(log.lines)}
                         THEN "end" ELSE Recovered(t))
  /\ UNCHANGED <<dir, log, doc>>

\* recoverJSONLTail: a malformed terminated line is an error; an unterminated
\* tail is cut off.
RecoverTail(t) ==
  LET malformed == Torn \in {log.lines[i] : i \in 1..Len(log.lines)} IN
  /\ Moves(t, "recover", IF malformed THEN "end"
                         ELSE IF log.tail THEN "syncRecovered" ELSE Recovered(t))
  /\ log' = IF log.tail /\ ~malformed THEN [log EXCEPT !.tail = FALSE, !.dirty = TRUE] ELSE log
  /\ UNCHANGED <<dir, doc>>

FileSynced == log' = [log EXCEPT !.safe = Len(log.lines), !.dirty = FALSE]

SyncRecovered(t) ==
  /\ Moves(t, "syncRecovered", Recovered(t))
  /\ FileSynced
  /\ UNCHANGED <<dir, doc>>

\* The bytes of the line reach the file in more than one write.
WriteLine(t) ==
  /\ Moves(t, "write", IF log.tail THEN "writeTorn" ELSE "writeRest")
  /\ log' = [log EXCEPT !.tail = TRUE, !.dirty = TRUE]
  /\ UNCHANGED <<dir, doc>>

\* The newline: the line is there, joined to an older tail if there was one.
WriteNewline(t) ==
  /\ pc[t] \in {"writeRest", "writeTorn"}
  /\ log' = [log EXCEPT !.tail = FALSE,
                        !.lines = Append(@, IF pc[t] = "writeRest" THEN job[t].id ELSE Torn)]
  /\ guarded' = IF job[t].via = None THEN guarded ELSE guarded \cup {<<job[t].id, job[t].via>>}
  /\ job' = [job EXCEPT ![t].saw = IF @ = None THEN None ELSE Len(log'.lines)]
  /\ Goto(t, "sync")
  /\ UNCHANGED <<handle, view, dir, lockFile, doc, temp, acked, calls, faults, setting>>

SyncLog(t) ==
  /\ Moves(t, "sync", "syncDir")
  /\ FileSynced
  /\ UNCHANGED <<dir, doc>>

\* readJSONLRecords: an unterminated tail or a malformed line is an error, and
\* otherwise the lines are returned.
ReadLog(t) ==
  /\ pc[t] = "read"
  /\ job' = [job EXCEPT ![t].saw = IF job[t].via = t /\ ~log.tail THEN Len(log.lines) ELSE @]
  /\ Goto(t, "end")
  /\ UNCHANGED <<handle, view, files, temp, history, calls, faults, setting>>

-----------------------------------------------------------------------------
(* The document. *)

\* A temporary sibling is created and written.
WriteTemp(t) ==
  /\ pc[t] = "openTemp" /\ Creating(Home(t)) = {}
  /\ temp' = [temp EXCEPT ![t] = "unsynced"]
  /\ Goto(t, "syncTemp")
  /\ UNCHANGED <<handle, view, files, history, job, calls, faults, setting>>

\* Mutant: the temporary file is renamed before its bytes are on the disk.
SyncTempNot(t) ==
  /\ pc[t] = "syncTemp"
  /\ Goto(t, "rename")
  /\ UNCHANGED <<handle, view, files, temp, history, job, calls, faults, setting>>

SyncTemp(t) ==
  /\ pc[t] = "syncTemp"
  /\ temp' = [temp EXCEPT ![t] = "synced"]
  /\ Goto(t, "rename")
  /\ UNCHANGED <<handle, view, files, history, job, calls, faults, setting>>

Rename(t) ==
  /\ pc[t] = "rename"
  /\ doc' = [doc EXCEPT !.pubs = Append(@, job[t].id),
                        !.soft = IF temp[t] = "synced" THEN @ ELSE @ \cup {job[t].id}]
  /\ temp' = [temp EXCEPT ![t] = "none"]
  /\ Goto(t, "syncDir")
  /\ UNCHANGED <<handle, view, dir, lockFile, log, history, job, calls, faults, setting>>

\* syncDir after an append or a rename, and the return of success.
SyncDir(t) ==
  LET what == IF Op(t) = "append" THEN "log" ELSE "doc" IN
  /\ pc[t] = "syncDir"
  /\ DirSynced
  /\ acked' = [acked EXCEPT ![what] = @ \cup {job[t].id}]
  /\ Goto(t, "end")
  /\ UNCHANGED <<handle, view, dir, lockFile, temp, guarded, job, calls, faults, setting>>

\* ReadJSON, ReadDir.
ReadDocument(t) ==
  /\ Moves(t, "get", "end")
  /\ UNCHANGED <<dir, log, doc>>

-----------------------------------------------------------------------------
(* WithExclusiveLock. *)

OpenLock(t) ==
  /\ pc[t] = "openLock" /\ Creating(Home(t)) = {}
  /\ lockFile' = TRUE
  /\ Goto(t, IF lockFile THEN "lockWait" ELSE "syncLockDir")
  /\ UNCHANGED <<handle, view, dir, log, doc, temp, history, job, calls, faults, setting>>

SyncLockDir(t) ==
  /\ Moves(t, "syncLockDir", "lockWait")
  /\ DirSynced
  /\ UNCHANGED dir

\* Mutant: the lock excludes the threads of the own handle only.
LockWaitLocal(t) ==
  /\ pc[t] = "lockWait"
  /\ \A u \in Mates(Home(t)) : view[u] # "active"
  /\ view' = [view EXCEPT ![t] = "active"]
  /\ Goto(t, "callback")
  /\ UNCHANGED <<handle, files, temp, history, job, calls, faults, setting>>

\* The lock is polled for; the view is active as long as the lock is held.
LockWait(t) ==
  /\ pc[t] = "lockWait"
  /\ \A u \in Threads : view[u] # "active"
  /\ view' = [view EXCEPT ![t] = "active"]
  /\ Goto(t, "callback")
  /\ UNCHANGED <<handle, files, temp, history, job, calls, faults, setting>>

\* The context ends while the lock is taken.
LockCancelled(t) ==
  /\ \E u \in Threads : view[u] = "active"
  /\ Moves(t, "lockWait", "end")
  /\ UNCHANGED <<dir, log, doc>>

\* Mutant: the view expires while an operation through it is running.
CallbackReturnsEarly(t) ==
  /\ pc[t] = "callback"
  /\ view' = [view EXCEPT ![t] = "expired"]
  /\ job' = [job EXCEPT ![t] = [NoJob EXCEPT !.op = "lock"]]
  /\ Goto(t, "end")
  /\ UNCHANGED <<handle, files, temp, history, calls, faults, setting>>

\* The callback returns: invalidate waits for an operation through the view,
\* then the lock is released.
CallbackReturns(t) ==
  /\ pc[t] = "callback"
  /\ \A u \in Threads : job[u].via # t
  /\ view' = [view EXCEPT ![t] = "expired"]
  /\ job' = [job EXCEPT ![t] = [NoJob EXCEPT !.op = "lock"]]
  /\ Goto(t, "end")
  /\ UNCHANGED <<handle, files, temp, history, calls, faults, setting>>

-----------------------------------------------------------------------------
(* Faults. *)

\* A call of the operating system fails: the operation returns the error, its
\* temporary file is removed.  A write that fails may have written a part.
StepFails(t) ==
  /\ pc[t] \in HoldsMu \cup {"lockWait"}
  /\ Fault("error")
  /\ log' \in {log} \cup (IF pc[t] = "write" THEN {[log EXCEPT !.tail = TRUE, !.dirty = TRUE]} ELSE {})
  /\ temp' = [temp EXCEPT ![t] = "none"]
  /\ Goto(t, "end")
  /\ UNCHANGED <<handle, view, dir, lockFile, doc, history, job, calls, setting>>

\* The threads T stop where they are and their processes start anew.
Restart(H) ==
  LET T == {t \in Threads : Home(t) \in H} IN
  /\ handle' = [h \in Handles |-> IF h \in H THEN NewHandle ELSE handle[h]]
  /\ view' = [t \in Threads |-> IF t \in T THEN "none" ELSE view[t]]
  /\ temp' = [t \in Threads |-> IF t \in T THEN "none" ELSE temp[t]]
  /\ pc' = [t \in Threads |-> IF t \in T THEN "idle" ELSE pc[t]]
  /\ job' = [t \in Threads |-> IF t \in T THEN NoJob ELSE job[t]]

\* A process is killed: its locks are released, what it wrote stays.
Kill(h) ==
  /\ \E t \in Mates(h) : pc[t] # "idle"
  /\ Fault("kill")
  /\ Restart({h})
  /\ UNCHANGED <<files, history, calls, setting>>

\* The machine stops: entries that no directory sync covered may be gone, and
\* bytes that no file sync covered may be cut off anywhere.
PowerLoss ==
  /\ Fault("power")
  /\ Restart(Handles)
  /\ \E d \in {"absent", "durable"}, e \in {"absent", "durable"} :
       /\ dir \in {"absent", "durable"} => d = dir
       /\ dir' = d
       /\ log.entry \in {"absent", "durable"} => e = log.entry
       /\ IF (Nested /\ d = "absent") \/ e = "absent"
            THEN log' = NoLog
            ELSE \E n \in log.safe..Len(log.lines), torn \in {FALSE, log.dirty} :
                   log' = [entry |-> "durable", lines |-> SubSeq(log.lines, 1, n), tail |-> torn \/ (log.tail /\ ~log.dirty),
                           safe |-> n, dirty |-> FALSE]
       /\ IF Nested /\ d = "absent"
            THEN doc' = NoDoc
            ELSE \E n \in doc.safe..Len(doc.pubs), torn \in SUBSET doc.soft :
                   doc' = [pubs |-> [i \in 1..n |-> IF doc.pubs[i] \in torn THEN Torn ELSE doc.pubs[i]],
                           safe |-> n, soft |-> doc.soft]
  /\ lockFile' \in {FALSE, lockFile}
  /\ UNCHANGED <<history, calls, setting>>

-----------------------------------------------------------------------------
Init ==
  /\ setting \in Settings
  /\ handle = [h \in Handles |-> NewHandle]
  /\ view = [t \in Threads |-> "none"]
  /\ dir = "absent" /\ lockFile = FALSE
  /\ log = NoLog /\ doc = NoDoc
  /\ temp = [t \in Threads |-> "none"]
  /\ acked = [w \in {"log", "doc"} |-> {}] /\ guarded = {}
  /\ pc = [t \in Threads |-> "idle"]
  /\ job = [t \in Threads |-> NoJob]
  /\ calls = 0 /\ faults = 0

Call(t) ==
  \/ \E op \in PublicOps : BeginOperation(t, op)
  \/ \E u \in Threads, op \in ViewOps : ViewOperation(t, u, op)
  \/ Close(t)

\* The steps that end a call once it has begun; callbacks return.
Step(t) ==
  \/ Mkdir(t) \/ SyncParent(t) \/ SyncChild(t)
  \/ OpenAppend(t) \/ OpenRead(t) \/ LockLog(t) \/ LockRead(t)
  \/ RecoverTail(t) \/ SyncRecovered(t) \/ WriteLine(t) \/ WriteNewline(t) \/ SyncLog(t) \/ ReadLog(t)
  \/ WriteTemp(t) \/ SyncTemp(t) \/ Rename(t) \/ SyncDir(t) \/ ReadDocument(t)
  \/ OpenLock(t) \/ SyncLockDir(t) \/ LockWait(t) \/ CallbackReturns(t)
  \/ EndOperation(t) \/ CloseDrained(t) \/ CloseRoot(t)

Next ==
  \/ \E t \in Threads : Call(t) \/ Step(t) \/ LockCancelled(t) \/ StepFails(t)
  \/ \E h \in Handles : OpenRootedFiles(h) \/ Kill(h)
  \/ PowerLoss

Spec == Init /\ [][Next]_vars

\* A running thread goes on, a lock that stays free is granted, a callback returns.
FairSpec == Spec /\ \A t \in Threads : WF_vars(Step(t))

-----------------------------------------------------------------------------
(* Properties. *)

\* The stream is a durable log: lines are added whole and once, an append that
\* returned success is never lost, cut or reordered, whatever fails afterwards
\* (appendJSONL: recovery of the tail, file sync, directory sync, in that order
\* under the exclusive lock).
Stream == INSTANCE DurableLog WITH Entries <- Ids, log <- log.lines, acked <- acked["log"]
StreamIsDurable == Stream!Spec

\* So are the versions of the document: a reader finds a whole one, and after a
\* power failure one that is not older than the last acknowledged
\* (writeJSONAtomicLocked: sync before the rename, directory sync after it).
Versions == INSTANCE DurableLog WITH Entries <- Ids, log <- doc.pubs, acked <- acked["doc"]
DocumentIsDurable == Versions!Spec

\* While an operation or a callback runs on a handle its root descriptor is open,
\* although Close may be called at any moment by another thread (the lease of
\* beginOperation is held across the callback and the wait for the lock).
RootOpenWhileInUse ==
  \A t \in Threads : (pc[t] # "idle" /\ Op(t) # "close") => handle[Home(t)].root

\* Nobody works through a view whose callback has returned, also not a goroutine
\* that kept it: the advisory lock covers every operation of the view
\* (lockedFiles.mu and invalidate).
ViewWithinLock == \A u \in Threads : job[u].via # None => view[job[u].via] = "active"

\* A reader that holds its lock meets an unterminated line only after some
\* operation has failed or died, and a callback never does (the shared and
\* exclusive locks of the stream; recoverAndReadJSONL).
ReadersSeeWholeLines ==
  \A t \in Threads : (pc[t] = "read" /\ log.tail) => Op(t) = "read" /\ faults > 0

\* What a callback appends follows what it read: between its replay of the
\* stream and its append no other callback, of any process, has appended
\* (WithExclusiveLock around both).
ReplayThenAppend ==
  [][\A t \in Threads :
       (pc[t] \in {"writeRest", "writeTorn"} /\ pc'[t] = "sync" /\ job[t].via = t /\ job[t].saw # None) =>
         \A i \in (job[t].saw + 1)..Len(log.lines) :
           \A u \in Threads \ {t} : <<log.lines[i], u>> \notin guarded]_vars

\* Every call returns: Close too, because the operations it waits for end and no
\* new one begins.
RootedCallsReturn == \A t \in Threads : pc[t] # "idle" ~> pc[t] = "idle"

\* An append that returned success is in the stream (AppendJSONL: "durably
\* appends it"; appendJSONL: "Every successful append closes that window").
AcknowledgedSurvives == acked["log"] \subseteq {log.lines[i] : i \in 1..Len(log.lines)}
=============================================================================
