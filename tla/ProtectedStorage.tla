--------------------------- MODULE ProtectedStorage ---------------------------
(***************************************************************************)
(* The storage boundary of protected writes (protected.go).                *)
(*                                                                         *)
(* A client first inspects records, under the shared lock, and gets the    *)
(* revision of each; later it submits a batch of operations, which may     *)
(* name those revisions as expected.  Under the exclusive lock the storage *)
(* prepares evidence for every operation (pre-image, candidate image,      *)
(* revision, and the revision the record will have), takes a lease on the  *)
(* owner's policies, lets the coordinator decide, and executes.            *)
(*                                                                         *)
(* The coordinator is a library's (dal-go/dalgo access).  Policies are     *)
(* published meanwhile, on the same mount, which withdraws and reloads     *)
(* what it enforces, and elsewhere, which this mount does not hear of      *)
(* (OwnerPolicy models how); other programs write records in transactions  *)
(* of their own (RwTransaction models how).  All take the same lock.       *)
(*                                                                         *)
(* A record is an image, a function of fields; a file holds one record or  *)
(* a map of records.  The revision of a record is a hash of its name, its  *)
(* existence and the bytes of its file, and stands for those.              *)
(***************************************************************************)
EXTENDS Naturals, Sequences, FiniteSets

CONSTANTS
  Clients,
  Keys,               \* records
  Paths, PathOf,      \* files, and the file of each record
  MapPaths,           \* files in MapOfRecords layout
  Fields, Values,
  None, Absent, Torn,
  Permits,            \* Permits[g]: the records that policy generation g lets clients write
  Batches,            \* what clients submit: sequences of operations on distinct records
  OtherWrites,        \* what other programs do: <<record, its image or None>>
  Scenarios,          \* bounds: [calls, writes, faults, manage], calls of clients,
                      \* transactions of other programs, faults, whether policies change
  MaxCalls, MaxWrites, MaxFaults  \* bounds: the largest of those

Generations == DOMAIN Permits
Images == [Fields -> Values]
Data   == UNION {[S -> Values] : S \in SUBSET Fields}
Operations == [action : {"insert", "set", "update", "delete"}, key : Keys, data : Data]

KeysAt(path) == {k \in Keys : PathOf[k] = path}
\* The records a file can hold.
Records(path) ==
  UNION {[S -> Images] : S \in IF path \in MapPaths THEN SUBSET KeysAt(path) ELSE {KeysAt(path)}}

ASSUME ProtectedConstantsAssumption ==
  /\ MapPaths \subseteq Paths /\ PathOf \in [Keys -> Paths]
  /\ \A k, j \in Keys : (PathOf[k] = PathOf[j] /\ k # j) => PathOf[k] \in MapPaths
  /\ Permits \in Seq(SUBSET Keys) /\ Permits # <<>>
  /\ Batches \subseteq Seq(Operations)
  /\ \A b \in Batches :
       /\ \A i, j \in DOMAIN b : b[i].key = b[j].key => i = j
       /\ \A i \in DOMAIN b : b[i].action \in {"insert", "set"} => b[i].data \in Images
  /\ OtherWrites \subseteq Keys \X (Images \cup {None})
  /\ None \notin Images /\ None \notin Generations
  /\ \A path \in Paths : {Absent, Torn} \cap Records(path) = {}
  /\ Absent # Torn
  /\ MaxCalls \in Nat /\ MaxWrites \in Nat /\ MaxFaults \in Nat
  /\ Scenarios \subseteq [calls : 0..MaxCalls, writes : 0..MaxWrites, faults : 0..MaxFaults,
                          manage : BOOLEAN]

VARIABLES
  scenario,           \* the bounds of this behaviour
  tree,               \* the record files
  lock,               \* the project's advisory lock
  head, live,         \* the committed policy generation; the one the mount enforces, or None
  pub,                \* the management call on the mount: "idle", "publish", "activate"
  elsewhere,          \* history: generations committed elsewhere since the mount last loaded
  pc, job,            \* where each client is, and the locals of its call
  known,              \* known[c][k]: revision and file that c's last inspection found for k
  outcome,            \* how its last call returned
  calls, writes, faults

vars == <<scenario, tree, lock, head, live, pub, elsewhere, pc, job, known, outcome, calls, writes,
          faults>>
policy == <<head, live, pub, elsewhere>>
bounds == <<scenario, calls, writes>>

\* A file holds records, or is Absent, or Torn: bytes that do not parse.
Contents(path) == {Absent, Torn} \cup Records(path)
Content == UNION {Contents(path) : path \in Paths}
\* The contents of some of the files.
Partial == UNION {{f \in [S -> Content] : \A path \in S : f[path] \in Contents(path)} :
                    S \in SUBSET Paths}

RecordsIn(content) == IF content \in {Absent, Torn} THEN {} ELSE DOMAIN content
\* The image of a record, or None.
Image(content, k) == IF k \in RecordsIn(content) THEN content[k] ELSE None

NoJob == [kind |-> "none", ops |-> <<>>, guarded |-> FALSE, evidence |-> <<>>, lease |-> None,
          done |-> 0, snapshots |-> <<>>, begun |-> <<>>]

ExecutionPCs == {"execute", "executed", "rollback"}
LeasedPCs    == {"decide"} \cup ExecutionPCs
LockedPCs    == {"prepare", "lease"} \cup LeasedPCs
PCs          == {"idle", "wait"} \cup LockedPCs

Writing(c) == pc[c] \in LockedPCs /\ job[c].kind = "execute"
Reading(c) == pc[c] \in LockedPCs /\ job[c].kind = "inspect"

TypeOK ==
  /\ scenario \in Scenarios
  /\ DOMAIN tree = Paths /\ \A path \in Paths : tree[path] \in Contents(path)
  /\ lock = [writer  |-> {c \in Clients : Writing(c)}, readers |-> {c \in Clients : Reading(c)}]
  /\ Cardinality(lock.writer) <= 1 /\ (lock.writer = {} \/ lock.readers = {})
  /\ head \in Generations /\ live \in Generations \cup {None}
  /\ pub \in {"idle", "publish", "activate"} /\ elsewhere \subseteq Generations
  /\ pc \in [Clients -> PCs]
  /\ \A c \in Clients :
       /\ job[c].kind \in {"none", "inspect", "execute"}
       /\ job[c].ops \in Batches \cup {<<>>}
       /\ Len(job[c].evidence) <= Len(job[c].ops) /\ job[c].done <= Len(job[c].ops)
       /\ job[c].snapshots \in Partial
       /\ pc[c] \in LeasedPCs => job[c].lease \in Generations
       /\ DOMAIN known[c] \subseteq Keys
  /\ outcome \in [Clients -> {"none", "ok", "failed", "rollbackFailed", "crashed"}]
  /\ calls \in 0..MaxCalls /\ writes \in 0..MaxWrites /\ faults \in 0..MaxFaults

Fault == faults < scenario.faults /\ faults' = faults + 1
Goto(c, l) == pc' = [pc EXCEPT ![c] = l]

-----------------------------------------------------------------------------
(* A call begins, waits for the lock, returns. *)

Begin(c, kind, b, guarded) ==
  /\ pc[c] = "idle" /\ calls < scenario.calls
  /\ calls' = calls + 1
  /\ job' = [job EXCEPT ![c] = [NoJob EXCEPT !.kind = kind, !.ops = b, !.guarded = guarded]]
  /\ outcome' = [outcome EXCEPT ![c] = "none"]
  /\ Goto(c, "wait")
  /\ UNCHANGED <<tree, lock, policy, known, writes, faults, scenario>>

WithinProtectedInspection(c, b) == Begin(c, "inspect", b, FALSE)

\* With guarded, every operation names the revision that c knows of its record.
WithinProtectedExecution(c, b, guarded) ==
  /\ guarded => \A i \in DOMAIN b : b[i].key \in DOMAIN known[c]
  /\ Begin(c, "execute", b, guarded)

\* Mutant: a writer does not wait for readers.
FreeOfWriters(kind) == lock.writer = {}

\* The advisory lock, of which there may be one writer or many readers.
Free(kind) == lock.writer = {} /\ (kind = "execute" => lock.readers = {})

\* withProtectedLock: TryRLockContext or TryLockContext, every ten milliseconds.
AcquireLock(c) ==
  /\ pc[c] = "wait" /\ Free(job[c].kind)
  /\ lock' = IF job[c].kind = "execute" THEN [lock EXCEPT !.writer = {c}]
                                        ELSE [lock EXCEPT !.readers = @ \cup {c}]
  /\ job' = [job EXCEPT ![c].begun = tree]
  /\ Goto(c, "prepare")
  /\ UNCHANGED <<tree, policy, known, outcome, bounds, faults>>

\* The call returns and unlocks.  An inspection leaves what it found with the
\* client, as does an execution that succeeds, with what it predicted.
Return(c, result, facts) ==
  /\ Goto(c, "idle")
  /\ job' = [job EXCEPT ![c] = NoJob]
  /\ outcome' = [outcome EXCEPT ![c] = result]
  /\ known' = [known EXCEPT ![c] = facts]
  /\ lock' = [writer |-> lock.writer \ {c}, readers |-> lock.readers \ {c}]

Fail(c) == Return(c, "failed", known[c])

\* The context ends while c waits.
LockCancelled(c) ==
  /\ pc[c] = "wait"
  /\ Fault /\ Fail(c)
  /\ UNCHANGED <<tree, policy, bounds>>

-----------------------------------------------------------------------------
(* prepare. *)

\* Mutant: only the record's own bytes are hashed.
RevisionOfRecord(k, exists, content) == <<k, exists, Image(content, k)>>

\* revision: an HMAC of name, existence and the bytes of the file.
Revision(k, exists, content) == <<k, exists, content>>

DataRevision(k, content) == Revision(k, k \in RecordsIn(content), content)

\* The image that the operation is to leave; None for a deletion and for an
\* update of a missing record.
Candidate(op, pre) ==
  CASE op.action = "delete" -> None
    [] op.action = "update" /\ pre = None -> None
    [] op.action = "update" /\ pre # None ->
         [f \in Fields |-> IF f \in DOMAIN op.data THEN op.data[f] ELSE pre[f]]
    [] OTHER -> op.data

\* The evidence of the next operation; a file that does not parse is an error.
PrepareOperation(c) ==
  LET i    == Len(job[c].evidence) + 1
      op   == job[c].ops[i]
      file == tree[PathOf[op.key]]
      pre  == Image(file, op.key)
  IN
  /\ pc[c] = "prepare" /\ i <= Len(job[c].ops)
  /\ IF file = Torn
       THEN Fail(c)
       ELSE /\ job' = [job EXCEPT ![c].evidence =
                         Append(@, [exists |-> pre # None, candidate |-> Candidate(op, pre),
                                    revision |-> DataRevision(op.key, file), receipt |-> None])]
            /\ UNCHANGED <<lock, pc, known, outcome>>
  /\ UNCHANGED <<tree, policy, bounds, faults>>

\* The operations of the batch on one file, of those whose image is known.
OpsAt(c, path) ==
  {i \in DOMAIN job[c].ops :
     /\ PathOf[job[c].ops[i].key] = path
     /\ job[c].ops[i].action = "delete" \/ job[c].evidence[i].candidate # None}

\* What the whole batch leaves in a file.
Predicted(c, path) ==
  LET S       == OpsAt(c, path)
      deleted == {job[c].ops[i].key : i \in {j \in S : job[c].ops[j].action = "delete"}}
      stored  == {job[c].ops[i].key : i \in S} \ deleted
      result  == [k \in (RecordsIn(tree[path]) \ deleted) \cup stored |->
                    IF k \in stored
                    THEN job[c].evidence[CHOOSE i \in S : job[c].ops[i].key = k].candidate
                    ELSE tree[path][k]]
  IN IF path \notin MapPaths /\ stored = {} THEN Absent ELSE result

\* Mutant: of a map of records, only the record's own operation is counted in.
ReceiptOfOne(c, i) ==
  LET k    == job[c].ops[i].key
      file == tree[PathOf[k]]
  IN Revision(k, TRUE, [j \in RecordsIn(file) \cup {k} |->
                          IF j = k THEN job[c].evidence[i].candidate ELSE file[j]])

\* assignBatchCandidateRevisions: a record in a map counts as existing, also when
\* the batch deletes it.
Receipt(c, i) ==
  LET k    == job[c].ops[i].key
      file == Predicted(c, PathOf[k])
  IN Revision(k, PathOf[k] \in MapPaths \/ file # Absent, file)

AssignReceipts(c) ==
  /\ pc[c] = "prepare" /\ Len(job[c].evidence) = Len(job[c].ops)
  /\ job' = [job EXCEPT ![c].evidence =
               [i \in DOMAIN @ |-> [@[i] EXCEPT !.receipt = Receipt(c, i)]]]
  /\ Goto(c, "lease")
  /\ UNCHANGED <<tree, lock, policy, known, outcome, bounds, faults>>

-----------------------------------------------------------------------------
(* The coordinator's callback. *)

\* ownerPolicyLease: the policies the mount enforces; none while they change.
Lease(c) ==
  /\ pc[c] = "lease"
  /\ IF live = None
       THEN Fail(c)
       ELSE /\ job' = [job EXCEPT ![c].lease = live]
            /\ Goto(c, "decide")
            /\ UNCHANGED <<lock, known, outcome>>
  /\ UNCHANGED <<tree, policy, bounds, faults>>

\* Evidence, for the client of an inspection.
Facts(c) ==
  [k \in {job[c].ops[i].key : i \in DOMAIN job[c].ops} |->
     [revision |-> job[c].evidence[CHOOSE i \in DOMAIN job[c].ops : job[c].ops[i].key = k].revision,
      file     |-> tree[PathOf[k]]]]

Inspected(c) ==
  /\ pc[c] = "decide" /\ job[c].kind = "inspect"
  /\ Return(c, "ok", Facts(c))
  /\ UNCHANGED <<tree, policy, bounds, faults>>

\* Coordinator: the policies permit every operation and the expected revisions
\* are those of the evidence.
Permitted(c) == \A i \in DOMAIN job[c].ops : job[c].ops[i].key \in Permits[job[c].lease]
AsExpected(c) ==
  job[c].guarded =>
    \A i \in DOMAIN job[c].ops :
      known[c][job[c].ops[i].key].revision = job[c].evidence[i].revision

Decide(c) ==
  /\ pc[c] = "decide" /\ job[c].kind = "execute"
  /\ IF Permitted(c) /\ AsExpected(c)
       THEN Goto(c, "execute") /\ UNCHANGED <<lock, job, known, outcome>>
       ELSE Fail(c)
  /\ UNCHANGED <<tree, policy, bounds, faults>>

-----------------------------------------------------------------------------
(* Execute. *)

\* An insert of a record that is there, an update or a deletion of one that is
\* not.
Refused(op, evidence) ==
  IF op.action = "insert" THEN evidence.exists ELSE op.action # "set" /\ ~evidence.exists

\* What the file holds once the record has the image, or none.
Stored(path, k, image) ==
  LET kept == (IF path \in MapPaths THEN RecordsIn(tree[path]) ELSE {}) \ {k} IN
  IF image = None /\ path \notin MapPaths THEN Absent
  ELSE [j \in kept \cup (IF image = None THEN {} ELSE {k}) |-> IF j = k THEN image ELSE tree[path][j]]

\* snapshot, before the first change of a file.
Snapshot(c, path) ==
  [p \in DOMAIN job[c].snapshots \cup {path} |->
     IF p \in DOMAIN job[c].snapshots THEN job[c].snapshots[p] ELSE tree[p]]

Rollback(c) == Goto(c, "rollback") /\ UNCHANGED <<lock, known, outcome>>

\* The next operation is refused, written, or fails with its file whole or torn.
ExecuteOperation(c) ==
  LET i    == job[c].done + 1
      op   == job[c].ops[i]
      path == PathOf[op.key]
  IN
  /\ pc[c] = "execute" /\ i <= Len(job[c].ops)
  /\ \/ /\ Refused(op, job[c].evidence[i])
        /\ Rollback(c)
        /\ UNCHANGED <<tree, job, faults>>
     \/ /\ ~Refused(op, job[c].evidence[i])
        /\ tree' = [tree EXCEPT ![path] = Stored(path, op.key, job[c].evidence[i].candidate)]
        /\ job' = [job EXCEPT ![c].done = i, ![c].snapshots = Snapshot(c, path)]
        /\ UNCHANGED <<lock, pc, known, outcome, faults>>
     \/ /\ ~Refused(op, job[c].evidence[i]) /\ Fault
        /\ tree' \in {tree, [tree EXCEPT ![path] = Torn]}
        /\ job' = [job EXCEPT ![c].snapshots = Snapshot(c, path)]
        /\ Rollback(c)
  /\ UNCHANGED <<policy, bounds>>

\* The context ends between two operations.
ExecutionCancelled(c) ==
  /\ pc[c] = "execute" /\ job[c].done < Len(job[c].ops)
  /\ Fault /\ Rollback(c)
  /\ UNCHANGED <<tree, policy, job, bounds>>

ExecutionDone(c) ==
  /\ pc[c] = "execute" /\ job[c].done = Len(job[c].ops)
  /\ Goto(c, "executed")
  /\ UNCHANGED <<tree, lock, policy, job, known, outcome, bounds, faults>>

\* The callback returns nil; the client may go on from the predicted revisions.
Succeed(c) ==
  /\ pc[c] = "executed"
  /\ Return(c, "ok",
            [k \in {job[c].ops[i].key : i \in DOMAIN job[c].ops} |->
               [revision |-> job[c].evidence[CHOOSE i \in DOMAIN job[c].ops :
                                               job[c].ops[i].key = k].receipt,
                file     |-> tree[PathOf[k]]]])
  /\ UNCHANGED <<tree, policy, bounds, faults>>

\* The callback returns an error after Execute, or calls Execute a second time
\* and passes on the refusal.
CallbackFails(c) ==
  /\ pc[c] = "executed"
  /\ Rollback(c)
  /\ UNCHANGED <<tree, policy, job, bounds, faults>>

\* Mutant: only the files of operations that went through are restored.
RestoreDone(c) ==
  /\ pc[c] = "rollback"
  /\ LET done == {PathOf[job[c].ops[i].key] : i \in 1..job[c].done} IN
     tree' = [path \in Paths |-> IF path \in DOMAIN job[c].snapshots \cap done
                                 THEN job[c].snapshots[path] ELSE tree[path]]
  /\ Fail(c)
  /\ UNCHANGED <<policy, bounds, faults>>

\* restoreSnapshots; nobody can look before the lock is released.
Restore(c) ==
  /\ pc[c] = "rollback"
  /\ tree' = [path \in Paths |-> IF path \in DOMAIN job[c].snapshots
                                 THEN job[c].snapshots[path] ELSE tree[path]]
  /\ Fail(c)
  /\ UNCHANGED <<policy, bounds, faults>>

\* One of the files cannot be restored; those after it are left.
RestoreFails(c) ==
  /\ pc[c] = "rollback" /\ job[c].snapshots # <<>>
  /\ Fault
  /\ \E S \in SUBSET DOMAIN job[c].snapshots :
       /\ S # DOMAIN job[c].snapshots
       /\ tree' = [path \in Paths |-> IF path \in S THEN job[c].snapshots[path] ELSE tree[path]]
  /\ Return(c, "rollbackFailed", known[c])
  /\ UNCHANGED <<policy, bounds>>

\* The process is killed, or the callback panics: the lock goes, the files stay.
Crash(c) ==
  /\ pc[c] # "idle"
  /\ Fault
  /\ Return(c, "crashed", <<>>)
  /\ UNCHANGED <<tree, policy, bounds>>

-----------------------------------------------------------------------------
(* Others that take the lock. *)

\* A transaction of another program writes a record, or deletes it.
OtherTransaction(k, image) ==
  /\ Free("execute") /\ writes < scenario.writes
  /\ tree[PathOf[k]] # Torn
  /\ writes' = writes + 1
  /\ tree' = [tree EXCEPT ![PathOf[k]] = Stored(PathOf[k], k, image)]
  /\ UNCHANGED <<lock, policy, pc, job, known, outcome, calls, faults, scenario>>

\* PublishOwnerPolicyGeneration (step "publish") and ReloadOwnerPolicies
\* ("activate") on the mount: admissions close first.
ManagePolicies(step) ==
  /\ scenario.manage /\ pub = "idle" /\ (step = "publish" => head < Len(Permits))
  /\ live' = None /\ pub' = step
  /\ UNCHANGED <<tree, lock, head, elsewhere, pc, job, known, outcome, bounds, faults>>

\* Mutant: the commit does not take the lock.
CommitGenerationUnlocked ==
  /\ pub = "publish" /\ head < Len(Permits)
  /\ head' = head + 1 /\ pub' = "activate"
  /\ UNCHANGED <<tree, lock, live, elsewhere, pc, job, known, outcome, bounds, faults>>

\* Under the exclusive lock HEAD moves to the next generation.
CommitGeneration ==
  /\ pub = "publish" /\ head < Len(Permits) /\ Free("execute")
  /\ head' = head + 1 /\ pub' = "activate"
  /\ UNCHANGED <<tree, lock, live, elsewhere, pc, job, known, outcome, bounds, faults>>

\* The publication fails before its commit, of an error or because another
\* publisher has moved HEAD; the policies are reloaded.
PublishFails ==
  /\ pub = "publish"
  /\ pub' = "activate"
  /\ UNCHANGED <<tree, lock, head, live, elsewhere, pc, job, known, outcome, bounds, faults>>

\* The committed generation is loaded under the lock and installed, or the
\* mount stays closed.
Activate ==
  /\ pub = "activate"
  /\ \/ Free("execute") /\ live' = head /\ elsewhere' = {} /\ UNCHANGED faults
     \/ Fault /\ UNCHANGED <<live, elsewhere>>
  /\ pub' = "idle"
  /\ UNCHANGED <<tree, lock, head, pc, job, known, outcome, bounds>>

\* Publish of an OwnerPolicyController, of another handle or of another process:
\* HEAD moves under the lock, and this mount enforces what it did.
PublishElsewhere ==
  /\ scenario.manage /\ head < Len(Permits) /\ Free("execute")
  /\ head' = head + 1 /\ elsewhere' = elsewhere \cup {head + 1}
  /\ UNCHANGED <<tree, lock, live, pub, pc, job, known, outcome, bounds, faults>>

-----------------------------------------------------------------------------
\* Files that parse, and a mount that enforces what is committed.
Init ==
  /\ scenario \in Scenarios
  /\ tree \in {t \in [Paths -> Content] :
                 \A path \in Paths :
                   \/ t[path] = Absent
                   \/ \E v \in Images : t[path] = [k \in KeysAt(path) |-> v]}
  /\ lock = [writer |-> {}, readers |-> {}]
  /\ head = 1 /\ live = 1 /\ pub = "idle" /\ elsewhere = {}
  /\ pc = [c \in Clients |-> "idle"]
  /\ job = [c \in Clients |-> NoJob]
  /\ known = [c \in Clients |-> <<>>]
  /\ outcome = [c \in Clients |-> "none"]
  /\ calls = 0 /\ writes = 0 /\ faults = 0

Call(c) ==
  \E b \in Batches :
    \/ WithinProtectedInspection(c, b)
    \/ \E guarded \in BOOLEAN : WithinProtectedExecution(c, b, guarded)

Step(c) ==
  \/ PrepareOperation(c) \/ AssignReceipts(c) \/ Lease(c) \/ Inspected(c) \/ Decide(c)
  \/ ExecuteOperation(c) \/ ExecutionDone(c) \/ Succeed(c) \/ CallbackFails(c) \/ Restore(c)

Next ==
  \/ \E c \in Clients :
       \/ Call(c) \/ AcquireLock(c) \/ LockCancelled(c) \/ Step(c)
       \/ ExecutionCancelled(c) \/ RestoreFails(c) \/ Crash(c)
  \/ \E w \in OtherWrites : OtherTransaction(w[1], w[2])
  \/ \E step \in {"publish", "activate"} : ManagePolicies(step)
  \/ CommitGeneration \/ PublishFails \/ Activate \/ PublishElsewhere

Spec == Init /\ [][Next]_vars

-----------------------------------------------------------------------------
(* Properties. *)

\* An execution of c returns.
Returns(c, result) ==
  job[c].kind = "execute" /\ pc[c] # "idle" /\ pc'[c] = "idle" /\ outcome'[c] = result

\* What an operation asks for, given the record before it.
Intended(op, before) ==
  CASE op.action = "delete" -> None
    [] op.action = "update" -> [f \in Fields |-> IF f \in DOMAIN op.data THEN op.data[f] ELSE before[f]]
    [] OTHER -> op.data

\* A batch that succeeds has done to every record of it what was asked, against
\* the records as they were when it got the lock, and nothing to any other; a
\* batch that fails, refused, cancelled, half written or failed by its caller
\* after Execute, has done nothing (WithinProtectedExecution, restoreSnapshots).
BatchIsAtomic ==
  [][\A c \in Clients :
       LET before(k) == Image(job[c].begun[PathOf[k]], k) IN
       /\ Returns(c, "failed") /\ pc[c] # "wait" => tree' = job[c].begun
       /\ Returns(c, "ok") =>
            \A k \in Keys :
              LET on == {i \in DOMAIN job[c].ops : job[c].ops[i].key = k} IN
              Image(tree'[PathOf[k]], k) =
                IF on = {} THEN before(k)
                ELSE Intended(job[c].ops[CHOOSE i \in on : TRUE], before(k))]_vars

\* A guarded batch succeeds only if the files of its records are, byte for byte,
\* what its client's inspection or last success saw, although others had the lock
\* in between: no change is overwritten unseen (prepare under the exclusive lock,
\* revision over the whole file).
NoUnseenOverwrite ==
  [][\A c \in Clients : (Returns(c, "ok") /\ job[c].guarded) =>
       \A i \in DOMAIN job[c].ops :
         known[c][job[c].ops[i].key].file = job[c].begun[PathOf[job[c].ops[i].key]]]_vars

\* The revision that a successful batch predicts for a record is the one that the
\* next inspection of it finds, also when several operations share a file;
\* deletions in a map of records excepted (assignBatchCandidateRevisions).
ReceiptIsRevision ==
  [][\A c \in Clients : Returns(c, "ok") =>
       \A i \in DOMAIN job[c].ops :
         LET op == job[c].ops[i] IN
         \/ op.action = "delete" /\ PathOf[op.key] \in MapPaths
         \/ job[c].evidence[i].receipt = DataRevision(op.key, tree'[PathOf[op.key]])]_vars

\* Generations committed after g.
Newer(g) == {h \in Generations : g < h /\ h <= head}

\* No generation is committed from the lease of a call to its end; and a batch is
\* executed only if the policies of its lease permit all of it, which are the
\* committed ones but for generations that were published elsewhere since the
\* mount last loaded: what is revoked through the mount is never written after
\* (README "acquires the storage boundary before policy leases and retains them
\* through evidence, authorization and commit", ownerPolicyLease, activation).
RevocationHolds ==
  [][\A c \in Clients :
       /\ pc[c] \in LeasedPCs /\ pc'[c] \in LeasedPCs => head' = head
       /\ pc[c] # "execute" /\ pc'[c] = "execute" =>
            /\ \A i \in DOMAIN job[c].ops : job[c].ops[i].key \in Permits[job[c].lease]
            /\ Newer(job[c].lease) \subseteq elsewhere]_vars
=============================================================================
