---------------------------- MODULE RwTransaction ----------------------------
(***************************************************************************)
(* Record transactions over the working tree and Git (database.go,         *)
(* tx_readwrite.go, tx_readonly.go, record_io.go, foreign_keys.go,         *)
(* git_commit.go, filelock.go).                                            *)
(*                                                                         *)
(* A read-write transaction takes the project's advisory lock, journals    *)
(* each record file in memory before first changing it, runs the caller's  *)
(* worker, and then either restores the journal or, when it was given a    *)
(* message, commits exactly the changed files: it reads HEAD, builds a     *)
(* tree in a disposable index and moves HEAD by compare-and-swap.  Other   *)
(* programs use Git in the same repository without taking the lock.        *)
(*                                                                         *)
(* A record is a key with one value; the value is Plain or the key of a    *)
(* parent, held in a foreign-key column.  A file holds one record or a map *)
(* of records.                                                             *)
(***************************************************************************)
EXTENDS Naturals, FiniteSets

CONSTANTS
  Procs,              \* goroutines or processes that use the project
  Keys,               \* record keys
  Parents,            \* the keys that foreign keys may refer to
  Paths,              \* record files, numbered in the order of their names
  PathOf,             \* PathOf[k]: the file that holds record k
  MapPaths,           \* the files in MapOfRecords layout
  None, Absent, Torn, Plain,
  Scenarios,          \* bounds: [kinds, txs, ops, faults], which kinds of fault happen,
                      \* transactions begun, operations in one of them, faults of any kind
  MaxTxs, MaxOps, MaxFaults,  \* bounds: the largest of those
  MaxCommits          \* bound: commits made by other programs

ValuesOf(k) == IF k \in Parents THEN {Plain} ELSE {Plain} \cup Parents
KeysAt(path) == {k \in Keys : PathOf[k] = path}

\* The records a file can hold.
Records(path) ==
  UNION {{f \in [S -> Parents \cup {Plain}] : \A k \in S : f[k] \in ValuesOf(k)} :
           S \in IF path \in MapPaths THEN SUBSET KeysAt(path) ELSE {KeysAt(path)}}

ASSUME RwConstantsAssumption ==
  /\ Parents \subseteq Keys
  /\ Paths \subseteq Nat
  /\ MapPaths \subseteq Paths
  /\ PathOf \in [Keys -> Paths]
  /\ \A k, j \in Keys : (PathOf[k] = PathOf[j] /\ k # j) => PathOf[k] \in MapPaths
  /\ None \notin Procs
  /\ {Absent, Torn, Plain} \cap Keys = {} /\ Absent # Torn
  /\ \A path \in Paths : {Absent, Torn} \cap Records(path) = {}
  /\ MaxTxs \in Nat /\ MaxOps \in Nat /\ MaxCommits \in Nat /\ MaxFaults \in Nat
  /\ Scenarios \subseteq [kinds : SUBSET {"error", "crash", "panic", "killed", "nogit"},
                          txs : 0..MaxTxs, ops : 0..MaxOps, faults : 0..MaxFaults]

VARIABLES
  scenario,           \* the bounds of this behaviour
  tree,               \* the record files of the working tree
  head,               \* the commit at HEAD; id 0 is the unborn branch
  lock,               \* advisory locks, by lock file
  pc,                 \* where each process is
  tx,                 \* its transaction, in memory
  outcome,            \* how its last call returned
  damaged,            \* history: a transaction ended with its changes half made
  txs, commits, faults

vars == <<scenario, tree, head, lock, pc, tx, outcome, damaged, txs, commits, faults>>

\* transactionLockPath gives one of two lock files.
LockFiles == {"git", "cache"}

\* A file holds records, or is Absent, or Torn: bytes that do not parse.
Contents(path) == {Absent, Torn} \cup Records(path)
Content == UNION {Contents(path) : path \in Paths}
Trees   == {t \in [Paths -> Content] : \A path \in Paths : t[path] \in Contents(path)}
EmptyTree == [path \in Paths |-> Absent]

\* readwriteTx and the locals of runReadwriteTransaction and gitCommitPaths;
\* begun (history) is the tree under which the lock was taken.
NoTx == [lockFile |-> "git", message |-> FALSE, snapshots |-> <<>>, written |-> {},
         ops |-> 0, ioError |-> FALSE, oldHead |-> 0, newTree |-> EmptyTree,
         pending |-> {}, begun |-> EmptyTree, seen |-> <<>>]
\* The contents of some of the files.
Partial == UNION {{f \in [S -> Content] : \A path \in S : f[path] \in Contents(path)} :
                    S \in SUBSET Paths}
Txs == [lockFile : LockFiles, message : BOOLEAN, snapshots : Partial,
        written : SUBSET Paths, ops : 0..MaxOps, ioError : BOOLEAN, oldHead : Nat,
        newTree : Trees, pending : SUBSET Paths, begun : Trees, seen : Partial]

WriterPCs == {"work", "stage", "publish", "rollback"}
PCs == WriterPCs \cup {"idle", "waitRW", "waitRO", "read"}
Outcomes == {"none", "ok", "failed", "rollbackFailed", "panicked", "crashed"}

TypeOK ==
  /\ scenario \in Scenarios
  /\ tree \in Trees
  /\ head \in [id : Nat, tree : Trees]
  /\ lock \in [LockFiles -> [writer : Procs \cup {None}, readers : SUBSET Procs]]
  /\ pc \in [Procs -> PCs]
  /\ tx \in [Procs -> Txs]
  /\ outcome \in [Procs -> Outcomes]
  /\ damaged \in BOOLEAN
  /\ txs \in 0..MaxTxs /\ commits \in 0..MaxCommits /\ faults \in 0..MaxFaults

-----------------------------------------------------------------------------
(* Faults: an I/O or Git command fails ("error"), a process is killed      *)
(* ("crash"), the worker panics, `git update-ref` is killed by the context *)
(* after it moved the ref ("killed"), a `git rev-parse` cannot run, because*)
(* the context is over or Git is unavailable ("nogit").                    *)

Fault(kind) ==
  /\ kind \in scenario.kinds
  /\ faults < scenario.faults
  /\ faults' = faults + 1

-----------------------------------------------------------------------------
(* Reading records. *)

Readable(path) == tree[path] # Torn
RecordsAt(path) == IF tree[path] \in {Absent, Torn} THEN {} ELSE DOMAIN tree[path]

\* foreignKeyTargetExists, and the lookup in Get: the file holds the record.
RecordExists(k) == k \in RecordsAt(PathOf[k])

\* The value v of a foreign key resolves (validateWriteForeignKeys); the lookup
\* fails on a file that does not parse.
ReferenceResolves(v) == v \in Parents => RecordExists(v)

\* Mutant: the scan looks at the parent's own file only.
UnreferencedLocally(k) ==
  \A j \in RecordsAt(PathOf[k]) : tree[PathOf[k]][j] # k

\* validateDeleteForeignKeys: every collection can be read and none of its
\* records refers to k.
Unreferenced(k) ==
  k \in Parents =>
    \A path \in {PathOf[j] : j \in Keys \ Parents} :
      /\ Readable(path)
      /\ \A j \in RecordsAt(path) : tree[path][j] # k

-----------------------------------------------------------------------------
(* Entering and leaving a transaction. *)

\* transactionLockPath asks Git for the lock file and takes the one in the
\* cache directory when the command fails.
ChooseLockFile(l) ==
  \/ l = "git" /\ UNCHANGED faults
  \/ l = "cache" /\ Fault("nogit")

\* RunReadwriteTransaction, with or without a message.
BeginReadwrite(p, m, l) ==
  /\ pc[p] = "idle" /\ txs < scenario.txs
  /\ ChooseLockFile(l)
  /\ txs' = txs + 1
  /\ pc' = [pc EXCEPT ![p] = "waitRW"]
  /\ tx' = [tx EXCEPT ![p] = [NoTx EXCEPT !.lockFile = l, !.message = m]]
  /\ outcome' = [outcome EXCEPT ![p] = "none"]
  /\ UNCHANGED <<tree, head, lock, damaged, commits, scenario>>

\* Mutant: the writer does not wait for readers.
AcquireExclusiveOverReaders(p) ==
  LET l == tx[p].lockFile IN
  /\ pc[p] = "waitRW"
  /\ lock[l].writer = None
  /\ lock' = [lock EXCEPT ![l].writer = p]
  /\ tx' = [tx EXCEPT ![p].begun = tree]
  /\ pc' = [pc EXCEPT ![p] = "work"]
  /\ UNCHANGED <<tree, head, outcome, damaged, txs, commits, faults, scenario>>

\* withExclusiveLock, then an empty journal.
AcquireExclusive(p) ==
  LET l == tx[p].lockFile IN
  /\ pc[p] = "waitRW"
  /\ lock[l].writer = None /\ lock[l].readers = {}
  /\ lock' = [lock EXCEPT ![l].writer = p]
  /\ tx' = [tx EXCEPT ![p].begun = tree]
  /\ pc' = [pc EXCEPT ![p] = "work"]
  /\ UNCHANGED <<tree, head, outcome, damaged, txs, commits, faults, scenario>>

\* RunReadonlyTransaction, and the reads of Database itself.
BeginReadonly(p, l) ==
  /\ pc[p] = "idle" /\ txs < scenario.txs
  /\ ChooseLockFile(l)
  /\ txs' = txs + 1
  /\ pc' = [pc EXCEPT ![p] = "waitRO"]
  /\ tx' = [tx EXCEPT ![p] = [NoTx EXCEPT !.lockFile = l]]
  /\ outcome' = [outcome EXCEPT ![p] = "none"]
  /\ UNCHANGED <<tree, head, lock, damaged, commits, scenario>>

\* withSharedLock
AcquireShared(p) ==
  LET l == tx[p].lockFile IN
  /\ pc[p] = "waitRO"
  /\ lock[l].writer = None
  /\ lock' = [lock EXCEPT ![l].readers = @ \cup {p}]
  /\ tx' = [tx EXCEPT ![p].begun = tree]
  /\ pc' = [pc EXCEPT ![p] = "read"]
  /\ UNCHANGED <<tree, head, outcome, damaged, txs, commits, faults, scenario>>

\* The deferred Unlock of either kind of lock.
Unlocked(p) ==
  [lock EXCEPT ![tx[p].lockFile] =
     [writer |-> IF @.writer = p THEN None ELSE @.writer, readers |-> @.readers \ {p}]]

\* The transaction of p ended in a way that keeps neither all nor none of it.
HalfMade(p, result) ==
  \/ result \in {"rollbackFailed", "panicked", "crashed"} /\ tx[p].snapshots # <<>>
  \/ result = "ok" /\ tx[p].ioError

\* The call returns; what the transaction kept in memory is gone.
Return(p, result) ==
  /\ pc' = [pc EXCEPT ![p] = "idle"]
  /\ tx' = [tx EXCEPT ![p] = NoTx]
  /\ outcome' = [outcome EXCEPT ![p] = result]
  /\ damaged' = (damaged \/ HalfMade(p, result))
  /\ lock' = Unlocked(p)

-----------------------------------------------------------------------------
(* A read-only transaction. *)

\* Get, Exists: one record file is read, or cannot be parsed.
ReadFile(p, path) ==
  /\ pc[p] = "read"
  /\ path \notin DOMAIN tx[p].seen
  /\ tx' = [tx EXCEPT ![p].seen =
              [q \in DOMAIN @ \cup {path} |-> IF q = path THEN tree[path] ELSE @[q]]]
  /\ UNCHANGED <<tree, head, lock, pc, outcome, damaged, txs, commits, faults, scenario>>

EndReadonly(p) ==
  /\ pc[p] = "read"
  /\ Return(p, "ok")
  /\ UNCHANGED <<tree, head, txs, commits, faults, scenario>>

-----------------------------------------------------------------------------
(* The worker of a read-write transaction: any sequence of operations.  An *)
(* operation that returns an error leaves it to the worker to go on.       *)

\* Mutant: every operation takes its own snapshot.
SnapshotEveryTime(p, path) ==
  [q \in DOMAIN tx[p].snapshots \cup {path} |->
     IF q = path THEN tree[q] ELSE tx[p].snapshots[q]]

\* snapshot: the first state of a touched file.
Snapshot(p, path) ==
  [q \in DOMAIN tx[p].snapshots \cup {path} |->
     IF q \in DOMAIN tx[p].snapshots THEN tx[p].snapshots[q] ELSE tree[q]]

\* The step is one more operation of p's worker.
Operation(p) ==
  /\ pc[p] = "work" /\ tx[p].ops < scenario.ops
  /\ UNCHANGED <<head, lock, pc, outcome, damaged, txs, commits, scenario>>

\* The operation writes c, and is tracked.
Write(p, path, c) ==
  /\ tree' = [tree EXCEPT ![path] = c]
  /\ tx' = [tx EXCEPT ![p].ops = @ + 1, ![p].snapshots = Snapshot(p, path),
                      ![p].written = @ \cup {path}]
  /\ UNCHANGED faults

\* What an interrupted write of c may leave: a prefix of its bytes, which for a
\* map of records may parse.  Removing a file leaves nothing between.
Remains(path, c) ==
  IF c = Absent THEN {}
  ELSE {Torn} \cup {[k \in S |-> c[k]] :
                      S \in IF path \in MapPaths /\ c # Torn THEN SUBSET DOMAIN c ELSE {}}

\* The write fails, before it changed the file or after it truncated it.
WriteFails(p, path, c) ==
  /\ Fault("error")
  /\ \E left \in {tree[path]} \cup Remains(path, c) :
       tree' = [tree EXCEPT ![path] = left]
  /\ tx' = [tx EXCEPT ![p].ops = @ + 1, ![p].snapshots = Snapshot(p, path),
                      ![p].ioError = TRUE]

\* The operation changes no record but has taken its snapshot: Delete of a
\* missing record, Insert of an existing one, a map of records that does not
\* parse.
Journalled(p, path) ==
  /\ tx' = [tx EXCEPT ![p].ops = @ + 1, ![p].snapshots = Snapshot(p, path)]
  /\ UNCHANGED <<tree, faults>>

\* What the file holds once record k has value v.
Stored(path, k, v) ==
  [j \in {k} \cup (IF path \in MapPaths THEN RecordsAt(path) ELSE {}) |->
     IF j = k THEN v ELSE tree[path][j]]

Store(p, path, c) == Write(p, path, c) \/ WriteFails(p, path, c)

\* Set.  A single-record file is replaced unread; a map of records is read first.
Set(p, k, v) ==
  LET path == PathOf[k] IN
  /\ Operation(p)
  /\ ReferenceResolves(v)
  /\ IF path \in MapPaths /\ ~Readable(path)
       THEN Journalled(p, path)
       ELSE Store(p, path, Stored(path, k, v))

\* Update: Set of a record that Get finds.
Update(p, k, v) == RecordExists(k) /\ Set(p, k, v)

\* Insert.  A single-record file that exists is a duplicate even if it does not parse.
Insert(p, k, v) ==
  LET path == PathOf[k]
      taken == IF path \in MapPaths THEN RecordExists(k) \/ ~Readable(path)
                                    ELSE tree[path] # Absent
  IN
  /\ Operation(p)
  /\ ReferenceResolves(v)
  /\ IF taken THEN Journalled(p, path) ELSE Store(p, path, Stored(path, k, v))

\* Mutant: the file of a deleted single record is truncated, not removed.
DeleteTruncates(p, k) ==
  LET path == PathOf[k] IN
  /\ Operation(p)
  /\ RecordExists(k) /\ Unreferenced(k)
  /\ Store(p, path, [j \in RecordsAt(path) \ {k} |-> tree[path][j]])

\* Delete.  The foreign keys of other records are looked up only for a record
\* that exists; the file of a single record goes, a map of records stays.
Delete(p, k) ==
  LET path == PathOf[k] IN
  /\ Operation(p)
  /\ Readable(path)
  /\ RecordExists(k) => Unreferenced(k)
  /\ IF RecordExists(k)
       THEN Store(p, path, IF path \in MapPaths
                             THEN [j \in RecordsAt(path) \ {k} |-> tree[path][j]]
                             ELSE Absent)
       ELSE Journalled(p, path)

-----------------------------------------------------------------------------
(* The end of a read-write transaction (runReadwriteTransaction). *)

\* Restoring starts, over every touched file.
Rollback(p) ==
  /\ pc' = [pc EXCEPT ![p] = "rollback"]
  /\ tx' = [tx EXCEPT ![p].pending = DOMAIN tx[p].snapshots]
  /\ UNCHANGED <<lock, outcome, damaged>>

\* The worker returns an error.
WorkerFails(p) ==
  /\ pc[p] = "work"
  /\ Rollback(p)
  /\ UNCHANGED <<tree, head, txs, commits, faults, scenario>>

\* The worker returns nil: a commit follows if there is a message and something
\* was written.
WorkerSucceeds(p) ==
  /\ pc[p] = "work"
  /\ IF tx[p].message /\ tx[p].written # {}
       THEN /\ pc' = [pc EXCEPT ![p] = "stage"]
            /\ UNCHANGED <<lock, tx, outcome, damaged>>
       ELSE Return(p, "ok")
  /\ UNCHANGED <<tree, head, txs, commits, faults, scenario>>

\* The worker panics: deferred calls unlock, nothing restores.
WorkerPanics(p) ==
  /\ pc[p] = "work"
  /\ Fault("panic")
  /\ Return(p, "panicked")
  /\ UNCHANGED <<tree, head, txs, commits, scenario>>

\* Mutant: only the files that exist are added, so a deletion is not staged.
StagedExisting(p) ==
  [path \in Paths |-> IF path \in tx[p].written /\ tree[path] # Absent
                      THEN tree[path] ELSE head.tree[path]]

\* HEAD's tree with the written files replaced: read-tree, add, write-tree.
Staged(p) ==
  [path \in Paths |-> IF path \in tx[p].written THEN tree[path] ELSE head.tree[path]]

\* git add knows every path: it exists, or HEAD has it.
Addable(p) ==
  \A path \in tx[p].written : tree[path] # Absent \/ head.tree[path] # Absent

\* gitCommitPaths up to commit-tree.
StageCommit(p) ==
  /\ pc[p] = "stage"
  /\ \/ /\ Addable(p)
        /\ pc' = [pc EXCEPT ![p] = "publish"]
        /\ tx' = [tx EXCEPT ![p].oldHead = head.id, ![p].newTree = Staged(p)]
        /\ UNCHANGED <<lock, outcome, damaged, faults>>
     \/ ~Addable(p) /\ Rollback(p) /\ UNCHANGED faults
     \/ Fault("error") /\ Rollback(p)
     \/ Fault("nogit") /\ Return(p, "ok")
  /\ UNCHANGED <<tree, head, txs, commits, scenario>>

\* Mutant: update-ref without the old value.
PublishCommitForced(p) ==
  /\ pc[p] = "publish"
  /\ head' = [id |-> head.id + 1, tree |-> tx[p].newTree]
  /\ Return(p, "ok")
  /\ UNCHANGED <<tree, txs, commits, faults, scenario>>

\* update-ref HEAD new old
PublishCommit(p) ==
  /\ pc[p] = "publish"
  /\ LET swap == /\ head.id = tx[p].oldHead
                 /\ head' = [id |-> head.id + 1, tree |-> tx[p].newTree]
     IN \/ swap /\ Return(p, "ok") /\ UNCHANGED faults
        \/ swap /\ Fault("killed") /\ Rollback(p)
        \/ head.id # tx[p].oldHead /\ Rollback(p) /\ UNCHANGED <<head, faults>>
        \/ Fault("error") /\ Rollback(p) /\ UNCHANGED head
  /\ UNCHANGED <<tree, txs, commits, scenario>>

FirstPath(S) == CHOOSE path \in S : \A q \in S : path <= q

\* restoreSnapshots: one file, in the order of names.
RestoreSnapshot(p) ==
  LET path == FirstPath(tx[p].pending) IN
  /\ pc[p] = "rollback" /\ tx[p].pending # {}
  /\ tree' = [tree EXCEPT ![path] = tx[p].snapshots[path]]
  /\ tx' = [tx EXCEPT ![p].pending = @ \ {path}]
  /\ UNCHANGED <<head, lock, pc, outcome, damaged, txs, commits, faults, scenario>>

\* The first file that cannot be restored ends the rollback.
RestoreFails(p) ==
  LET path == FirstPath(tx[p].pending) IN
  /\ pc[p] = "rollback" /\ tx[p].pending # {}
  /\ Fault("error")
  /\ \E left \in {tree[path]} \cup Remains(path, tx[p].snapshots[path]) :
       tree' = [tree EXCEPT ![path] = left]
  /\ Return(p, "rollbackFailed")
  /\ UNCHANGED <<head, txs, commits, scenario>>

\* Mutant: the error return leaves the lock held.
RolledBackLeaky(p) ==
  /\ pc[p] = "rollback" /\ tx[p].pending = {}
  /\ pc' = [pc EXCEPT ![p] = "idle"]
  /\ tx' = [tx EXCEPT ![p] = NoTx]
  /\ outcome' = [outcome EXCEPT ![p] = "failed"]
  /\ UNCHANGED <<tree, head, lock, damaged, txs, commits, faults, scenario>>

RolledBack(p) ==
  /\ pc[p] = "rollback" /\ tx[p].pending = {}
  /\ Return(p, "failed")
  /\ UNCHANGED <<tree, head, txs, commits, faults, scenario>>

-----------------------------------------------------------------------------
(* The environment. *)

\* The process is killed; the kernel drops its locks, its journal is lost.
Crash(p) ==
  /\ pc[p] # "idle"
  /\ Fault("crash")
  /\ Return(p, "crashed")
  /\ UNCHANGED <<tree, head, txs, commits, scenario>>

\* Another program commits one file as it is now, without the lock.
ExternalCommit(path) ==
  /\ commits < MaxCommits
  /\ commits' = commits + 1
  /\ head' = [id |-> head.id + 1, tree |-> [head.tree EXCEPT ![path] = tree[path]]]
  /\ UNCHANGED <<tree, lock, pc, tx, outcome, damaged, txs, faults, scenario>>

-----------------------------------------------------------------------------
\* A project whose files are all committed: an empty one, on an unborn branch or
\* not, or one with a parent record.
Init ==
  /\ scenario \in Scenarios
  /\ tree \in {t \in Trees : \A path \in Paths :
                 \/ t[path] = Absent
                 \/ t[path] = [k \in KeysAt(path) |-> Plain] /\ path \notin MapPaths}
  /\ head \in [id : {0, 1}, tree : {tree}]
  /\ head.id = 0 => tree = EmptyTree
  /\ lock = [l \in LockFiles |-> [writer |-> None, readers |-> {}]]
  /\ pc = [p \in Procs |-> "idle"]
  /\ tx = [p \in Procs |-> NoTx]
  /\ outcome = [p \in Procs |-> "none"]
  /\ damaged = FALSE
  /\ txs = 0 /\ commits = 0 /\ faults = 0

WorkerOperates(p) ==
  \E k \in Keys : \/ \E v \in ValuesOf(k) : \/ Set(p, k, v)
                                             \/ Update(p, k, v)
                                             \/ Insert(p, k, v)
                  \/ Delete(p, k)

\* Steps that the transaction's own code takes to its end.
Proceed(p) ==
  \/ WorkerFails(p) \/ WorkerSucceeds(p)
  \/ StageCommit(p) \/ PublishCommit(p)
  \/ RestoreSnapshot(p) \/ RolledBack(p)
  \/ EndReadonly(p)

Next ==
  \/ \E p \in Procs :
       \/ \E m \in BOOLEAN, l \in LockFiles : BeginReadwrite(p, m, l)
       \/ \E l \in LockFiles : BeginReadonly(p, l)
       \/ AcquireExclusive(p) \/ AcquireShared(p)
       \/ \E path \in Paths : ReadFile(p, path)
       \/ WorkerOperates(p)
       \/ Proceed(p)
       \/ RestoreFails(p) \/ WorkerPanics(p) \/ Crash(p)
  \/ \E path \in Paths : ExternalCommit(path)

Spec == Init /\ [][Next]_vars

\* A worker returns, a filesystem or Git command ends, and flock grants a lock
\* that stays free: nothing is assumed of the order among those who wait.
FairSpec ==
  Spec /\ \A p \in Procs : WF_vars(AcquireExclusive(p) \/ AcquireShared(p) \/ Proceed(p))

-----------------------------------------------------------------------------
(* Properties. *)

Returns(p, results) == pc[p] # "idle" /\ pc'[p] = "idle" /\ outcome'[p] \in results

\* A transaction that returns its worker's or its commit's error, its rollback
\* having succeeded, leaves every record file as it was when it took the lock,
\* whatever was written, deleted, half written or written twice in between
\* (runReadwriteTransaction, snapshot, restoreSnapshots).
FailedLeavesNoTrace ==
  [][\A p \in Procs : Returns(p, {"failed"}) => tree' = tx[p].begun]_vars

\* The commit of a transaction is HEAD, as it is at that moment, with the
\* transaction's own files replaced by what the working tree holds: it takes in
\* no other file and undoes no commit made meanwhile by another program
\* (gitCommitPaths: disposable index, compare-and-swap).
CommitIsTheTransaction ==
  [][\A p \in Procs :
       (pc[p] = "publish" /\ pc'[p] # "publish" /\ head' # head) =>
         head'.tree = [path \in Paths |-> IF path \in tx[p].written THEN tree[path]
                                                                  ELSE head.tree[path]]]_vars

\* A transaction with a message that returns success has what it wrote in HEAD,
\* whatever other programs committed and whatever failed before, unless Git could
\* not be asked for its work tree in that very step (runReadwriteTransaction,
\* gitCommitPaths, which then takes the project for one without Git).
AcknowledgedIsCommitted ==
  [][\A p \in Procs : (Returns(p, {"ok"}) /\ tx[p].message /\ faults' = faults) =>
       \A path \in tx[p].written : head'.tree[path] = tree'[path]]_vars

\* All the reads of one read-only transaction are of one state of the project
\* (withTransactionReadLock against withExclusiveLock).
ReadsAreOfOneState ==
  \A p \in Procs : \A path \in DOMAIN tx[p].seen : tx[p].seen[path] = tx[p].begun[path]

\* Outside a rollback and unless a write just failed, every record file parses
\* and every foreign key has its parent, for transactions that ended whole
\* (validateWriteForeignKeys, validateDeleteForeignKeys, restoreSnapshots).
ProjectIsSound ==
  (~damaged /\ \A p \in Procs : pc[p] # "rollback" /\ ~tx[p].ioError) =>
    /\ \A path \in Paths : Readable(path)
    /\ \A path \in Paths : \A k \in RecordsAt(path) : ReferenceResolves(tree[path][k])

\* Every transaction that is begun ends and gives back its lock, so that those
\* who wait for it go on (withExclusiveLock, withSharedLock).
TransactionsEnd == \A p \in Procs : pc[p] # "idle" ~> pc[p] = "idle"
=============================================================================
