# A TLA+ model of dalgo2ingitdb

dalgo2ingitdb stores the records of a dalgo database as files of a Git work
tree.  What is hard in it is not any one file operation but that goroutines,
processes and foreign programs share one directory and one branch, that any of
them may fail or die between two steps, and that the code promises atomic
transactions, a linear history of access policies and consistent schema changes
all the same.  The modules here model those protocols step by step, and the
query pipeline as pure operators against a reference.

## Inventory

| Component | Source | State | Operations |
| --- | --- | --- | --- |
| Owner policy generations | `access_generation.go`, `access_manifest.go` | generations and active manifest in HEAD and in the work tree | `Publish`, `Reload`, recovery |
| Database facade | `database.go` | mode of the mount, `ownerState`, `ownerActivation` | `NewDatabase`, `PublishOwnerPolicyGeneration`, `ReloadOwnerPolicies`, transaction entry points |
| Record transactions | `tx_readwrite.go`, `tx_readonly.go` | in-memory journal `snapshots`, list `written` | `Set`, `Insert`, `Update`, `Delete`, `Get`, `Exists` and their `Multi` forms |
| Record files | `record_io.go` | files with one record or a map of records | read, write, delete |
| Foreign keys | `foreign_keys.go` | none | checks before write and before delete |
| Git commits | `git_commit.go` | disposable index, HEAD | `gitCommitPaths`, `restoreSnapshots` |
| Advisory locks | `filelock.go` | flock on a lock file | shared and exclusive sections |
| Schema modifier | `schema_modifier.go` | collection directories, `definition.yaml`, record files | `CreateCollection`, `DropCollection`, `AlterCollection` |
| Registry | `registry.go` | `root-collections.yaml` | register, deregister |
| Protected storage | `protected.go` | evidence, predicted revisions, policy lease, journal | `WithinProtectedInspection`, `WithinProtectedExecution` |
| Rooted files | `rooted_files.go` | handles with their running operations, views, JSONL streams, JSON documents | `AppendJSONL`, `ReadJSONL`, `WriteJSONAtomic`, `EnsureDir`, `WithExclusiveLock`, `Close` |
| Queries | `query.go`, `recordset.go`, `slice_records_reader.go` | none | where, group, having, order, offset, limit, project |
| Readers and parsers | `schema_reader.go`, `type_mapping.go`, `batch_parsers.go`, `formula.go`, `computed_columns.go` | none | translation of formats |
| Accessors | `scoped_collection.go`, `accessor.go`, `seams.go` | none | forwarding |

Interactions.  Publications and record transactions of a project take the same
transaction lock, an flock whose path Git gives; readers take it shared.  Both
end with `git update-ref` from the HEAD they started from.  Opening a database
runs recovery under the lock and then reads the manifest without it.  DDL takes
only a lock on the collection's definition and does not touch Git.  The
registry is what makes a collection visible to transactions and has no lock.
Protected writes take the transaction lock, then a lease on the mount's policies,
and use the journal of record transactions without a commit.  Rooted files have
locks of their own, one per stream and one per callback.
Git and editors know nothing of the locks.

Hard behaviours: interleaving of lock holders with programs that ignore the
lock; death between commit and work-tree update; partial rollback; stale
snapshots installed after newer ones; power loss before a directory is synced;
errors of Git commands that are read as answers; retries of half-done DDL; a
close that races callbacks; torn lines; revisions predicted before the write; pages
of one answer that are computed from different readings.
`PROJECT.json` lists them by line under `hazards`.

What makes each component correct:

* policies: HEAD is one linear history in which each publication replaces the
  revision its author expected; a live snapshot is one committed generation; a
  mount never goes back behind what it has committed or enforced; whatever
  dies, startup recovers;
* transactions: all or nothing in the work tree, the commit is exactly the
  transaction, an acknowledged commit is in HEAD, readers see one state,
  references keep their parents;
* schema: no lost alteration, a removed column is gone from every YAML record,
  success of create and drop means complete;
* rooted files: an acknowledged line or document survives, lines and documents
  are whole, a view lives as long as its lock, a handle as long as its users, a
  limit is exact;
* protected storage: a batch is atomic, replaces only what its client has seen,
  obeys every revocation its mount has committed or loaded, and returns the
  revisions that the next inspection finds;
* queries: the pages are the answer;
* every call returns and releases its locks.

## Modules

| Module | Contents |
| --- | --- |
| `PolicyRegister` | abstract: a history of selected manifests, and per handle the entry it enforces |
| `OwnerPolicy` | publication, recovery, mounting and activation |
| `OwnerPolicyProofs` | theorems about `OwnerPolicy` |
| `RwTransaction` | read-write and read-only transactions, journal, rollback, commit |
| `RwTransactionProofs` | theorems about `RwTransaction` |
| `SchemaModifier` | DDL and the registry |
| `SchemaModifierProofs` | theorems about `SchemaModifier` |
| `DurableLog` | abstract: an append-only sequence and the set of its acknowledged entries |
| `RootedFiles` | rooted files: leases, streams, documents, callbacks, power loss |
| `RootedFilesProofs` | theorems about `RootedFiles` |
| `JsonlLimit` | the bytes of one read of a stream, with or without a limit |
| `JsonlLimitProofs` | theorems about `JsonlLimit` |
| `ProtectedStorage` | inspection and execution of protected batches |
| `ProtectedStorageProofs` | theorems about `ProtectedStorage` |
| `Lists` | what the loops of the query pipeline do to slices: keep, sort, add up; the ranking and the sum they are compared with |
| `ListsProofs` | lemmas about `Lists`, and induction over an index |
| `Query` | queries, page by page, and the answer they owe |
| `QueryProofs` | theorems about `Query` |
| `MC*` with `MC*_<run>.cfg` | instances for TLC |

Operators whose comment begins with "Mutant" are not part of the
specifications: each is a plausible mistake in the definition below it, used to
confirm that a property notices it.

### OwnerPolicy

Callers are goroutines, `Home[c]` the mounted database (one process each) that
`c` works through.  `log` is the branch; a commit holds the active manifest and
the complete generations of its tree.  `wman`, `wgens`, `adir` and `stray` are
`.ingitdb/access` as processes see it, `dman` and `dgens` what survives a power
loss.  `lock` is the transaction lock, `act[h]` the mutex `ownerActivation` (held
also by the one caller that is opening `h`), `snap[h]` the pointer `ownerState`,
`mount[h]` what `NewDatabase` returned.

`pc` follows the code: `Publish` is `PublishCheck` (HEAD, expected revision, clean
tree), `StageGeneration`, `RenameGeneration`, `SyncGenerations`,
`CommitGeneration` (compare-and-swap) or `CommitConflict`, then
`WritePointerTemp`, `RenamePointer`, `SyncPointer` of `atomicWriteFile`.  Recovery
is `RecoverCheck` and the same write steps; `Reload` adds `LoadSnapshot`.  The
mounted calls begin with the mutex and the withdrawal of the snapshot and end in
`Activate`; a mounted publication reloads whether or not it succeeded.
`StepError` ends any step with the error path of its call, `Crash` kills a process,
`PowerLoss` all of them together with unsynced directory entries.

Three Git commands are read as answers when they fail, and are faults of the kind
"git": `SkipRecovery` is a recovery that returns nil because `rev-parse` found no
work tree or `git show` no manifest, `PublishCheckUnanswered` a comparison with the
revision "" because `git show` failed.  `blind` has the callers to whom this happened in
their current `Publish`, recovery or `Reload`; commits and snapshots remember it.  The
consequences are in the model and the properties name them as the only exceptions: a
first publication may replace a generation it did not expect, an opener may take a
project for unprotected, a snapshot may have the policies of an earlier commit (run
`policy_git`).  Git faults are in `policy_processes` and `policy_git`; the other safety properties
hold with them as well, by the proofs.

`NoStaleAdmission` and `ImplementsRegister` speak of the commit a snapshot was loaded at;
that the policies are those of the commit is `SnapshotIsOneCommit`.

Abstractions: a generation is its digest, and a directory of that name is
complete, since files are written in a staging directory and verified when
read.  `Flat` is an enabled manifest that lists policy files and no generation,
`Disabled` one that says `enabled: false`; `buildGeneration` refuses to publish a
candidate that is not enabled, so a generation never is disabled.  `NewDatabase` opens
unprotected over a disabled manifest, which it reads outside the lock: a first
publication that commits after the opener's recovery overtakes it.
`floor[h]` (the newest commit that `h` published or enforced) and the fields
`since` and `exp` of commits are history.  Foreign commits do not change
`.ingitdb/access`, and the branch has a first commit.  Git's own objects and refs
are taken to be durable, and the path of the lock to be found (the fallback of
`transactionLockPath` is in `RwTransaction` only).

### RwTransaction

`tree` maps record files to contents: absent, torn (does not parse), or a
function from the keys it holds to their values; a value is plain or the key of
a parent.  `head` is the commit at HEAD (id 0: unborn branch), `tx[p]` what a
transaction keeps in memory (`snapshots`, `written`, `oldHead`, the tree built in the
disposable index) with two history fields, `begun` (the work tree when the lock
was granted) and `seen` (what a reader read).

The worker is arbitrary: any sequence of at most `MaxOps` operations, after which
it returns an error, returns nil, or panics; an operation's error does not stop
it.  A record operation is one step, because everyone else who looks at record
files waits for the transaction lock; rollback is one step per file and the
commit two (stage, then update-ref), since foreign commits come between.  A
write that fails leaves the old file, a torn file, or, for a map of records, a
prefix that parses.  The per-file locks inside `record_io.go` are uncontended under
the transaction lock and left out.  Computed foreign keys are checked like
stored ones.

Faults: `error` (a file or Git operation fails), `crash`, `panic`, `killed`
(update-ref is killed after it moved HEAD), `nogit` (`git rev-parse` cannot run).
`damaged` records that a transaction ended in a way from which the code has no way
back: killed with journal lost, rollback failed, panic, or a worker that
ignored a failed write.

### SchemaModifier

`dir`, `def`, `recs` are a collection's schema directory, definition (its set of
columns, or absent, or torn) and record files (the fields of each), `form` what the
definition says of the records, `reg` the registry, `lock` the flock on
`definition.yaml`, `job[p]` the locals of a call.  An alter operation is a pair: the column
it takes away and the one it brings.  `KeepColumns` stands for operations that do not
change the set of columns.  Drop removes a locked definition together with its lock, as
removing the file does; flock creates the file it opens, so a lock on a new definition
leaves an empty one until it is written (`Torn`).  An alter of an empty definition
dereferences a nil record file and panics: `ReadDefinition` has both outcomes of a torn
definition, an error and a call that is gone.

A form is single records in YAML, a YAML map of records, or another format, for which
`rewriteRecordFiles` returns at once.  Its walk takes the files whose name ends in `.yaml`
(`YamlFiles`); for a map of records it starts at the collection directory and comes to the
definition first (`WalkBlocked`).  A failed `os.WriteFile` leaves a file that does not
parse, or one that reads as some of the fields, none if it is empty (`Partly`), and a retry
rewrites the latter as a record.  `RemoveFails` is a RemoveAll that stops halfway: some
record files, the definition with whoever's lock, or the schema directory too are gone.

`spoilt` is history: calls that found the definition torn, or under which the failed write
of another call tore it.  CreateCollection with IfNotExists takes any definition file for
the collection, registers it and returns nil, so success over a torn one leaves it torn;
`DdlTakesEffect` asks for a whole definition of every other create.

The registry is read, changed and written without a lock, and concurrent calls lose
entries.  The comment on `NoConcurrency` in `database.go` (48-52) says that definition and registry
are not changed as a unit and forbids concurrent writing connections, so no property
claims that they agree under concurrency; a call's own registration is claimed when it
returns (`DdlTakesEffect`), which holds for a last writer.

`job[p].alone` is history: no drop of the same collection overlapped this call, and no
call that a drop overlapped did either.  Drop takes no lock, and an alter whose
collection was dropped goes on without one; if the collection is created again
meanwhile, it writes over what a third call does there.  So what such calls leave is
not promised, and `NoLostAlter`, `ColumnLeavesEveryRecord` and `DdlTakesEffect` speak of
calls that are alone in this sense.

### RootedFiles

Threads work through handles, `Home(t)` of them; two handles are two processes on
one directory.  `handle[h]` has `closing` and `closed` (`life`), `operations` and whether
`root` is open; `view[t]` is the `lockedFiles` of a callback.  `log` has the terminated
lines, whether an unterminated `tail` follows, how many lines are `safe` on the disk
and whether bytes are `dirty`; `doc` has the renamed versions in order, how many of
the renames are durable, and the versions that were renamed before their bytes were
synced (`soft`, empty unless the code is changed).  A call that writes has an
identity, which stands for its line or document.

`pc` follows the code: an append is `Mkdir`, `SyncParent`, `SyncChild`, `OpenAppend`,
`LockLog`, `RecoverTail`, `SyncRecovered`, `WriteLine`, `WriteNewline`, `SyncLog`,
`SyncDir`; a document `WriteTemp`, `SyncTemp`, `Rename`, `SyncDir`; a callback is
between `LockWait` and `CallbackReturns` and may call operations of the handle or of
its view, and so may another goroutine that was given the view.  `creationMu` and
`mu` are the guards over `Creating` and `HoldsMu`.  `StepFails`, `Kill` and `PowerLoss` are the
faults; a power loss takes directory entries and bytes that no sync covered.  Both
stream and document are shown to implement `DurableLog`, by `lines` and by `pubs`.

With `Nested` the files are in a directory that the first writer makes; without it
they are in the scope, which exists.  Abstracted: names and containment, JSON, the
validation, authorization and creation of the scope (`ensureRealRootedScope`; of opening
only the new capability is modelled).  A callback that closes its handle or takes its own lock again
waits for itself; the model's callers do not.

### JsonlLimit

One reader, the stream counted in bytes: `committed` up to the last newline and `tail`
behind it.  `len` and `cap` are those of the buffer `content`; `Read(n)` lets the reader
return any number of bytes, `ReadFails` an error or none (of `io.ReadAll` too, when there
is no limit), `Probe` is the read of one byte beyond the limit.  A read through a view has the pass `recover` first, which
truncates at the last newline of what it has, so a pass that took a piece for the
whole would cut committed bytes.

### ProtectedStorage

`PrepareOperation` and `AssignReceipts` are `prepare`; a revision is the tuple of what
its HMAC covers: name, existence and the whole content of the file.  `Receipt` is
the predicted revision.  `Lease` fails while the mount's policies are withdrawn.
`Decide` stands for the coordinator of the access library: the leased policies
permit each operation and the expected revisions, if given, are those of the
evidence.  `ExecuteOperation` is one round of the loop in `execute`, `Restore` the
rollback in one step, because everyone who looks waits for the lock.  Publication
and other transactions are summaries of `OwnerPolicy` (`ManagePolicies`,
`CommitGeneration`, `Activate`) and `RwTransaction` (`OtherTransaction`) under the same
lock, which is taken to be one file (its fallback is in `RwTransaction` only).
`PublishElsewhere` is a publication by an `OwnerPolicyController` or another process: it
takes the same lock and moves HEAD, and this mount goes on with the policies it has until
it loads again.  `elsewhere` (history) has the generations it does not know of for that
reason, and `RevocationHolds` says that nothing else is missing from a lease, and that no
generation at all is committed between a lease and the end of its call.
`known[c]` is what a client has seen, `job[c].begun` the tree when it got the lock.
Batches name each record once.

### Query

`Outcomes` is the set of results that one execution may have, over every order in
which the records may be read (`ReadOrders`: any for a map of records).  The caller
fetches page after page with the offset at what it has.  A value has a type, a
number and the rank of its rendering, which is what `compareValues` and `groupKeyStr`
look at.  A number counts units of which all stored numbers are multiples; sums are
rounded to a float64 at every addition (`Float64`, exact up to `Exact`), in the order of
reading.  Lists and maps may render alike, and a text with NUL bytes falls into `Pieces`
when `groupKeyStr` joins renderings by NUL, so distinct values may have one `GroupKey`.  A condition is a sequence of parts, innermost first: a group names the
places of its parts, which come before it, and the last part is the whole.  Conditions,
grouping, aggregates and HAVING are translated in the order in which the code
evaluates them, errors included (`Combine` stops at the first verdict that decides).
A loop over a slice is a recursive function over the index (`Kept`, `Total`, `Best`), and
`SliceStable` is insertion.  The recordset reader is the same pipeline when columns are
selected and none is a wildcard; otherwise it returns the whole collection.  The records
reader fails on a wildcard as soon as it has a row to project.  Single records are read in
the order of their keys; the code has the order of their file names, which is as fixed.

The reference below is stated over sets of rows: which rows a condition is true of
(`IsTrue`: some set of parts is the true ones), groups as sets of rows with equal
grouping values, aggregates of such a set, and `Ranked`, which puts an element where the
number of those before it says.  `RowsSettled` and `GroupsSettled` are what must hold for
the answer not to hang on the order in which a map of records happened to be read: a
column that is compared does not mix numbers and texts (among both
`compareValues` is no order), grouping values render as no other value does
(`RendersAlone`), sums stay within `Exact`, and in a map of records the order tells every two rows, or
groups, apart.  For groups that asks for more than ordering by the grouping fields, and
the proof found each part of it: the output column of that name must be the grouping
field (a later column of the same name hides it), `$id` is no grouping field that an
output row can show, aggregates must not choose between an int and an equal
float64, and a text that renders as nil does (`<nil>`) ties with nil.

## Runs

| Run | Shows |
| --- | --- |
| `policy_processes` | two processes, two revisions, every start state, two faults, failing Git commands among them: `Recoverable`, `NoBlindOverwrite`, `SnapshotIsOneCommit`, `NoUnprotectedOpen` |
| `policy_shared` | two goroutines on one mount, every start state, power loss too: `NoStaleAdmission`, `ImplementsRegister` (the refinement of `PolicyRegister`) and `CallsReturn` |
| `tx_atomic` | two processes, four scenarios of transactions and faults, foreign commits: `FailedLeavesNoTrace`, `CommitIsTheTransaction`, `AcknowledgedIsCommitted`, `ReadsAreOfOneState`, `ProjectIsSound`, `TransactionsEnd` |
| `ddl_calls` | alterations by two processes of a collection in YAML or in another format, create and drop of two collections, a conflicting registry, overlapping calls: `NoLostAlter`, `ColumnLeavesEveryRecord`, `DdlTakesEffect`, `DdlCallsReturn` |
| `rooted_shared` | goroutines of one and of two processes, errors, kills, power loss: `StreamIsDurable` and `DocumentIsDurable` (refinements of `DurableLog`), `RootOpenWhileInUse`, `ViewWithinLock`, `ReadersSeeWholeLines`, `ReplayThenAppend`, `RootedCallsReturn` |
| `jsonl_sizes` | streams to twelve bytes, limits from -1 to beyond the largest integer, two reads in a row: `LimitVerdict`, `CapacityBounded`, `CommittedBytesStay`, `ReadReturns` |
| `protected_batches` | two clients, five batches over two files, a revocation through the mount or elsewhere, another program: `BatchIsAtomic`, `NoUnseenOverwrite`, `ReceiptIsRevision`, `RevocationHolds` |
| `query_pages` | every table of three rows from eight, in three layouts, and tables of lists that render alike and texts with NUL, under 29 queries, some with sums that round: `PagesAreTheAnswer`, `GroupsAreTheAnswer` |

Each passing run but the last also checks its module's `TypeOK`, except
`policy_processes`, which shares it with `policy_shared`.  The passing runs say where
the code is right, the following ones where it departs from what it says of itself.

| Run | Departs from |
| --- | --- |
| `policy_flat` | "Startup treats committed HEAD as authoritative and reconstructs a missing or stale working pointer" (README.md): after a first publication over a flat manifest died before the pointer, recovery refuses the flat manifest |
| `policy_git` | "Reload recovers the Git-authoritative generation into the working tree and compiles one complete snapshot" (access_generation.go): after a pointer that could not be written, a reload whose `git show` fails skips recovery and installs the old policies under the new revision |
| `ddl_selflock` | rewriteRecordFiles is a no-op outside single-record YAML: for a YAML map of records it waits for its own lock |
| `rooted_nested` | AppendJSONL "durably appends": a directory whose creator was killed, or has not synced yet, is used without a sync of its parent, and the acknowledged record goes with it |

Behaviours that the models have and no run claims or refutes:

* a worker's panic is not rolled back, and neither is a protected batch whose
  process dies;
* a transaction with a message that inserts and deletes the same record fails, since
  `git add` knows no such path;
* a failed rev-parse reads as "no work tree": the transaction returns success without
  a commit, and a writer takes a lock file that does not exclude others;
* a first publication whose `git show` fails replaces an active generation; an open whose
  recovery was skipped, or that a first publication over a disabled manifest overtakes, is
  unprotected; policies published elsewhere bind a mount from its next reload;
* concurrent creates and drops lose entries of the registry; a create with IfNotExists
  over a torn definition registers it and returns success; an alter of an empty
  definition panics;
* a repeated drop with IfExists leaves the registration, a failing flush truncates the
  definition, and a drop that overlaps an alter may leave a definition behind, or have
  the alter overwrite a collection that was created again;
* a killed publisher may leave a `.tmp-` file, which refuses later publications; two
  publications that repeat killed ones reuse their directories without a sync, and a
  power loss may then leave a pointer to a lost generation;
* a limited read counts the torn tail, so a stream whose lines fit can be refused by
  the pass that would have cut it;
* the revision predicted for a deletion from a map of records says that the record
  exists; a batch that names a record twice would use the same pre-image twice;
* the order of adding may decide the last place of a float64 sum, and an ORDER BY or a
  HAVING on it may then repeat a group on one page and skip another; groups of lists or
  maps that render alike, or of texts with NUL bytes, fall together;
* the recordset reader without selected columns, or with a wildcard, returns the whole
  collection, whatever the query's conditions, order, limit and excepted columns; the
  records reader refuses a wildcard; records of a grouped page are
  keyed from "0" on every page; an ORDER BY on a column that a grouped query does
  not select changes nothing; `$id` selected in a grouped query is nil; a column that
  mixes numbers and texts has no consistent order.

### Bounds

Two actors are enough for every race here, because each step interferes only
through the lock, HEAD or one file, and a third actor adds only another holder
of the same lock.  Two revisions let a publication be stale, repeated or
reverted.  Two files and a parent with a child give partial rollback and
references across files; the child's file is a map of records, so both layouts
occur, as they do for protected batches.  Two faults allow a fault during the handling of a fault (a rollback that
fails, a crash during a retry).  Bounds on calls, operations and commits
(`MaxCommits`, `MaxTxs`, `MaxOps`, `MaxCalls`, `MaxWrites`, `MaxFaults`) are guards of the
actions that begin them.  `RwTransaction`, `SchemaModifier`, `RootedFiles` and
`ProtectedStorage` choose one of several scenarios in the initial state (constants
`Scenarios`, `Settings`; the `MC` modules say what each is for), which spends long
sequences, many faults and many kinds of call on behaviours of their own instead of
on one product of all.  `JsonlLimit` has a first capacity of two bytes, so three
growths, limits that are and are not its multiples, and the largest integer all
occur.  In `Query` three rows give a group of two beside another, ties, and pages in
the middle; sorting is insertion, which is what `sort.SliceStable` does up to twenty
rows (that a longer slice comes out the same is the contract of a stable sort).  `MaxAnswer` stops a caller whom an offset-blind reader would feed for ever.  `CHECK_DEADLOCK FALSE` is given where the bounds let the system
come to rest.

### Fairness

A running call keeps taking steps: Go schedules every runnable goroutine and
filesystem and Git commands end.  Weak fairness of `Step` (`Proceed`) says no
more.  In `OwnerPolicy`, where callers may call again without end, a waiting
caller needs strong fairness of flock, as the kernel queues waiters; in the other
modules calls are bounded and weak fairness of the acquisition is enough.  A read of
`JsonlLimit` never waits.
Faults and new calls are never fair.  A worker and a callback are assumed to return.

## Proofs

Each theorem is about `Spec` for every value of the constants that the module's named
assumption admits, and every run of the module evaluates that assumption.  The
assumptions say what kind of thing the constants are (a bound is a natural number, a
file with two records is a map of records, `Absent` is not a content); the premises that
restrict a theorem further are in its statement and named below.  Every invariant, action
property and refinement that a passing run checks is proved; liveness is not.

### OwnerPolicyProofs

For any number of handles, callers, revisions, commits and faults, power loss included
unless a premise says otherwise:

* `TypeCorrect` (`TypeOK`).  `TypeOK` alone is not inductive: `RenameGeneration` and
  `CommitGeneration` put `cand[c]` into a set of revisions, so the induction carries
  `CandInv`, that a caller on its way to a write has a revision.
* `NeverStale` (`NoStaleAdmission`), by `OwnershipInv`: `OwnerInv` (a caller in a mounted
  call owns the handle and its snapshot is withdrawn), `FloorInv` (no handle's floor is
  beyond the commit that set HEAD's manifest) and `LocInv` (a loaded snapshot, not yet
  installed, is at least the floor and not beyond HEAD).  A commit raises the floor only
  for the handle its caller owns, so no other caller of that handle has a loaded
  snapshot at that moment; that is the argument of the comment on `ownerActivation` in
  `database.go`.
* `SnapshotsAreCommits` (`SnapshotIsOneCommit`) and `NothingOverwrittenBlindly`
  (`NoBlindOverwrite`), by `ReadInv`.  It says what the lock protects: who is between
  acquisition and release holds it (`Excludes`); between check and commit HEAD is the one
  that was compared, or it has moved and the swap will fail (`Checked`); a recovering
  caller restores what HEAD selects (`Follows`), so the manifest `Reload` reads is HEAD's
  unless recovery was skipped (`Loads`), and what it loaded is one commit's selection
  (`Chosen`).  For a skipped recovery the induction adds `KeptInv`: whatever the working
  manifest is, HEAD has selected it once.  A failed `git show` of a publisher makes it blind,
  and `Checked` then knows only that it expected no generation.  Foreign commits move
  HEAD under the holder's feet but keep the manifest, which is why `Follows` survives them.
* `NeverOpenedUnprotected` (`NoUnprotectedOpen`), by `TreeInv`: a revision about to be
  committed or pointed at has its directory, the access directory exists as soon as a
  generation does, and an opener past recovery finds it if HEAD selects a generation; and
  by `OpenedInv`: an opener whose recovery was not skipped and read a generation in HEAD
  finds a working manifest that names one, whoever publishes meanwhile.
  The run that checks the property has no power loss; the theorem has it.
* `AlwaysRecoverable` (`Recoverable`), under the premise that no power is lost, by
  `PointerInv`: the working manifest is one that selects no generation, or its generation is
  there.  Without the premise a reused directory that was never synced may be lost (hazard
  `access_generation.go:412`).  `Recoverable` excepts a flat or disabled working manifest;
  run `policy_flat` has the counterexample without the exception.
* `PublicationImplementsRegister` (`ImplementsRegister`): a commit is `Commit` or `CommitBy`,
  `Activate` is `Install` (by `LocInv` and `Chosen`), every other step at most `Withdraw`.

### RwTransactionProofs

* `TypeCorrect` (`TypeOK`), with `PendingInv`: files to restore have snapshots.
* Under `[]OneLockFile`, that the transactions under way share a lock file:
  `ReadsConsistent` (`ReadsAreOfOneState`), `FailureLeavesNoTrace` (`FailedLeavesNoTrace`),
  `CommitsAreTransactions` (`CommitIsTheTransaction`), `SuccessIsCommitted`
  (`AcknowledgedIsCommitted`) and `ProjectStaysSound` (`ProjectIsSound`).  The premise is
  needed because `transactionLockPath` falls back to another file when Git cannot be
  asked (hazard `database.go:376`).  `GitGivesOneLockFile` proves it for every instance
  in which Git can always be asked.

`SafeInv` is `LockInv` (locks are held by exactly the transactions past waiting), `Memory`
(what a transaction has before it writes), `Journal` (what was found under the lock is in
the journal or still in the tree; during a rollback, pending or back) and `Prepared` (the
staged tree is HEAD's with the files written, unless HEAD has moved).  `SoundInv` adds
that the tree a writer found was sound, and still is until its first failed write.

### SchemaModifierProofs

`TypeCorrect` (`TypeOK`), `AltersAreNotLost` (`NoLostAlter`), `ColumnsLeaveRecords`
(`ColumnLeavesEveryRecord`) and `CallsTakeEffect` (`DdlTakesEffect`), all from `DdlInv`: a call
that is alone owns the lock where it should (`Owns`), has in memory what is on disk, up to
the operation it applies (`Knows`; the definition a create registers parses unless the call
is `spoilt`), and has swept the `.yaml` files it no longer lists, if the records are single
ones in YAML (`Swept`);
`Shielded` says that calls of one collection are alone or not together.  The last part is
what the induction asked for, and it is what made `alone` transitive: three calls with a
drop and a create among them break the properties otherwise.

### RootedFilesProofs

For any finite set of threads (a handle counts them), any handles, faults and calls:

* from `LifeInv` (where a thread is and what it holds, one callback at a time, the count of
  a handle is the number of its operations and callbacks): `TypeCorrect` (`TypeOK`),
  `RootStaysOpen` (`RootOpenWhileInUse`), `ViewsAreCovered` (`ViewWithinLock`);
* from `LocksInv` (the stream's locks exclude each other; an unterminated line is being
  written or is left by a failure): `ReadersAreShielded` (`ReadersSeeWholeLines`);
* from `StreamInv`, which adds that an identity is written once and that no other callback
  has appended since a replay: `ReplaysAreCurrent` (`ReplayThenAppend`);
* from `DurableInv`, which adds that what was acknowledged is among the synced lines
  (`EntryInv`) or versions (`DocInv`): `StreamImplements` (`StreamIsDurable`) and
  `VersionsImplement` (`DocumentIsDurable`), under `Nested = FALSE`, the files' own directory
  was there before.  For a directory the first writer makes, run `rooted_nested` has
  the counterexample.

### ProtectedStorageProofs

`TypeCorrect` (`TypeOK`), `RevocationObeyed` (`RevocationHolds`), `BatchesAreAtomic`
(`BatchIsAtomic`), `NothingOverwrittenUnseen` (`NoUnseenOverwrite`), `ReceiptsAreRevisions`
(`ReceiptIsRevision`), for batches of any length that name each record once.  The
invariant: the lock is held by one writer or by readers (`LockInv`); a lease, like the
mount, lacks only generations that were published elsewhere, and what executes is
permitted by its lease (`PolicyInv`); evidence is of the tree under which the lock was taken
(`EvidenceFor`); what was there is in the journal or in the tree (`Journal`); operations done
have left their images and nothing else has changed (`Progress`); the predicted revision
is of the file as the batch is to leave it (`Receipts`).

### JsonlLimitProofs

For streams, limits, capacities and integers of any size: `TypeCorrect` (`TypeOK`),
`BufferStaysBounded` (`CapacityBounded`) and `LimitedReadIsSound` (`LimitVerdict`), from one
invariant: that a full buffer at the limit still leaves a byte to find, or none, needs
`len <= Size` and `len <= cap`, and what a returned read says needs that parsing begins only
with the whole stream in the buffer and within the limit.  `CommittedIsKept`
(`CommittedBytesStay`) follows: recovery cuts at the last newline of the content, and the
content is the stream.

### ListsProofs and QueryProofs

`PagesAreTheAnswerHolds` (`PagesAreTheAnswer`) and `GroupsAreTheAnswerHolds`
(`GroupsAreTheAnswer`), for tables of any length, conditions of any depth, any number of
grouping fields, columns and orderings, and any limit.  `TablesAssumption` says what
values and rows are, stored numbers being 0 to 99 units so that one rank for numbers and
texts exists (sums go beyond), and that keys in a directory or a map differ; `QueriesAssumption` says that a group is
made of earlier parts and that a grouped query shows fields, constants and aggregates.

The argument is the same twice: there is one ranking that no order of reading changes,
every execution returns a window of it, and the windows meet.  So the inductive
invariant is that the answer shows the first `k` of the ranking, for some `k`, and all of
them once the caller has the last page (`PagesInv`, `GroupsInv`).  The properties are not
inductive as they stand: that the answer is a prefix of what is owed does not say how
long it is in rows read, which is the offset of the next page.

* `StableRanks`: insertion sort of a list without repetition, by a relation that is a
  strict weak order on it, is the ranking in which ties keep the places they had.  The
  ranking is by one number per element, so two readings whose ties do not differ have
  the same.
* `EvaluateIs`: the verdict reached by short circuit is the truth of the condition,
  wherever every part is of a kind the code knows.
* `PartitionIs`: the lists that the map of groups collects are the sets of rows with equal
  grouping values, each in reading order, ordered by their first rows.  It rests on
  `ValueByTypeAndText` (type and rendering determine a scalar) and `FlattenSingles` (joining
  renderings without NUL keeps them apart), which make `groupKeyStr` a key for values that
  render alone; for others it is none, and `GroupsSettled` excludes them.
* `CountIs`, `SumIs`, `ExtremeIs`, `FieldIs`: each aggregate of such a list is that of the
  set, whatever the order of reading, under `GroupsSettled`.  `SumIs` rests on `TotalExact`:
  if the whole sum is within `Exact`, so is every part of it, and nothing is rounded.
* `GroupsDoNotTie`: under `GroupsSettled` no two groups of a map of records are equal in
  the declared order, so the order in which they were found does not matter.

Induction over an index or over the parts of a condition is by `Induction`: a set of
natural numbers that has zero and the successors of its members has all of them.  The
library's rules take a predicate as a parameter; a set serves as well and is a value, so
that the provers can be given one (`{n \in Nat : ...}`).

### Only model-checked

The liveness properties (`CallsReturn`, `TransactionsEnd`, `DdlCallsReturn`,
`RootedCallsReturn`, `ReadReturns`), since fairness and ENABLED are outside the prover.

## Plan

Done: policies, transactions, schema, rooted files, protected storage, queries; their
safety properties and refinements are proved.
Left, in order of worth:

1. Composition of DDL with record transactions: the definition is loaded at the
   start, and the collection may be dropped or altered meanwhile.
2. The real Git index beside the disposable one; the unborn branch in `OwnerPolicy`.
3. Field updates (`applyUpdates`, `applyIncrement`, which adds in float64) as operators.

## Not modelled

* Schema reading and type mapping, batch parsers, formulas and computed columns:
  translations of text without shared state.  What could go wrong is in the characters,
  which a model would have to transliterate, or in an external expression language.
* Scoped collections, accessors and test seams forward calls.
* The typed columns of recordsets, AVERAGE, constants as grouping expressions.
* Path containment, file names and symbolic links: functions of names.
* Sub-collections, which CreateCollection writes without a registration, and Windows
  side-car lock paths.
* The coordinator, the evaluator and the policies of the access library are external;
  the models use them as the code does.
