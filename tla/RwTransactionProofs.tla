------------------------- MODULE RwTransactionProofs -------------------------
(***************************************************************************)
(* Proofs about RwTransaction, for every set of processes, records and     *)
(* record files and every bound on transactions, operations and faults.    *)
(***************************************************************************)
EXTENDS RwTransaction, WellFoundedInduction, TLAPS

-----------------------------------------------------------------------------
(* The contents of files. *)

\* What a file holds is Absent, Torn, or a function on records of that file.
LEMMA ContentsElim ==
  ASSUME NEW path \in Paths, NEW c \in Contents(path)
  PROVE  \/ c \in {Absent, Torn}
         \/ /\ c \in Records(path)
            /\ c \in [DOMAIN c -> Parents \cup {Plain}]
            /\ DOMAIN c \subseteq KeysAt(path)
            /\ path \notin MapPaths => DOMAIN c = KeysAt(path)
            /\ \A k \in DOMAIN c : c[k] \in ValuesOf(k)
  BY SMT DEF Contents, Records

\* A function on records of a file, with values they may have, is a content of
\* it; outside a map of records it has all the file's records.
LEMMA ContentsIntro ==
  ASSUME NEW path \in Paths, NEW S \in SUBSET KeysAt(path),
         path \notin MapPaths => S = KeysAt(path),
         NEW f \in [S -> Parents \cup {Plain}],
         \A k \in S : f[k] \in ValuesOf(k)
  PROVE  f \in Records(path) /\ f \in Contents(path)
  BY SMT DEF Contents, Records

\* Replacing one file by a content of it gives a tree.
LEMMA TreeUpdate ==
  ASSUME NEW t \in Trees, NEW path \in Paths, NEW c \in Contents(path)
  PROVE  [t EXCEPT ![path] = c] \in Trees
  BY SMT DEF Trees, Content

\* No file touched yet.
LEMMA EmptyPartial == <<>> \in Partial /\ DOMAIN <<>> = {}
  BY SMT DEF Partial

LEMMA PartialElim ==
  ASSUME NEW f \in Partial
  PROVE  /\ DOMAIN f \subseteq Paths
         /\ f \in [DOMAIN f -> Content]
         /\ \A path \in DOMAIN f : f[path] \in Contents(path)
  BY SMT DEF Partial

LEMMA PartialIntro ==
  ASSUME NEW S \in SUBSET Paths, NEW f \in [S -> Content],
         \A path \in S : f[path] \in Contents(path)
  PROVE  f \in Partial
  BY SMT DEF Partial

\* restoreSnapshots takes the first of the files that are left, and there is one.
LEMMA FirstPathIn ==
  ASSUME NEW S \in SUBSET Paths, S # {}
  PROVE  FirstPath(S) \in S
  <1>1. S \subseteq Nat
    BY RwConstantsAssumption
  <1>2. IsWellFoundedOn(OpToRel(<, Nat), Nat)
    BY NatLessThanWellFounded, Zenon
  <1>3. PICK x \in S : \A y \in S : ~ (<<y, x>> \in OpToRel(<, Nat))
    BY <1>1, <1>2, WFMin, Zenon
  <1>4. ASSUME NEW y \in S PROVE x <= y
    <2>1. x \in Nat /\ y \in Nat /\ <<y, x>> \in Nat \X Nat
      BY <1>1
    <2>2. OpToRel(<, Nat) = {ss \in Nat \X Nat : ss[1] < ss[2]}
      BY Zenon DEF OpToRel
    <2>3. ~ (y < x)
      BY <1>3, <2>1, <2>2
    <2>4. QED
      BY <2>1, <2>3
  <1>5. QED
    BY <1>4, Zenon DEF FirstPath

-----------------------------------------------------------------------------
(* Type correctness.  TypeOK alone is not inductive: the files that are left *)
(* to restore must have snapshots (PendingInv).                              *)

PendingInv ==
  \A p \in Procs : pc[p] = "rollback" => tx[p].pending \subseteq DOMAIN tx[p].snapshots
TypeInv == TypeOK /\ PendingInv

\* A process is in memory what it was, but for p, which has r.
LEMMA TxUpdate ==
  ASSUME TypeInv, NEW p \in Procs, NEW r \in Txs, tx' = [tx EXCEPT ![p] = r]
  PROVE  tx' \in [Procs -> Txs] /\ tx'[p] = r /\ \A q \in Procs \ {p} : tx'[q] = tx[q]
  BY SMT DEF TypeInv, TypeOK

LEMMA NoTxTyped == NoTx \in Txs /\ EmptyTree \in Trees
  <1>1. EmptyTree \in Trees
    BY DEF EmptyTree, Trees, Content, Contents
  <1>2. QED
    BY <1>1, EmptyPartial, RwConstantsAssumption DEF NoTx, Txs, LockFiles

\* The bounds of the counters.
LEMMA Bounds ==
  ASSUME TypeOK
  PROVE  /\ scenario.txs \in Nat /\ scenario.txs <= MaxTxs
         /\ scenario.ops \in Nat /\ scenario.ops <= MaxOps
         /\ scenario.faults \in Nat /\ scenario.faults <= MaxFaults
         /\ MaxTxs \in Nat /\ MaxOps \in Nat /\ MaxFaults \in Nat /\ MaxCommits \in Nat
         /\ txs \in Nat /\ faults \in Nat /\ commits \in Nat
  BY RwConstantsAssumption DEF TypeOK

LEMMA FaultTyped ==
  ASSUME TypeOK, NEW kind, Fault(kind)
  PROVE  faults' \in 0..MaxFaults /\ faults' # faults
  BY Bounds DEF Fault, TypeOK

\* The end of a call.
LEMMA ReturnTyped ==
  ASSUME TypeInv, NEW p \in Procs, NEW result \in Outcomes, Return(p, result),
         UNCHANGED scenario, tree' \in Trees, head' \in [id : Nat, tree : Trees],
         txs' \in 0..MaxTxs, commits' \in 0..MaxCommits, faults' \in 0..MaxFaults
  PROVE  TypeInv'
  <1>1. tx' \in [Procs -> Txs] /\ \A q \in Procs \ {p} : tx'[q] = tx[q]
    BY NoTxTyped, TxUpdate DEF Return
  <1>2. /\ pc' \in [Procs -> PCs] /\ pc'[p] = "idle"
        /\ \A q \in Procs \ {p} : pc'[q] = pc[q]
    BY DEF TypeInv, TypeOK, Return, PCs
  <1>3. outcome' \in [Procs -> Outcomes] /\ damaged' \in BOOLEAN
    BY DEF TypeInv, TypeOK, Return
  <1>4. lock' \in [LockFiles -> [writer : Procs \cup {None}, readers : SUBSET Procs]]
    BY DEF TypeInv, TypeOK, Return, Unlocked
  <1>5. PendingInv'
    BY <1>1, <1>2 DEF TypeInv, PendingInv
  <1>6. QED
    BY <1>1, <1>2, <1>3, <1>4, <1>5 DEF TypeInv, TypeOK

\* The start of a rollback.
LEMMA RollbackTyped ==
  ASSUME TypeInv, NEW p \in Procs, Rollback(p),
         UNCHANGED <<scenario, tree, txs, commits>>, head' \in [id : Nat, tree : Trees],
         faults' \in 0..MaxFaults
  PROVE  TypeInv'
  <1>1. /\ tx' \in [Procs -> Txs] /\ \A q \in Procs \ {p} : tx'[q] = tx[q]
        /\ tx'[p].pending = DOMAIN tx'[p].snapshots
    <2> DEFINE r == [tx[p] EXCEPT !.pending = DOMAIN tx[p].snapshots]
    <2>1. tx[p] \in Txs
      BY DEF TypeInv, TypeOK
    <2>2. r \in Txs
      BY <2>1, PartialElim DEF Txs
    <2>3. tx' = [tx EXCEPT ![p] = r]
      BY DEF Rollback
    <2>4. r.pending = DOMAIN r.snapshots
      BY <2>1 DEF Txs
    <2> HIDE DEF r
    <2>5. QED
      BY <2>2, <2>3, <2>4, TxUpdate
  <1>2. /\ pc' \in [Procs -> PCs]
        /\ \A q \in Procs \ {p} : pc'[q] = pc[q]
    BY DEF TypeInv, TypeOK, Rollback, PCs, WriterPCs
  <1>3. PendingInv'
    BY <1>1, <1>2 DEF TypeInv, PendingInv
  <1>4. QED
    BY <1>1, <1>2, <1>3 DEF TypeInv, TypeOK, Rollback

-----------------------------------------------------------------------------
(* What the worker's operations write. *)

LEMMA FileTyped ==
  ASSUME TypeInv, NEW path \in Paths
  PROVE  /\ tree[path] \in Contents(path)
         /\ RecordsAt(path) \subseteq KeysAt(path)
         /\ \A k \in RecordsAt(path) :
              tree[path][k] \in ValuesOf(k) /\ tree[path][k] \in Parents \cup {Plain}
  <1>1. tree[path] \in Contents(path)
    BY DEF TypeInv, TypeOK, Trees
  <1>2. QED
    BY <1>1, ContentsElim DEF RecordsAt

LEMMA StoredTyped ==
  ASSUME TypeInv, NEW k \in Keys, NEW v \in ValuesOf(k)
  PROVE  /\ PathOf[k] \in Paths
         /\ Stored(PathOf[k], k, v) \in Records(PathOf[k])
         /\ Stored(PathOf[k], k, v) \in Contents(PathOf[k])
  <1> DEFINE path == PathOf[k]
             S == {k} \cup (IF path \in MapPaths THEN RecordsAt(path) ELSE {})
             f == [j \in S |-> IF j = k THEN v ELSE tree[path][j]]
  <1>1. path \in Paths /\ k \in KeysAt(path)
    BY RwConstantsAssumption DEF KeysAt
  <1>2. S \in SUBSET KeysAt(path)
    BY <1>1, FileTyped
  <1>3. path \notin MapPaths => S = KeysAt(path)
    BY <1>1, RwConstantsAssumption DEF KeysAt
  <1>4. v \in Parents \cup {Plain}
    BY DEF ValuesOf
  <1>5. f \in [S -> Parents \cup {Plain}] /\ \A j \in S : f[j] \in ValuesOf(j)
    <2>1. ASSUME NEW j \in S PROVE f[j] \in Parents \cup {Plain} /\ f[j] \in ValuesOf(j)
      BY <1>1, <1>4, FileTyped
    <2>2. QED
      BY <2>1
  <1>6. Stored(path, k, v) = f
    BY DEF Stored
  <1> HIDE DEF path, S, f
  <1>7. f \in Records(path) /\ f \in Contents(path)
    BY <1>1, <1>2, <1>3, <1>5, ContentsIntro
  <1>8. QED
    BY <1>1, <1>6, <1>7 DEF path

LEMMA RemovedTyped ==
  ASSUME TypeInv, NEW path \in MapPaths, NEW k
  PROVE  /\ path \in Paths
         /\ [j \in RecordsAt(path) \ {k} |-> tree[path][j]] \in Records(path)
         /\ [j \in RecordsAt(path) \ {k} |-> tree[path][j]] \in Contents(path)
  <1> DEFINE S == RecordsAt(path) \ {k}
             f == [j \in S |-> tree[path][j]]
  <1>1. path \in Paths
    BY RwConstantsAssumption
  <1>2. S \in SUBSET KeysAt(path)
    BY <1>1, FileTyped
  <1>3. f \in [S -> Parents \cup {Plain}] /\ \A j \in S : f[j] \in ValuesOf(j)
    BY <1>1, FileTyped
  <1> HIDE DEF S
  <1>4. f \in Records(path) /\ f \in Contents(path)
    <2> HIDE DEF f
    <2>1. QED BY <1>1, <1>2, <1>3, ContentsIntro
  <1>5. QED
    BY <1>1, <1>4 DEF S

\* An interrupted write leaves something that the file could hold.
LEMMA RemainsTyped ==
  ASSUME NEW path \in Paths, NEW c \in Contents(path), NEW left \in Remains(path, c)
  PROVE  left \in Contents(path)
  <1>1. CASE left = Torn
    BY <1>1 DEF Contents
  <1>2. CASE left # Torn
    <2>1. c # Absent /\ c # Torn /\ path \in MapPaths
      BY <1>2 DEF Remains
    <2>2. PICK S \in SUBSET DOMAIN c : left = [k \in S |-> c[k]]
      BY <1>2, <2>1 DEF Remains
    <2>3. c \in [DOMAIN c -> Parents \cup {Plain}] /\ DOMAIN c \subseteq KeysAt(path)
          /\ \A k \in DOMAIN c : c[k] \in ValuesOf(k)
      BY <2>1, ContentsElim
    <2>4. S \in SUBSET KeysAt(path) /\ left \in [S -> Parents \cup {Plain}]
          /\ \A k \in S : left[k] \in ValuesOf(k)
      BY <2>2, <2>3
    <2>5. QED
      BY <2>1, <2>4, ContentsIntro
  <1>3. QED
    BY <1>1, <1>2

\* An operation writes a file, fails to, or only journals it.
LEMMA OperationShape ==
  ASSUME TypeInv, NEW p \in Procs, WorkerOperates(p)
  PROVE  /\ Operation(p)
         /\ \E path \in Paths : \E c \in Contents(path) :
              Write(p, path, c) \/ WriteFails(p, path, c) \/ Journalled(p, path)
  <1>1. PICK k \in Keys : \/ \E v \in ValuesOf(k) : \/ Set(p, k, v)
                                                     \/ Update(p, k, v)
                                                     \/ Insert(p, k, v)
                          \/ Delete(p, k)
    BY DEF WorkerOperates
  <1> DEFINE path == PathOf[k]
  <1>2. path \in Paths
    BY RwConstantsAssumption
  <1>3. Absent \in Contents(path)
    BY DEF Contents
  <1>4. ASSUME NEW v \in ValuesOf(k), Set(p, k, v) \/ Insert(p, k, v)
        PROVE  /\ Operation(p)
               /\ \E c \in Contents(path) :
                    Write(p, path, c) \/ WriteFails(p, path, c) \/ Journalled(p, path)
    BY <1>3, <1>4, StoredTyped DEF Set, Insert, Store
  <1>5. ASSUME Delete(p, k)
        PROVE  /\ Operation(p)
               /\ \E c \in Contents(path) :
                    Write(p, path, c) \/ WriteFails(p, path, c) \/ Journalled(p, path)
    BY <1>3, <1>5, RemovedTyped DEF Delete, Store
  <1> HIDE DEF path
  <1>6. QED
    BY <1>1, <1>2, <1>4, <1>5 DEF Update

\* The journal after an operation on path.
LEMMA SnapshotTyped ==
  ASSUME TypeInv, NEW p \in Procs, NEW path \in Paths
  PROVE  /\ Snapshot(p, path) \in Partial
         /\ DOMAIN Snapshot(p, path) = DOMAIN tx[p].snapshots \cup {path}
         /\ \A q \in DOMAIN Snapshot(p, path) :
              Snapshot(p, path)[q] = IF q \in DOMAIN tx[p].snapshots
                                     THEN tx[p].snapshots[q] ELSE tree[q]
  <1>1. tx[p].snapshots \in Partial
    BY DEF TypeInv, TypeOK, Txs
  <1> DEFINE S == DOMAIN tx[p].snapshots \cup {path}
  <1>2. S \in SUBSET Paths
    BY <1>1, PartialElim
  <1>3. \A q \in S : (IF q \in DOMAIN tx[p].snapshots
                      THEN tx[p].snapshots[q] ELSE tree[q]) \in Contents(q)
    BY <1>1, <1>2, PartialElim, FileTyped
  <1>4. \A q \in S : Contents(q) \subseteq Content
    BY <1>2 DEF Content
  <1>5. /\ DOMAIN Snapshot(p, path) = S
        /\ \A q \in S : Snapshot(p, path)[q] = IF q \in DOMAIN tx[p].snapshots
                                               THEN tx[p].snapshots[q] ELSE tree[q]
    BY DEF Snapshot
  <1>6. Snapshot(p, path) \in [S -> Content]
    BY <1>3, <1>4 DEF Snapshot
  <1> HIDE DEF S
  <1>7. Snapshot(p, path) \in Partial
    BY <1>2, <1>3, <1>5, <1>6, PartialIntro
  <1>8. QED
    BY <1>5, <1>7 DEF S

\* What an operation of p on path leaves in memory and on disk.  For q # p
\* nothing changes in memory, and no other file changes on disk.
LEMMA OperationEffect ==
  ASSUME TypeInv, NEW p \in Procs, NEW path \in Paths, NEW c \in Contents(path), Operation(p),
         Write(p, path, c) \/ WriteFails(p, path, c) \/ Journalled(p, path)
  PROVE  /\ tree' \in Trees
         /\ \A q \in Paths \ {path} : tree'[q] = tree[q]
         /\ tx' \in [Procs -> Txs]
         /\ \A q \in Procs \ {p} : tx'[q] = tx[q]
         /\ \E w \in SUBSET Paths, e \in BOOLEAN :
              /\ tx'[p] = [tx[p] EXCEPT !.ops = tx[p].ops + 1, !.snapshots = Snapshot(p, path),
                                        !.written = w, !.ioError = e]
              /\ w \subseteq tx[p].written \cup {path}
         /\ faults' \in 0..MaxFaults
  <1>1. tree' \in Trees /\ \A q \in Paths \ {path} : tree'[q] = tree[q]
    <2>1. \E left \in Contents(path) : tree' = [tree EXCEPT ![path] = left]
      <3>1. tree[path] \in Contents(path) /\ tree = [tree EXCEPT ![path] = tree[path]]
        BY FileTyped DEF TypeInv, TypeOK, Trees
      <3>2. CASE Journalled(p, path)
        BY <3>1, <3>2 DEF Journalled
      <3>3. CASE Write(p, path, c)
        BY <3>3 DEF Write
      <3>4. CASE WriteFails(p, path, c)
        BY <3>1, <3>4, RemainsTyped DEF WriteFails
      <3>5. QED
        BY <3>2, <3>3, <3>4
    <2>2. tree \in Trees
      BY DEF TypeInv, TypeOK
    <2>3. tree' \in Trees
      BY <2>1, <2>2, TreeUpdate
    <2>4. tree \in [Paths -> Content]
      BY <2>2 DEF Trees
    <2>5. QED
      BY <2>1, <2>3, <2>4
  <1>2. PICK w \in SUBSET Paths, e \in BOOLEAN :
          /\ tx' = [tx EXCEPT ![p] = [tx[p] EXCEPT !.ops = tx[p].ops + 1,
                                                   !.snapshots = Snapshot(p, path),
                                                   !.written = w, !.ioError = e]]
          /\ w \subseteq tx[p].written \cup {path}
    <2>1. tx \in [Procs -> Txs] /\ tx[p] \in Txs
      BY DEF TypeInv, TypeOK
    <2>2. CASE Journalled(p, path)
      <3>1. tx[p].written \in SUBSET Paths /\ tx[p].ioError \in BOOLEAN
        BY <2>1 DEF Txs
      <3>2. tx' = [tx EXCEPT ![p] = [tx[p] EXCEPT !.ops = tx[p].ops + 1,
                                                   !.snapshots = Snapshot(p, path),
                                                   !.written = tx[p].written, !.ioError = tx[p].ioError]]
        BY <2>1, <2>2 DEF Journalled, Txs
      <3>3. QED
        BY <3>1, <3>2
    <2>3. CASE Write(p, path, c)
      <3>1. tx[p].written \cup {path} \in SUBSET Paths /\ tx[p].ioError \in BOOLEAN
        BY <2>1 DEF Txs
      <3>2. tx' = [tx EXCEPT ![p] = [tx[p] EXCEPT !.ops = tx[p].ops + 1,
                                                   !.snapshots = Snapshot(p, path),
                                                   !.written = tx[p].written \cup {path}, !.ioError = tx[p].ioError]]
        BY <2>1, <2>3 DEF Write, Txs
      <3>3. QED
        BY <3>1, <3>2
    <2>4. CASE WriteFails(p, path, c)
      <3>1. tx[p].written \in SUBSET Paths
        BY <2>1 DEF Txs
      <3>2. tx' = [tx EXCEPT ![p] = [tx[p] EXCEPT !.ops = tx[p].ops + 1,
                                                   !.snapshots = Snapshot(p, path),
                                                   !.written = tx[p].written, !.ioError = TRUE]]
        BY <2>1, <2>4 DEF WriteFails, Txs
      <3>3. QED
        BY <3>1, <3>2
    <2>5. QED
      BY <2>2, <2>3, <2>4
  <1> DEFINE r == [tx[p] EXCEPT !.ops = tx[p].ops + 1, !.snapshots = Snapshot(p, path),
                                !.written = w, !.ioError = e]
  <1>3. r \in Txs
    <2>1. tx[p].ops + 1 \in 0..MaxOps
      BY Bounds DEF Operation, TypeInv, TypeOK, Txs
    <2>2. Snapshot(p, path) \in Partial
      BY SnapshotTyped
    <2>3. tx[p] \in Txs
      BY DEF TypeInv, TypeOK
    <2>4. QED
      BY <2>1, <2>2, <2>3 DEF Txs
  <1>4. tx' \in [Procs -> Txs] /\ tx'[p] = r /\ \A q \in Procs \ {p} : tx'[q] = tx[q]
    <2> HIDE DEF r
    <2>1. tx' = [tx EXCEPT ![p] = r]
      BY <1>2 DEF r
    <2>2. QED
      BY <1>3, <2>1, TxUpdate
  <1>5. faults' \in 0..MaxFaults
    BY FaultTyped DEF Write, WriteFails, Journalled, TypeInv, TypeOK
  <1>6. QED
    BY <1>1, <1>2, <1>4, <1>5

\* A transaction starts with nothing in memory.
LEMMA BeginTyped ==
  ASSUME TypeInv, NEW p \in Procs, NEW l \in LockFiles, NEW wait \in PCs, NEW r \in Txs,
         wait # "rollback", txs < scenario.txs, txs' = txs + 1, ChooseLockFile(l),
         pc' = [pc EXCEPT ![p] = wait], tx' = [tx EXCEPT ![p] = r],
         outcome' = [outcome EXCEPT ![p] = "none"],
         UNCHANGED <<tree, head, lock, damaged, commits, scenario>>
  PROVE  TypeInv'
  <1>1. tx' \in [Procs -> Txs] /\ \A q \in Procs \ {p} : tx'[q] = tx[q]
    BY TxUpdate
  <1>2. txs' \in 0..MaxTxs /\ faults' \in 0..MaxFaults
    BY Bounds, FaultTyped DEF TypeInv, TypeOK, ChooseLockFile
  <1>3. PendingInv'
    BY <1>1 DEF TypeInv, TypeOK, PendingInv
  <1>4. QED
    BY <1>1, <1>2, <1>3 DEF TypeInv, TypeOK, Outcomes

\* Taking a lock of either kind.
LEMMA AcquireTyped ==
  ASSUME TypeInv, NEW p \in Procs, AcquireExclusive(p) \/ AcquireShared(p)
  PROVE  TypeInv'
  <1>1. tx[p] \in Txs /\ tx[p].lockFile \in LockFiles
    BY DEF TypeInv, TypeOK, Txs
  <1>2. [tx[p] EXCEPT !.begun = tree] \in Txs
    BY <1>1 DEF TypeInv, TypeOK, Txs
  <1>3. tx' = [tx EXCEPT ![p] = [tx[p] EXCEPT !.begun = tree]]
    BY DEF AcquireExclusive, AcquireShared
  <1>4. tx' \in [Procs -> Txs] /\ \A q \in Procs \ {p} : tx'[q] = tx[q]
    BY <1>2, <1>3, TxUpdate
  <1>5. lock' \in [LockFiles -> [writer : Procs \cup {None}, readers : SUBSET Procs]]
    BY <1>1 DEF TypeInv, TypeOK, AcquireExclusive, AcquireShared
  <1>6. /\ pc' \in [Procs -> PCs] /\ pc'[p] # "rollback"
        /\ \A q \in Procs \ {p} : pc'[q] = pc[q]
    BY DEF TypeInv, TypeOK, AcquireExclusive, AcquireShared, PCs, WriterPCs
  <1>7. PendingInv'
    BY <1>4, <1>6 DEF TypeInv, PendingInv
  <1>8. QED
    BY <1>4, <1>5, <1>6, <1>7 DEF TypeInv, TypeOK, AcquireExclusive, AcquireShared

LEMMA ReadFileTyped ==
  ASSUME TypeInv, NEW p \in Procs, NEW path \in Paths, ReadFile(p, path)
  PROVE  /\ TypeInv'
         /\ tx'[p] = [tx[p] EXCEPT !.seen = tx'[p].seen]
         /\ DOMAIN tx'[p].seen = DOMAIN tx[p].seen \cup {path}
         /\ \A q \in DOMAIN tx'[p].seen :
              tx'[p].seen[q] = IF q = path THEN tree[path] ELSE tx[p].seen[q]
         /\ \A q \in Procs \ {p} : tx'[q] = tx[q]
  <1> DEFINE S == DOMAIN tx[p].seen \cup {path}
             f == [q \in S |-> IF q = path THEN tree[path] ELSE tx[p].seen[q]]
  <1>1. tx[p] \in Txs /\ tx[p].seen \in Partial
    BY DEF TypeInv, TypeOK, Txs
  <1>2. S \in SUBSET Paths
    BY <1>1, PartialElim
  <1>3. \A q \in S : f[q] \in Contents(q) /\ f[q] \in Content
    BY <1>1, <1>2, PartialElim, FileTyped DEF Content
  <1>4. f \in [S -> Content]
    BY <1>3
  <1>5. f \in Partial
    <2> HIDE DEF f, S
    <2>1. QED BY <1>2, <1>3, <1>4, PartialIntro
  <1>6. tx' = [tx EXCEPT ![p] = [tx[p] EXCEPT !.seen = f]]
    BY DEF ReadFile
  <1>7. DOMAIN f = S /\ \A q \in S : f[q] = IF q = path THEN tree[path] ELSE tx[p].seen[q]
    OBVIOUS
  <1> HIDE DEF f, S
  <1>8. [tx[p] EXCEPT !.seen = f] \in Txs /\ [tx[p] EXCEPT !.seen = f].seen = f
    BY <1>1, <1>5 DEF Txs
  <1>9. /\ tx' \in [Procs -> Txs] /\ tx'[p] = [tx[p] EXCEPT !.seen = f]
        /\ \A q \in Procs \ {p} : tx'[q] = tx[q]
    BY <1>6, <1>8, TxUpdate
  <1>10. PendingInv'
    BY <1>9 DEF TypeInv, PendingInv, ReadFile
  <1>11. TypeInv'
    BY <1>9, <1>10 DEF TypeInv, TypeOK, ReadFile
  <1>12. QED
    BY <1>7, <1>8, <1>9, <1>11 DEF S

LEMMA OperationTyped ==
  ASSUME TypeInv, NEW p \in Procs, WorkerOperates(p)
  PROVE  TypeInv'
  <1>1. PICK path \in Paths : \E c \in Contents(path) :
               Write(p, path, c) \/ WriteFails(p, path, c) \/ Journalled(p, path)
    BY OperationShape
  <1>2. PICK c \in Contents(path) :
               Write(p, path, c) \/ WriteFails(p, path, c) \/ Journalled(p, path)
    BY <1>1
  <1>3. Operation(p)
    BY OperationShape
  <1>4. /\ tree' \in Trees /\ tx' \in [Procs -> Txs] /\ faults' \in 0..MaxFaults
        /\ \A q \in Procs \ {p} : tx'[q] = tx[q]
    BY <1>2, <1>3, OperationEffect
  <1>5. PendingInv'
    BY <1>3, <1>4 DEF TypeInv, PendingInv, Operation
  <1>6. QED
    BY <1>3, <1>4, <1>5 DEF TypeInv, TypeOK, Operation

LEMMA StageTyped ==
  ASSUME TypeInv, NEW p \in Procs, StageCommit(p)
  PROVE  TypeInv'
  <1>1. head \in [id : Nat, tree : Trees] /\ head' = head
    BY DEF TypeInv, TypeOK, StageCommit
  <1>2. CASE /\ pc' = [pc EXCEPT ![p] = "publish"]
             /\ tx' = [tx EXCEPT ![p].oldHead = head.id, ![p].newTree = Staged(p)]
             /\ UNCHANGED <<lock, outcome, damaged, faults>>
    <2>1. Staged(p) \in Trees
      BY <1>1 DEF TypeInv, TypeOK, Trees, Staged
    <2> DEFINE r == [tx[p] EXCEPT !.oldHead = head.id, !.newTree = Staged(p)]
    <2>2. r \in Txs
      BY <1>1, <2>1, ZenonT(60) DEF TypeInv, TypeOK, Txs
    <2>3. tx' = [tx EXCEPT ![p] = r]
      BY <1>2
    <2> HIDE DEF r
    <2>4. tx' \in [Procs -> Txs] /\ \A q \in Procs \ {p} : tx'[q] = tx[q]
      BY <2>2, <2>3, TxUpdate
    <2>5. pc' \in [Procs -> PCs] /\ pc'[p] = "publish" /\ \A q \in Procs \ {p} : pc'[q] = pc[q]
      BY <1>2 DEF TypeInv, TypeOK, PCs, WriterPCs
    <2>6. PendingInv'
      BY <2>4, <2>5 DEF TypeInv, PendingInv
    <2>7. QED
      BY <1>2, <2>4, <2>5, <2>6 DEF TypeInv, TypeOK, StageCommit
  <1>3. CASE Rollback(p) /\ (UNCHANGED faults \/ Fault("error"))
    BY <1>1, <1>3, RollbackTyped, FaultTyped DEF TypeInv, TypeOK, StageCommit
  <1>4. CASE Fault("nogit") /\ Return(p, "ok")
    BY <1>1, <1>4, ReturnTyped, FaultTyped DEF TypeInv, TypeOK, StageCommit, Outcomes
  <1>5. QED
    BY <1>2, <1>3, <1>4 DEF StageCommit

LEMMA PublishTyped ==
  ASSUME TypeInv, NEW p \in Procs, PublishCommit(p)
  PROVE  TypeInv'
  <1>1. head' \in [id : Nat, tree : Trees]
    BY DEF TypeInv, TypeOK, PublishCommit, Txs
  <1>2. \/ Return(p, "ok") /\ UNCHANGED faults
        \/ Rollback(p) /\ (UNCHANGED faults \/ Fault("killed") \/ Fault("error"))
    BY DEF PublishCommit
  <1>3. faults' \in 0..MaxFaults
    BY <1>2, FaultTyped DEF TypeInv, TypeOK
  <1>4. QED
    BY <1>1, <1>2, <1>3, ReturnTyped, RollbackTyped DEF TypeInv, TypeOK, PublishCommit, Outcomes

\* restoreSnapshots writes, or fails to write, the snapshot of a file it has.
LEMMA RestoreTyped ==
  ASSUME TypeInv, NEW p \in Procs, RestoreSnapshot(p) \/ RestoreFails(p)
  PROVE  /\ FirstPath(tx[p].pending) \in tx[p].pending
         /\ FirstPath(tx[p].pending) \in Paths
         /\ tx[p].snapshots[FirstPath(tx[p].pending)] \in Contents(FirstPath(tx[p].pending))
         /\ TypeInv'
  <1> DEFINE path == FirstPath(tx[p].pending)
  <1>1. tx[p] \in Txs /\ pc[p] = "rollback"
    BY DEF TypeInv, TypeOK, RestoreSnapshot, RestoreFails
  <1>2. path \in tx[p].pending /\ path \in Paths
    BY <1>1, FirstPathIn DEF RestoreSnapshot, RestoreFails, Txs
  <1>3. tx[p].snapshots[path] \in Contents(path)
    BY <1>1, <1>2, PartialElim DEF Txs, TypeInv, PendingInv
  <1>4. tree \in Trees /\ tree[path] \in Contents(path)
    BY <1>2, FileTyped DEF TypeInv, TypeOK
  <1>5. CASE RestoreSnapshot(p)
    <2> DEFINE r == [tx[p] EXCEPT !.pending = @ \ {path}]
    <2>1. r \in Txs /\ r.snapshots = tx[p].snapshots /\ r.pending = tx[p].pending \ {path}
      BY <1>1 DEF Txs
    <2>2. tx' = [tx EXCEPT ![p] = r]
      BY <1>5 DEF RestoreSnapshot
    <2> HIDE DEF r
    <2>3. tx' \in [Procs -> Txs] /\ tx'[p] = r /\ \A q \in Procs \ {p} : tx'[q] = tx[q]
      BY <2>1, <2>2, TxUpdate
    <2>4. PendingInv'
      BY <1>5, <2>1, <2>3 DEF TypeInv, PendingInv, RestoreSnapshot
    <2>5. tree' \in Trees
      BY <1>2, <1>3, <1>4, <1>5, TreeUpdate DEF RestoreSnapshot
    <2>6. TypeInv'
      BY <1>5, <2>3, <2>4, <2>5 DEF TypeInv, TypeOK, RestoreSnapshot
    <2>7. QED
      BY <1>2, <1>3, <2>6
  <1>6. CASE RestoreFails(p)
    <2>1. PICK left \in {tree[path]} \cup Remains(path, tx[p].snapshots[path]) :
            tree' = [tree EXCEPT ![path] = left]
      BY <1>6 DEF RestoreFails
    <2>2. left \in Contents(path)
      BY <1>2, <1>3, <1>4, RemainsTyped
    <2> HIDE DEF path
    <2>3. tree' \in Trees
      BY <1>2, <1>4, <2>1, <2>2, TreeUpdate
    <2>4. faults' \in 0..MaxFaults
      BY <1>6, FaultTyped DEF RestoreFails, TypeInv
    <2>5. TypeInv'
      BY <1>6, <2>3, <2>4, ReturnTyped DEF RestoreFails, TypeInv, TypeOK, Outcomes
    <2>6. QED
      BY <1>2, <1>3, <2>5 DEF path
  <1>7. QED
    BY <1>5, <1>6

LEMMA TypeInit == Init => TypeInv
  <1> SUFFICES ASSUME Init PROVE TypeInv
    OBVIOUS
  <1>1. tree \in Trees /\ head \in [id : Nat, tree : Trees]
    BY DEF Init
  <1>2. tx \in [Procs -> Txs] /\ pc \in [Procs -> PCs] /\ PendingInv
    BY NoTxTyped DEF Init, PCs, PendingInv
  <1>3. QED
    <2>1. lock \in [LockFiles -> [writer : Procs \cup {None}, readers : SUBSET Procs]]
      BY DEF Init
    <2>2. outcome \in [Procs -> Outcomes] /\ damaged \in BOOLEAN /\ scenario \in Scenarios
      BY DEF Init, Outcomes
    <2>3. txs \in 0..MaxTxs /\ commits \in 0..MaxCommits /\ faults \in 0..MaxFaults
      BY RwConstantsAssumption DEF Init
    <2>4. QED
      BY <1>1, <1>2, <2>1, <2>2, <2>3 DEF TypeInv, TypeOK

LEMMA TypeStep == TypeInv /\ [Next]_vars => TypeInv'
  <1> SUFFICES ASSUME TypeInv, [Next]_vars PROVE TypeInv'
    OBVIOUS
  <1>1. ASSUME NEW p \in Procs, NEW m \in BOOLEAN, NEW l \in LockFiles, BeginReadwrite(p, m, l)
        PROVE  TypeInv'
    <2>1. [NoTx EXCEPT !.lockFile = l, !.message = m] \in Txs
      BY NoTxTyped DEF Txs
    <2>2. QED
      BY <1>1, <2>1, BeginTyped DEF BeginReadwrite, PCs, WriterPCs
  <1>2. ASSUME NEW p \in Procs, NEW l \in LockFiles, BeginReadonly(p, l) PROVE TypeInv'
    <2>1. [NoTx EXCEPT !.lockFile = l] \in Txs
      BY NoTxTyped DEF Txs
    <2>2. QED
      BY <1>2, <2>1, BeginTyped DEF BeginReadonly, PCs, WriterPCs
  <1>3. ASSUME NEW p \in Procs, AcquireExclusive(p) \/ AcquireShared(p) PROVE TypeInv'
    BY <1>3, AcquireTyped
  <1>4. ASSUME NEW p \in Procs, NEW path \in Paths, ReadFile(p, path) PROVE TypeInv'
    BY <1>4, ReadFileTyped
  <1>5. ASSUME NEW p \in Procs, WorkerOperates(p) PROVE TypeInv'
    BY <1>5, OperationTyped
  <1>6. ASSUME NEW p \in Procs, WorkerFails(p) PROVE TypeInv'
    BY <1>6, RollbackTyped DEF WorkerFails, TypeInv, TypeOK
  <1>7. ASSUME NEW p \in Procs, WorkerSucceeds(p) PROVE TypeInv'
    <2>1. CASE pc' = [pc EXCEPT ![p] = "stage"] /\ UNCHANGED <<lock, tx, outcome, damaged>>
      <3>1. PendingInv'
        BY <2>1 DEF TypeInv, TypeOK, PendingInv
      <3>2. QED
        BY <1>7, <2>1, <3>1 DEF WorkerSucceeds, TypeInv, TypeOK, PCs, WriterPCs
    <2>2. CASE Return(p, "ok")
      BY <1>7, <2>2, ReturnTyped DEF WorkerSucceeds, TypeInv, TypeOK, Outcomes
    <2>3. QED
      BY <1>7, <2>1, <2>2 DEF WorkerSucceeds
  <1>8. ASSUME NEW p \in Procs, StageCommit(p) PROVE TypeInv'
    BY <1>8, StageTyped
  <1>9. ASSUME NEW p \in Procs, PublishCommit(p) PROVE TypeInv'
    BY <1>9, PublishTyped
  <1>10. ASSUME NEW p \in Procs, RestoreSnapshot(p) \/ RestoreFails(p) PROVE TypeInv'
    BY <1>10, RestoreTyped
  <1>11. ASSUME NEW p \in Procs, RolledBack(p) \/ EndReadonly(p) PROVE TypeInv'
    BY <1>11, ReturnTyped DEF RolledBack, EndReadonly, TypeInv, TypeOK, Outcomes
  <1>12. ASSUME NEW p \in Procs, WorkerPanics(p) \/ Crash(p) PROVE TypeInv'
    BY <1>12, ReturnTyped, FaultTyped DEF WorkerPanics, Crash, TypeInv, TypeOK, Outcomes
  <1>13. ASSUME NEW path \in Paths, ExternalCommit(path) PROVE TypeInv'
    <2>1. head' \in [id : Nat, tree : Trees]
      <3>1. head.tree \in Trees /\ head.id \in Nat
        BY DEF TypeInv, TypeOK
      <3>2. [head.tree EXCEPT ![path] = tree[path]] \in Trees
        BY <3>1, FileTyped, TreeUpdate
      <3>3. QED
        BY <1>13, <3>1, <3>2 DEF ExternalCommit
    <2>2. commits' \in 0..MaxCommits
      BY <1>13, Bounds DEF ExternalCommit, TypeInv, TypeOK
    <2>3. QED
      BY <1>13, <2>1, <2>2 DEF ExternalCommit, TypeInv, TypeOK, PendingInv
  <1>14. CASE UNCHANGED vars
    BY <1>14 DEF vars, TypeInv, TypeOK, PendingInv
  <1>15. QED
    BY <1>1, <1>2, <1>3, <1>4, <1>5, <1>6, <1>7, <1>8, <1>9, <1>10, <1>11, <1>12, <1>13, <1>14
    DEF Next, Proceed

\* The state of the project and of every transaction is well-typed: in
\* particular a rollback restores only contents that the files can have
\* (snapshot, restoreSnapshots).
THEOREM TypeCorrect == Spec => []TypeOK
  <1>1. TypeInv => TypeOK
    BY DEF TypeInv
  <1>2. QED
    BY <1>1, TypeInit, TypeStep, PTL DEF Spec

-----------------------------------------------------------------------------
(* The inductive invariant.  Advisory locks exclude each other only within  *)
(* one lock file.  transactionLockPath can give two transactions different  *)
(* files, when Git cannot be asked for one of them; the theorems below are  *)
(* about behaviours in which the transactions under way share a lock file.  *)

OneLockFile ==
  \A p, q \in Procs : (pc[p] # "idle" /\ pc[q] # "idle") => tx[p].lockFile = tx[q].lockFile

\* The locks are those of the transactions that are past waiting.
LockInv ==
  /\ \A l \in LockFiles, p \in Procs :
       /\ lock[l].writer = p <=> (pc[p] \in WriterPCs /\ tx[p].lockFile = l)
       /\ p \in lock[l].readers <=> (pc[p] = "read" /\ tx[p].lockFile = l)
  /\ \A l \in LockFiles : lock[l].writer # None => lock[l].readers = {}

\* What a transaction keeps in memory before it writes, and reads.
Memory(p) ==
  /\ pc[p] \notin WriterPCs => /\ tx[p].snapshots = <<>>
                               /\ tx[p].written = {}
                               /\ tx[p].ioError = FALSE
  /\ pc[p] # "read" => tx[p].seen = <<>>
  /\ pc[p] \in {"waitRO", "read"} => tx[p].message = FALSE

\* Until its transaction ends, what p found under the lock is in its journal or
\* still in the tree; a rollback has it back in every file but the pending ones.
Journal(p) ==
  /\ pc[p] \in {"work", "stage", "publish"} =>
       \A path \in Paths : tx[p].begun[path] = IF path \in DOMAIN tx[p].snapshots
                                               THEN tx[p].snapshots[path] ELSE tree[path]
  /\ pc[p] = "rollback" =>
       \A path \in Paths : tx[p].begun[path] = IF path \in tx[p].pending
                                               THEN tx[p].snapshots[path] ELSE tree[path]
  /\ pc[p] = "read" => tree = tx[p].begun
  /\ \A path \in DOMAIN tx[p].seen : tx[p].seen[path] = tx[p].begun[path]

\* The tree of a prepared commit is that of HEAD with the files of the
\* transaction, as long as HEAD is where it was.
Prepared(p) ==
  pc[p] = "publish" =>
    /\ tx[p].oldHead <= head.id
    /\ tx[p].oldHead = head.id => tx[p].newTree = Staged(p)

\* Files that parse and foreign keys that resolve.
RecordsIn(t, path) == IF t[path] \in {Absent, Torn} THEN {} ELSE DOMAIN t[path]
Sound(t) ==
  \A path \in Paths :
    /\ t[path] # Torn
    /\ \A k \in RecordsIn(t, path) :
         t[path][k] \in Parents => t[path][k] \in RecordsIn(t, PathOf[t[path][k]])

\* Nothing half made is left, so a writer found a sound tree; the tree is sound
\* when nobody writes and until the writer's first failed write.
SoundFor(p) ==
  /\ pc[p] \in WriterPCs => Sound(tx[p].begun)
  /\ (pc[p] \in {"work", "stage", "publish"} /\ tx[p].ioError = FALSE) => Sound(tree)
SoundInv ==
  damaged = FALSE => /\ \A p \in Procs : SoundFor(p)
                     /\ (\A p \in Procs : pc[p] \notin WriterPCs) => Sound(tree)

TxInv  == \A p \in Procs : Memory(p) /\ Journal(p) /\ Prepared(p)
SafeInv == TypeInv /\ LockInv /\ TxInv
Inv == SafeInv /\ SoundInv

\* The steps of one process.
ProcessStep(p) ==
  \/ \E m \in BOOLEAN, l \in LockFiles : BeginReadwrite(p, m, l)
  \/ \E l \in LockFiles : BeginReadonly(p, l)
  \/ AcquireExclusive(p) \/ AcquireShared(p)
  \/ \E path \in Paths : ReadFile(p, path)
  \/ WorkerOperates(p)
  \/ Proceed(p)
  \/ RestoreFails(p) \/ WorkerPanics(p) \/ Crash(p)

LEMMA NextIsOfOne ==
  Next <=> (\E p \in Procs : ProcessStep(p)) \/ (\E path \in Paths : ExternalCommit(path))
  BY Zenon DEF Next, ProcessStep

\* What a step can be for the process that takes it.
LEMMA StepKinds ==
  ASSUME TypeInv, NEW p \in Procs, ProcessStep(p)
  PROVE  \/ \E m \in BOOLEAN, l \in LockFiles : BeginReadwrite(p, m, l)
         \/ \E l \in LockFiles : BeginReadonly(p, l)
         \/ AcquireExclusive(p) \/ AcquireShared(p)
         \/ \E path \in Paths : ReadFile(p, path)
         \/ WorkerOperates(p)
         \/ /\ pc[p] \in {"work", "stage", "publish"} /\ Rollback(p) /\ tree' = tree
         \/ /\ pc[p] = "work" /\ pc' = [pc EXCEPT ![p] = "stage"]
            /\ UNCHANGED <<lock, tx, tree, head, damaged>>
         \/ /\ pc[p] = "stage" /\ pc' = [pc EXCEPT ![p] = "publish"]
            /\ tx' = [tx EXCEPT ![p].oldHead = head.id, ![p].newTree = Staged(p)]
            /\ UNCHANGED <<lock, tree, head, damaged>>
         \/ RestoreSnapshot(p) \/ RestoreFails(p)
         \/ pc[p] = "rollback" /\ tx[p].pending = {} /\ Return(p, "failed") /\ tree' = tree
         \/ /\ pc[p] \in {"read", "work", "stage", "publish"} /\ Return(p, "ok") /\ tree' = tree
         \/ Return(p, "panicked") /\ tree' = tree
         \/ Return(p, "crashed") /\ tree' = tree
  <1> USE DEF ProcessStep, Proceed
  <1>1. CASE WorkerFails(p)
    BY <1>1 DEF WorkerFails
  <1>2. CASE WorkerSucceeds(p)
    BY <1>2 DEF WorkerSucceeds
  <1>3. CASE StageCommit(p)
    BY <1>3 DEF StageCommit
  <1>4. CASE PublishCommit(p)
    BY <1>4 DEF PublishCommit
  <1>5. CASE RolledBack(p)
    BY <1>5 DEF RolledBack
  <1>6. CASE EndReadonly(p)
    BY <1>6 DEF EndReadonly
  <1>7. CASE WorkerPanics(p)
    BY <1>7 DEF WorkerPanics
  <1>8. CASE Crash(p)
    BY <1>8 DEF Crash
  <1>9. QED
    BY <1>1, <1>2, <1>3, <1>4, <1>5, <1>6, <1>7, <1>8

\* The end of a call, for the locks and the memory of all processes.
LEMMA ReturnEffect ==
  ASSUME TypeInv, NEW p \in Procs, NEW result, Return(p, result)
  PROVE  /\ pc'[p] = "idle" /\ tx'[p] = NoTx
         /\ \A q \in Procs \ {p} : pc'[q] = pc[q] /\ tx'[q] = tx[q]
         /\ damaged' = (damaged \/ HalfMade(p, result))
         /\ \A l \in LockFiles :
              IF l = tx[p].lockFile
              THEN /\ lock'[l].writer = IF lock[l].writer = p THEN None ELSE lock[l].writer
                   /\ lock'[l].readers = lock[l].readers \ {p}
              ELSE lock'[l] = lock[l]
  <1>1. tx[p].lockFile \in LockFiles
    BY DEF TypeInv, TypeOK, Txs
  <1>2. QED
    BY <1>1 DEF TypeInv, TypeOK, Return, Unlocked

\* The start of a rollback.
LEMMA RollbackEffect ==
  ASSUME TypeInv, NEW p \in Procs, Rollback(p)
  PROVE  /\ pc'[p] = "rollback"
         /\ tx'[p] = [tx[p] EXCEPT !.pending = DOMAIN tx[p].snapshots]
         /\ \A q \in Procs \ {p} : pc'[q] = pc[q] /\ tx'[q] = tx[q]
  BY DEF TypeInv, TypeOK, Rollback

\* Every step of p leaves the other processes alone, and only one that holds the
\* exclusive lock changes the tree.
LEMMA Frame ==
  ASSUME TypeInv, NEW p \in Procs, ProcessStep(p)
  PROVE  /\ \A q \in Procs \ {p} : pc'[q] = pc[q] /\ tx'[q] = tx[q]
         /\ tree' = tree \/ pc[p] \in {"work", "rollback"}
  <1>0. pc \in [Procs -> PCs] /\ tx \in [Procs -> Txs]
    BY DEF TypeInv, TypeOK
  <1>1. CASE \/ \E m \in BOOLEAN, l \in LockFiles : BeginReadwrite(p, m, l)
             \/ \E l \in LockFiles : BeginReadonly(p, l)
             \/ AcquireExclusive(p) \/ AcquireShared(p)
             \/ \E path \in Paths : ReadFile(p, path)
    BY <1>0, <1>1 DEF BeginReadwrite, BeginReadonly, AcquireExclusive, AcquireShared, ReadFile
  <1>2. CASE WorkerOperates(p)
    <2>1. PICK path \in Paths : \E c \in Contents(path) :
                 Write(p, path, c) \/ WriteFails(p, path, c) \/ Journalled(p, path)
      BY <1>2, OperationShape
    <2>2. Operation(p)
      BY <1>2, OperationShape
    <2>3. \A q \in Procs \ {p} : tx'[q] = tx[q]
      BY <2>1, <2>2, OperationEffect
    <2>4. QED
      BY <2>2, <2>3 DEF Operation
  <1>3. CASE Rollback(p) /\ tree' = tree
    BY <1>3, RollbackEffect
  <1>4. CASE \/ pc' = [pc EXCEPT ![p] = "stage"] /\ UNCHANGED <<tx, tree>>
             \/ /\ pc' = [pc EXCEPT ![p] = "publish"] /\ tree' = tree
                /\ tx' = [tx EXCEPT ![p].oldHead = head.id, ![p].newTree = Staged(p)]
    BY <1>0, <1>4
  <1>5. CASE RestoreSnapshot(p)
    BY <1>0, <1>5 DEF RestoreSnapshot
  <1>6. CASE RestoreFails(p)
    BY <1>6, ReturnEffect DEF RestoreFails
  <1>7. CASE (\E result : Return(p, result)) /\ tree' = tree
    BY <1>7, ReturnEffect
  <1>8. QED
    BY <1>1, <1>2, <1>3, <1>4, <1>5, <1>6, <1>7, StepKinds

\* An operation, for the process that takes it.
LEMMA WorkerEffect ==
  ASSUME TypeInv, NEW p \in Procs, WorkerOperates(p)
  PROVE  /\ pc[p] = "work" /\ pc' = pc /\ UNCHANGED <<head, lock, damaged>>
         /\ \E path \in Paths :
              /\ \A q \in Paths \ {path} : tree'[q] = tree[q]
              /\ tx'[p].snapshots = Snapshot(p, path)
         /\ tx'[p].lockFile = tx[p].lockFile
         /\ tx'[p].begun = tx[p].begun
         /\ tx'[p].seen = tx[p].seen
         /\ tx'[p].message = tx[p].message
  <1>1. PICK path \in Paths : \E c \in Contents(path) :
               Write(p, path, c) \/ WriteFails(p, path, c) \/ Journalled(p, path)
    BY OperationShape
  <1>2. Operation(p)
    BY OperationShape
  <1>3. PICK c \in Contents(path) :
               Write(p, path, c) \/ WriteFails(p, path, c) \/ Journalled(p, path)
    BY <1>1
  <1>4. tx[p] \in Txs
    BY DEF TypeInv, TypeOK
  <1>5. PICK w \in SUBSET Paths, e \in BOOLEAN :
          /\ tx'[p] = [tx[p] EXCEPT !.ops = tx[p].ops + 1, !.snapshots = Snapshot(p, path),
                                    !.written = w, !.ioError = e]
          /\ w \subseteq tx[p].written \cup {path}
    BY <1>2, <1>3, OperationEffect, Zenon
  <1>6. /\ tx'[p].snapshots = Snapshot(p, path) /\ tx'[p].lockFile = tx[p].lockFile
        /\ tx'[p].begun = tx[p].begun /\ tx'[p].seen = tx[p].seen
    BY <1>4, <1>5 DEF Txs
  <1>7. tx'[p].message = tx[p].message
    BY <1>4, <1>5 DEF Txs
  <1>8. \A q \in Paths \ {path} : tree'[q] = tree[q]
    BY <1>2, <1>3, OperationEffect
  <1>9. QED
    BY <1>2, <1>6, <1>7, <1>8 DEF Operation

-----------------------------------------------------------------------------
(* Locks. *)

\* A step that neither takes nor gives back a lock.
LEMMA LockKept ==
  ASSUME TypeInv, LockInv, NEW p \in Procs, lock' = lock,
         \A q \in Procs \ {p} : pc'[q] = pc[q] /\ tx'[q] = tx[q],
         \/ /\ tx'[p].lockFile = tx[p].lockFile
            /\ pc[p] \in WriterPCs <=> pc'[p] \in WriterPCs
            /\ pc[p] = "read" <=> pc'[p] = "read"
         \/ /\ pc[p] \notin WriterPCs \cup {"read"}
            /\ pc'[p] \notin WriterPCs \cup {"read"}
  PROVE  LockInv'
  BY DEF LockInv

LEMMA LockReturned ==
  ASSUME TypeInv, LockInv, NEW p \in Procs, NEW result, Return(p, result)
  PROVE  LockInv'
  <1>1. p # None /\ tx[p].lockFile \in LockFiles
    BY RwConstantsAssumption DEF TypeInv, TypeOK, Txs
  <1>2. pc'[p] \notin WriterPCs /\ pc'[p] # "read"
    BY ReturnEffect DEF WriterPCs
  <1>3. \A l \in LockFiles, q \in Procs \ {p} :
          /\ lock'[l].writer = q <=> lock[l].writer = q
          /\ q \in lock'[l].readers <=> q \in lock[l].readers
    BY <1>1, ReturnEffect, RwConstantsAssumption
  <1>4. \A l \in LockFiles : lock'[l].writer # p /\ p \notin lock'[l].readers
    BY <1>1, ReturnEffect DEF LockInv
  <1>5. \A l \in LockFiles : lock'[l].writer # None => lock'[l].readers = {}
    BY <1>1, ReturnEffect DEF LockInv
  <1>6. QED
    BY <1>2, <1>3, <1>4, <1>5, ReturnEffect DEF LockInv

LEMMA LockStep ==
  ASSUME TypeInv, LockInv, NEW p \in Procs, ProcessStep(p)
  PROVE  LockInv'
  <1>0. /\ pc \in [Procs -> PCs] /\ tx \in [Procs -> Txs] /\ tx[p] \in Txs
        /\ tx[p].lockFile \in LockFiles
        /\ lock \in [LockFiles -> [writer : Procs \cup {None}, readers : SUBSET Procs]]
        /\ p # None
    BY RwConstantsAssumption DEF TypeInv, TypeOK, Txs
  <1>f. \A q \in Procs \ {p} : pc'[q] = pc[q] /\ tx'[q] = tx[q]
    BY Frame
  <1>1. CASE \/ \E m \in BOOLEAN, l \in LockFiles : BeginReadwrite(p, m, l)
             \/ \E l \in LockFiles : BeginReadonly(p, l)
    <2>1. lock' = lock /\ pc[p] = "idle" /\ pc'[p] \in {"waitRW", "waitRO"}
      BY <1>0, <1>1 DEF BeginReadwrite, BeginReadonly
    <2>2. QED
      BY <1>f, <2>1, LockKept DEF WriterPCs
  <1>2. CASE AcquireExclusive(p)
    <2>1. pc[p] = "waitRW" /\ pc'[p] = "work" /\ tx'[p].lockFile = tx[p].lockFile
      BY <1>0, <1>2 DEF AcquireExclusive, Txs
    <2>2. \A l \in LockFiles :
            IF l = tx[p].lockFile
            THEN /\ lock[l].writer = None /\ lock[l].readers = {}
                 /\ lock'[l].writer = p /\ lock'[l].readers = {}
            ELSE lock'[l] = lock[l]
      BY <1>0, <1>2 DEF AcquireExclusive
    <2>3. QED
      BY <1>0, <1>f, <2>1, <2>2, RwConstantsAssumption DEF LockInv, WriterPCs
  <1>3. CASE AcquireShared(p)
    <2>1. pc[p] = "waitRO" /\ pc'[p] = "read" /\ tx'[p].lockFile = tx[p].lockFile
      BY <1>0, <1>3 DEF AcquireShared, Txs
    <2>2. \A l \in LockFiles :
            IF l = tx[p].lockFile
            THEN /\ lock[l].writer = None
                 /\ lock'[l].writer = None /\ lock'[l].readers = lock[l].readers \cup {p}
            ELSE lock'[l] = lock[l]
      BY <1>0, <1>3 DEF AcquireShared
    <2>3. QED
      BY <1>0, <1>f, <2>1, <2>2 DEF LockInv, WriterPCs
  <1>4. CASE \E path \in Paths : ReadFile(p, path)
    <2>1. PICK path \in Paths : ReadFile(p, path)
      BY <1>4
    <2>2. tx'[p].lockFile = tx[p].lockFile /\ lock' = lock /\ pc' = pc
      <3>1. tx'[p] = [tx[p] EXCEPT !.seen = tx'[p].seen]
        BY <2>1, ReadFileTyped
      <3>2. QED
        BY <1>0, <2>1, <3>1 DEF ReadFile, Txs
    <2>3. QED
      BY <1>f, <2>2, LockKept
  <1>5. CASE WorkerOperates(p)
    BY <1>5, <1>f, WorkerEffect, LockKept
  <1>6. CASE pc[p] \in {"work", "stage", "publish"} /\ Rollback(p)
    <2>1. tx'[p].lockFile = tx[p].lockFile /\ lock' = lock /\ pc'[p] = "rollback"
      BY <1>0, <1>6, RollbackEffect DEF Rollback, Txs
    <2>2. QED
      BY <1>6, <1>f, <2>1, LockKept DEF WriterPCs
  <1>7. CASE \/ /\ pc[p] = "work" /\ pc' = [pc EXCEPT ![p] = "stage"]
                /\ UNCHANGED <<lock, tx>>
             \/ /\ pc[p] = "stage" /\ pc' = [pc EXCEPT ![p] = "publish"]
                /\ tx' = [tx EXCEPT ![p].oldHead = head.id, ![p].newTree = Staged(p)]
                /\ UNCHANGED lock
    <2>1. tx'[p].lockFile = tx[p].lockFile /\ pc'[p] \in {"stage", "publish"} /\ lock' = lock
      BY <1>0, <1>7 DEF Txs
    <2>2. QED
      BY <1>7, <1>f, <2>1, LockKept DEF WriterPCs
  <1>8. CASE RestoreSnapshot(p)
    <2>1. tx'[p].lockFile = tx[p].lockFile /\ lock' = lock /\ pc' = pc
      BY <1>0, <1>8 DEF RestoreSnapshot, Txs
    <2>2. QED
      BY <1>f, <2>1, LockKept
  <1>9. CASE \E result : Return(p, result)
    BY <1>9, LockReturned
  <1>10. CASE RestoreFails(p)
    BY <1>10, LockReturned DEF RestoreFails
  <1>11. QED
    BY <1>1, <1>2, <1>3, <1>4, <1>5, <1>6, <1>7, <1>8, <1>9, <1>10, StepKinds

\* A writer under the lock file that all use is alone: no other process writes
\* or reads (withExclusiveLock).
LEMMA WriterIsAlone ==
  ASSUME TypeInv, LockInv, OneLockFile, NEW p \in Procs, NEW q \in Procs \ {p},
         pc[p] \in WriterPCs
  PROVE  pc[q] \notin WriterPCs /\ pc[q] # "read"
  <1>1. p # None /\ tx[p].lockFile \in LockFiles
    BY RwConstantsAssumption DEF TypeInv, TypeOK, Txs
  <1>2. lock[tx[p].lockFile].writer = p
    BY <1>1 DEF LockInv
  <1>3. pc[q] # "idle" => tx[q].lockFile = tx[p].lockFile
    BY DEF OneLockFile, WriterPCs
  <1>4. QED
    BY <1>1, <1>2, <1>3 DEF LockInv, WriterPCs

-----------------------------------------------------------------------------
(* Journal and commit. *)

\* HEAD moves forward, and only in PublishCommit or by another program.
LEMMA HeadMoves ==
  ASSUME TypeInv, NEW p \in Procs, ProcessStep(p)
  PROVE  \/ head' = head
         \/ /\ pc[p] = "publish" /\ tree' = tree
            /\ head.id = tx[p].oldHead
            /\ head' = [id |-> head.id + 1, tree |-> tx[p].newTree]
            /\ Return(p, "ok") \/ Rollback(p)
  <1>1. CASE PublishCommit(p)
    BY <1>1 DEF PublishCommit
  <1>2. CASE WorkerOperates(p)
    BY <1>2, WorkerEffect
  <1>3. CASE ~PublishCommit(p) /\ ~WorkerOperates(p)
    BY <1>3 DEF ProcessStep, Proceed, BeginReadwrite, BeginReadonly, AcquireExclusive,
       AcquireShared, ReadFile, WorkerFails, WorkerSucceeds, StageCommit, RestoreSnapshot,
       RolledBack, EndReadonly, RestoreFails, WorkerPanics, Crash
  <1>4. QED
    BY <1>1, <1>2, <1>3

\* A step of p keeps what is true of the transaction of q: either p is a writer
\* and q neither writes nor reads, or p changes neither tree nor HEAD.
LEMMA OthersKept ==
  ASSUME SafeInv, OneLockFile, NEW p \in Procs, ProcessStep(p), NEW q \in Procs \ {p}
  PROVE  (Memory(q) /\ Journal(q) /\ Prepared(q))'
  <1>1. pc'[q] = pc[q] /\ tx'[q] = tx[q]
    BY Frame DEF SafeInv
  <1>2. Memory(q) /\ Journal(q) /\ Prepared(q)
    BY DEF SafeInv, TxInv
  <1>3. Memory(q)'
    BY <1>1, <1>2 DEF Memory
  <1>4. CASE pc[p] \in WriterPCs
    <2>1. pc[q] \notin WriterPCs /\ pc[q] # "read"
      BY <1>4, WriterIsAlone DEF SafeInv
    <2>2. QED
      BY <1>1, <1>2, <1>3, <2>1 DEF Journal, Prepared, WriterPCs
  <1>5. CASE pc[p] \notin WriterPCs
    <2>1. tree' = tree /\ head' = head
      BY <1>5, Frame, HeadMoves DEF SafeInv, WriterPCs
    <2>2. QED
      BY <1>1, <1>2, <1>3, <2>1 DEF Journal, Prepared, Staged
  <1>6. QED
    BY <1>4, <1>5

LEMMA IdleKept ==
  ASSUME NEW p \in Procs, pc'[p] = "idle", tx'[p] = NoTx
  PROVE  (Memory(p) /\ Journal(p) /\ Prepared(p))'
  BY EmptyPartial DEF Memory, Journal, Prepared, NoTx, WriterPCs

LEMMA BeginKept ==
  ASSUME TypeInv, NEW p \in Procs,
         \/ \E m \in BOOLEAN, l \in LockFiles : BeginReadwrite(p, m, l)
         \/ \E l \in LockFiles : BeginReadonly(p, l)
  PROVE  (Memory(p) /\ Journal(p) /\ Prepared(p))'
  <1>0. pc \in [Procs -> PCs] /\ tx \in [Procs -> Txs]
    BY DEF TypeInv, TypeOK
  <1>1. CASE \E m \in BOOLEAN, l \in LockFiles : BeginReadwrite(p, m, l)
    <2>1. PICK m \in BOOLEAN, l \in LockFiles : BeginReadwrite(p, m, l)
      BY <1>1
    <2>2. pc'[p] = "waitRW" /\ tx'[p] = [NoTx EXCEPT !.lockFile = l, !.message = m]
      BY <1>0, <2>1 DEF BeginReadwrite
    <2>3. tx'[p].snapshots = <<>> /\ tx'[p].written = {} /\ tx'[p].ioError = FALSE
          /\ tx'[p].seen = <<>>
      BY <2>2 DEF NoTx
    <2>4. QED
      BY <2>2, <2>3, EmptyPartial DEF Memory, Journal, Prepared, WriterPCs
  <1>2. CASE \E l \in LockFiles : BeginReadonly(p, l)
    <2>1. PICK l \in LockFiles : BeginReadonly(p, l)
      BY <1>2
    <2>2. pc'[p] = "waitRO" /\ tx'[p] = [NoTx EXCEPT !.lockFile = l]
      BY <1>0, <2>1 DEF BeginReadonly
    <2>3. tx'[p].snapshots = <<>> /\ tx'[p].written = {} /\ tx'[p].ioError = FALSE
          /\ tx'[p].seen = <<>> /\ tx'[p].message = FALSE
      BY <2>2 DEF NoTx
    <2>4. QED
      BY <2>2, <2>3, EmptyPartial DEF Memory, Journal, Prepared, WriterPCs
  <1>3. QED
    BY <1>1, <1>2

LEMMA AcquireKept ==
  ASSUME SafeInv, NEW p \in Procs, AcquireExclusive(p) \/ AcquireShared(p)
  PROVE  (Memory(p) /\ Journal(p) /\ Prepared(p))'
  <1>0. pc \in [Procs -> PCs] /\ tx \in [Procs -> Txs] /\ tx[p] \in Txs
    BY DEF SafeInv, TypeInv, TypeOK
  <1>1. /\ pc[p] \notin WriterPCs \cup {"read"} /\ pc'[p] \in {"work", "read"}
        /\ pc'[p] = "read" => pc[p] = "waitRO"
        /\ tree' = tree /\ tx'[p] = [tx[p] EXCEPT !.begun = tree]
    BY <1>0 DEF AcquireExclusive, AcquireShared, WriterPCs
  <1>2. tx'[p].begun = tree /\ tx'[p].snapshots = tx[p].snapshots /\ tx'[p].seen = tx[p].seen
        /\ tx'[p].written = tx[p].written
    BY <1>0, <1>1 DEF Txs
  <1>3. tx'[p].ioError = tx[p].ioError /\ tx'[p].message = tx[p].message
    BY <1>0, <1>1 DEF Txs
  <1>4. Memory(p)
    BY DEF SafeInv, TxInv
  <1>5. Memory(p)'
    BY <1>1, <1>2, <1>3, <1>4 DEF Memory, WriterPCs
  <1>6. tx'[p].snapshots = <<>> /\ tx'[p].seen = <<>>
    BY <1>1, <1>2, <1>4 DEF Memory
  <1>7. QED
    BY <1>1, <1>2, <1>5, <1>6, EmptyPartial DEF Journal, Prepared

LEMMA ReadKept ==
  ASSUME SafeInv, NEW p \in Procs, NEW path \in Paths, ReadFile(p, path)
  PROVE  (Memory(p) /\ Journal(p) /\ Prepared(p))'
  <1>0. tx[p] \in Txs /\ Memory(p) /\ Journal(p)
    BY DEF SafeInv, TypeInv, TypeOK, TxInv
  <1>1. pc[p] = "read" /\ pc' = pc /\ tree' = tree
    BY DEF ReadFile
  <1>2. tx'[p] = [tx[p] EXCEPT !.seen = tx'[p].seen]
    BY ReadFileTyped DEF SafeInv
  <1>3. tx'[p].begun = tx[p].begun /\ tx'[p].snapshots = tx[p].snapshots
        /\ tx'[p].written = tx[p].written
    BY <1>0, <1>2 DEF Txs
  <1>4. tx'[p].ioError = tx[p].ioError /\ tx'[p].message = tx[p].message
    BY <1>0, <1>2 DEF Txs
  <1>5. \A q \in DOMAIN tx'[p].seen : tx'[p].seen[q] = tx'[p].begun[q]
    <2>1. /\ DOMAIN tx'[p].seen = DOMAIN tx[p].seen \cup {path}
          /\ \A q \in DOMAIN tx'[p].seen :
               tx'[p].seen[q] = IF q = path THEN tree[path] ELSE tx[p].seen[q]
      BY ReadFileTyped, Zenon DEF SafeInv
    <2>2. tree[path] = tx[p].begun[path]
          /\ \A q \in DOMAIN tx[p].seen : tx[p].seen[q] = tx[p].begun[q]
      BY <1>0, <1>1 DEF Journal
    <2>3. QED
      BY <1>3, <2>1, <2>2
  <1>6. QED
    BY <1>0, <1>1, <1>3, <1>4, <1>5 DEF Memory, Journal, Prepared, WriterPCs

LEMMA WorkKept ==
  ASSUME SafeInv, NEW p \in Procs, WorkerOperates(p)
  PROVE  (Memory(p) /\ Journal(p) /\ Prepared(p))'
  <1>0. Memory(p) /\ Journal(p) /\ TypeInv
    BY DEF SafeInv, TxInv
  <1>1. PICK path \in Paths :
          /\ \A q \in Paths \ {path} : tree'[q] = tree[q]
          /\ tx'[p].snapshots = Snapshot(p, path)
    BY <1>0, WorkerEffect
  <1>2. /\ pc[p] = "work" /\ pc' = pc /\ tx'[p].begun = tx[p].begun
        /\ tx'[p].seen = tx[p].seen /\ tx'[p].message = tx[p].message
    BY <1>0, WorkerEffect
  <1>3. Memory(p)'
    BY <1>0, <1>2 DEF Memory, WriterPCs
  <1>4. ASSUME NEW q \in Paths
        PROVE  tx'[p].begun[q] = IF q \in DOMAIN tx'[p].snapshots
                                 THEN tx'[p].snapshots[q] ELSE tree'[q]
    <2>1. tx[p].begun[q] = IF q \in DOMAIN tx[p].snapshots
                           THEN tx[p].snapshots[q] ELSE tree[q]
      BY <1>0, <1>2 DEF Journal
    <2>2. /\ DOMAIN tx'[p].snapshots = DOMAIN tx[p].snapshots \cup {path}
          /\ \A r \in DOMAIN tx'[p].snapshots :
               tx'[p].snapshots[r] = IF r \in DOMAIN tx[p].snapshots
                                     THEN tx[p].snapshots[r] ELSE tree[r]
      BY <1>0, <1>1, SnapshotTyped
    <2>3. QED
      BY <1>1, <1>2, <2>1, <2>2
  <1>5. \A q \in DOMAIN tx'[p].seen : tx'[p].seen[q] = tx'[p].begun[q]
    BY <1>0, <1>2 DEF Journal
  <1>6. QED
    BY <1>2, <1>3, <1>4, <1>5 DEF Journal, Prepared

LEMMA RollbackKept ==
  ASSUME SafeInv, NEW p \in Procs, pc[p] \in {"work", "stage", "publish"}, Rollback(p),
         tree' = tree
  PROVE  (Memory(p) /\ Journal(p) /\ Prepared(p))'
  <1>0. tx[p] \in Txs /\ Memory(p) /\ Journal(p)
    BY DEF SafeInv, TypeInv, TypeOK, TxInv
  <1>1. pc'[p] = "rollback" /\ tx'[p] = [tx[p] EXCEPT !.pending = DOMAIN tx[p].snapshots]
    BY RollbackEffect DEF SafeInv
  <1>2. /\ tx'[p].begun = tx[p].begun /\ tx'[p].snapshots = tx[p].snapshots
        /\ tx'[p].pending = DOMAIN tx[p].snapshots /\ tx'[p].seen = tx[p].seen
    BY <1>0, <1>1 DEF Txs
  <1>3. QED
    BY <1>0, <1>1, <1>2 DEF Memory, Journal, Prepared, WriterPCs

LEMMA StageKept ==
  ASSUME SafeInv, NEW p \in Procs, tree' = tree, head' = head,
         \/ /\ pc[p] = "work" /\ pc' = [pc EXCEPT ![p] = "stage"] /\ tx' = tx
         \/ /\ pc[p] = "stage" /\ pc' = [pc EXCEPT ![p] = "publish"]
            /\ tx' = [tx EXCEPT ![p].oldHead = head.id, ![p].newTree = Staged(p)]
  PROVE  (Memory(p) /\ Journal(p) /\ Prepared(p))'
  <1>0. /\ pc \in [Procs -> PCs] /\ tx \in [Procs -> Txs] /\ tx[p] \in Txs
        /\ Memory(p) /\ Journal(p) /\ head.id \in Nat
    BY DEF SafeInv, TypeInv, TypeOK, TxInv
  <1>1. CASE pc[p] = "work" /\ pc' = [pc EXCEPT ![p] = "stage"] /\ tx' = tx
    BY <1>0, <1>1 DEF Memory, Journal, Prepared, WriterPCs
  <1>2. CASE /\ pc[p] = "stage" /\ pc' = [pc EXCEPT ![p] = "publish"]
             /\ tx' = [tx EXCEPT ![p].oldHead = head.id, ![p].newTree = Staged(p)]
    <2>1. /\ pc'[p] = "publish"
          /\ tx'[p] = [tx[p] EXCEPT !.oldHead = head.id, !.newTree = Staged(p)]
      BY <1>0, <1>2
    <2>2. /\ tx'[p].begun = tx[p].begun /\ tx'[p].snapshots = tx[p].snapshots
          /\ tx'[p].seen = tx[p].seen /\ tx'[p].written = tx[p].written
          /\ tx'[p].oldHead = head.id /\ tx'[p].newTree = Staged(p)
      BY <1>0, <2>1 DEF Txs
    <2>3. Staged(p)' = Staged(p)
      BY <2>2 DEF Staged
    <2>4. QED
      BY <1>0, <1>2, <2>1, <2>2, <2>3 DEF Memory, Journal, Prepared, WriterPCs
  <1>3. QED
    BY <1>1, <1>2

LEMMA RestoreKept ==
  ASSUME SafeInv, NEW p \in Procs, RestoreSnapshot(p)
  PROVE  (Memory(p) /\ Journal(p) /\ Prepared(p))'
  <1> DEFINE path == FirstPath(tx[p].pending)
  <1>0. /\ tx \in [Procs -> Txs] /\ tx[p] \in Txs /\ tree \in [Paths -> Content]
        /\ Memory(p) /\ Journal(p)
    BY DEF SafeInv, TypeInv, TypeOK, TxInv, Trees
  <1>1. path \in Paths /\ path \in tx[p].pending
    BY RestoreTyped DEF SafeInv
  <1>2. pc[p] = "rollback" /\ pc' = pc /\ tree' = [tree EXCEPT ![path] = tx[p].snapshots[path]]
    BY DEF RestoreSnapshot
  <1>3. tx'[p] = [tx[p] EXCEPT !.pending = tx[p].pending \ {path}]
    BY <1>0 DEF RestoreSnapshot
  <1> HIDE DEF path
  <1>4. /\ tx'[p].begun = tx[p].begun /\ tx'[p].snapshots = tx[p].snapshots
        /\ tx'[p].seen = tx[p].seen /\ tx'[p].pending = tx[p].pending \ {path}
    BY <1>0, <1>3 DEF Txs
  <1>5. QED
    BY <1>0, <1>1, <1>2, <1>4 DEF Memory, Journal, Prepared, WriterPCs

LEMMA SafeInit == Init => SafeInv
  <1> SUFFICES ASSUME Init PROVE SafeInv
    OBVIOUS
  <1>1. TypeInv
    BY TypeInit
  <1>2. \A p \in Procs : pc[p] = "idle" /\ tx[p] = NoTx
    BY DEF Init
  <1>3. LockInv
    BY <1>2, RwConstantsAssumption DEF Init, LockInv, WriterPCs
  <1>4. ASSUME NEW p \in Procs PROVE Memory(p) /\ Journal(p) /\ Prepared(p)
    BY <1>2, EmptyPartial DEF Memory, Journal, Prepared, NoTx, WriterPCs
  <1>5. QED
    BY <1>1, <1>3, <1>4 DEF SafeInv, TxInv

LEMMA SafeStep == SafeInv /\ OneLockFile /\ [Next]_vars => SafeInv'
  <1> SUFFICES ASSUME SafeInv, OneLockFile, [Next]_vars PROVE SafeInv'
    OBVIOUS
  <1>1. TypeInv /\ TypeInv'
    BY TypeStep DEF SafeInv
  <1>2. ASSUME NEW p \in Procs, ProcessStep(p) PROVE LockInv' /\ TxInv'
    <2>1. LockInv'
      BY <1>1, <1>2, LockStep DEF SafeInv
    <2>2. \A q \in Procs \ {p} : (Memory(q) /\ Journal(q) /\ Prepared(q))'
      BY <1>2, OthersKept
    <2>3. (Memory(p) /\ Journal(p) /\ Prepared(p))'
      <3>1. CASE \/ \E m \in BOOLEAN, l \in LockFiles : BeginReadwrite(p, m, l)
                 \/ \E l \in LockFiles : BeginReadonly(p, l)
        BY <1>1, <3>1, BeginKept
      <3>2. CASE AcquireExclusive(p) \/ AcquireShared(p)
        BY <3>2, AcquireKept
      <3>3. CASE \E path \in Paths : ReadFile(p, path)
        BY <3>3, ReadKept
      <3>4. CASE WorkerOperates(p)
        BY <3>4, WorkKept
      <3>5. CASE pc[p] \in {"work", "stage", "publish"} /\ Rollback(p) /\ tree' = tree
        BY <3>5, RollbackKept
      <3>6. CASE \/ /\ pc[p] = "work" /\ pc' = [pc EXCEPT ![p] = "stage"]
                    /\ UNCHANGED <<lock, tx, tree, head, damaged>>
                 \/ /\ pc[p] = "stage" /\ pc' = [pc EXCEPT ![p] = "publish"]
                    /\ tx' = [tx EXCEPT ![p].oldHead = head.id, ![p].newTree = Staged(p)]
                    /\ UNCHANGED <<lock, tree, head, damaged>>
        BY <3>6, StageKept
      <3>7. CASE RestoreSnapshot(p)
        BY <3>7, RestoreKept
      <3>8. CASE \E result : Return(p, result)
        BY <1>1, <3>8, ReturnEffect, IdleKept
      <3>9. CASE RestoreFails(p)
        BY <3>8, <3>9 DEF RestoreFails
      <3>10. QED
        BY <1>1, <1>2, <3>1, <3>2, <3>3, <3>4, <3>5, <3>6, <3>7, <3>8, <3>9, StepKinds
    <2>4. QED
      BY <2>1, <2>2, <2>3 DEF TxInv
  <1>3. ASSUME NEW path \in Paths, ExternalCommit(path) PROVE LockInv' /\ TxInv'
    <2>1. UNCHANGED <<tree, lock, pc, tx>> /\ head'.id = head.id + 1 /\ head.id \in Nat
      BY <1>1, <1>3 DEF ExternalCommit, TypeInv, TypeOK
    <2>2. LockInv'
      BY <2>1 DEF SafeInv, LockInv
    <2>3. ASSUME NEW p \in Procs PROVE (Memory(p) /\ Journal(p) /\ Prepared(p))'
      <3>1. Memory(p) /\ Journal(p) /\ Prepared(p) /\ tx[p].oldHead \in Nat
        BY <1>1 DEF SafeInv, TxInv, TypeInv, TypeOK, Txs
      <3>2. QED
        BY <2>1, <3>1 DEF Memory, Journal, Prepared
    <2>4. QED
      BY <2>2, <2>3 DEF TxInv
  <1>4. CASE UNCHANGED vars
    BY <1>4 DEF vars, SafeInv, LockInv, TxInv, Memory, Journal, Prepared, Staged, TypeInv,
       TypeOK, PendingInv
  <1>5. QED
    BY <1>1, <1>2, <1>3, <1>4, NextIsOfOne DEF SafeInv

LEMMA SafeAlways == Spec /\ []OneLockFile => []SafeInv
  BY SafeInit, SafeStep, PTL DEF Spec

\* All the reads of one read-only transaction are of one state of the project,
\* whatever writers wait for the lock, commit, roll back or crash between them
\* (withTransactionReadLock against withExclusiveLock).
THEOREM ReadsConsistent == Spec /\ []OneLockFile => []ReadsAreOfOneState
  <1>1. SafeInv => ReadsAreOfOneState
    BY DEF SafeInv, TxInv, Journal, ReadsAreOfOneState
  <1>2. QED
    BY <1>1, SafeAlways, PTL

-----------------------------------------------------------------------------
(* How calls return. *)

LEMMA ReturnOutcome ==
  ASSUME TypeInv, NEW p \in Procs, NEW result, Return(p, result)
  PROVE  outcome'[p] = result /\ pc'[p] = "idle"
  BY DEF TypeInv, TypeOK, Return

\* The steps in which a call of p returns.
LEMMA ReturnKinds ==
  ASSUME TypeInv, NEW p \in Procs, ProcessStep(p), pc[p] # "idle", pc'[p] = "idle"
  PROVE  \/ outcome'[p] = "failed" /\ RolledBack(p)
         \/ /\ outcome'[p] = "ok"
            /\ \/ pc[p] = "read"
               \/ pc[p] = "work" /\ ~(tx[p].message /\ tx[p].written # {})
               \/ Fault("nogit")
               \/ /\ pc[p] = "publish" /\ head.id = tx[p].oldHead /\ tree' = tree
                  /\ head' = [id |-> head.id + 1, tree |-> tx[p].newTree]
         \/ outcome'[p] \in {"rollbackFailed", "panicked", "crashed"}
  <1>0. pc \in [Procs -> PCs]
    BY DEF TypeInv, TypeOK
  <1>1. CASE \/ \E m \in BOOLEAN, l \in LockFiles : BeginReadwrite(p, m, l)
             \/ \E l \in LockFiles : BeginReadonly(p, l)
             \/ AcquireExclusive(p) \/ AcquireShared(p)
             \/ \E path \in Paths : ReadFile(p, path)
             \/ RestoreSnapshot(p)
    BY <1>0, <1>1 DEF BeginReadwrite, BeginReadonly, AcquireExclusive, AcquireShared, ReadFile,
       RestoreSnapshot
  <1>2. CASE WorkerOperates(p)
    BY <1>2, WorkerEffect
  <1>3. CASE Rollback(p)
    BY <1>3, RollbackEffect
  <1>4. CASE WorkerFails(p)
    BY <1>3, <1>4 DEF WorkerFails
  <1>5. CASE WorkerSucceeds(p)
    <2>1. Return(p, "ok") /\ ~(tx[p].message /\ tx[p].written # {}) /\ pc[p] = "work"
      BY <1>0, <1>5 DEF WorkerSucceeds
    <2>2. QED
      BY <2>1, ReturnOutcome
  <1>6. CASE StageCommit(p)
    <2>1. Return(p, "ok") /\ Fault("nogit")
      BY <1>0, <1>3, <1>6, RollbackEffect DEF StageCommit
    <2>2. QED
      BY <2>1, ReturnOutcome
  <1>7. CASE PublishCommit(p)
    <2>1. /\ Return(p, "ok") /\ pc[p] = "publish" /\ head.id = tx[p].oldHead /\ tree' = tree
          /\ head' = [id |-> head.id + 1, tree |-> tx[p].newTree]
      BY <1>7, RollbackEffect DEF PublishCommit
    <2>2. QED
      BY <2>1, ReturnOutcome
  <1>8. CASE RolledBack(p)
    BY <1>8, ReturnOutcome DEF RolledBack
  <1>9. CASE EndReadonly(p)
    BY <1>9, ReturnOutcome DEF EndReadonly
  <1>10. CASE RestoreFails(p) \/ WorkerPanics(p) \/ Crash(p)
    BY <1>10, ReturnOutcome DEF RestoreFails, WorkerPanics, Crash
  <1>11. QED
    BY <1>1, <1>2, <1>4, <1>5, <1>6, <1>7, <1>8, <1>9, <1>10 DEF ProcessStep, Proceed

\* Only a step of p itself moves p.
LEMMA MovesItself ==
  ASSUME TypeInv, NEW p \in Procs, Next, pc'[p] # pc[p]
  PROVE  ProcessStep(p)
  <1>1. ASSUME NEW path \in Paths, ExternalCommit(path) PROVE FALSE
    BY <1>1 DEF ExternalCommit
  <1>2. PICK q \in Procs : ProcessStep(q)
    BY <1>1, NextIsOfOne
  <1>3. q = p
    BY <1>2, Frame
  <1>4. QED
    BY <1>2, <1>3

\* A transaction that returns its worker's or its commit's error, its rollback
\* having succeeded, leaves every record file as it was when it took the lock,
\* whatever was written, deleted, half written or written twice in between
\* (runReadwriteTransaction, snapshot, restoreSnapshots).
THEOREM FailureLeavesNoTrace == Spec /\ []OneLockFile => FailedLeavesNoTrace
  <1>1. ASSUME SafeInv, [Next]_vars
        PROVE  [\A p \in Procs : Returns(p, {"failed"}) => tree' = tx[p].begun]_vars
    <2>1. CASE UNCHANGED vars
      BY <2>1
    <2>2. ASSUME Next, NEW p \in Procs, Returns(p, {"failed"}) PROVE tree' = tx[p].begun
      <3>1. pc[p] # "idle" /\ pc'[p] = "idle" /\ outcome'[p] = "failed" /\ TypeInv
        BY <1>1, <2>2 DEF Returns, SafeInv
      <3>2. RolledBack(p)
        BY <2>2, <3>1, MovesItself, ReturnKinds
      <3>3. pc[p] = "rollback" /\ tx[p].pending = {} /\ tree' = tree
        BY <3>2 DEF RolledBack
      <3>4. \A path \in Paths : tx[p].begun[path] = tree[path]
        BY <1>1, <3>3 DEF SafeInv, TxInv, Journal
      <3>5. tree \in [Paths -> Content] /\ tx[p].begun \in [Paths -> Content]
        BY <3>1 DEF TypeInv, TypeOK, Txs, Trees
      <3>6. QED
        BY <3>3, <3>4, <3>5
    <2>3. QED
      BY <1>1, <2>1, <2>2
  <1>2. QED
    BY <1>1, SafeAlways, PTL DEF FailedLeavesNoTrace, Spec

\* The commit of a transaction is HEAD, as it is at that moment, with the
\* transaction's own files replaced by what the working tree holds: it takes in
\* no other file and undoes no commit made meanwhile by another program
\* (gitCommitPaths: disposable index, compare-and-swap).
THEOREM CommitsAreTransactions == Spec /\ []OneLockFile => CommitIsTheTransaction
  <1> DEFINE A == \A p \in Procs :
       (pc[p] = "publish" /\ pc'[p] # "publish" /\ head' # head) =>
         head'.tree = [path \in Paths |-> IF path \in tx[p].written THEN tree[path]
                                                                  ELSE head.tree[path]]
  <1>1. ASSUME SafeInv, [Next]_vars PROVE [A]_vars
    <2>1. CASE UNCHANGED vars
      BY <2>1
    <2>2. ASSUME Next, NEW p \in Procs, pc[p] = "publish", pc'[p] # "publish", head' # head
          PROVE  head'.tree = Staged(p)
      <3>1. ProcessStep(p)
        BY <1>1, <2>2, MovesItself DEF SafeInv
      <3>2. head.id = tx[p].oldHead /\ head'.tree = tx[p].newTree
        BY <1>1, <2>2, <3>1, HeadMoves DEF SafeInv
      <3>3. QED
        BY <1>1, <2>2, <3>2 DEF SafeInv, TxInv, Prepared
    <2>3. QED
      BY <1>1, <2>1, <2>2 DEF Staged
  <1>2. QED
    BY <1>1, SafeAlways, PTL DEF CommitIsTheTransaction, Spec

\* A transaction with a message that returns success has what it wrote in HEAD,
\* whatever other programs committed and whatever failed before, unless Git could
\* not be asked for its work tree in that very step (runReadwriteTransaction,
\* gitCommitPaths).
THEOREM SuccessIsCommitted == Spec /\ []OneLockFile => AcknowledgedIsCommitted
  <1> DEFINE A == \A p \in Procs : (Returns(p, {"ok"}) /\ tx[p].message /\ faults' = faults) =>
       \A path \in tx[p].written : head'.tree[path] = tree'[path]
  <1>1. ASSUME SafeInv, [Next]_vars PROVE [A]_vars
    <2>1. CASE UNCHANGED vars
      BY <2>1
    <2>2. ASSUME Next, NEW p \in Procs, Returns(p, {"ok"}), tx[p].message, faults' = faults,
                 NEW path \in tx[p].written
          PROVE  head'.tree[path] = tree'[path]
      <3>1. /\ TypeInv /\ TypeOK /\ Memory(p) /\ Prepared(p)
            /\ pc[p] # "idle" /\ pc'[p] = "idle" /\ outcome'[p] = "ok"
        BY <1>1, <2>2 DEF Returns, SafeInv, TypeInv, TxInv
      <3>2. ProcessStep(p)
        BY <2>2, <3>1, MovesItself
      <3>3. ~Fault("nogit")
        BY <2>2, <3>1, FaultTyped
      <3>4. pc[p] # "read" /\ ~(pc[p] = "work" /\ ~(tx[p].message /\ tx[p].written # {}))
        BY <2>2, <3>1 DEF Memory
      <3>5. /\ pc[p] = "publish" /\ head.id = tx[p].oldHead /\ tree' = tree
            /\ head' = [id |-> head.id + 1, tree |-> tx[p].newTree]
        BY <3>1, <3>2, <3>3, <3>4, ReturnKinds
      <3>6. head'.tree = Staged(p)
        BY <3>1, <3>5 DEF Prepared
      <3>7. path \in Paths
        BY <2>2, <3>1 DEF TypeOK, Txs
      <3>8. QED
        BY <2>2, <3>5, <3>6, <3>7 DEF Staged
    <2>3. QED
      BY <1>1, <2>1, <2>2
  <1>2. QED
    BY <1>1, SafeAlways, PTL DEF AcknowledgedIsCommitted, Spec

-----------------------------------------------------------------------------
(* Files that parse and foreign keys that resolve. *)

LEMMA SoundTree ==
  ASSUME TypeInv
  PROVE  /\ \A path \in Paths : RecordsIn(tree, path) = RecordsAt(path)
         /\ Sound(tree) <=> /\ \A path \in Paths : Readable(path)
                            /\ \A path \in Paths : \A k \in RecordsAt(path) :
                                 ReferenceResolves(tree[path][k])
  <1>1. \A path \in Paths : RecordsIn(tree, path) = RecordsAt(path)
    BY DEF RecordsIn, RecordsAt
  <1>2. \A v \in Parents : PathOf[v] \in Paths
    BY RwConstantsAssumption
  <1>3. QED
    BY <1>1, <1>2 DEF Sound, Readable, ReferenceResolves, RecordExists

\* Storing a record whose foreign key resolves keeps the tree sound: no record
\* goes (validateWriteForeignKeys).
LEMMA StoreIsSound ==
  ASSUME TypeInv, Sound(tree), NEW k \in Keys, NEW v \in ValuesOf(k), ReferenceResolves(v),
         tree' = [tree EXCEPT ![PathOf[k]] = Stored(PathOf[k], k, v)]
  PROVE  Sound(tree')
  <1> DEFINE path == PathOf[k]
             c == Stored(path, k, v)
  <1>1. path \in Paths /\ c \in Records(path) /\ c \notin {Absent, Torn}
    BY StoredTyped, RwConstantsAssumption
  <1>2. tree \in [Paths -> Content]
    BY DEF TypeInv, TypeOK, Trees
  <1>3. tree'[path] = c /\ \A q \in Paths \ {path} : tree'[q] = tree[q]
    BY <1>1, <1>2
  <1>4. /\ k \in DOMAIN c /\ c[k] = v
        /\ \A j \in DOMAIN c \ {k} : j \in RecordsAt(path) /\ c[j] = tree[path][j]
        /\ RecordsAt(path) \subseteq DOMAIN c
    <2>1. RecordsAt(path) \subseteq KeysAt(path)
      BY <1>1, FileTyped
    <2>2. path \notin MapPaths => KeysAt(path) = {k}
      BY RwConstantsAssumption DEF KeysAt
    <2>3. QED
      BY <2>1, <2>2 DEF Stored
  <1> HIDE DEF path, c
  <1>5. /\ RecordsIn(tree', path) = DOMAIN c
        /\ \A q \in Paths \ {path} : RecordsIn(tree', q) = RecordsAt(q)
    BY <1>1, <1>3 DEF RecordsIn, RecordsAt
  <1>6. \A q \in Paths : RecordsAt(q) \subseteq RecordsIn(tree', q)
    BY <1>4, <1>5
  <1>7. ASSUME NEW q \in Paths, NEW j \in RecordsIn(tree', q), tree'[q][j] \in Parents
        PROVE  tree'[q][j] \in RecordsIn(tree', PathOf[tree'[q][j]])
    <2>1. \A w \in Parents : PathOf[w] \in Paths
      BY RwConstantsAssumption
    <2>2. CASE q = path /\ j = k
      <3>1. tree'[q][j] = v /\ v \in Parents
        BY <1>3, <1>4, <1>7, <2>2
      <3>2. v \in RecordsAt(PathOf[v])
        BY <3>1 DEF ReferenceResolves, RecordExists
      <3>3. QED
        BY <1>6, <2>1, <3>1, <3>2
    <2>3. CASE ~(q = path /\ j = k)
      <3>1. tree'[q][j] = tree[q][j] /\ j \in RecordsAt(q)
        BY <1>3, <1>4, <1>5, <1>7, <2>3
      <3>2. tree[q][j] \in RecordsIn(tree, PathOf[tree[q][j]])
        BY <1>7, <3>1, SoundTree DEF Sound
      <3>3. QED
        BY <1>6, <1>7, <2>1, <3>1, <3>2, SoundTree
    <2>4. QED
      BY <2>2, <2>3
  <1>8. \A q \in Paths : tree'[q] # Torn
    BY <1>1, <1>3 DEF Sound
  <1>9. QED
    BY <1>7, <1>8 DEF Sound

\* Deleting a record that no other refers to keeps the tree sound
\* (validateDeleteForeignKeys).
LEMMA DeleteIsSound ==
  ASSUME TypeInv, Sound(tree), NEW k \in Keys, RecordExists(k), Unreferenced(k),
         tree' = [tree EXCEPT ![PathOf[k]] =
                    IF PathOf[k] \in MapPaths
                    THEN [j \in RecordsAt(PathOf[k]) \ {k} |-> tree[PathOf[k]][j]] ELSE Absent]
  PROVE  Sound(tree')
  <1> DEFINE path == PathOf[k]
             f == [j \in RecordsAt(path) \ {k} |-> tree[path][j]]
             c == IF path \in MapPaths THEN f ELSE Absent
  <1>1. path \in Paths
    BY RwConstantsAssumption
  <1>2. tree \in [Paths -> Content]
    BY DEF TypeInv, TypeOK, Trees
  <1>3. tree'[path] = c /\ \A q \in Paths \ {path} : tree'[q] = tree[q]
    BY <1>1, <1>2
  <1>4. path \in MapPaths => f \in Records(path) /\ f \notin {Absent, Torn}
    BY <1>1, RemovedTyped, RwConstantsAssumption
  <1>5. /\ RecordsIn(tree', path) = RecordsAt(path) \ {k}
        /\ \A j \in RecordsAt(path) \ {k} : tree'[path][j] = tree[path][j]
    <2>1. CASE path \in MapPaths
      BY <1>3, <1>4, <2>1 DEF RecordsIn
    <2>2. CASE path \notin MapPaths
      <3>1. RecordsAt(path) \subseteq {k}
        BY <1>1, <2>2, FileTyped, RwConstantsAssumption DEF KeysAt
      <3>2. QED
        BY <1>3, <2>2, <3>1 DEF RecordsIn
    <2>3. QED
      BY <2>1, <2>2
  <1>6. tree'[path] # Torn
    BY <1>3, <1>4, RwConstantsAssumption
  <1> HIDE DEF path, f, c
  <1>7. \A q \in Paths \ {path} : RecordsIn(tree', q) = RecordsAt(q)
    BY <1>3 DEF RecordsIn, RecordsAt
  <1>8. ASSUME NEW q \in Paths, NEW j \in RecordsIn(tree', q), tree'[q][j] \in Parents
        PROVE  tree'[q][j] \in RecordsIn(tree', PathOf[tree'[q][j]])
    <2>1. tree'[q][j] = tree[q][j] /\ j \in RecordsAt(q)
      BY <1>3, <1>5, <1>7, <1>8
    <2> DEFINE w == tree[q][j]
    <2>2. w \in Parents /\ w \in Keys /\ PathOf[w] \in Paths /\ w # Plain
      BY <1>8, <2>1, RwConstantsAssumption
    <2>3. w \in RecordsAt(PathOf[w])
      BY <2>1, <2>2, SoundTree DEF Sound
    <2>4. w # k
      <3>1. SUFFICES ASSUME w = k PROVE FALSE
        OBVIOUS
      <3>2. j \in Keys /\ PathOf[j] = q /\ w \in ValuesOf(j)
        BY <2>1, FileTyped DEF KeysAt
      <3>3. j \notin Parents
        BY <2>2, <3>2 DEF ValuesOf
      <3>4. q \in {PathOf[i] : i \in Keys \ Parents}
        BY <3>2, <3>3
      <3>5. QED
        BY <2>1, <2>2, <3>1, <3>4 DEF Unreferenced
    <2>5. QED
      BY <1>5, <1>7, <2>1, <2>2, <2>3, <2>4
  <1>9. \A q \in Paths : tree'[q] # Torn
    BY <1>3, <1>6 DEF Sound
  <1>10. QED
    BY <1>8, <1>9 DEF Sound

\* The worker's operations keep the tree sound until one of them fails to write.
LEMMA WorkIsSound ==
  ASSUME TypeInv, NEW p \in Procs, WorkerOperates(p), tx'[p].ioError = FALSE,
         tx[p].ioError = FALSE => Sound(tree)
  PROVE  Sound(tree')
  <1>0. tx \in [Procs -> Txs] /\ tx[p] \in Txs
    BY DEF TypeInv, TypeOK
  <1>1. PICK k \in Keys : \/ \E v \in ValuesOf(k) : \/ Set(p, k, v)
                                                     \/ Update(p, k, v)
                                                     \/ Insert(p, k, v)
                          \/ Delete(p, k)
    BY DEF WorkerOperates
  <1>2. ASSUME NEW path \in Paths, NEW c, WriteFails(p, path, c) PROVE FALSE
    <2>1. tx'[p].ioError = TRUE
      BY <1>0, <1>2 DEF WriteFails, Txs
    <2>2. QED
      BY <2>1
  <1>3. ASSUME NEW path \in Paths, Journalled(p, path) PROVE Sound(tree')
    <2>1. tx'[p].ioError = tx[p].ioError
      BY <1>0, <1>3 DEF Journalled, Txs
    <2>2. QED
      BY <1>3, <2>1 DEF Journalled
  <1>4. ASSUME NEW path \in Paths, NEW c, Write(p, path, c)
        PROVE  Sound(tree) /\ tree' = [tree EXCEPT ![path] = c]
    <2>1. tx'[p].ioError = tx[p].ioError
      BY <1>0, <1>4 DEF Write, Txs
    <2>2. QED
      BY <1>4, <2>1 DEF Write
  <1>5. PathOf[k] \in Paths
    BY RwConstantsAssumption
  <1>6. ASSUME NEW v \in ValuesOf(k), Set(p, k, v) \/ Insert(p, k, v) PROVE Sound(tree')
    <2>1. ReferenceResolves(v) /\ (\/ Journalled(p, PathOf[k])
                                   \/ Store(p, PathOf[k], Stored(PathOf[k], k, v)))
      BY <1>6 DEF Set, Insert
    <2>2. QED
      BY <1>2, <1>3, <1>4, <1>5, <2>1, StoreIsSound DEF Store
  <1>7. ASSUME Delete(p, k) PROVE Sound(tree')
    <2>1. CASE Journalled(p, PathOf[k])
      BY <1>3, <1>5, <2>1
    <2>2. CASE /\ RecordExists(k) /\ Unreferenced(k)
               /\ Store(p, PathOf[k],
                        IF PathOf[k] \in MapPaths
                        THEN [j \in RecordsAt(PathOf[k]) \ {k} |-> tree[PathOf[k]][j]] ELSE Absent)
      BY <1>2, <1>4, <1>5, <2>2, DeleteIsSound DEF Store
    <2>3. QED
      BY <1>7, <2>1, <2>2 DEF Delete
  <1>8. QED
    BY <1>1, <1>6, <1>7 DEF Update

\* Damage is for ever, and a call that ends half made does it.
LEMMA DamageStays ==
  ASSUME TypeInv, NEW p \in Procs, ProcessStep(p), damaged' = FALSE
  PROVE  /\ damaged = FALSE
         /\ \A result : Return(p, result) => ~HalfMade(p, result)
  <1>0. damaged \in BOOLEAN
    BY DEF TypeInv, TypeOK
  <1>1. ASSUME NEW result, Return(p, result) PROVE damaged = FALSE /\ ~HalfMade(p, result)
    BY <1>0, <1>1, Zenon DEF Return
  <1>2. CASE damaged' = damaged
    BY <1>1, <1>2
  <1>3. CASE \E result : Return(p, result)
    BY <1>1, <1>3
  <1>4. \/ damaged' = damaged \/ \E result : Return(p, result)
    <2>1. WorkerOperates(p) => damaged' = damaged
      BY WorkerEffect
    <2>2. QED
      BY <2>1, StepKinds DEF BeginReadwrite, BeginReadonly, AcquireExclusive, AcquireShared,
         ReadFile, Rollback, RestoreSnapshot, RestoreFails
  <1>5. QED
    BY <1>2, <1>3, <1>4

\* A writer that returns without damage leaves a sound tree.
LEMMA ReturnIsSound ==
  ASSUME SafeInv, NEW p \in Procs, ProcessStep(p), damaged' = FALSE, SoundFor(p),
         pc[p] \in WriterPCs, pc'[p] \notin WriterPCs
  PROVE  Sound(tree')
  <1>0. /\ TypeInv /\ Journal(p) /\ pc \in [Procs -> PCs] /\ tx[p] \in Txs
        /\ tree \in [Paths -> Content] /\ tx[p].begun \in [Paths -> Content]
    BY DEF SafeInv, TypeInv, TypeOK, TxInv, Txs, Trees
  <1>1. Sound(tx[p].begun)
    BY DEF SoundFor
  <1>2. \A result : Return(p, result) => ~HalfMade(p, result)
    BY <1>0, DamageStays
  <1>3. \/ RestoreFails(p)
        \/ pc[p] = "rollback" /\ tx[p].pending = {} /\ tree' = tree
        \/ pc[p] # "rollback" /\ Return(p, "ok") /\ tree' = tree
        \/ (Return(p, "panicked") \/ Return(p, "crashed")) /\ tree' = tree
    <2>1. pc'[p] \notin {"work", "stage", "publish", "rollback"}
      BY DEF WriterPCs
    <2>2. pc[p] \in {"work", "stage", "publish", "rollback"}
      BY DEF WriterPCs
    <2>3. ~WorkerOperates(p) /\ ~Rollback(p)
      BY <1>0, <2>1, WorkerEffect, RollbackEffect
    <2>4. QED
      BY <1>0, <2>1, <2>2, <2>3, StepKinds DEF BeginReadwrite, BeginReadonly, AcquireExclusive,
         AcquireShared, ReadFile, RestoreSnapshot
  <1>4. CASE RestoreFails(p)
    <2>1. Return(p, "rollbackFailed") /\ tx[p].pending # {} /\ pc[p] = "rollback"
      BY <1>4 DEF RestoreFails
    <2>2. tx[p].snapshots # <<>>
      BY <1>0, <2>1, EmptyPartial DEF TypeInv, PendingInv
    <2>3. QED
      BY <1>2, <2>1, <2>2 DEF HalfMade
  <1>5. CASE pc[p] = "rollback" /\ tx[p].pending = {} /\ tree' = tree
    <2>1. \A path \in Paths : tx[p].begun[path] = tree[path]
      BY <1>0, <1>5 DEF Journal
    <2>2. tx[p].begun = tree
      BY <1>0, <2>1
    <2>3. QED
      BY <1>1, <1>5, <2>2
  <1>6. CASE pc[p] # "rollback" /\ Return(p, "ok") /\ tree' = tree
    <2>1. ~tx[p].ioError
      BY <1>2, <1>6 DEF HalfMade
    <2>2. tx[p].ioError = FALSE
      <3>1. tx[p].ioError \in BOOLEAN
        BY <1>0 DEF Txs
      <3>2. QED
        BY <2>1, <3>1, Zenon
    <2>3. QED
      BY <1>6, <2>2 DEF SoundFor, WriterPCs
  <1>7. CASE (Return(p, "panicked") \/ Return(p, "crashed")) /\ tree' = tree
    <2>1. tx[p].snapshots = <<>>
      BY <1>2, <1>7 DEF HalfMade
    <2>2. \A path \in Paths : tx[p].begun[path] = tree[path]
      <3>1. DOMAIN tx[p].snapshots = {}
        BY <2>1, EmptyPartial
      <3>2. pc[p] = "rollback" => tx[p].pending = {}
        BY <1>0, <3>1 DEF TypeInv, PendingInv
      <3>3. QED
        BY <1>0, <3>1, <3>2 DEF Journal, WriterPCs
    <2>3. tx[p].begun = tree
      BY <1>0, <2>2
    <2>4. QED
      BY <1>1, <1>7, <2>3
  <1>8. QED
    BY <1>3, <1>4, <1>5, <1>6, <1>7

LEMMA SoundStep ==
  ASSUME SafeInv, SoundInv, OneLockFile, NEW p \in Procs, ProcessStep(p)
  PROVE  SoundInv'
  <1>0. /\ TypeInv /\ LockInv /\ Memory(p)
        /\ pc \in [Procs -> PCs] /\ tx \in [Procs -> Txs] /\ tx[p] \in Txs
    BY DEF SafeInv, TypeInv, TypeOK, TxInv
  <1>1. SUFFICES ASSUME damaged' = FALSE
                 PROVE  /\ \A q \in Procs : SoundFor(q)'
                        /\ (\A q \in Procs : pc'[q] \notin WriterPCs) => Sound(tree')
    BY DEF SoundInv
  <1>2. /\ \A q \in Procs : SoundFor(q)
        /\ (\A q \in Procs : pc[q] \notin WriterPCs) => Sound(tree)
    BY <1>0, <1>1, DamageStays DEF SoundInv
  <1>3. \A q \in Procs \ {p} : pc'[q] = pc[q] /\ tx'[q] = tx[q]
    BY <1>0, Frame
  <1>4. pc[p] \notin WriterPCs => tree' = tree
    BY <1>0, Frame DEF WriterPCs
  <1>5. ASSUME NEW q \in Procs \ {p} PROVE SoundFor(q)'
    <2>1. CASE pc[p] \in WriterPCs
      <3>1. pc[q] \notin WriterPCs
        BY <1>0, <2>1, WriterIsAlone
      <3>2. QED
        BY <1>3, <3>1 DEF SoundFor, WriterPCs
    <2>2. CASE pc[p] \notin WriterPCs
      BY <1>2, <1>3, <1>4, <2>2 DEF SoundFor
    <2>3. QED
      BY <2>1, <2>2
  <1>6. SoundFor(p)'
    <2>1. CASE AcquireExclusive(p)
      <3>1. pc[p] = "waitRW" /\ lock[tx[p].lockFile].writer = None /\ tx[p].lockFile \in LockFiles
        BY <1>0, <2>1 DEF AcquireExclusive, Txs
      <3>2. ASSUME NEW q \in Procs PROVE pc[q] \notin WriterPCs
        <4>1. pc[q] # "idle" => tx[q].lockFile = tx[p].lockFile
          BY <3>1 DEF OneLockFile
        <4>2. QED
          BY <1>0, <3>1, <4>1, RwConstantsAssumption DEF LockInv, WriterPCs
      <3>3. tree' = tree /\ tx'[p].begun = tree
        BY <1>0, <2>1 DEF AcquireExclusive, Txs
      <3>4. QED
        BY <1>2, <3>2, <3>3 DEF SoundFor
    <2>2. CASE WorkerOperates(p)
      <3>1. pc[p] = "work" /\ pc' = pc /\ tx'[p].begun = tx[p].begun
        BY <1>0, <2>2, WorkerEffect
      <3>2. SoundFor(p)
        BY <1>2
      <3>3. tx'[p].ioError = FALSE => Sound(tree')
        BY <1>0, <2>2, <3>1, <3>2, WorkIsSound DEF SoundFor
      <3>4. QED
        BY <3>1, <3>2, <3>3 DEF SoundFor
    <2>3. CASE pc[p] \in {"work", "stage", "publish"} /\ Rollback(p) /\ tree' = tree
      <3>1. pc'[p] = "rollback" /\ tx'[p].begun = tx[p].begun
        BY <1>0, <2>3, RollbackEffect DEF Txs
      <3>2. QED
        BY <1>2, <2>3, <3>1 DEF SoundFor, WriterPCs
    <2>4. CASE \/ /\ pc[p] = "work" /\ pc' = [pc EXCEPT ![p] = "stage"]
                  /\ UNCHANGED <<lock, tx, tree, head, damaged>>
               \/ /\ pc[p] = "stage" /\ pc' = [pc EXCEPT ![p] = "publish"]
                  /\ tx' = [tx EXCEPT ![p].oldHead = head.id, ![p].newTree = Staged(p)]
                  /\ UNCHANGED <<lock, tree, head, damaged>>
      <3>1. /\ pc'[p] \in {"stage", "publish"} /\ tree' = tree
            /\ tx'[p].begun = tx[p].begun
        BY <1>0, <2>4 DEF Txs
      <3>2. tx'[p].ioError = tx[p].ioError
        BY <1>0, <2>4 DEF Txs
      <3>3. QED
        BY <1>2, <2>4, <3>1, <3>2 DEF SoundFor, WriterPCs
    <2>5. CASE RestoreSnapshot(p)
      <3>1. pc[p] = "rollback" /\ pc' = pc /\ tx'[p].begun = tx[p].begun
        BY <1>0, <2>5 DEF RestoreSnapshot, Txs
      <3>2. QED
        BY <1>2, <3>1 DEF SoundFor
    <2>6. CASE pc'[p] \notin WriterPCs
      BY <2>6 DEF SoundFor, WriterPCs
    <2>7. QED
      <3>1. \A result : Return(p, result) => pc'[p] = "idle"
        BY <1>0, ReturnEffect
      <3>2. CASE \/ \E m \in BOOLEAN, l \in LockFiles : BeginReadwrite(p, m, l)
                 \/ \E l \in LockFiles : BeginReadonly(p, l)
                 \/ AcquireShared(p) \/ \E path \in Paths : ReadFile(p, path)
        BY <1>0, <2>6, <3>2 DEF BeginReadwrite, BeginReadonly, AcquireShared, ReadFile, WriterPCs
      <3>3. CASE RestoreFails(p) \/ \E result : Return(p, result)
        BY <2>6, <3>1, <3>3 DEF RestoreFails, WriterPCs
      <3>4. QED
        BY <1>0, <2>1, <2>2, <2>3, <2>4, <2>5, <3>2, <3>3, StepKinds
  <1>7. ASSUME \A q \in Procs : pc'[q] \notin WriterPCs PROVE Sound(tree')
    <2>1. CASE pc[p] \in WriterPCs
      BY <1>1, <1>2, <1>7, <2>1, ReturnIsSound
    <2>2. CASE pc[p] \notin WriterPCs
      BY <1>2, <1>3, <1>4, <1>7, <2>2
    <2>3. QED
      BY <2>1, <2>2
  <1>8. QED
    BY <1>5, <1>6, <1>7

\* While no transaction was left half made, none rolls back and no write of a
\* transaction under way has failed, every record file parses and every foreign
\* key has its parent (validateWriteForeignKeys, validateDeleteForeignKeys,
\* restoreSnapshots).
THEOREM ProjectStaysSound == Spec /\ []OneLockFile => []ProjectIsSound
  <1>1. Init => Inv
    <2> SUFFICES ASSUME Init PROVE Inv
      OBVIOUS
    <2>1. SafeInv
      BY SafeInit
    <2>2. \A p \in Procs : pc[p] = "idle"
      BY DEF Init
    <2>3. Sound(tree)
      <3>1. ASSUME NEW path \in Paths
            PROVE  /\ tree[path] # Torn
                   /\ \A k \in RecordsIn(tree, path) : tree[path][k] \notin Parents
        <4>1. CASE tree[path] = Absent
          BY <4>1, RwConstantsAssumption DEF RecordsIn
        <4>2. CASE tree[path] = [k \in KeysAt(path) |-> Plain] /\ path \notin MapPaths
          <5>1. tree[path] \in Records(path)
            <6>1. \A k \in KeysAt(path) : Plain \in ValuesOf(k)
              BY DEF ValuesOf
            <6>2. tree[path] \in [KeysAt(path) -> Parents \cup {Plain}]
              BY <4>2
            <6>3. QED
              BY <4>2, <6>1, <6>2, ContentsIntro
          <5>2. tree[path] # Torn
            BY <5>1, RwConstantsAssumption
          <5>3. QED
            BY <4>2, <5>2, RwConstantsAssumption DEF RecordsIn
        <4>3. QED
          BY <4>1, <4>2 DEF Init
      <3>2. QED
        BY <3>1 DEF Sound
    <2>4. QED
      BY <2>1, <2>2, <2>3 DEF Inv, SoundInv, SoundFor, WriterPCs
  <1>2. Inv /\ OneLockFile /\ [Next]_vars => Inv'
    <2> SUFFICES ASSUME Inv, OneLockFile, [Next]_vars PROVE SoundInv'
      BY SafeStep DEF Inv
    <2>1. ASSUME NEW p \in Procs, ProcessStep(p) PROVE SoundInv'
      BY <2>1, SoundStep DEF Inv
    <2>2. ASSUME NEW path \in Paths, ExternalCommit(path) PROVE SoundInv'
      BY <2>2 DEF ExternalCommit, Inv, SoundInv, SoundFor
    <2>3. CASE UNCHANGED vars
      BY <2>3 DEF vars, Inv, SoundInv, SoundFor
    <2>4. QED
      BY <2>1, <2>2, <2>3, NextIsOfOne
  <1>3. Inv => ProjectIsSound
    <2> SUFFICES ASSUME Inv, ~damaged, \A p \in Procs : pc[p] # "rollback" /\ ~tx[p].ioError
                 PROVE  Sound(tree)
      BY SoundTree, Zenon DEF ProjectIsSound, Inv, SafeInv
    <2>1. TypeInv /\ damaged = FALSE /\ \A p \in Procs : tx[p].ioError = FALSE
      <3>1. TypeInv /\ damaged \in BOOLEAN /\ \A p \in Procs : tx[p] \in Txs
        BY DEF Inv, SafeInv, TypeInv, TypeOK
      <3>2. \A p \in Procs : tx[p].ioError \in BOOLEAN
        BY <3>1 DEF Txs
      <3>3. QED
        BY <3>1, <3>2, Zenon
    <2>2. CASE \E p \in Procs : pc[p] \in WriterPCs
      BY <2>1, <2>2 DEF Inv, SoundInv, SoundFor, WriterPCs
    <2>3. CASE \A p \in Procs : pc[p] \notin WriterPCs
      BY <2>1, <2>3 DEF Inv, SoundInv
    <2>4. QED
      BY <2>2, <2>3
  <1>4. QED
    BY <1>1, <1>2, <1>3, PTL DEF Spec

-----------------------------------------------------------------------------
(* When the transactions share a lock file. *)

\* Where every transaction can ask Git for the lock file, all of them use the
\* one in the Git directory (transactionLockPath), and the theorems above hold
\* without a premise.
THEOREM GitGivesOneLockFile ==
  ASSUME \A s \in Scenarios : "nogit" \notin s.kinds
  PROVE  Spec => []OneLockFile
  <1> DEFINE GitLock == \A p \in Procs : tx[p].lockFile = "git"
             GitInv == TypeInv /\ GitLock
  <1>1. Init => GitInv
    BY TypeInit DEF Init, NoTx
  <1>2. GitInv /\ [Next]_vars => GitInv'
    <2> SUFFICES ASSUME TypeInv, GitLock, [Next]_vars PROVE GitLock'
      BY TypeStep
    <2>1. ASSUME NEW p \in Procs, ProcessStep(p) PROVE GitLock'
      <3>0. tx \in [Procs -> Txs] /\ tx[p] \in Txs /\ scenario \in Scenarios
        BY DEF TypeInv, TypeOK
      <3>1. \A q \in Procs \ {p} : tx'[q] = tx[q]
        BY <2>1, Frame
      <3>2. tx'[p].lockFile = "git"
        <4>1. CASE \E m \in BOOLEAN, l \in LockFiles : BeginReadwrite(p, m, l)
          BY <3>0, <4>1 DEF BeginReadwrite, ChooseLockFile, Fault, NoTx
        <4>2. CASE \E l \in LockFiles : BeginReadonly(p, l)
          BY <3>0, <4>2 DEF BeginReadonly, ChooseLockFile, Fault, NoTx
        <4>3. CASE \/ AcquireExclusive(p) \/ AcquireShared(p) \/ RestoreSnapshot(p) \/ tx' = tx
                   \/ tx' = [tx EXCEPT ![p].oldHead = head.id, ![p].newTree = Staged(p)]
                   \/ \E path \in Paths : ReadFile(p, path)
          <5>1. tx[p].lockFile = "git"
            OBVIOUS
          <5>2. CASE \E path \in Paths : ReadFile(p, path)
            <6>1. tx'[p] = [tx[p] EXCEPT !.seen = tx'[p].seen]
              BY <5>2, ReadFileTyped, Zenon
            <6>2. QED
              BY <3>0, <5>1, <6>1 DEF Txs
          <5>3. CASE ~\E path \in Paths : ReadFile(p, path)
            BY <3>0, <4>3, <5>1, <5>3 DEF AcquireExclusive, AcquireShared, RestoreSnapshot, Txs
          <5>4. QED
            BY <5>2, <5>3
        <4>4. CASE WorkerOperates(p)
          BY <4>4, WorkerEffect
        <4>5. CASE Rollback(p)
          BY <3>0, <4>5 DEF Rollback, Txs
        <4>6. CASE RestoreFails(p) \/ \E result : Return(p, result)
          BY <4>6, ReturnEffect DEF RestoreFails, NoTx
        <4>7. QED
          BY <2>1, <4>1, <4>2, <4>3, <4>4, <4>5, <4>6, StepKinds
      <3>3. QED
        BY <3>1, <3>2
    <2>2. ASSUME NEW path \in Paths, ExternalCommit(path) PROVE GitLock'
      BY <2>2 DEF ExternalCommit
    <2>3. CASE UNCHANGED vars
      BY <2>3 DEF vars
    <2>4. QED
      BY <2>1, <2>2, <2>3, NextIsOfOne
  <1>3. GitInv => OneLockFile
    BY DEF OneLockFile
  <1>4. QED
    BY <1>1, <1>2, <1>3, PTL DEF Spec
=============================================================================
