----------------------- MODULE ProtectedStorageProofs -----------------------
(***************************************************************************)
(* Proofs about ProtectedStorage, for every set of clients, records, files *)
(* and batches, every sequence of policy generations and every bound on    *)
(* calls and faults.                                                       *)
(***************************************************************************)
EXTENDS ProtectedStorage, FiniteSetTheorems, TLAPS

-----------------------------------------------------------------------------
(* What a call has done so far. *)

Trees == {t \in [Paths -> Content] : \A path \in Paths : t[path] \in Contents(path)}
Revisions == Keys \X BOOLEAN \X Content
Evidence == [exists : BOOLEAN, candidate : Images \cup {None}, revision : Revisions,
             receipt : Revisions \cup {None}]
Jobs == [kind : {"none", "inspect", "execute"}, ops : Batches \cup {<<>>}, guarded : BOOLEAN,
         evidence : Seq(Evidence), lease : Generations \cup {None}, done : Nat,
         snapshots : Partial, begun : Trees \cup {<<>>}]
Knowledge ==
  UNION {[S -> [revision : Revisions \cup {None}, file : Content]] : S \in SUBSET Keys}

\* The types of the variables, in full.
Typed ==
  /\ scenario \in Scenarios
  /\ tree \in Trees
  /\ head \in Generations /\ live \in Generations \cup {None}
  /\ pub \in {"idle", "publish", "activate"} /\ elsewhere \subseteq Generations
  /\ pc \in [Clients -> PCs]
  /\ job \in [Clients -> Jobs]
  /\ known \in [Clients -> Knowledge]
  /\ outcome \in [Clients -> {"none", "ok", "failed", "rollbackFailed", "crashed"}]
  /\ calls \in 0..MaxCalls /\ writes \in 0..MaxWrites /\ faults \in 0..MaxFaults

\* How far a call is.
Stage(c) ==
  /\ pc[c] \notin LockedPCs => job[c].evidence = <<>> /\ job[c].done = 0 /\ job[c].snapshots = <<>>
  /\ pc[c] # "idle" => job[c].kind # "none" /\ job[c].ops \in Batches
  /\ pc[c] \in LockedPCs => job[c].begun \in Trees
  /\ Len(job[c].evidence) <= Len(job[c].ops) /\ job[c].done <= Len(job[c].ops)
  /\ pc[c] \in LockedPCs \ {"prepare"} => Len(job[c].evidence) = Len(job[c].ops)
  /\ pc[c] \in {"prepare", "lease", "decide"} => job[c].done = 0 /\ job[c].snapshots = <<>>
  /\ pc[c] \in ExecutionPCs => job[c].kind = "execute"
  /\ pc[c] = "executed" => job[c].done = Len(job[c].ops)

LockInv ==
  /\ lock = [writer |-> {c \in Clients : Writing(c)}, readers |-> {c \in Clients : Reading(c)}]
  /\ \A c, d \in lock.writer : c = d
  /\ lock.writer = {} \/ lock.readers = {}

\* The mount enforces the committed policies, but for generations published
\* elsewhere, or is closed; so does a call with a lease, and it executes only
\* what its lease permits.
PolicyInv ==
  /\ live # None => Newer(live) \subseteq elsewhere
  /\ pub # "idle" => live = None
  /\ \A c \in Clients : pc[c] \in LeasedPCs =>
       job[c].lease \in Generations /\ Newer(job[c].lease) \subseteq elsewhere
  /\ \A c \in Clients : pc[c] \in {"execute", "executed"} => Permitted(c)

\* Evidence of an operation, given its file.
IsEvidence(e, op, file) ==
  /\ e.exists = (Image(file, op.key) # None)
  /\ e.candidate = Candidate(op, Image(file, op.key))
  /\ e.revision = DataRevision(op.key, file)

\* Evidence is of the tree under which the lock was taken.
EvidenceFor(c) ==
  pc[c] \in LockedPCs =>
    \A i \in DOMAIN job[c].evidence :
      IsEvidence(job[c].evidence[i], job[c].ops[i], job[c].begun[PathOf[job[c].ops[i].key]])

\* Until it executes, a call finds the tree as it was; then what was there is in
\* its journal or still in the tree.
Journal(c) ==
  /\ pc[c] \in {"prepare", "lease", "decide"} => tree = job[c].begun
  /\ pc[c] \in ExecutionPCs =>
       \A path \in Paths : job[c].begun[path] = IF path \in DOMAIN job[c].snapshots
                                                THEN job[c].snapshots[path] ELSE tree[path]

\* The operations that are done have left their images, and no other record has
\* changed.
IsDone(c, i) ==
  LET k == job[c].ops[i].key IN
  /\ ~Refused(job[c].ops[i], job[c].evidence[i])
  /\ Image(tree[PathOf[k]], k) = job[c].evidence[i].candidate
  /\ tree[PathOf[k]] # Torn
  /\ PathOf[k] \in MapPaths => tree[PathOf[k]] # Absent
IsKept(c, k) == Image(tree[PathOf[k]], k) = Image(job[c].begun[PathOf[k]], k)
Progress(c) ==
  pc[c] \in {"execute", "executed"} =>
    /\ \A i \in 1..job[c].done : IsDone(c, i)
    /\ \A k \in Keys : (\A i \in 1..job[c].done : job[c].ops[i].key # k) => IsKept(c, k)

\* Predicted, as a function of the batch, the images that its operations are to
\* leave, and the tree.
OpsOn(b, cand, path) ==
  {i \in DOMAIN b : PathOf[b[i].key] = path /\ (b[i].action = "delete" \/ cand[i] # None)}
Deleted(b, cand, path) ==
  {b[i].key : i \in {j \in OpsOn(b, cand, path) : b[j].action = "delete"}}
Written(b, cand, path) == {b[i].key : i \in OpsOn(b, cand, path)} \ Deleted(b, cand, path)
Leaves(b, cand, t, path) ==
  LET S       == OpsOn(b, cand, path)
      deleted == Deleted(b, cand, path)
      stored  == Written(b, cand, path)
      result  == [k \in (RecordsIn(t[path]) \ deleted) \cup stored |->
                    IF k \in stored THEN cand[CHOOSE i \in S : b[i].key = k] ELSE t[path][k]]
  IN IF path \notin MapPaths /\ stored = {} THEN Absent ELSE result

\* Predicted, of the tree under which the lock was taken.
Candidates(c) == [i \in DOMAIN job[c].evidence |-> job[c].evidence[i].candidate]
Forecast(c, path) == Leaves(job[c].ops, Candidates(c), job[c].begun, path)

\* The revision that assignBatchCandidateRevisions gives a record, of the file as
\* the batch is to leave it.
IsReceipt(receipt, k, file) == receipt = <<k, PathOf[k] \in MapPaths \/ file # Absent, file>>
Receipts(c) ==
  pc[c] \in LockedPCs \ {"prepare"} =>
    \A i \in DOMAIN job[c].ops :
      IsReceipt(job[c].evidence[i].receipt, job[c].ops[i].key,
                Forecast(c, PathOf[job[c].ops[i].key]))

\* What a client knows: a revision stands for the file.
Knows(c) ==
  /\ \A k \in DOMAIN known[c] : known[c][k].revision[3] = known[c][k].file
  /\ (pc[c] # "idle" /\ job[c].guarded = TRUE) =>
       \A i \in DOMAIN job[c].ops : job[c].ops[i].key \in DOMAIN known[c]
  /\ pc[c] \in {"execute", "executed"} => AsExpected(c)

TypeInv == Typed /\ LockInv /\ \A c \in Clients : Stage(c)
CallInv(c) == EvidenceFor(c) /\ Journal(c) /\ Progress(c) /\ Receipts(c) /\ Knows(c)
Inv == TypeInv /\ PolicyInv /\ \A c \in Clients : CallInv(c)

-----------------------------------------------------------------------------
(* The contents of files. *)

LEMMA GenerationsTyped ==
  /\ Len(Permits) \in Nat /\ Len(Permits) >= 1 /\ Generations = 1..Len(Permits)
  /\ \A g \in Generations : Permits[g] \subseteq Keys
  BY ProtectedConstantsAssumption DEF Generations

\* What a file holds is Absent, Torn, or a function on records of that file.
LEMMA ContentsElim ==
  ASSUME NEW path \in Paths, NEW content \in Contents(path)
  PROVE  /\ RecordsIn(content) \subseteq KeysAt(path)
         /\ \A k \in RecordsIn(content) : content[k] \in Images
         /\ \/ content \in {Absent, Torn}
            \/ /\ content \notin {Absent, Torn}
               /\ content \in [DOMAIN content -> Images]
               /\ DOMAIN content \subseteq KeysAt(path)
               /\ path \notin MapPaths => DOMAIN content = KeysAt(path)
  BY ProtectedConstantsAssumption, SMT DEF Contents, Records, RecordsIn

\* A function on records of a file is a content of it; outside a map of records
\* it has all the file's records.
LEMMA ContentsIntro ==
  ASSUME NEW path \in Paths, NEW S \in SUBSET KeysAt(path),
         path \notin MapPaths => S = KeysAt(path),
         NEW content \in [S -> Images]
  PROVE  content \in Contents(path) /\ content \notin {Absent, Torn}
  BY ProtectedConstantsAssumption, SMT DEF Contents, Records

LEMMA ImageTyped ==
  ASSUME NEW path \in Paths, NEW content \in Contents(path), NEW k
  PROVE  /\ Image(content, k) \in Images \cup {None}
         /\ Image(content, k) = None <=> k \notin RecordsIn(content)
  BY ContentsElim, ProtectedConstantsAssumption DEF Image

\* Of a file with one record only that record can be asked for.
LEMMA SingleRecord ==
  ASSUME NEW k \in Keys, PathOf[k] \notin MapPaths
  PROVE  KeysAt(PathOf[k]) = {k}
  BY ProtectedConstantsAssumption DEF KeysAt

LEMMA TreeUpdate ==
  ASSUME NEW t \in Trees, NEW path \in Paths, NEW content \in Contents(path)
  PROVE  [t EXCEPT ![path] = content] \in Trees
  BY SMT DEF Trees, Content

LEMMA TreeElim ==
  ASSUME NEW t \in Trees, NEW path \in Paths
  PROVE  t[path] \in Contents(path) /\ t[path] \in Content
  BY SMT DEF Trees

\* No file touched yet.
LEMMA EmptyPartial == <<>> \in Partial /\ DOMAIN <<>> = {}
  BY SMT DEF Partial

LEMMA PartialElim ==
  ASSUME NEW files \in Partial
  PROVE  /\ DOMAIN files \subseteq Paths
         /\ files \in [DOMAIN files -> Content]
         /\ \A path \in DOMAIN files : files[path] \in Contents(path)
  BY SMT DEF Partial

LEMMA PartialIntro ==
  ASSUME NEW S \in SUBSET Paths, NEW files \in [S -> Content],
         \A path \in S : files[path] \in Contents(path)
  PROVE  files \in Partial
  BY SMT DEF Partial

\* Restoring some of a journal's files gives a tree.
LEMMA RestoredTree ==
  ASSUME NEW t \in Trees, NEW files \in Partial, NEW S \in SUBSET DOMAIN files
  PROVE  [path \in Paths |-> IF path \in S THEN files[path] ELSE t[path]] \in Trees
  BY PartialElim, TreeElim, SMT DEF Trees

\* What a file holds once a record has an image, or none.
LEMMA StoredTyped ==
  ASSUME Typed, NEW k \in Keys, NEW image \in Images \cup {None}
  PROVE  LET path == PathOf[k]
             content == Stored(path, k, image)
         IN /\ path \in Paths /\ content \in Contents(path)
            /\ content # Torn /\ (path \in MapPaths => content # Absent)
            /\ Image(content, k) = image
            /\ \A j \in KeysAt(path) \ {k} : Image(content, j) = Image(tree[path], j)
  <1> DEFINE path == PathOf[k]
             content == Stored(path, k, image)
             kept == (IF path \in MapPaths THEN RecordsIn(tree[path]) ELSE {}) \ {k}
             S == kept \cup (IF image = None THEN {} ELSE {k})
             new == [j \in S |-> IF j = k THEN image ELSE tree[path][j]]
  <1>1. path \in Paths /\ k \in KeysAt(path) /\ tree[path] \in Contents(path)
    BY TreeElim, ProtectedConstantsAssumption DEF KeysAt, Typed
  <1>2. CASE image = None /\ path \notin MapPaths
    <2>1. content = Absent
      BY <1>2 DEF Stored
    <2>2. KeysAt(path) = {k}
      BY <1>2, SingleRecord
    <2>3. QED
      BY <1>1, <1>2, <2>1, <2>2, ProtectedConstantsAssumption DEF Contents, Image, RecordsIn
  <1>3. CASE ~(image = None /\ path \notin MapPaths)
    <2>1. content = new
      BY <1>3 DEF Stored
    <2>2. S \in SUBSET KeysAt(path)
      BY <1>1, ContentsElim
    <2>3. path \notin MapPaths => S = KeysAt(path)
      BY <1>1, <1>3, SingleRecord
    <2>4. new \in [S -> Images]
      BY <1>1, <1>3, ContentsElim
    <2>5. DOMAIN new = S /\ \A j \in S : new[j] = IF j = k THEN image ELSE tree[path][j]
      OBVIOUS
    <2>6. k \notin kept /\ (k \in S <=> image # None)
      OBVIOUS
    <2>7. \A j \in KeysAt(path) \ {k} : j \in S <=> j \in RecordsIn(tree[path])
      BY <1>1, SingleRecord
    <2> HIDE DEF new, S
    <2>8. new \in Contents(path) /\ new \notin {Absent, Torn}
      BY <1>1, <2>2, <2>3, <2>4, ContentsIntro
    <2>9. RecordsIn(new) = S
      BY <2>5, <2>8 DEF RecordsIn
    <2>10. QED
      BY <1>1, <2>1, <2>5, <2>6, <2>7, <2>8, <2>9 DEF Image
  <1>4. QED
    BY <1>2, <1>3

-----------------------------------------------------------------------------
(* Batches and evidence. *)

LEMMA BatchElim ==
  ASSUME NEW b \in Batches
  PROVE  /\ Len(b) \in Nat /\ DOMAIN b = 1..Len(b) /\ b \in Seq(Operations)
         /\ \A i \in 1..Len(b) :
              /\ b[i] \in Operations
              /\ b[i].key \in Keys /\ b[i].data \in Data
              /\ b[i].action \in {"insert", "set", "update", "delete"}
              /\ PathOf[b[i].key] \in Paths
              /\ b[i].action \in {"insert", "set"} => b[i].data \in Images
         /\ \A i, j \in 1..Len(b) : b[i].key = b[j].key => i = j
  <1>1. b \in Seq(Operations)
    BY ProtectedConstantsAssumption
  <1>2. Len(b) \in Nat /\ DOMAIN b = 1..Len(b) /\ \A i \in 1..Len(b) : b[i] \in Operations
    BY <1>1
  <1>3. QED
    BY <1>1, <1>2, ProtectedConstantsAssumption DEF Operations

\* The image that an operation is to leave.
LEMMA CandidateTyped ==
  ASSUME NEW op \in Operations, op.action \in {"insert", "set"} => op.data \in Images,
         NEW pre \in Images \cup {None}
  PROVE  /\ Candidate(op, pre) \in Images \cup {None}
         /\ Candidate(op, pre) = None <=>
              (op.action = "delete" \/ (op.action = "update" /\ pre = None))
         /\ ~(op.action = "update" /\ pre = None) => Candidate(op, pre) = Intended(op, pre)
  <1>1. op.action \in {"insert", "set", "update", "delete"} /\ op.data \in Data
    BY DEF Operations
  <1>2. CASE op.action = "delete"
    BY <1>2 DEF Candidate, Intended
  <1>3. CASE op.action = "update" /\ pre = None
    BY <1>3 DEF Candidate, Intended
  <1>4. CASE op.action = "update" /\ pre # None
    <2> DEFINE new == [f \in Fields |-> IF f \in DOMAIN op.data THEN op.data[f] ELSE pre[f]]
    <2>1. Candidate(op, pre) = new /\ Intended(op, pre) = new
      BY <1>4 DEF Candidate, Intended
    <2>2. new \in Images
      BY <1>1, <1>4 DEF Data, Images
    <2>3. QED
      BY <1>4, <2>1, <2>2, ProtectedConstantsAssumption
  <1>5. CASE op.action \in {"insert", "set"}
    BY <1>5, ProtectedConstantsAssumption DEF Candidate, Intended
  <1>6. QED
    BY <1>1, <1>2, <1>3, <1>4, <1>5

\* What a batch leaves in a file: a content of that file, in which the records of
\* the batch have their images, and in a map of records the others are as before.
LEMMA LeavesElim ==
  ASSUME NEW t \in Trees, NEW b \in Batches, NEW cand \in [1..Len(b) -> Images \cup {None}],
         NEW path \in Paths
  PROVE  LET new == Leaves(b, cand, t, path) IN
         /\ new \in Contents(path) /\ new # Torn /\ (path \in MapPaths => new # Absent)
         /\ \A i \in 1..Len(b) : PathOf[b[i].key] = path =>
              /\ b[i].action = "delete" => Image(new, b[i].key) = None
              /\ b[i].action # "delete" /\ cand[i] # None => Image(new, b[i].key) = cand[i]
         /\ \A k \in KeysAt(path) :
              path \in MapPaths /\ (\A i \in 1..Len(b) : b[i].key # k) =>
                Image(new, k) = Image(t[path], k)
  <1> DEFINE S       == OpsOn(b, cand, path)
             deleted == Deleted(b, cand, path)
             stored  == Written(b, cand, path)
             dom     == (RecordsIn(t[path]) \ deleted) \cup stored
             at(k)   == CHOOSE i \in S : b[i].key = k
             result  == [k \in dom |-> IF k \in stored THEN cand[at(k)] ELSE t[path][k]]
             new     == Leaves(b, cand, t, path)
  <1>1. /\ \A i \in 1..Len(b) :
             i \in S <=> PathOf[b[i].key] = path /\ (b[i].action = "delete" \/ cand[i] # None)
        /\ \A i \in S : i \in 1..Len(b) /\ b[i].key \in KeysAt(path)
    BY BatchElim DEF OpsOn, KeysAt
  <1>2. /\ \A i \in S : IF b[i].action = "delete" THEN b[i].key \in deleted /\ b[i].key \notin stored
                                                  ELSE b[i].key \in stored /\ b[i].key \notin deleted
        /\ \A k \in stored : \E i \in S : b[i].key = k /\ b[i].action # "delete"
        /\ \A k \in deleted : \E i \in S : b[i].key = k
    BY <1>1, BatchElim DEF Deleted, Written
  <1>3. t[path] \in Contents(path) /\ RecordsIn(t[path]) \subseteq KeysAt(path)
        /\ \A k \in RecordsIn(t[path]) : t[path][k] \in Images
    BY TreeElim, ContentsElim
  <1> HIDE DEF S, deleted, stored
  <1>4. \A i \in S : at(b[i].key) = i
    <2> TAKE i \in S
    <2>1. at(b[i].key) \in S /\ b[at(b[i].key)].key = b[i].key
      OBVIOUS
    <2> HIDE DEF at
    <2>2. QED
      BY <1>1, <2>1, BatchElim
  <1>5. \A k \in stored : cand[at(k)] \in Images
    <2> SUFFICES ASSUME NEW k \in stored PROVE cand[at(k)] \in Images
      OBVIOUS
    <2>1. PICK i \in S : b[i].key = k /\ b[i].action # "delete"
      BY <1>2
    <2>2. at(k) = i
      BY <1>4, <2>1
    <2> HIDE DEF at
    <2>3. QED
      BY <1>1, <2>1, <2>2
  <1>6. new = IF path \notin MapPaths /\ stored = {} THEN Absent ELSE result
    BY DEF Leaves, S, deleted, stored
  <1>7. stored \subseteq KeysAt(path) /\ dom \subseteq KeysAt(path)
    BY <1>1, <1>2, <1>3
  <1> HIDE DEF at, new
  <1>8. CASE path \notin MapPaths /\ stored = {}
    <2>1. new = Absent /\ new \in Contents(path) /\ new # Torn /\ \A k : Image(new, k) = None
      BY <1>6, <1>8, ProtectedConstantsAssumption DEF Contents, Image, RecordsIn
    <2>2. \A i \in 1..Len(b) : PathOf[b[i].key] = path /\ b[i].action # "delete" => cand[i] = None
      BY <1>1, <1>2, <1>8
    <2>3. QED
      BY <1>8, <2>1, <2>2 DEF new
  <1>9. CASE ~(path \notin MapPaths /\ stored = {})
    <2>1. path \notin MapPaths => dom = KeysAt(path)
      <3>1. ASSUME path \notin MapPaths PROVE dom = KeysAt(path)
        <4>1. PICK k \in stored : TRUE
          BY <1>9, <3>1
        <4>2. KeysAt(path) = {k}
          BY <1>7, <3>1, <4>1, SingleRecord DEF KeysAt
        <4>3. QED
          BY <1>7, <4>1, <4>2
      <3>2. QED
        BY <3>1
    <2>2. result \in [dom -> Images]
      BY <1>3, <1>5
    <2>3. DOMAIN result = dom
          /\ \A k \in dom : result[k] = IF k \in stored THEN cand[at(k)] ELSE t[path][k]
      OBVIOUS
    <2>4. stored \subseteq dom /\ \A k : k \in dom /\ k \notin stored <=>
                                      k \in RecordsIn(t[path]) /\ k \notin deleted /\ k \notin stored
      OBVIOUS
    <2>5. new = result
      BY <1>6, <1>9
    <2> HIDE DEF result, dom
    <2>6. new \in Contents(path) /\ new \notin {Absent, Torn}
      BY <1>7, <2>1, <2>2, <2>5, ContentsIntro
    <2>7. RecordsIn(new) = dom
      BY <2>3, <2>5, <2>6 DEF RecordsIn
    <2>8. ASSUME NEW i \in 1..Len(b), PathOf[b[i].key] = path
          PROVE  /\ b[i].action = "delete" => Image(new, b[i].key) = None
                 /\ b[i].action # "delete" /\ cand[i] # None => Image(new, b[i].key) = cand[i]
      BY <1>1, <1>2, <1>4, <2>3, <2>4, <2>5, <2>7, <2>8 DEF Image
    <2>9. ASSUME NEW k \in KeysAt(path), \A i \in 1..Len(b) : b[i].key # k
          PROVE  Image(new, k) = Image(t[path], k)
      <3>1. k \notin stored /\ k \notin deleted
        BY <1>1, <1>2, <2>9
      <3>2. QED
        BY <2>3, <2>4, <2>5, <2>7, <3>1 DEF Image
    <2>10. QED
      BY <2>6, <2>8, <2>9 DEF new
  <1>10. QED
    BY <1>8, <1>9

LEMMA JobUpdate ==
  ASSUME Typed, NEW c \in Clients, NEW r \in Jobs, job' = [job EXCEPT ![c] = r]
  PROVE  job' \in [Clients -> Jobs] /\ job'[c] = r /\ \A d \in Clients \ {c} : job'[d] = job[d]
  BY SMT DEF Typed

LEMMA JobTyped ==
  ASSUME Typed, NEW c \in Clients
  PROVE  /\ job[c] \in Jobs /\ job[c].kind \in {"none", "inspect", "execute"}
         /\ job[c].ops \in Batches \cup {<<>>} /\ job[c].evidence \in Seq(Evidence)
         /\ job[c].lease \in Generations \cup {None} /\ job[c].done \in Nat
         /\ job[c].snapshots \in Partial /\ job[c].begun \in Trees \cup {<<>>}
         /\ Len(job[c].evidence) \in Nat /\ DOMAIN job[c].evidence = 1..Len(job[c].evidence)
         /\ \A i \in 1..Len(job[c].evidence) : job[c].evidence[i] \in Evidence
  BY SMT DEF Typed, Jobs

LEMMA NoJobTyped == NoJob \in Jobs
  BY EmptyPartial DEF NoJob, Jobs

LEMMA EmptyKnowledge == <<>> \in Knowledge
  <1>1. {} \in SUBSET Keys /\ <<>> \in [{} -> [revision : Revisions \cup {None}, file : Content]]
    OBVIOUS
  <1>2. QED
    BY <1>1, Zenon DEF Knowledge

LEMMA Bounds ==
  ASSUME Typed
  PROVE  /\ scenario.calls \in Nat /\ scenario.calls <= MaxCalls
         /\ scenario.writes \in Nat /\ scenario.writes <= MaxWrites
         /\ scenario.faults \in Nat /\ scenario.faults <= MaxFaults
         /\ MaxCalls \in Nat /\ MaxWrites \in Nat /\ MaxFaults \in Nat
         /\ calls \in Nat /\ writes \in Nat /\ faults \in Nat
  BY ProtectedConstantsAssumption DEF Typed

LEMMA FaultTyped ==
  ASSUME Typed, Fault
  PROVE  faults' \in 0..MaxFaults
  BY Bounds DEF Fault, Typed

-----------------------------------------------------------------------------
(* Locks. *)

\* A step of c that neither takes nor gives back the lock.
LEMMA LockKept ==
  ASSUME LockInv, NEW c \in Clients, lock' = lock,
         \A d \in Clients \ {c} : pc'[d] = pc[d] /\ job'[d] = job[d],
         \/ /\ job'[c].kind = job[c].kind
            /\ pc[c] \in LockedPCs <=> pc'[c] \in LockedPCs
         \/ pc[c] \notin LockedPCs /\ pc'[c] \notin LockedPCs
  PROVE  LockInv'
  <1>1. \A d \in Clients : (Writing(d)' <=> Writing(d)) /\ (Reading(d)' <=> Reading(d))
    BY DEF Writing, Reading
  <1>2. QED
    BY <1>1 DEF LockInv

LEMMA LockReturned ==
  ASSUME LockInv, NEW c \in Clients, pc'[c] = "idle",
         \A d \in Clients \ {c} : pc'[d] = pc[d] /\ job'[d] = job[d],
         lock' = [writer |-> lock.writer \ {c}, readers |-> lock.readers \ {c}]
  PROVE  LockInv'
  <1>1. ~Writing(c)' /\ ~Reading(c)'
    BY DEF Writing, Reading, LockedPCs, LeasedPCs, ExecutionPCs
  <1>2. \A d \in Clients \ {c} : (Writing(d)' <=> Writing(d)) /\ (Reading(d)' <=> Reading(d))
    BY DEF Writing, Reading
  <1>3. QED
    BY <1>1, <1>2 DEF LockInv

LEMMA LockAcquired ==
  ASSUME LockInv, NEW c \in Clients, pc[c] \notin LockedPCs, pc'[c] \in LockedPCs,
         job'[c].kind = job[c].kind, job[c].kind \in {"inspect", "execute"}, Free(job[c].kind),
         \A d \in Clients \ {c} : pc'[d] = pc[d] /\ job'[d] = job[d],
         lock' = IF job[c].kind = "execute" THEN [lock EXCEPT !.writer = {c}]
                                            ELSE [lock EXCEPT !.readers = @ \cup {c}]
  PROVE  LockInv'
  <1>1. (Writing(c)' <=> job[c].kind = "execute") /\ (Reading(c)' <=> job[c].kind = "inspect")
        /\ ~Writing(c) /\ ~Reading(c)
    BY DEF Writing, Reading
  <1>2. \A d \in Clients \ {c} : (Writing(d)' <=> Writing(d)) /\ (Reading(d)' <=> Reading(d))
    BY DEF Writing, Reading
  <1>3. lock.writer = {} /\ (job[c].kind = "execute" => lock.readers = {})
    BY DEF Free
  <1>4. QED
    BY <1>1, <1>2, <1>3, SMTT(30) DEF LockInv

\* The lock keeps others away: of a writer everybody else, of a reader every
\* writer.
LEMMA Excludes ==
  ASSUME LockInv, NEW c \in Clients, NEW d \in Clients \ {c}, pc[c] \in LockedPCs,
         job[c].kind = "execute", job[d].kind \in {"inspect", "execute"}
  PROVE  pc[d] \notin LockedPCs
  <1>1. Writing(c) /\ (pc[d] \in LockedPCs => Writing(d) \/ Reading(d))
    BY DEF Writing, Reading
  <1>2. QED
    BY <1>1 DEF LockInv

LEMMA FreeOfAll ==
  ASSUME LockInv, Free("execute"), NEW c \in Clients, job[c].kind \in {"inspect", "execute"}
  PROVE  pc[c] \notin LockedPCs
  BY DEF LockInv, Free, Writing, Reading

-----------------------------------------------------------------------------
(* Type correctness, step by step. *)

\* A step of c keeps the types if what c becomes is well-typed.
LEMMA ClientStepTyped ==
  ASSUME TypeInv, NEW c \in Clients, NEW l \in PCs, NEW r \in Jobs,
         pc' = [pc EXCEPT ![c] = l], job' = [job EXCEPT ![c] = r],
         LockInv', Stage(c)', tree' \in Trees, known' \in [Clients -> Knowledge],
         outcome' \in [Clients -> {"none", "ok", "failed", "rollbackFailed", "crashed"}],
         UNCHANGED <<scenario, head, live, pub, elsewhere, writes>>,
         calls' \in 0..MaxCalls, faults' \in 0..MaxFaults
  PROVE  TypeInv'
  <1>1. pc' \in [Clients -> PCs] /\ \A d \in Clients \ {c} : pc'[d] = pc[d]
    BY DEF TypeInv, Typed
  <1>2. job' \in [Clients -> Jobs] /\ \A d \in Clients \ {c} : job'[d] = job[d]
    BY JobUpdate DEF TypeInv
  <1>3. \A d \in Clients \ {c} : Stage(d)'
    BY <1>1, <1>2 DEF TypeInv, Stage
  <1>4. QED
    BY <1>1, <1>2, <1>3 DEF TypeInv, Typed

\* What a return leaves.
LEMMA ReturnEffect ==
  ASSUME Typed, NEW c \in Clients, NEW result, NEW facts, Return(c, result, facts)
  PROVE  /\ pc'[c] = "idle" /\ job'[c] = NoJob /\ outcome'[c] = result /\ known'[c] = facts
         /\ \A d \in Clients \ {c} : /\ pc'[d] = pc[d] /\ job'[d] = job[d]
                                     /\ known'[d] = known[d] /\ outcome'[d] = outcome[d]
  BY DEF Typed, Return, Goto

LEMMA ReturnTyped ==
  ASSUME TypeInv, NEW c \in Clients,
         NEW result \in {"none", "ok", "failed", "rollbackFailed", "crashed"},
         NEW facts \in Knowledge, Return(c, result, facts), UNCHANGED <<policy, bounds>>,
         tree' \in Trees, faults' \in 0..MaxFaults
  PROVE  TypeInv'
  <1>1. pc' = [pc EXCEPT ![c] = "idle"] /\ job' = [job EXCEPT ![c] = NoJob] /\ "idle" \in PCs
    BY DEF Return, Goto, PCs
  <1>2. LockInv'
    BY ReturnEffect, LockReturned DEF TypeInv, Return
  <1>3. Stage(c)'
    <2>1. pc'[c] = "idle" /\ job'[c] = NoJob
      BY ReturnEffect DEF TypeInv
    <2>2. /\ NoJob.evidence = <<>> /\ NoJob.ops = <<>> /\ NoJob.done = 0 /\ NoJob.snapshots = <<>>
          /\ Len(<<>>) = 0
      BY DEF NoJob
    <2>3. QED
      BY <2>1, <2>2 DEF Stage, LockedPCs, LeasedPCs, ExecutionPCs
  <1>4. /\ known' \in [Clients -> Knowledge] /\ calls' \in 0..MaxCalls
        /\ outcome' \in [Clients -> {"none", "ok", "failed", "rollbackFailed", "crashed"}]
        /\ UNCHANGED <<scenario, head, live, pub, elsewhere, writes>>
    BY DEF TypeInv, Typed, Return, bounds, policy
  <1>5. QED
    BY <1>1, <1>2, <1>3, <1>4, NoJobTyped, ClientStepTyped

LEMMA FailTyped ==
  ASSUME TypeInv, NEW c \in Clients, Fail(c), UNCHANGED <<policy, bounds>>,
         tree' \in Trees, faults' \in 0..MaxFaults
  PROVE  TypeInv'
  <1>1. known[c] \in Knowledge
    BY DEF TypeInv, Typed
  <1>2. QED
    BY <1>1, ReturnTyped DEF Fail

LEMMA BeginTyped ==
  ASSUME TypeInv, NEW c \in Clients, NEW kind \in {"inspect", "execute"}, NEW b \in Batches,
         NEW guarded \in BOOLEAN, Begin(c, kind, b, guarded)
  PROVE  /\ TypeInv'
         /\ pc[c] = "idle" /\ pc'[c] = "wait" /\ UNCHANGED <<tree, lock, known, head, live, pub, elsewhere>>
         /\ job'[c].ops = b /\ job'[c].guarded = guarded
         /\ \A d \in Clients \ {c} : pc'[d] = pc[d] /\ job'[d] = job[d]
  <1> DEFINE r == [NoJob EXCEPT !.kind = kind, !.ops = b, !.guarded = guarded]
  <1>1. r \in Jobs
    BY NoJobTyped DEF Jobs
  <1>2. /\ r.kind = kind /\ r.ops = b /\ r.evidence = <<>> /\ r.done = 0 /\ r.snapshots = <<>>
        /\ Len(<<>>) = 0
    BY DEF NoJob
  <1>3. pc' = [pc EXCEPT ![c] = "wait"] /\ job' = [job EXCEPT ![c] = r] /\ "wait" \in PCs
    BY DEF Begin, Goto, PCs
  <1>11. r.guarded = guarded
    BY DEF NoJob
  <1> HIDE DEF r
  <1>4. job'[c] = r /\ \A d \in Clients \ {c} : job'[d] = job[d]
    BY <1>1, <1>3, JobUpdate DEF TypeInv
  <1>5. pc[c] = "idle" /\ pc'[c] = "wait" /\ \A d \in Clients \ {c} : pc'[d] = pc[d]
    BY <1>3 DEF TypeInv, Typed, Begin
  <1>6. LockInv'
    BY <1>4, <1>5, LockKept DEF TypeInv, Begin, LockedPCs, LeasedPCs, ExecutionPCs
  <1>7. Stage(c)'
    BY <1>2, <1>4, <1>5, BatchElim DEF Stage, LockedPCs, LeasedPCs, ExecutionPCs
  <1>8. /\ known' \in [Clients -> Knowledge] /\ calls' \in 0..MaxCalls /\ faults' \in 0..MaxFaults
        /\ outcome' \in [Clients -> {"none", "ok", "failed", "rollbackFailed", "crashed"}]
        /\ UNCHANGED <<scenario, head, live, pub, elsewhere, writes, tree, lock, known>> /\ tree' \in Trees
    BY Bounds DEF TypeInv, Typed, Begin, policy
  <1>9. TypeInv'
    BY <1>1, <1>3, <1>6, <1>7, <1>8, ClientStepTyped
  <1>10. QED
    BY <1>2, <1>4, <1>5, <1>8, <1>9, <1>11

LEMMA AcquireTyped ==
  ASSUME TypeInv, NEW c \in Clients, AcquireLock(c)
  PROVE  /\ TypeInv'
         /\ pc[c] = "wait" /\ pc'[c] = "prepare" /\ UNCHANGED <<tree, known, head, live, pub, elsewhere>>
         /\ job'[c] = [job[c] EXCEPT !.begun = tree]
         /\ \A d \in Clients \ {c} : pc'[d] = pc[d] /\ job'[d] = job[d]
  <1> DEFINE r == [job[c] EXCEPT !.begun = tree]
  <1>0. Typed /\ LockInv /\ Stage(c) /\ job[c] \in Jobs
    BY JobTyped DEF TypeInv
  <1>1. r \in Jobs
    BY <1>0 DEF Typed, Jobs
  <1>2. /\ r.kind = job[c].kind /\ r.ops = job[c].ops /\ r.evidence = job[c].evidence
        /\ r.done = job[c].done /\ r.snapshots = job[c].snapshots /\ r.begun = tree
    BY <1>0 DEF Jobs
  <1>3. pc' = [pc EXCEPT ![c] = "prepare"] /\ job' = [job EXCEPT ![c] = r] /\ "prepare" \in PCs
    BY DEF AcquireLock, Goto, PCs, LockedPCs
  <1> HIDE DEF r
  <1>4. job'[c] = r /\ \A d \in Clients \ {c} : job'[d] = job[d]
    BY <1>0, <1>1, <1>3, JobUpdate
  <1>5. pc[c] = "wait" /\ pc'[c] = "prepare" /\ \A d \in Clients \ {c} : pc'[d] = pc[d]
    BY <1>0, <1>3 DEF Typed, AcquireLock
  <1>6. job[c].kind \in {"inspect", "execute"}
    BY <1>0, <1>5, JobTyped DEF Stage
  <1>7. LockInv'
    <2>1. pc[c] \notin LockedPCs /\ pc'[c] \in LockedPCs
      BY <1>5 DEF LockedPCs, LeasedPCs, ExecutionPCs
    <2>2. QED
      BY <1>0, <1>2, <1>4, <1>5, <1>6, <2>1, LockAcquired DEF AcquireLock
  <1>8. Stage(c)'
    BY <1>0, <1>2, <1>4, <1>5 DEF Stage, Typed, LockedPCs, LeasedPCs, ExecutionPCs
  <1>9. /\ known' \in [Clients -> Knowledge] /\ calls' \in 0..MaxCalls /\ faults' \in 0..MaxFaults
        /\ outcome' \in [Clients -> {"none", "ok", "failed", "rollbackFailed", "crashed"}]
        /\ UNCHANGED <<scenario, head, live, pub, elsewhere, writes, tree, known>> /\ tree' \in Trees
    BY <1>0 DEF Typed, AcquireLock, policy, bounds
  <1>10. TypeInv'
    BY <1>1, <1>3, <1>7, <1>8, <1>9, ClientStepTyped
  <1>11. QED
    BY <1>4, <1>5, <1>9, <1>10 DEF r

\* A step of c under the lock.
LEMMA LockedStepTyped ==
  ASSUME TypeInv, NEW c \in Clients, pc[c] \in LockedPCs, NEW l \in LockedPCs, NEW r \in Jobs,
         r.kind = job[c].kind, pc' = [pc EXCEPT ![c] = l], job' = [job EXCEPT ![c] = r],
         UNCHANGED <<lock, known, outcome, policy, bounds>>,
         tree' \in Trees, faults' \in 0..MaxFaults, Stage(c)'
  PROVE  TypeInv'
  <1>1. l \in PCs
    BY DEF PCs
  <1>2. job'[c] = r /\ \A d \in Clients \ {c} : job'[d] = job[d]
    BY JobUpdate DEF TypeInv
  <1>3. pc'[c] = l /\ \A d \in Clients \ {c} : pc'[d] = pc[d]
    BY DEF TypeInv, Typed
  <1>4. LockInv'
    BY <1>2, <1>3, LockKept DEF TypeInv
  <1>5. /\ known' \in [Clients -> Knowledge] /\ calls' \in 0..MaxCalls
        /\ outcome' \in [Clients -> {"none", "ok", "failed", "rollbackFailed", "crashed"}]
        /\ UNCHANGED <<scenario, head, live, pub, elsewhere, writes>>
    BY DEF TypeInv, Typed, policy, bounds
  <1>6. QED
    BY <1>1, <1>4, <1>5, ClientStepTyped

\* Only pc changes.
LEMMA GotoTyped ==
  ASSUME TypeInv, NEW c \in Clients, pc[c] \in LockedPCs, NEW l \in LockedPCs, Goto(c, l),
         UNCHANGED <<job, tree, lock, known, outcome, policy, bounds>>,
         faults' \in 0..MaxFaults,
         l # "prepare" => pc[c] # "prepare",
         l \in {"prepare", "lease", "decide"} => pc[c] \in {"prepare", "lease", "decide"},
         l \in ExecutionPCs => job[c].kind = "execute",
         l = "executed" => job[c].done = Len(job[c].ops)
  PROVE  TypeInv'
  <1>1. job[c] \in Jobs /\ job' = [job EXCEPT ![c] = job[c]] /\ pc' = [pc EXCEPT ![c] = l]
    BY JobTyped DEF TypeInv, Typed, Goto
  <1>2. pc'[c] = l /\ job'[c] = job[c] /\ Stage(c) /\ pc[c] # "idle" /\ l # "idle"
    BY DEF TypeInv, Typed, Goto, LockedPCs, LeasedPCs, ExecutionPCs
  <1>3. Stage(c)'
    BY <1>2 DEF Stage
  <1>4. tree' \in Trees
    BY DEF TypeInv, Typed
  <1>5. QED
    BY <1>1, <1>3, <1>4, LockedStepTyped

LEMMA RevisionTyped ==
  ASSUME NEW k \in Keys, NEW exists \in BOOLEAN, NEW content \in Content
  PROVE  Revision(k, exists, content) \in Revisions
  BY DEF Revision, Revisions

LEMMA DataRevisionTyped ==
  ASSUME NEW k \in Keys, NEW content \in Content
  PROVE  DataRevision(k, content) \in Revisions
  <1>1. CASE k \in RecordsIn(content)
    <2>1. (k \in RecordsIn(content)) = TRUE
      BY <1>1, Zenon
    <2>2. QED
      BY <2>1, RevisionTyped, Zenon DEF DataRevision
  <1>2. CASE k \notin RecordsIn(content)
    <2>1. (k \in RecordsIn(content)) = FALSE
      BY <1>2, SMT
    <2>2. QED
      BY <2>1, RevisionTyped, Zenon DEF DataRevision
  <1>3. QED
    BY <1>1, <1>2

\* The evidence that PrepareOperation adds.
NewEvidence(c) ==
  LET op   == job[c].ops[Len(job[c].evidence) + 1]
      file == tree[PathOf[op.key]]
      pre  == Image(file, op.key)
  IN [exists |-> pre # None, candidate |-> Candidate(op, pre),
      revision |-> DataRevision(op.key, file), receipt |-> None]

LEMMA EvidenceTyped ==
  ASSUME Typed, NEW c \in Clients, job[c].ops \in Batches,
         Len(job[c].evidence) + 1 <= Len(job[c].ops)
  PROVE  NewEvidence(c) \in Evidence
  <1> DEFINE op   == job[c].ops[Len(job[c].evidence) + 1]
             file == tree[PathOf[op.key]]
             pre  == Image(file, op.key)
  <1>1. /\ op \in Operations /\ op.key \in Keys /\ PathOf[op.key] \in Paths
        /\ op.action \in {"insert", "set"} => op.data \in Images
    <2>1. /\ Len(job[c].evidence) \in Nat
          /\ Len(job[c].evidence) + 1 \in 1..Len(job[c].ops)
      BY JobTyped, BatchElim, SMTT(30)
    <2> DEFINE n == Len(job[c].evidence) + 1
               b == job[c].ops
    <2>2. n \in 1..Len(b) /\ b \in Batches /\ op = b[n]
      BY <2>1
    <2> HIDE DEF n, b, op
    <2>3. QED
      BY <2>2, BatchElim, SMTT(30)
  <1>2. file \in Contents(PathOf[op.key]) /\ file \in Content
    BY <1>1, TreeElim DEF Typed
  <1>3. pre \in Images \cup {None}
    BY <1>1, <1>2, ImageTyped
  <1>4. Candidate(op, pre) \in Images \cup {None}
    BY <1>1, <1>3, CandidateTyped
  <1>5. DataRevision(op.key, file) \in Revisions
    BY <1>1, <1>2, DataRevisionTyped
  <1> HIDE DEF op, file, pre
  <1>6. [exists |-> pre # None, candidate |-> Candidate(op, pre),
         revision |-> DataRevision(op.key, file), receipt |-> None] \in Evidence
    BY <1>4, <1>5 DEF Evidence
  <1>7. QED
    BY <1>6 DEF NewEvidence, op, file, pre

LEMMA PrepareTyped ==
  ASSUME TypeInv, NEW c \in Clients, PrepareOperation(c)
  PROVE  /\ TypeInv' /\ pc[c] = "prepare" /\ UNCHANGED <<tree, head, live, pub, elsewhere>>
         /\ \/ Fail(c)
            \/ /\ pc' = pc /\ UNCHANGED known
               /\ job'[c] = [job[c] EXCEPT !.evidence = Append(job[c].evidence, NewEvidence(c))]
               /\ Len(job[c].evidence) + 1 <= Len(job[c].ops) /\ job[c].ops \in Batches
               /\ \A d \in Clients \ {c} : job'[d] = job[d]
  <1>0. /\ Typed /\ Stage(c) /\ job[c] \in Jobs /\ pc[c] = "prepare" /\ job[c].ops \in Batches
        /\ tree' \in Trees /\ faults' \in 0..MaxFaults
        /\ UNCHANGED <<tree, policy, bounds>>
    <2>1. Typed /\ Stage(c) /\ job[c] \in Jobs
      BY JobTyped DEF TypeInv
    <2>2. pc[c] = "prepare" /\ UNCHANGED <<tree, policy, bounds, faults>>
      BY DEF PrepareOperation
    <2>3. QED
      BY <2>1, <2>2 DEF Stage, Typed
  <1>1. CASE Fail(c)
    BY <1>0, <1>1, FailTyped DEF policy
  <1>2. CASE ~Fail(c)
    <2> DEFINE r == [job[c] EXCEPT !.evidence = Append(job[c].evidence, NewEvidence(c))]
    <2>1. /\ Len(job[c].evidence) + 1 <= Len(job[c].ops)
          /\ job' = [job EXCEPT ![c] = r]
          /\ UNCHANGED <<lock, pc, known, outcome>>
      BY <1>2 DEF PrepareOperation, NewEvidence
    <2>2. NewEvidence(c) \in Evidence
      BY <1>0, <2>1, EvidenceTyped
    <2>3. /\ Append(job[c].evidence, NewEvidence(c)) \in Seq(Evidence)
          /\ Len(Append(job[c].evidence, NewEvidence(c))) = Len(job[c].evidence) + 1
      BY <1>0, <2>2, JobTyped
    <2>4. /\ r \in Jobs /\ r.kind = job[c].kind /\ r.ops = job[c].ops /\ r.done = job[c].done
          /\ r.snapshots = job[c].snapshots /\ r.begun = job[c].begun
          /\ r.evidence = Append(job[c].evidence, NewEvidence(c))
      BY <1>0, <2>3 DEF Jobs
    <2> HIDE DEF r
    <2>5. job'[c] = r /\ \A d \in Clients \ {c} : job'[d] = job[d]
      BY <1>0, <2>1, <2>4, JobUpdate
    <2>6. Stage(c)'
      BY <1>0, <2>1, <2>3, <2>4, <2>5 DEF Stage, LockedPCs, LeasedPCs, ExecutionPCs
    <2>7. pc' = [pc EXCEPT ![c] = "prepare"] /\ "prepare" \in LockedPCs
      BY <1>0, <2>1 DEF Typed, LockedPCs
    <2>8. TypeInv'
      BY <1>0, <2>1, <2>4, <2>6, <2>7, LockedStepTyped, Zenon
    <2>9. QED
      BY <1>0, <2>1, <2>5, <2>8 DEF r, policy
  <1>3. QED
    BY <1>1, <1>2

LEMMA LeaseTyped ==
  ASSUME TypeInv, NEW c \in Clients, Lease(c)
  PROVE  /\ TypeInv' /\ pc[c] = "lease" /\ UNCHANGED <<tree, head, live, pub, elsewhere>>
         /\ \/ Fail(c)
            \/ /\ live # None /\ pc'[c] = "decide" /\ UNCHANGED known
               /\ job'[c] = [job[c] EXCEPT !.lease = live]
               /\ \A d \in Clients \ {c} : pc'[d] = pc[d] /\ job'[d] = job[d]
  <1>0. /\ Typed /\ Stage(c) /\ job[c] \in Jobs /\ pc[c] = "lease"
        /\ tree' \in Trees /\ faults' \in 0..MaxFaults
        /\ UNCHANGED <<tree, policy, bounds>>
    BY JobTyped DEF TypeInv, Typed, Lease
  <1>1. CASE Fail(c)
    BY <1>0, <1>1, FailTyped DEF policy
  <1>2. CASE ~Fail(c)
    <2> DEFINE r == [job[c] EXCEPT !.lease = live]
    <2>1. /\ live # None /\ job' = [job EXCEPT ![c] = r] /\ pc' = [pc EXCEPT ![c] = "decide"]
          /\ UNCHANGED <<lock, known, outcome>>
      BY <1>2 DEF Lease, Goto
    <2>2. /\ r \in Jobs /\ r.kind = job[c].kind /\ r.ops = job[c].ops /\ r.done = job[c].done
          /\ r.snapshots = job[c].snapshots /\ r.begun = job[c].begun
          /\ r.evidence = job[c].evidence
      BY <1>0, <2>1 DEF Jobs, Typed
    <2> HIDE DEF r
    <2>3. job'[c] = r /\ \A d \in Clients \ {c} : job'[d] = job[d]
      BY <1>0, <2>1, <2>2, JobUpdate
    <2>4. pc'[c] = "decide" /\ \A d \in Clients \ {c} : pc'[d] = pc[d]
      BY <1>0, <2>1 DEF Typed
    <2>5. Stage(c)'
      BY <1>0, <2>2, <2>3, <2>4 DEF Stage, LockedPCs, LeasedPCs, ExecutionPCs
    <2>6. TypeInv'
      <3>1. "decide" \in LockedPCs /\ pc[c] \in LockedPCs
        BY <1>0 DEF LockedPCs, LeasedPCs
      <3>2. QED
        BY <1>0, <2>1, <2>2, <2>5, <3>1, LockedStepTyped
    <2>7. QED
      BY <1>0, <2>1, <2>3, <2>4, <2>6 DEF r, policy
  <1>3. QED
    BY <1>1, <1>2

LEMMA CandidatesTyped ==
  ASSUME Typed, NEW c \in Clients, Len(job[c].evidence) = Len(job[c].ops)
  PROVE  /\ Candidates(c) \in [1..Len(job[c].ops) -> Images \cup {None}]
         /\ \A i \in 1..Len(job[c].ops) : Candidates(c)[i] = job[c].evidence[i].candidate
  BY JobTyped DEF Candidates, Evidence

\* assignBatchCandidateRevisions, in terms of the batch and its candidates.
LEMMA PredictedLeaves ==
  ASSUME Typed, NEW c \in Clients, job[c].ops \in Batches,
         Len(job[c].evidence) = Len(job[c].ops), NEW path \in Paths
  PROVE  Predicted(c, path) = Leaves(job[c].ops, Candidates(c), tree, path)
  <1> DEFINE b       == job[c].ops
             cand    == Candidates(c)
             S       == OpsOn(b, cand, path)
             deleted == Deleted(b, cand, path)
             stored  == Written(b, cand, path)
             dom     == (RecordsIn(tree[path]) \ deleted) \cup stored
             at(k)   == CHOOSE i \in S : b[i].key = k
             left    == [k \in dom |-> IF k \in stored THEN job[c].evidence[at(k)].candidate
                                                        ELSE tree[path][k]]
             right   == [k \in dom |-> IF k \in stored THEN cand[at(k)] ELSE tree[path][k]]
  <1>1. \A i \in 1..Len(b) : cand[i] = job[c].evidence[i].candidate
    BY CandidatesTyped
  <1>2. OpsAt(c, path) = S /\ S \subseteq 1..Len(b)
    BY <1>1, BatchElim DEF OpsAt, OpsOn
  <1>3. Predicted(c, path) = IF path \notin MapPaths /\ stored = {} THEN Absent ELSE left
    BY <1>2 DEF Predicted, Deleted, Written
  <1>4. \A k \in stored : at(k) \in S
    BY DEF Written
  <1>5. left = right
    BY <1>1, <1>2, <1>4, ZenonT(60)
  <1>6. QED
    BY <1>3, <1>5 DEF Leaves

LEMMA ReceiptTyped ==
  ASSUME Typed, NEW c \in Clients, job[c].ops \in Batches,
         Len(job[c].evidence) = Len(job[c].ops), NEW i \in 1..Len(job[c].ops)
  PROVE  Receipt(c, i) \in Revisions
  <1> DEFINE k == job[c].ops[i].key
             file == Predicted(c, PathOf[k])
             exists == PathOf[k] \in MapPaths \/ file # Absent
  <1>1. k \in Keys /\ PathOf[k] \in Paths
    BY BatchElim
  <1>2. file \in Content
    <2>1. file \in Contents(PathOf[k])
      BY <1>1, PredictedLeaves, CandidatesTyped, LeavesElim DEF Typed
    <2>2. QED
      BY <1>1, <2>1 DEF Content
  <1>3. exists \in BOOLEAN
    OBVIOUS
  <1>4. Receipt(c, i) = Revision(k, exists, file)
    BY Zenon DEF Receipt
  <1> HIDE DEF k, file, exists
  <1>5. QED
    BY <1>1, <1>2, <1>3, <1>4, RevisionTyped

\* The evidence with its receipts.
WithReceipts(c) ==
  [i \in DOMAIN job[c].evidence |-> [job[c].evidence[i] EXCEPT !.receipt = Receipt(c, i)]]

LEMMA AssignTyped ==
  ASSUME TypeInv, NEW c \in Clients, AssignReceipts(c)
  PROVE  /\ TypeInv' /\ pc[c] = "prepare" /\ pc'[c] = "lease"
         /\ UNCHANGED <<tree, known, head, live, pub, elsewhere>>
         /\ Len(job[c].evidence) = Len(job[c].ops) /\ job[c].ops \in Batches
         /\ job'[c] = [job[c] EXCEPT !.evidence = WithReceipts(c)]
         /\ \A d \in Clients \ {c} : pc'[d] = pc[d] /\ job'[d] = job[d]
         /\ Len(WithReceipts(c)) = Len(job[c].ops)
         /\ \A i \in 1..Len(job[c].ops) :
              WithReceipts(c)[i] = [job[c].evidence[i] EXCEPT !.receipt = Receipt(c, i)]
  <1> DEFINE r == [job[c] EXCEPT !.evidence = WithReceipts(c)]
             n == Len(job[c].ops)
  <1>0. /\ Typed /\ Stage(c) /\ job[c] \in Jobs /\ tree' \in Trees /\ faults' \in 0..MaxFaults
        /\ UNCHANGED <<tree, lock, policy, known, outcome, bounds>>
    BY JobTyped DEF TypeInv, Typed, AssignReceipts
  <1>1. /\ pc[c] = "prepare" /\ Len(job[c].evidence) = n
        /\ pc' = [pc EXCEPT ![c] = "lease"] /\ job' = [job EXCEPT ![c] = r]
    BY Zenon DEF AssignReceipts, WithReceipts, Goto
  <1>2. job[c].ops \in Batches /\ n \in Nat
    BY <1>0, <1>1, BatchElim DEF Stage
  <1>3. \A i \in 1..n : Receipt(c, i) \in Revisions
    BY <1>0, <1>1, <1>2, ReceiptTyped
  <1>4. /\ DOMAIN WithReceipts(c) = 1..n
        /\ \A i \in 1..n :
             WithReceipts(c)[i] = [job[c].evidence[i] EXCEPT !.receipt = Receipt(c, i)]
    BY <1>0, <1>1, JobTyped DEF WithReceipts
  <1>5. \A i \in 1..n : [job[c].evidence[i] EXCEPT !.receipt = Receipt(c, i)] \in Evidence
    <2> SUFFICES ASSUME NEW i \in 1..n
                 PROVE  [job[c].evidence[i] EXCEPT !.receipt = Receipt(c, i)] \in Evidence
      OBVIOUS
    <2>1. job[c].evidence[i] \in Evidence
      BY <1>0, <1>1, JobTyped
    <2>2. QED
      BY <1>3, <2>1 DEF Evidence
  <1>6. WithReceipts(c) \in Seq(Evidence) /\ Len(WithReceipts(c)) = n
    <2>1. WithReceipts(c) \in [1..n -> Evidence]
      BY <1>4, <1>5 DEF WithReceipts
    <2>2. QED
      BY <1>2, <2>1
  <1>7. /\ r \in Jobs /\ r.kind = job[c].kind /\ r.ops = job[c].ops /\ r.done = job[c].done
        /\ r.snapshots = job[c].snapshots /\ r.begun = job[c].begun /\ r.evidence = WithReceipts(c)
    BY <1>0, <1>6 DEF Jobs
  <1> HIDE DEF r
  <1>8. job'[c] = r /\ \A d \in Clients \ {c} : job'[d] = job[d]
    BY <1>0, <1>1, <1>7, JobUpdate
  <1>9. pc'[c] = "lease" /\ \A d \in Clients \ {c} : pc'[d] = pc[d]
    BY <1>0, <1>1 DEF Typed
  <1>10. Stage(c)'
    BY <1>0, <1>1, <1>2, <1>6, <1>7, <1>8, <1>9 DEF Stage, LockedPCs, LeasedPCs, ExecutionPCs
  <1>11. "lease" \in LockedPCs /\ pc[c] \in LockedPCs
    BY <1>1 DEF LockedPCs
  <1>12. TypeInv'
    BY <1>0, <1>1, <1>7, <1>10, <1>11, LockedStepTyped, Zenon
  <1>13. QED
    BY <1>0, <1>1, <1>2, <1>4, <1>6, <1>8, <1>9, <1>12 DEF r, policy

\* The operation of the call on a record.
At(c, k) == CHOOSE i \in DOMAIN job[c].ops : job[c].ops[i].key = k
KeysOf(c) == {job[c].ops[i].key : i \in DOMAIN job[c].ops}

LEMMA AtElim ==
  ASSUME NEW c \in Clients, job[c].ops \in Batches, NEW k \in KeysOf(c)
  PROVE  /\ At(c, k) \in 1..Len(job[c].ops) /\ job[c].ops[At(c, k)].key = k
         /\ k \in Keys /\ PathOf[k] \in Paths
  <1>1. At(c, k) \in DOMAIN job[c].ops /\ job[c].ops[At(c, k)].key = k
    BY DEF At, KeysOf
  <1>2. QED
    BY <1>1, BatchElim

\* What a successful execution leaves with the client.
Granted(c) ==
  [k \in KeysOf(c) |-> [revision |-> job[c].evidence[At(c, k)].receipt, file |-> tree[PathOf[k]]]]

LEMMA FactsTyped ==
  ASSUME Typed, NEW c \in Clients, job[c].ops \in Batches,
         Len(job[c].evidence) = Len(job[c].ops)
  PROVE  /\ Facts(c) \in Knowledge /\ Granted(c) \in Knowledge
         /\ DOMAIN Facts(c) = KeysOf(c) /\ DOMAIN Granted(c) = KeysOf(c)
         /\ \A k \in KeysOf(c) :
              /\ Facts(c)[k] = [revision |-> job[c].evidence[At(c, k)].revision,
                                file     |-> tree[PathOf[k]]]
              /\ Granted(c)[k] = [revision |-> job[c].evidence[At(c, k)].receipt,
                                  file     |-> tree[PathOf[k]]]
  <1>1. Facts(c) = [k \in KeysOf(c) |-> [revision |-> job[c].evidence[At(c, k)].revision,
                                         file     |-> tree[PathOf[k]]]]
    BY DEF Facts, KeysOf, At
  <1>2. KeysOf(c) \in SUBSET Keys
    BY AtElim
  <1>3. \A k \in KeysOf(c) :
          /\ job[c].evidence[At(c, k)].revision \in Revisions
          /\ job[c].evidence[At(c, k)].receipt \in Revisions \cup {None}
          /\ tree[PathOf[k]] \in Content
    <2> SUFFICES ASSUME NEW k \in KeysOf(c)
                 PROVE  /\ job[c].evidence[At(c, k)].revision \in Revisions
                        /\ job[c].evidence[At(c, k)].receipt \in Revisions \cup {None}
                        /\ tree[PathOf[k]] \in Content
      OBVIOUS
    <2>1. job[c].evidence[At(c, k)] \in Evidence
      BY AtElim, JobTyped
    <2>2. tree[PathOf[k]] \in Content
      BY AtElim, TreeElim DEF Typed
    <2>3. QED
      BY <2>1, <2>2 DEF Evidence
  <1>4. /\ Facts(c) \in [KeysOf(c) -> [revision : Revisions \cup {None}, file : Content]]
        /\ Granted(c) \in [KeysOf(c) -> [revision : Revisions \cup {None}, file : Content]]
    BY <1>1, <1>3 DEF Granted
  <1>5. QED
    BY <1>1, <1>2, <1>4 DEF Knowledge, Granted

LEMMA InspectedTyped ==
  ASSUME TypeInv, NEW c \in Clients, Inspected(c)
  PROVE  /\ TypeInv' /\ Return(c, "ok", Facts(c)) /\ pc[c] = "decide"
         /\ job[c].ops \in Batches /\ Len(job[c].evidence) = Len(job[c].ops)
  <1>1. /\ Typed /\ pc[c] = "decide" /\ job[c].ops \in Batches
        /\ Len(job[c].evidence) = Len(job[c].ops)
        /\ tree' \in Trees /\ faults' \in 0..MaxFaults /\ UNCHANGED <<policy, bounds>>
    BY DEF TypeInv, Typed, Stage, Inspected, LockedPCs, LeasedPCs
  <1>2. Return(c, "ok", Facts(c))
    BY DEF Inspected
  <1>3. QED
    BY <1>1, <1>2, FactsTyped, ReturnTyped

LEMMA SucceedTyped ==
  ASSUME TypeInv, NEW c \in Clients, Succeed(c)
  PROVE  /\ TypeInv' /\ Return(c, "ok", Granted(c)) /\ pc[c] = "executed"
         /\ job[c].ops \in Batches /\ Len(job[c].evidence) = Len(job[c].ops)
         /\ job[c].done = Len(job[c].ops)
  <1>1. /\ Typed /\ pc[c] = "executed" /\ job[c].ops \in Batches
        /\ Len(job[c].evidence) = Len(job[c].ops) /\ job[c].done = Len(job[c].ops)
        /\ tree' \in Trees /\ faults' \in 0..MaxFaults /\ UNCHANGED <<policy, bounds>>
    BY DEF TypeInv, Typed, Stage, Succeed, LockedPCs, LeasedPCs, ExecutionPCs
  <1>2. Return(c, "ok", Granted(c))
    BY DEF Succeed, Granted, KeysOf, At
  <1>3. QED
    BY <1>1, <1>2, FactsTyped, ReturnTyped

LEMMA RestoreTyped ==
  ASSUME TypeInv, NEW c \in Clients, Restore(c)
  PROVE  TypeInv'
  <1>1. Typed /\ job[c].snapshots \in Partial
    BY JobTyped DEF TypeInv
  <1>2. tree' \in Trees
    BY <1>1, RestoredTree, ZenonT(60) DEF Typed, Restore
  <1>3. Fail(c) /\ UNCHANGED <<policy, bounds>> /\ faults' \in 0..MaxFaults
    BY <1>1 DEF Restore, Typed
  <1>4. QED
    BY <1>2, <1>3, FailTyped

LEMMA RestoreFailsTyped ==
  ASSUME TypeInv, NEW c \in Clients, RestoreFails(c)
  PROVE  TypeInv'
  <1>1. Typed /\ job[c].snapshots \in Partial /\ known[c] \in Knowledge
    BY JobTyped DEF TypeInv, Typed
  <1>2. tree' \in Trees
    <2>1. PICK S \in SUBSET DOMAIN job[c].snapshots :
            tree' = [path \in Paths |-> IF path \in S THEN job[c].snapshots[path] ELSE tree[path]]
      BY DEF RestoreFails
    <2>2. tree \in Trees
      BY <1>1 DEF Typed
    <2>3. QED
      BY <1>1, <2>1, <2>2, RestoredTree
  <1>3. Return(c, "rollbackFailed", known[c]) /\ UNCHANGED <<policy, bounds>> /\ Fault
    BY DEF RestoreFails
  <1>4. QED
    BY <1>1, <1>2, <1>3, FaultTyped, ReturnTyped

LEMMA CrashTyped ==
  ASSUME TypeInv, NEW c \in Clients, Crash(c) \/ LockCancelled(c)
  PROVE  TypeInv'
  <1>1. Typed /\ known[c] \in Knowledge /\ tree' \in Trees /\ UNCHANGED <<policy, bounds>> /\ Fault
    BY DEF TypeInv, Typed, Crash, LockCancelled
  <1>2. Return(c, "crashed", <<>>) \/ Fail(c)
    BY DEF Crash, LockCancelled
  <1>3. QED
    BY <1>1, <1>2, FaultTyped, FailTyped, ReturnTyped, EmptyKnowledge

LEMMA DecideTyped ==
  ASSUME TypeInv, NEW c \in Clients, Decide(c)
  PROVE  /\ TypeInv' /\ pc[c] = "decide" /\ UNCHANGED <<tree, head, live, pub, elsewhere>>
         /\ \/ Fail(c)
            \/ /\ Permitted(c) /\ AsExpected(c) /\ pc' = [pc EXCEPT ![c] = "execute"]
               /\ UNCHANGED <<known, job>>
  <1>1. Typed /\ Stage(c) /\ tree' \in Trees /\ faults' \in 0..MaxFaults
        /\ UNCHANGED <<tree, policy, bounds>> /\ pc[c] = "decide" /\ job[c].kind = "execute"
    BY DEF TypeInv, Typed, Decide
  <1>2. CASE Fail(c)
    BY <1>1, <1>2, FailTyped DEF policy
  <1>3. CASE ~Fail(c)
    <2>1. Permitted(c) /\ AsExpected(c) /\ Goto(c, "execute") /\ UNCHANGED <<lock, job, known, outcome>>
      BY <1>3 DEF Decide
    <2>2. "execute" \in LockedPCs /\ pc[c] \in LockedPCs
      BY <1>1 DEF LockedPCs, LeasedPCs, ExecutionPCs
    <2>3. TypeInv'
      BY <1>1, <2>1, <2>2, GotoTyped
    <2>4. QED
      BY <1>1, <2>1, <2>3 DEF Goto, policy
  <1>4. QED
    BY <1>2, <1>3

\* A rollback begins.
LEMMA RollbackTyped ==
  ASSUME TypeInv, NEW c \in Clients, pc[c] \in {"execute", "executed"}, Rollback(c),
         UNCHANGED <<tree, policy, job, bounds>>, faults' \in 0..MaxFaults
  PROVE  TypeInv'
  <1>1. /\ "rollback" \in LockedPCs /\ pc[c] \in LockedPCs /\ pc[c] # "prepare"
        /\ job[c].kind = "execute"
    BY DEF TypeInv, Stage, LockedPCs, LeasedPCs, ExecutionPCs
  <1>2. Goto(c, "rollback") /\ UNCHANGED <<lock, known, outcome>>
    BY DEF Rollback
  <1>3. QED
    BY <1>1, <1>2, GotoTyped

LEMMA SnapshotTyped ==
  ASSUME Typed, NEW c \in Clients, NEW path \in Paths
  PROVE  /\ Snapshot(c, path) \in Partial
         /\ DOMAIN Snapshot(c, path) = DOMAIN job[c].snapshots \cup {path}
         /\ \A p \in DOMAIN job[c].snapshots \cup {path} :
              Snapshot(c, path)[p] = IF p \in DOMAIN job[c].snapshots
                                     THEN job[c].snapshots[p] ELSE tree[p]
  <1> DEFINE S == DOMAIN job[c].snapshots \cup {path}
  <1>1. job[c].snapshots \in Partial /\ tree \in Trees
    BY JobTyped DEF Typed
  <1>2. S \in SUBSET Paths
    BY <1>1, PartialElim
  <1>3. /\ DOMAIN Snapshot(c, path) = S
        /\ \A p \in S : Snapshot(c, path)[p] = IF p \in DOMAIN job[c].snapshots
                                               THEN job[c].snapshots[p] ELSE tree[p]
    BY DEF Snapshot
  <1>4. \A p \in S : Snapshot(c, path)[p] \in Contents(p) /\ Snapshot(c, path)[p] \in Content
    BY <1>1, <1>2, <1>3, PartialElim, TreeElim
  <1>5. Snapshot(c, path) \in [S -> Content]
    BY <1>3, <1>4 DEF Snapshot
  <1>6. QED
    BY <1>2, <1>3, <1>4, <1>5, PartialIntro

\* The operation that ExecuteOperation is about.
Op(c) == job[c].ops[job[c].done + 1]
OpPath(c) == PathOf[Op(c).key]
OpEvidence(c) == job[c].evidence[job[c].done + 1]

\* The three outcomes of an operation.
Refusal(c) == pc' = [pc EXCEPT ![c] = "rollback"] /\ UNCHANGED <<tree, job>>
Applied(c) ==
  /\ ~Refused(Op(c), OpEvidence(c)) /\ pc' = pc
  /\ tree' = [tree EXCEPT ![OpPath(c)] = Stored(OpPath(c), Op(c).key, OpEvidence(c).candidate)]
  /\ job' = [job EXCEPT ![c] = [job[c] EXCEPT !.done = job[c].done + 1,
                                              !.snapshots = Snapshot(c, OpPath(c))]]
Broken(c) ==
  /\ pc' = [pc EXCEPT ![c] = "rollback"]
  /\ tree' \in {tree, [tree EXCEPT ![OpPath(c)] = Torn]}
  /\ job' = [job EXCEPT ![c] = [job[c] EXCEPT !.snapshots = Snapshot(c, OpPath(c))]]

LEMMA ExecuteKinds ==
  ASSUME Typed, NEW c \in Clients, ExecuteOperation(c)
  PROVE  /\ pc[c] = "execute" /\ job[c].done + 1 <= Len(job[c].ops)
         /\ UNCHANGED <<lock, known, outcome, policy, bounds>>
         /\ faults' \in 0..MaxFaults
         /\ Refusal(c) \/ Applied(c) \/ Broken(c)
  <1>1. pc[c] = "execute" /\ job[c].done + 1 <= Len(job[c].ops) /\ UNCHANGED <<policy, bounds>>
    BY DEF ExecuteOperation
  <1>2. CASE Rollback(c) /\ UNCHANGED <<tree, job, faults>>
    BY <1>1, <1>2 DEF Rollback, Goto, Refusal, Typed
  <1>3. CASE /\ ~Refused(Op(c), OpEvidence(c))
             /\ tree' = [tree EXCEPT ![OpPath(c)] =
                           Stored(OpPath(c), Op(c).key, OpEvidence(c).candidate)]
             /\ job' = [job EXCEPT ![c].done = job[c].done + 1,
                                   ![c].snapshots = Snapshot(c, OpPath(c))]
             /\ UNCHANGED <<lock, pc, known, outcome, faults>>
    <2>1. job' = [job EXCEPT ![c] = [job[c] EXCEPT !.done = job[c].done + 1,
                                                  !.snapshots = Snapshot(c, OpPath(c))]]
      BY <1>3 DEF Typed
    <2>2. faults' \in 0..MaxFaults
      BY <1>3 DEF Typed
    <2>3. QED
      BY <1>1, <1>3, <2>1, <2>2, Zenon DEF Applied
  <1>4. CASE /\ Fault
             /\ tree' \in {tree, [tree EXCEPT ![OpPath(c)] = Torn]}
             /\ job' = [job EXCEPT ![c].snapshots = Snapshot(c, OpPath(c))]
             /\ Rollback(c)
    <2>1. faults' \in 0..MaxFaults
      BY <1>4, FaultTyped
    <2>2. QED
      BY <1>1, <1>4, <2>1, Zenon DEF Broken, Rollback, Goto
  <1>5. QED
    BY <1>2, <1>3, <1>4, Zenon DEF ExecuteOperation, Op, OpPath, OpEvidence

LEMMA ExecutingElim ==
  ASSUME TypeInv, NEW c \in Clients, pc[c] = "execute", job[c].done + 1 <= Len(job[c].ops)
  PROVE  /\ Typed /\ Stage(c) /\ job[c] \in Jobs /\ job[c].ops \in Batches
         /\ job[c].kind = "execute" /\ Len(job[c].evidence) = Len(job[c].ops)
         /\ job[c].done + 1 \in 1..Len(job[c].ops) /\ job[c].begun \in Trees
         /\ Op(c) \in Operations /\ Op(c).key \in Keys /\ OpPath(c) \in Paths
         /\ OpEvidence(c) \in Evidence /\ OpEvidence(c).candidate \in Images \cup {None}
  <1>1. Typed /\ Stage(c) /\ job[c] \in Jobs /\ job[c].done \in Nat
    BY JobTyped DEF TypeInv
  <1>2. /\ job[c].ops \in Batches /\ job[c].kind = "execute" /\ job[c].begun \in Trees
        /\ Len(job[c].evidence) = Len(job[c].ops)
    BY <1>1 DEF Stage, LockedPCs, LeasedPCs, ExecutionPCs
  <1>3. job[c].done + 1 \in 1..Len(job[c].ops)
    BY <1>1, <1>2, BatchElim
  <1>4. Op(c) \in Operations /\ Op(c).key \in Keys /\ OpPath(c) \in Paths
    BY <1>2, <1>3, BatchElim DEF Op, OpPath
  <1>5. OpEvidence(c) \in Evidence
    BY <1>1, <1>2, <1>3, JobTyped DEF OpEvidence
  <1>6. QED
    BY <1>1, <1>2, <1>3, <1>4, <1>5 DEF Evidence

\* What an operation that goes through leaves.
LEMMA AppliedEffect ==
  ASSUME TypeInv, NEW c \in Clients, pc[c] = "execute", job[c].done + 1 <= Len(job[c].ops),
         Applied(c)
  PROVE  /\ tree' \in Trees /\ job' \in [Clients -> Jobs]
         /\ tree'[OpPath(c)] = Stored(OpPath(c), Op(c).key, OpEvidence(c).candidate)
         /\ \A path \in Paths \ {OpPath(c)} : tree'[path] = tree[path]
         /\ job'[c] = [job[c] EXCEPT !.done = job[c].done + 1,
                                     !.snapshots = Snapshot(c, OpPath(c))]
         /\ job'[c] \in Jobs
         /\ job'[c].kind = job[c].kind /\ job'[c].ops = job[c].ops /\ job'[c].begun = job[c].begun
         /\ job'[c].guarded = job[c].guarded
         /\ job'[c].evidence = job[c].evidence /\ job'[c].lease = job[c].lease
         /\ job'[c].done = job[c].done + 1 /\ job'[c].snapshots = Snapshot(c, OpPath(c))
         /\ \A d \in Clients \ {c} : job'[d] = job[d]
  <1> DEFINE r == [job[c] EXCEPT !.done = job[c].done + 1, !.snapshots = Snapshot(c, OpPath(c))]
             new == Stored(OpPath(c), Op(c).key, OpEvidence(c).candidate)
  <1>1. Typed /\ job[c] \in Jobs /\ job[c].done \in Nat /\ OpPath(c) \in Paths
    BY ExecutingElim, JobTyped
  <1>2. Snapshot(c, OpPath(c)) \in Partial
    BY <1>1, SnapshotTyped
  <1>3. /\ r \in Jobs /\ r.kind = job[c].kind /\ r.ops = job[c].ops /\ r.begun = job[c].begun
        /\ r.evidence = job[c].evidence /\ r.lease = job[c].lease
        /\ r.done = job[c].done + 1 /\ r.snapshots = Snapshot(c, OpPath(c))
    <2> DEFINE j == job[c]
               n == job[c].done + 1
               files == Snapshot(c, OpPath(c))
               next == [j EXCEPT !.done = n, !.snapshots = files]
    <2>1. j \in Jobs /\ n \in Nat /\ files \in Partial
      BY <1>1, <1>2
    <2> HIDE DEF j, n, files
    <2>2. /\ next \in Jobs /\ next.kind = j.kind /\ next.ops = j.ops /\ next.begun = j.begun
          /\ next.evidence = j.evidence /\ next.lease = j.lease
          /\ next.done = n /\ next.snapshots = files
      BY <2>1 DEF Jobs
    <2> HIDE DEF next
    <2>3. r = next
      BY Zenon DEF next, j, n, files
    <2> HIDE DEF r
    <2>4. QED
      BY <2>2, <2>3, Zenon DEF j, n, files
  <1>4. r.guarded = job[c].guarded
    BY <1>1 DEF Jobs
  <1>5. job' = [job EXCEPT ![c] = r] /\ tree' = [tree EXCEPT ![OpPath(c)] = new]
    BY Zenon DEF Applied
  <1> HIDE DEF r, new
  <1>6. job' \in [Clients -> Jobs] /\ job'[c] = r /\ \A d \in Clients \ {c} : job'[d] = job[d]
    BY <1>1, <1>3, <1>5, JobUpdate
  <1>7. new \in Contents(OpPath(c))
    BY <1>1, ExecutingElim, StoredTyped DEF OpPath, new
  <1>8. tree' \in Trees
    BY <1>1, <1>5, <1>7, TreeUpdate DEF Typed
  <1>9. tree'[OpPath(c)] = new /\ \A path \in Paths \ {OpPath(c)} : tree'[path] = tree[path]
    BY <1>1, <1>5 DEF Typed, Trees
  <1>10. QED
    BY <1>3, <1>4, <1>6, <1>8, <1>9 DEF r, new

\* What an operation that fails leaves.
LEMMA BrokenEffect ==
  ASSUME TypeInv, NEW c \in Clients, pc[c] = "execute", job[c].done + 1 <= Len(job[c].ops),
         Broken(c)
  PROVE  /\ tree' \in Trees /\ job' \in [Clients -> Jobs]
         /\ \A path \in Paths \ {OpPath(c)} : tree'[path] = tree[path]
         /\ job'[c] = [job[c] EXCEPT !.snapshots = Snapshot(c, OpPath(c))]
         /\ job'[c] \in Jobs
         /\ job'[c].kind = job[c].kind /\ job'[c].ops = job[c].ops /\ job'[c].begun = job[c].begun
         /\ job'[c].guarded = job[c].guarded
         /\ job'[c].evidence = job[c].evidence /\ job'[c].lease = job[c].lease
         /\ job'[c].done = job[c].done /\ job'[c].snapshots = Snapshot(c, OpPath(c))
         /\ \A d \in Clients \ {c} : job'[d] = job[d]
  <1> DEFINE r == [job[c] EXCEPT !.snapshots = Snapshot(c, OpPath(c))]
  <1>1. Typed /\ job[c] \in Jobs /\ OpPath(c) \in Paths
    BY ExecutingElim
  <1>2. Snapshot(c, OpPath(c)) \in Partial
    BY <1>1, SnapshotTyped
  <1>3. /\ r \in Jobs /\ r.kind = job[c].kind /\ r.ops = job[c].ops /\ r.begun = job[c].begun
        /\ r.evidence = job[c].evidence /\ r.lease = job[c].lease
        /\ r.done = job[c].done /\ r.snapshots = Snapshot(c, OpPath(c))
    BY <1>1, <1>2 DEF Jobs
  <1>4. r.guarded = job[c].guarded
    BY <1>1 DEF Jobs
  <1>5. job' = [job EXCEPT ![c] = r] /\ tree' \in {tree, [tree EXCEPT ![OpPath(c)] = Torn]}
    BY Zenon DEF Broken
  <1> HIDE DEF r
  <1>6. job' \in [Clients -> Jobs] /\ job'[c] = r /\ \A d \in Clients \ {c} : job'[d] = job[d]
    BY <1>1, <1>3, <1>5, JobUpdate
  <1>7. tree' \in Trees
    <2>1. tree \in Trees /\ Torn \in Contents(OpPath(c))
      BY <1>1 DEF Typed, Contents
    <2>2. [tree EXCEPT ![OpPath(c)] = Torn] \in Trees
      BY <1>1, <2>1, TreeUpdate
    <2>3. QED
      BY <1>5, <2>1, <2>2
  <1>8. \A path \in Paths \ {OpPath(c)} : tree'[path] = tree[path]
    BY <1>1, <1>5 DEF Typed, Trees
  <1>9. QED
    BY <1>3, <1>4, <1>6, <1>7, <1>8 DEF r

LEMMA ExecuteTyped ==
  ASSUME TypeInv, NEW c \in Clients, ExecuteOperation(c)
  PROVE  TypeInv'
  <1>1. /\ pc[c] = "execute" /\ job[c].done + 1 <= Len(job[c].ops)
        /\ UNCHANGED <<lock, known, outcome, policy, bounds>> /\ faults' \in 0..MaxFaults
        /\ Refusal(c) \/ Applied(c) \/ Broken(c)
    BY ExecuteKinds DEF TypeInv
  <1>2. /\ Typed /\ Stage(c) /\ job[c].ops \in Batches /\ job[c].done + 1 \in 1..Len(job[c].ops)
        /\ job[c].kind = "execute" /\ Len(job[c].evidence) = Len(job[c].ops)
        /\ job[c].begun \in Trees
    BY <1>1, ExecutingElim
  <1>3. "execute" \in LockedPCs /\ "rollback" \in LockedPCs
    BY DEF LockedPCs, LeasedPCs, ExecutionPCs
  <1>4. CASE Refusal(c)
    BY <1>1, <1>4, RollbackTyped DEF Refusal, Rollback, Goto
  <1>5. CASE Applied(c)
    <2>1. pc' = [pc EXCEPT ![c] = "execute"] /\ pc'[c] = "execute"
      BY <1>1, <1>2, <1>5 DEF Typed, Applied
    <2>2. Stage(c)'
      BY <1>1, <1>2, <1>5, <2>1, AppliedEffect DEF Stage, LockedPCs, LeasedPCs, ExecutionPCs
    <2>3. job'[c] \in Jobs /\ job'[c].kind = job[c].kind /\ tree' \in Trees
      BY <1>1, <1>5, AppliedEffect
    <2>4. job' = [job EXCEPT ![c] = job'[c]]
      BY <1>2, <1>5, <1>1, AppliedEffect DEF Typed
    <2>5. QED
      BY <1>1, <1>3, <2>1, <2>2, <2>3, <2>4, LockedStepTyped
  <1>6. CASE Broken(c)
    <2>1. pc' = [pc EXCEPT ![c] = "rollback"] /\ pc'[c] = "rollback"
      BY <1>1, <1>2, <1>6 DEF Typed, Broken
    <2>2. Stage(c)'
      BY <1>1, <1>2, <1>6, <2>1, BrokenEffect DEF Stage, LockedPCs, LeasedPCs, ExecutionPCs
    <2>3. job'[c] \in Jobs /\ job'[c].kind = job[c].kind /\ tree' \in Trees
      BY <1>1, <1>6, BrokenEffect
    <2>4. job' = [job EXCEPT ![c] = job'[c]]
      BY <1>2, <1>6, <1>1, BrokenEffect DEF Typed
    <2>5. QED
      BY <1>1, <1>3, <2>1, <2>2, <2>3, <2>4, LockedStepTyped
  <1>7. QED
    BY <1>1, <1>4, <1>5, <1>6

LEMMA CancelTyped ==
  ASSUME TypeInv, NEW c \in Clients, ExecutionCancelled(c) \/ CallbackFails(c)
  PROVE  /\ TypeInv' /\ pc[c] \in {"execute", "executed"} /\ pc' = [pc EXCEPT ![c] = "rollback"]
         /\ UNCHANGED <<tree, job, known, policy>>
  <1>1. /\ pc[c] \in {"execute", "executed"} /\ Rollback(c)
        /\ UNCHANGED <<tree, policy, job, bounds>>
    BY DEF ExecutionCancelled, CallbackFails
  <1>2. faults' \in 0..MaxFaults
    BY FaultTyped DEF ExecutionCancelled, CallbackFails, TypeInv, Typed
  <1>3. TypeInv'
    BY <1>1, <1>2, RollbackTyped
  <1>4. QED
    BY <1>1, <1>3 DEF Rollback, Goto

LEMMA DoneTyped ==
  ASSUME TypeInv, NEW c \in Clients, ExecutionDone(c)
  PROVE  /\ TypeInv' /\ pc[c] = "execute" /\ pc' = [pc EXCEPT ![c] = "executed"]
         /\ UNCHANGED <<tree, job, known, policy>>
  <1>1. /\ pc[c] = "execute" /\ job[c].done = Len(job[c].ops) /\ Goto(c, "executed")
        /\ UNCHANGED <<tree, lock, policy, job, known, outcome, bounds>> /\ faults' \in 0..MaxFaults
    BY DEF ExecutionDone, TypeInv, Typed
  <1>2. /\ "executed" \in LockedPCs /\ pc[c] \in LockedPCs /\ "executed" \in ExecutionPCs
        /\ job[c].kind = "execute"
    BY <1>1 DEF TypeInv, Stage, LockedPCs, LeasedPCs, ExecutionPCs
  <1>3. TypeInv'
    BY <1>1, <1>2, GotoTyped
  <1>4. QED
    BY <1>1, <1>3 DEF Goto

\* Of a step that is no client's.
LEMMA OthersTyped ==
  ASSUME TypeInv, UNCHANGED <<scenario, lock, pc, job, known, outcome, calls>>,
         tree' \in Trees, head' \in Generations, live' \in Generations \cup {None},
         pub' \in {"idle", "publish", "activate"}, elsewhere' \subseteq Generations,
         writes' \in 0..MaxWrites, faults' \in 0..MaxFaults
  PROVE  TypeInv'
  <1>1. Typed'
    BY DEF TypeInv, Typed
  <1>2. LockInv'
    BY DEF TypeInv, LockInv, Writing, Reading
  <1>3. \A c \in Clients : Stage(c)'
    BY DEF TypeInv, Stage
  <1>4. QED
    BY <1>1, <1>2, <1>3 DEF TypeInv

LEMMA OtherTransactionTyped ==
  ASSUME TypeInv, NEW w \in OtherWrites, OtherTransaction(w[1], w[2])
  PROVE  TypeInv' /\ Free("execute") /\ UNCHANGED <<lock, policy, pc, job, known>>
  <1>1. w[1] \in Keys /\ w[2] \in Images \cup {None} /\ Typed /\ tree \in Trees
    BY ProtectedConstantsAssumption DEF TypeInv, Typed
  <1>2. tree' \in Trees
    <2>1. /\ Stored(PathOf[w[1]], w[1], w[2]) \in Contents(PathOf[w[1]])
          /\ PathOf[w[1]] \in Paths
      BY <1>1, StoredTyped
    <2>2. QED
      BY <1>1, <2>1, TreeUpdate DEF OtherTransaction
  <1>3. writes' \in 0..MaxWrites
    BY <1>1, Bounds DEF OtherTransaction
  <1>4. /\ UNCHANGED <<scenario, lock, pc, job, known, outcome, calls, policy>> /\ Free("execute")
        /\ faults' = faults
    BY DEF OtherTransaction
  <1>5. TypeInv'
    BY <1>1, <1>2, <1>3, <1>4, OthersTyped DEF Typed, policy
  <1>6. QED
    BY <1>4, <1>5

\* The steps of the management call, and publication elsewhere.
Management ==
  \/ \E step \in {"publish", "activate"} : ManagePolicies(step)
  \/ CommitGeneration \/ PublishFails \/ Activate \/ PublishElsewhere

LEMMA ManagementTyped ==
  ASSUME TypeInv, Management
  PROVE  TypeInv' /\ UNCHANGED <<tree, lock, pc, job, known>>
  <1>1. UNCHANGED <<scenario, tree, lock, pc, job, known, outcome, calls, writes>>
    BY DEF Management, ManagePolicies, CommitGeneration, PublishFails, Activate, PublishElsewhere,
           bounds
  <1>2. faults' \in 0..MaxFaults
    BY FaultTyped DEF TypeInv, Typed, Management, ManagePolicies, CommitGeneration, PublishFails,
                      Activate, PublishElsewhere
  <1>3. head' \in Generations
    BY GenerationsTyped DEF TypeInv, Typed, Management, ManagePolicies, CommitGeneration,
                            PublishFails, Activate, PublishElsewhere
  <1>4. live' \in Generations \cup {None} /\ pub' \in {"idle", "publish", "activate"}
    BY DEF TypeInv, Typed, Management, ManagePolicies, CommitGeneration, PublishFails, Activate,
           PublishElsewhere
  <1>5. elsewhere' \subseteq Generations
    <2>1. CASE PublishElsewhere
      BY <2>1, GenerationsTyped DEF TypeInv, Typed, PublishElsewhere
    <2>2. CASE ~PublishElsewhere
      BY <2>2 DEF TypeInv, Typed, Management, ManagePolicies, CommitGeneration, PublishFails, Activate
    <2>3. QED
      BY <2>1, <2>2
  <1>6. tree' \in Trees /\ writes' \in 0..MaxWrites
    BY <1>1 DEF TypeInv, Typed
  <1>7. QED
    BY <1>1, <1>2, <1>3, <1>4, <1>5, <1>6, OthersTyped

LEMMA TypeInit ==
  ASSUME Init
  PROVE  TypeInv
  <1>1. tree \in Trees
    <2>1. tree \in [Paths -> Content]
      BY DEF Init
    <2>2. ASSUME NEW path \in Paths
          PROVE  tree[path] \in Contents(path)
      <3>1. CASE tree[path] = Absent
        BY <3>1 DEF Contents
      <3>2. CASE \E v \in Images : tree[path] = [k \in KeysAt(path) |-> v]
        <4>1. tree[path] \in [KeysAt(path) -> Images]
          BY <3>2
        <4>2. QED
          BY <4>1, ContentsIntro
      <3>3. QED
        BY <3>1, <3>2 DEF Init
    <2>3. QED
      BY <2>1, <2>2 DEF Trees
  <1>2. Typed
    BY <1>1, NoJobTyped, EmptyKnowledge, GenerationsTyped, ProtectedConstantsAssumption
    DEF Init, Typed, PCs
  <1>3. LockInv
    BY DEF Init, LockInv, Writing, Reading, LockedPCs, LeasedPCs, ExecutionPCs
  <1>4. ASSUME NEW c \in Clients
        PROVE  Stage(c)
    <2>1. pc[c] = "idle" /\ job[c] = NoJob
      BY DEF Init
    <2>2. /\ NoJob.evidence = <<>> /\ NoJob.ops = <<>> /\ NoJob.done = 0 /\ NoJob.snapshots = <<>>
          /\ Len(<<>>) = 0
      BY DEF NoJob
    <2>3. QED
      BY <2>1, <2>2 DEF Stage, LockedPCs, LeasedPCs, ExecutionPCs
  <1>5. QED
    BY <1>2, <1>3, <1>4 DEF TypeInv

-----------------------------------------------------------------------------
(* The steps of a client, by what they change. *)

ClientStep(c) ==
  \/ Call(c) \/ AcquireLock(c) \/ LockCancelled(c) \/ Step(c)
  \/ ExecutionCancelled(c) \/ RestoreFails(c) \/ Crash(c)

\* The others go on as before, and those under the lock find the tree as it was.
Others(c) ==
  /\ UNCHANGED <<head, live, pub, elsewhere>>
  /\ \A d \in Clients \ {c} :
       /\ pc'[d] = pc[d] /\ job'[d] = job[d] /\ known'[d] = known[d]
       /\ tree' = tree \/ pc[d] \notin LockedPCs

KeepsCall(c) ==
  /\ job'[c].kind = job[c].kind /\ job'[c].ops = job[c].ops /\ job'[c].guarded = job[c].guarded
  /\ known' = known

Begun(c) ==
  /\ pc'[c] = "wait" /\ known' = known
  /\ job'[c].guarded = TRUE =>
       \A i \in DOMAIN job'[c].ops : job'[c].ops[i].key \in DOMAIN known[c]
Acquired(c) ==
  /\ pc[c] = "wait" /\ pc'[c] = "prepare" /\ tree' = tree /\ KeepsCall(c)
  /\ job'[c].evidence = <<>> /\ job'[c].begun = tree
Left(c) ==
  /\ pc'[c] = "idle"
  /\ \/ known'[c] = known[c] \/ known'[c] = <<>>
     \/ pc[c] = "decide" /\ known'[c] = Facts(c)
     \/ pc[c] = "executed" /\ known'[c] = Granted(c)
Prepared(c) ==
  /\ pc[c] = "prepare" /\ pc'[c] = "prepare" /\ tree' = tree /\ KeepsCall(c)
  /\ Len(job[c].evidence) + 1 <= Len(job[c].ops)
  /\ job'[c].begun = job[c].begun
  /\ job'[c].evidence = Append(job[c].evidence, NewEvidence(c))
Assigned(c) ==
  /\ pc[c] = "prepare" /\ pc'[c] = "lease" /\ tree' = tree /\ KeepsCall(c)
  /\ Len(job[c].evidence) = Len(job[c].ops) /\ job'[c].begun = job[c].begun
  /\ Len(job'[c].evidence) = Len(job[c].ops)
  /\ \A i \in 1..Len(job[c].ops) :
       job'[c].evidence[i] = [job[c].evidence[i] EXCEPT !.receipt = Receipt(c, i)]
Leased(c) ==
  /\ pc[c] = "lease" /\ pc'[c] = "decide" /\ tree' = tree /\ KeepsCall(c)
  /\ live # None /\ job'[c].lease = live
  /\ job'[c].evidence = job[c].evidence /\ job'[c].begun = job[c].begun
Moved(c) ==
  /\ tree' = tree /\ KeepsCall(c) /\ job'[c] = job[c]
  /\ \/ pc[c] = "decide" /\ pc'[c] = "execute" /\ Permitted(c) /\ AsExpected(c)
     \/ pc[c] = "execute" /\ pc'[c] = "executed"
     \/ pc[c] \in {"execute", "executed"} /\ pc'[c] = "rollback"
Worked(c) ==
  /\ pc[c] = "execute" /\ job[c].done + 1 <= Len(job[c].ops) /\ KeepsCall(c)
  /\ job'[c].begun = job[c].begun /\ job'[c].evidence = job[c].evidence
  /\ job'[c].lease = job[c].lease /\ job'[c].snapshots = Snapshot(c, OpPath(c))
  /\ \A path \in Paths \ {OpPath(c)} : tree'[path] = tree[path]
  /\ \/ /\ pc'[c] = "execute" /\ ~Refused(Op(c), OpEvidence(c))
        /\ job'[c].done = job[c].done + 1
        /\ tree'[OpPath(c)] = Stored(OpPath(c), Op(c).key, OpEvidence(c).candidate)
     \/ pc'[c] = "rollback"

Kinds(c) ==
  \/ Begun(c) \/ Acquired(c) \/ Left(c) \/ Prepared(c) \/ Assigned(c) \/ Leased(c)
  \/ Moved(c) \/ Worked(c)

\* Nobody else is under the lock of an execution.
LEMMA Alone ==
  ASSUME TypeInv, NEW c \in Clients, pc[c] \in ExecutionPCs, NEW d \in Clients \ {c}
  PROVE  pc[d] \notin LockedPCs
  <1>1. job[c].kind = "execute" /\ pc[c] \in LockedPCs
    BY DEF TypeInv, Stage, LockedPCs, LeasedPCs
  <1>2. pc[d] \in LockedPCs => job[d].kind \in {"inspect", "execute"}
    <2>1. job[d].kind \in {"none", "inspect", "execute"} /\ Stage(d)
      BY JobTyped DEF TypeInv
    <2>2. QED
      BY <2>1 DEF Stage, LockedPCs, LeasedPCs, ExecutionPCs
  <1>3. QED
    BY <1>1, <1>2, Excludes DEF TypeInv

\* A step that changes only pc of c.
LEMMA MoveEffect ==
  ASSUME TypeInv, NEW c \in Clients, NEW l, pc' = [pc EXCEPT ![c] = l],
         UNCHANGED <<tree, job, known, head, live, pub, elsewhere>>
  PROVE  Others(c) /\ pc'[c] = l /\ KeepsCall(c) /\ job'[c] = job[c]
  <1>1. pc'[c] = l /\ \A d \in Clients \ {c} : pc'[d] = pc[d]
    BY DEF TypeInv, Typed
  <1>2. KeepsCall(c) /\ job'[c] = job[c]
    BY Zenon DEF KeepsCall
  <1>3. Others(c)
    BY <1>1 DEF Others
  <1>4. QED
    BY <1>1, <1>2, <1>3

LEMMA LeftEffect ==
  ASSUME TypeInv, NEW c \in Clients, NEW result, NEW facts, Return(c, result, facts),
         UNCHANGED policy, tree' = tree \/ pc[c] = "rollback",
         \/ facts = known[c] \/ facts = <<>>
         \/ pc[c] = "decide" /\ facts = Facts(c)
         \/ pc[c] = "executed" /\ facts = Granted(c)
  PROVE  Others(c) /\ Left(c)
  <1>1. Typed
    BY DEF TypeInv
  <1>2. /\ pc'[c] = "idle" /\ known'[c] = facts
        /\ \A d \in Clients \ {c} : pc'[d] = pc[d] /\ job'[d] = job[d] /\ known'[d] = known[d]
    BY <1>1, ReturnEffect
  <1>3. tree' = tree \/ \A d \in Clients \ {c} : pc[d] \notin LockedPCs
    BY Alone DEF ExecutionPCs
  <1>4. UNCHANGED <<head, live, pub, elsewhere>>
    BY DEF policy
  <1>5. Others(c)
    BY <1>2, <1>3, <1>4 DEF Others
  <1>6. QED
    BY <1>2, <1>5 DEF Left

LEMMA FailEffect ==
  ASSUME TypeInv, NEW c \in Clients, Fail(c), UNCHANGED policy, tree' = tree \/ pc[c] = "rollback"
  PROVE  Others(c) /\ Left(c)
  <1>1. Return(c, "failed", known[c])
    BY DEF Fail
  <1>2. QED
    BY <1>1, LeftEffect, Zenon

LEMMA CallEffect ==
  ASSUME TypeInv, NEW c \in Clients, Call(c)
  PROVE  TypeInv' /\ Others(c) /\ Begun(c)
  <1>1. PICK b \in Batches : \/ WithinProtectedInspection(c, b)
                            \/ \E guarded \in BOOLEAN : WithinProtectedExecution(c, b, guarded)
    BY DEF Call
  <1>2. \E kind \in {"inspect", "execute"} : \E guarded \in BOOLEAN :
          /\ Begin(c, kind, b, guarded)
          /\ guarded => \A i \in DOMAIN b : b[i].key \in DOMAIN known[c]
    <2>1. CASE WithinProtectedInspection(c, b)
      <3>1. Begin(c, "inspect", b, FALSE) /\ FALSE \in BOOLEAN
        BY <2>1 DEF WithinProtectedInspection
      <3>2. QED
        BY <3>1
    <2>2. CASE \E guarded \in BOOLEAN : WithinProtectedExecution(c, b, guarded)
      BY <2>2 DEF WithinProtectedExecution
    <2>3. QED
      BY <1>1, <2>1, <2>2
  <1>3. PICK kind \in {"inspect", "execute"} : \E guarded \in BOOLEAN :
          /\ Begin(c, kind, b, guarded)
          /\ guarded => \A i \in DOMAIN b : b[i].key \in DOMAIN known[c]
    BY <1>2
  <1>4. PICK guarded \in BOOLEAN :
          /\ Begin(c, kind, b, guarded)
          /\ guarded => \A i \in DOMAIN b : b[i].key \in DOMAIN known[c]
    BY <1>3
  <1>5. /\ TypeInv' /\ pc'[c] = "wait" /\ UNCHANGED <<tree, lock, known, head, live, pub, elsewhere>>
        /\ job'[c].ops = b /\ job'[c].guarded = guarded
        /\ \A d \in Clients \ {c} : pc'[d] = pc[d] /\ job'[d] = job[d]
    <2>1. Begin(c, kind, b, guarded)
      BY <1>4
    <2>2. QED
      BY <2>1, BeginTyped
  <1>6. Others(c)
    BY <1>5 DEF Others
  <1>7. Begun(c)
    BY <1>4, <1>5 DEF Begun
  <1>8. QED
    BY <1>5, <1>6, <1>7

LEMMA AcquireEffect ==
  ASSUME TypeInv, NEW c \in Clients, AcquireLock(c)
  PROVE  TypeInv' /\ Others(c) /\ Acquired(c)
  <1>1. /\ TypeInv' /\ pc[c] = "wait" /\ pc'[c] = "prepare"
        /\ UNCHANGED <<tree, known, head, live, pub, elsewhere>>
        /\ job'[c] = [job[c] EXCEPT !.begun = tree]
        /\ \A d \in Clients \ {c} : pc'[d] = pc[d] /\ job'[d] = job[d]
    BY AcquireTyped
  <1>2. job[c] \in Jobs /\ job[c].evidence = <<>>
    BY <1>1, JobTyped DEF TypeInv, Stage, LockedPCs, LeasedPCs, ExecutionPCs
  <1>3. /\ job'[c].kind = job[c].kind /\ job'[c].ops = job[c].ops /\ job'[c].begun = tree
        /\ job'[c].evidence = <<>>
    BY <1>1, <1>2 DEF Jobs
  <1>4. job'[c].guarded = job[c].guarded
    BY <1>1, <1>2 DEF Jobs
  <1>5. Others(c)
    BY <1>1 DEF Others
  <1>6. QED
    BY <1>1, <1>3, <1>4, <1>5 DEF Acquired, KeepsCall

LEMMA PrepareEffect ==
  ASSUME TypeInv, NEW c \in Clients, PrepareOperation(c)
  PROVE  TypeInv' /\ Others(c) /\ (Left(c) \/ Prepared(c))
  <1>1. TypeInv' /\ pc[c] = "prepare" /\ UNCHANGED <<tree, head, live, pub, elsewhere>>
    BY PrepareTyped
  <1>2. CASE Fail(c)
    BY <1>1, <1>2, FailEffect DEF policy
  <1>3. CASE ~Fail(c)
    <2>1. /\ pc' = pc /\ UNCHANGED known
          /\ job'[c] = [job[c] EXCEPT !.evidence = Append(job[c].evidence, NewEvidence(c))]
          /\ Len(job[c].evidence) + 1 <= Len(job[c].ops)
          /\ \A d \in Clients \ {c} : job'[d] = job[d]
      BY <1>3, PrepareTyped
    <2>2. job[c] \in Jobs
      BY JobTyped DEF TypeInv
    <2>3. /\ job'[c].kind = job[c].kind /\ job'[c].ops = job[c].ops
          /\ job'[c].begun = job[c].begun
          /\ job'[c].evidence = Append(job[c].evidence, NewEvidence(c))
      BY <2>1, <2>2 DEF Jobs
    <2>4. job'[c].guarded = job[c].guarded
      BY <2>1, <2>2 DEF Jobs
    <2>5. Others(c)
      BY <1>1, <2>1 DEF Others
    <2>6. QED
      BY <1>1, <2>1, <2>3, <2>4, <2>5 DEF Prepared, KeepsCall
  <1>4. QED
    BY <1>2, <1>3

LEMMA AssignEffect ==
  ASSUME TypeInv, NEW c \in Clients, AssignReceipts(c)
  PROVE  TypeInv' /\ Others(c) /\ Assigned(c)
  <1>1. /\ TypeInv' /\ pc[c] = "prepare" /\ pc'[c] = "lease"
        /\ UNCHANGED <<tree, known, head, live, pub, elsewhere>>
        /\ Len(job[c].evidence) = Len(job[c].ops) /\ job[c].ops \in Batches
        /\ job'[c] = [job[c] EXCEPT !.evidence = WithReceipts(c)]
        /\ \A d \in Clients \ {c} : pc'[d] = pc[d] /\ job'[d] = job[d]
        /\ Len(WithReceipts(c)) = Len(job[c].ops)
        /\ \A i \in 1..Len(job[c].ops) :
             WithReceipts(c)[i] = [job[c].evidence[i] EXCEPT !.receipt = Receipt(c, i)]
    BY AssignTyped, Zenon
  <1>2. job[c] \in Jobs
    BY JobTyped DEF TypeInv
  <1>3. /\ job'[c].kind = job[c].kind /\ job'[c].ops = job[c].ops
        /\ job'[c].begun = job[c].begun /\ job'[c].evidence = WithReceipts(c)
    BY <1>1, <1>2 DEF Jobs
  <1>4. job'[c].guarded = job[c].guarded
    BY <1>1, <1>2 DEF Jobs
  <1>5. Others(c)
    BY <1>1 DEF Others
  <1>6. QED
    BY <1>1, <1>3, <1>4, <1>5, Zenon DEF Assigned, KeepsCall

LEMMA LeaseEffect ==
  ASSUME TypeInv, NEW c \in Clients, Lease(c)
  PROVE  TypeInv' /\ Others(c) /\ (Left(c) \/ Leased(c))
  <1>1. TypeInv' /\ pc[c] = "lease" /\ UNCHANGED <<tree, head, live, pub, elsewhere>>
    BY LeaseTyped
  <1>2. CASE Fail(c)
    BY <1>1, <1>2, FailEffect DEF policy
  <1>3. CASE ~Fail(c)
    <2>1. /\ live # None /\ pc'[c] = "decide" /\ UNCHANGED known
          /\ job'[c] = [job[c] EXCEPT !.lease = live]
          /\ \A d \in Clients \ {c} : pc'[d] = pc[d] /\ job'[d] = job[d]
      BY <1>3, LeaseTyped
    <2>2. job[c] \in Jobs
      BY JobTyped DEF TypeInv
    <2>3. /\ job'[c].kind = job[c].kind /\ job'[c].ops = job[c].ops /\ job'[c].lease = live
          /\ job'[c].begun = job[c].begun /\ job'[c].evidence = job[c].evidence
      BY <2>1, <2>2 DEF Jobs
    <2>4. job'[c].guarded = job[c].guarded
      BY <2>1, <2>2 DEF Jobs
    <2>5. Others(c)
      BY <1>1, <2>1 DEF Others
    <2>6. QED
      BY <1>1, <2>1, <2>3, <2>4, <2>5 DEF Leased, KeepsCall
  <1>4. QED
    BY <1>2, <1>3

LEMMA DecideEffect ==
  ASSUME TypeInv, NEW c \in Clients, Decide(c)
  PROVE  TypeInv' /\ Others(c) /\ (Left(c) \/ Moved(c))
  <1>1. TypeInv' /\ pc[c] = "decide" /\ UNCHANGED <<tree, head, live, pub, elsewhere>>
    BY DecideTyped
  <1>2. CASE Fail(c)
    BY <1>1, <1>2, FailEffect DEF policy
  <1>3. CASE ~Fail(c)
    <2>1. /\ Permitted(c) /\ AsExpected(c) /\ pc' = [pc EXCEPT ![c] = "execute"]
          /\ UNCHANGED <<known, job>>
      BY <1>3, DecideTyped
    <2>2. QED
      BY <1>1, <2>1, MoveEffect DEF Moved
  <1>4. QED
    BY <1>2, <1>3

LEMMA ExecuteEffect ==
  ASSUME TypeInv, NEW c \in Clients, ExecuteOperation(c)
  PROVE  TypeInv' /\ Others(c) /\ (Moved(c) \/ Worked(c))
  <1>1. /\ pc[c] = "execute" /\ job[c].done + 1 <= Len(job[c].ops)
        /\ UNCHANGED <<known, policy>>
        /\ Refusal(c) \/ Applied(c) \/ Broken(c)
    BY ExecuteKinds DEF TypeInv
  <1>2. TypeInv' /\ UNCHANGED <<head, live, pub, elsewhere>>
    BY <1>1, ExecuteTyped DEF policy
  <1>3. \A d \in Clients \ {c} : pc[d] \notin LockedPCs
    BY <1>1, Alone DEF ExecutionPCs
  <1>4. CASE Refusal(c)
    BY <1>1, <1>2, <1>4, MoveEffect DEF Moved, Refusal
  <1>5. CASE Applied(c)
    <2>1. pc' = pc /\ ~Refused(Op(c), OpEvidence(c))
      BY <1>5 DEF Applied
    <2>2. Others(c)
      <3>1. \A d \in Clients \ {c} : job'[d] = job[d]
        BY <1>1, <1>5, AppliedEffect
      <3>2. QED
        BY <1>1, <1>2, <1>3, <2>1, <3>1 DEF Others
    <2>3. Worked(c)
      BY <1>1, <1>5, <2>1, AppliedEffect DEF Worked, KeepsCall
    <2>4. QED
      BY <1>2, <2>2, <2>3
  <1>6. CASE Broken(c)
    <2>1. pc'[c] = "rollback" /\ \A d \in Clients \ {c} : pc'[d] = pc[d]
      BY <1>6 DEF Broken, TypeInv, Typed
    <2>2. Others(c)
      <3>1. \A d \in Clients \ {c} : job'[d] = job[d]
        BY <1>1, <1>6, BrokenEffect
      <3>2. QED
        BY <1>1, <1>2, <1>3, <2>1, <3>1 DEF Others
    <2>3. Worked(c)
      BY <1>1, <1>6, <2>1, BrokenEffect DEF Worked, KeepsCall
    <2>4. QED
      BY <1>2, <2>2, <2>3
  <1>7. QED
    BY <1>1, <1>4, <1>5, <1>6

LEMMA EndEffect ==
  ASSUME TypeInv, NEW c \in Clients, ExecutionCancelled(c) \/ CallbackFails(c) \/ ExecutionDone(c)
  PROVE  TypeInv' /\ Others(c) /\ Moved(c)
  <1>1. TypeInv' /\ UNCHANGED <<tree, job, known, head, live, pub, elsewhere>>
    BY CancelTyped, DoneTyped DEF policy
  <1>2. \/ pc[c] = "execute" /\ pc' = [pc EXCEPT ![c] = "executed"]
        \/ pc[c] \in {"execute", "executed"} /\ pc' = [pc EXCEPT ![c] = "rollback"]
    BY CancelTyped, DoneTyped
  <1>3. QED
    BY <1>1, <1>2, MoveEffect DEF Moved

LEMMA ReturnsEffect ==
  ASSUME TypeInv, NEW c \in Clients,
         \/ Inspected(c) \/ Succeed(c) \/ Restore(c) \/ RestoreFails(c)
         \/ Crash(c) \/ LockCancelled(c)
  PROVE  TypeInv' /\ Others(c) /\ Left(c)
  <1>1. CASE Inspected(c)
    <2>1. Return(c, "ok", Facts(c)) /\ pc[c] = "decide" /\ tree' = tree /\ UNCHANGED policy
      BY <1>1, InspectedTyped DEF Inspected
    <2>2. QED
      BY <1>1, <2>1, InspectedTyped, LeftEffect, Zenon
  <1>2. CASE Succeed(c)
    <2>1. Return(c, "ok", Granted(c)) /\ pc[c] = "executed" /\ tree' = tree /\ UNCHANGED policy
      BY <1>2, SucceedTyped DEF Succeed
    <2>2. QED
      BY <1>2, <2>1, SucceedTyped, LeftEffect, Zenon
  <1>3. CASE Restore(c)
    <2>1. Fail(c) /\ pc[c] = "rollback" /\ UNCHANGED policy
      BY <1>3 DEF Restore
    <2>2. QED
      BY <1>3, <2>1, RestoreTyped, FailEffect, Zenon
  <1>4. CASE RestoreFails(c)
    <2>1. Return(c, "rollbackFailed", known[c]) /\ pc[c] = "rollback" /\ UNCHANGED policy
      BY <1>4 DEF RestoreFails
    <2>2. QED
      BY <1>4, <2>1, RestoreFailsTyped, LeftEffect, Zenon
  <1>5. CASE Crash(c)
    <2>1. Return(c, "crashed", <<>>) /\ tree' = tree /\ UNCHANGED policy
      BY <1>5 DEF Crash
    <2>2. QED
      BY <1>5, <2>1, CrashTyped, LeftEffect, Zenon
  <1>6. CASE LockCancelled(c)
    <2>1. Fail(c) /\ tree' = tree /\ UNCHANGED policy
      BY <1>6 DEF LockCancelled
    <2>2. QED
      BY <1>6, <2>1, CrashTyped, FailEffect, Zenon
  <1>7. QED
    BY <1>1, <1>2, <1>3, <1>4, <1>5, <1>6

LEMMA ClientEffect ==
  ASSUME TypeInv, NEW c \in Clients, ClientStep(c)
  PROVE  TypeInv' /\ Others(c) /\ Kinds(c)
  <1>1. CASE Call(c) \/ AcquireLock(c)
    BY <1>1, CallEffect, AcquireEffect DEF Kinds
  <1>2. CASE PrepareOperation(c) \/ AssignReceipts(c) \/ Lease(c) \/ Decide(c)
    BY <1>2, PrepareEffect, AssignEffect, LeaseEffect, DecideEffect DEF Kinds
  <1>3. CASE ExecuteOperation(c)
    BY <1>3, ExecuteEffect DEF Kinds
  <1>4. CASE ExecutionCancelled(c) \/ CallbackFails(c) \/ ExecutionDone(c)
    BY <1>4, EndEffect DEF Kinds
  <1>5. CASE \/ Inspected(c) \/ Succeed(c) \/ Restore(c) \/ RestoreFails(c)
             \/ Crash(c) \/ LockCancelled(c)
    BY <1>5, ReturnsEffect DEF Kinds
  <1>6. QED
    BY <1>1, <1>2, <1>3, <1>4, <1>5, Zenon DEF ClientStep, Step

-----------------------------------------------------------------------------
(* Policies and leases. *)

LEMMA PolicyOfClient ==
  ASSUME TypeInv, PolicyInv, NEW c \in Clients, Others(c), Kinds(c)
  PROVE  PolicyInv'
  <1>1. /\ pc'[c] \in LeasedPCs =>
             job'[c].lease \in Generations /\ Newer(job'[c].lease) \subseteq elsewhere
        /\ pc'[c] \in {"execute", "executed"} => Permitted(c)'
    <2>1. CASE Begun(c) \/ Acquired(c) \/ Left(c) \/ Prepared(c) \/ Assigned(c)
      BY <2>1 DEF Begun, Acquired, Left, Prepared, Assigned, LeasedPCs, ExecutionPCs
    <2>2. CASE Leased(c)
      BY <2>2 DEF Leased, PolicyInv, LeasedPCs, ExecutionPCs, TypeInv, Typed
    <2>3. CASE Moved(c)
      BY <2>3 DEF Moved, PolicyInv, LeasedPCs, ExecutionPCs, Permitted
    <2>4. CASE Worked(c)
      BY <2>4 DEF Worked, KeepsCall, PolicyInv, LeasedPCs, ExecutionPCs, Permitted
    <2>5. QED
      BY <2>1, <2>2, <2>3, <2>4 DEF Kinds
  <1>2. \A d \in Clients \ {c} : Permitted(d)' <=> Permitted(d)
    BY DEF Others, Permitted
  <1>3. UNCHANGED <<head, live, pub, elsewhere>>
    BY DEF Others
  <1>4. \A d \in Clients \ {c} : pc'[d] = pc[d] /\ job'[d] = job[d]
    BY DEF Others
  <1>5. QED
    BY <1>1, <1>2, <1>3, <1>4 DEF PolicyInv, Newer

\* A generation committed elsewhere is the only one that may be newer.
LEMMA NewerElsewhere ==
  ASSUME TypeInv, PublishElsewhere, NEW g \in Generations, Newer(g) \subseteq elsewhere
  PROVE  Newer(g)' \subseteq elsewhere'
  BY GenerationsTyped DEF TypeInv, Typed, PublishElsewhere, Newer

\* HEAD moves only when nobody is under the lock.
LEMMA HeadMovesFree ==
  ASSUME TypeInv, Management, head' # head \/ elsewhere' # elsewhere
  PROVE  \A c \in Clients : pc[c] \notin LeasedPCs
  <1> SUFFICES ASSUME NEW c \in Clients, pc[c] \in LeasedPCs
               PROVE  FALSE
    OBVIOUS
  <1>1. Free("execute")
    BY DEF Management, ManagePolicies, CommitGeneration, PublishFails, Activate, PublishElsewhere
  <1>2. pc[c] \in LockedPCs /\ job[c].kind \in {"inspect", "execute"}
    BY JobTyped DEF TypeInv, Stage, LockedPCs, LeasedPCs, ExecutionPCs
  <1>3. QED
    BY <1>1, <1>2, FreeOfAll DEF TypeInv

LEMMA PolicyOfManagement ==
  ASSUME TypeInv, PolicyInv, Management
  PROVE  PolicyInv'
  <1>1. UNCHANGED <<pc, job>>
    BY ManagementTyped
  <1>2. \A c \in Clients : pc'[c] \in {"execute", "executed"} => Permitted(c)'
    BY <1>1 DEF PolicyInv, Permitted
  <1>3. \A c \in Clients : pc'[c] \in LeasedPCs =>
          job'[c].lease \in Generations /\ Newer(job[c].lease)' \subseteq elsewhere'
    <2>1. CASE head' # head \/ elsewhere' # elsewhere
      BY <1>1, <2>1, HeadMovesFree
    <2>2. CASE head' = head /\ elsewhere' = elsewhere
      BY <1>1, <2>2 DEF PolicyInv, Newer
    <2>3. QED
      BY <2>1, <2>2
  <1>4. /\ live' # None => Newer(live)' \subseteq elsewhere'
        /\ pub' # "idle" => live' = None
    <2>1. CASE (\E step \in {"publish", "activate"} : ManagePolicies(step)) \/ CommitGeneration
               \/ PublishFails
      BY <2>1 DEF PolicyInv, ManagePolicies, CommitGeneration, PublishFails
    <2>2. CASE Activate
      BY <2>2, GenerationsTyped DEF PolicyInv, Activate, Newer, TypeInv, Typed
    <2>3. CASE PublishElsewhere
      <3>1. live' = live /\ pub' = pub
        BY <2>3 DEF PublishElsewhere
      <3>2. live # None => Newer(live)' \subseteq elsewhere'
        <4>1. live # None => live \in Generations /\ Newer(live) \subseteq elsewhere
          BY DEF TypeInv, Typed, PolicyInv
        <4>2. QED
          BY <2>3, <3>1, <4>1, NewerElsewhere DEF Newer
      <3>3. QED
        BY <3>1, <3>2 DEF PolicyInv
    <2>4. QED
      BY <2>1, <2>2, <2>3 DEF Management
  <1>5. QED
    BY <1>1, <1>2, <1>3, <1>4 DEF PolicyInv, Newer

-----------------------------------------------------------------------------
(* Evidence, journal, progress and receipts of a call. *)

LEMMA NewEvidenceIs ==
  ASSUME NEW c \in Clients
  PROVE  LET op == job[c].ops[Len(job[c].evidence) + 1] IN
         IsEvidence(NewEvidence(c), op, tree[PathOf[op.key]])
  <1> DEFINE op == job[c].ops[Len(job[c].evidence) + 1]
             file == tree[PathOf[op.key]]
             x == Image(file, op.key) # None
             y == Candidate(op, Image(file, op.key))
             z == DataRevision(op.key, file)
  <1>1. NewEvidence(c) = [exists |-> x, candidate |-> y, revision |-> z, receipt |-> None]
    BY Zenon DEF NewEvidence
  <1> HIDE DEF x, y, z
  <1>2. NewEvidence(c).exists = x /\ NewEvidence(c).candidate = y /\ NewEvidence(c).revision = z
    BY <1>1
  <1>3. QED
    BY <1>2, Zenon DEF IsEvidence, x, y, z

LEMMA ReceiptKeepsEvidence ==
  ASSUME NEW e \in Evidence, NEW op, NEW file, NEW receipt, IsEvidence(e, op, file)
  PROVE  LET n == [e EXCEPT !.receipt = receipt] IN
         IsEvidence(n, op, file) /\ n.candidate = e.candidate /\ n.receipt = receipt
  <1> DEFINE n == [e EXCEPT !.receipt = receipt]
  <1>1. /\ n.candidate = e.candidate /\ n.revision = e.revision /\ n.receipt = receipt
    BY DEF Evidence
  <1>2. n.exists = e.exists
    BY DEF Evidence
  <1> HIDE DEF n
  <1>3. IsEvidence(n, op, file)
    BY <1>1, <1>2, Zenon DEF IsEvidence
  <1>4. QED
    BY <1>1, <1>3 DEF n

LEMMA EvidenceStep ==
  ASSUME TypeInv, TypeInv', NEW c \in Clients, EvidenceFor(c), Journal(c), Kinds(c)
  PROVE  EvidenceFor(c)'
  <1>1. CASE Begun(c) \/ Left(c)
    BY <1>1 DEF Begun, Left, EvidenceFor, LockedPCs, LeasedPCs, ExecutionPCs
  <1>2. CASE Acquired(c)
    BY <1>2 DEF Acquired, EvidenceFor
  <1>3. CASE Prepared(c)
    <2> DEFINE e == job[c].evidence
               n == Len(job[c].evidence) + 1
    <2>1. /\ job'[c].ops = job[c].ops /\ job'[c].begun = job[c].begun
          /\ job'[c].evidence = Append(e, NewEvidence(c)) /\ pc[c] = "prepare"
      BY <1>3 DEF Prepared, KeepsCall
    <2>2. /\ DOMAIN job'[c].evidence = 1..n /\ e \in Seq(Evidence) /\ n \in Nat
          /\ DOMAIN e = 1..(n - 1)
          /\ job'[c].evidence[n] = NewEvidence(c)
          /\ \A i \in 1..(n - 1) : job'[c].evidence[i] = e[i]
      <3>1. e \in Seq(Evidence)
        BY JobTyped DEF TypeInv
      <3> HIDE DEF e
      <3>2. QED
        BY <2>1, <3>1 DEF e
    <2>3. tree = job[c].begun
      BY <2>1 DEF Journal
    <2>4. \A i \in 1..(n - 1) : IsEvidence(e[i], job[c].ops[i], job[c].begun[PathOf[job[c].ops[i].key]])
      BY <2>1, <2>2 DEF EvidenceFor, LockedPCs
    <2>5. IsEvidence(NewEvidence(c), job[c].ops[n], job[c].begun[PathOf[job[c].ops[n].key]])
      BY <2>3, NewEvidenceIs
    <2> HIDE DEF e, n
    <2>6. \A i \in 1..n : i \in 1..(n - 1) \/ i = n
      BY <2>2
    <2>7. QED
      BY <2>1, <2>2, <2>4, <2>5, <2>6, ZenonT(60) DEF EvidenceFor
  <1>4. CASE Assigned(c)
    <2>1. /\ job'[c].ops = job[c].ops /\ job'[c].begun = job[c].begun /\ pc[c] = "prepare"
          /\ Len(job[c].evidence) = Len(job[c].ops) /\ Len(job'[c].evidence) = Len(job[c].ops)
          /\ \A i \in 1..Len(job[c].ops) :
               job'[c].evidence[i] = [job[c].evidence[i] EXCEPT !.receipt = Receipt(c, i)]
      BY <1>4, Zenon DEF Assigned, KeepsCall
    <2>2. DOMAIN job[c].evidence = 1..Len(job[c].ops)
          /\ \A i \in 1..Len(job[c].ops) : job[c].evidence[i] \in Evidence
      BY <2>1, JobTyped DEF TypeInv
    <2>3. DOMAIN job'[c].evidence = 1..Len(job[c].ops)
      <3>1. job'[c].evidence \in Seq(Evidence)
        BY DEF TypeInv, Typed, Jobs
      <3>2. QED
        BY <2>1, <3>1
    <2>4. \A i \in 1..Len(job[c].ops) :
            IsEvidence(job[c].evidence[i], job[c].ops[i], job[c].begun[PathOf[job[c].ops[i].key]])
      BY <2>1, <2>2 DEF EvidenceFor, LockedPCs
    <2>5. \A i \in 1..Len(job[c].ops) :
            IsEvidence(job'[c].evidence[i], job[c].ops[i], job[c].begun[PathOf[job[c].ops[i].key]])
      <3> SUFFICES ASSUME NEW i \in 1..Len(job[c].ops)
                   PROVE  IsEvidence(job'[c].evidence[i], job[c].ops[i],
                                     job[c].begun[PathOf[job[c].ops[i].key]])
        OBVIOUS
      <3>1. /\ job[c].evidence[i] \in Evidence
            /\ IsEvidence(job[c].evidence[i], job[c].ops[i],
                          job[c].begun[PathOf[job[c].ops[i].key]])
            /\ job'[c].evidence[i] = [job[c].evidence[i] EXCEPT !.receipt = Receipt(c, i)]
        BY <2>1, <2>2, <2>4, Zenon
      <3> DEFINE e == job[c].evidence[i]
                 op == job[c].ops[i]
                 file == job[c].begun[PathOf[job[c].ops[i].key]]
                 receipt == Receipt(c, i)
      <3>2. e \in Evidence /\ IsEvidence(e, op, file)
        BY <3>1
      <3>3. job'[c].evidence[i] = [e EXCEPT !.receipt = receipt]
        BY <3>1, Zenon
      <3> HIDE DEF e, op, file, receipt
      <3>4. IsEvidence([e EXCEPT !.receipt = receipt], op, file)
        BY <3>2, ReceiptKeepsEvidence
      <3>5. IsEvidence(job'[c].evidence[i], op, file)
        BY <3>3, <3>4, Zenon
      <3>6. QED
        BY <3>5 DEF op, file
    <2>6. QED
      BY <2>1, <2>3, <2>5 DEF EvidenceFor
  <1>5. CASE Leased(c) \/ Moved(c) \/ Worked(c)
    <2>1. /\ job'[c].ops = job[c].ops /\ job'[c].begun = job[c].begun
          /\ job'[c].evidence = job[c].evidence /\ pc[c] \in LockedPCs
      BY <1>5 DEF Leased, Moved, Worked, KeepsCall, LockedPCs, LeasedPCs, ExecutionPCs
    <2>2. QED
      BY <2>1 DEF EvidenceFor
  <1>6. QED
    BY <1>1, <1>2, <1>3, <1>4, <1>5 DEF Kinds

LEMMA JournalStep ==
  ASSUME TypeInv, TypeInv', NEW c \in Clients, Journal(c), Kinds(c)
  PROVE  Journal(c)'
  <1>1. CASE Begun(c) \/ Left(c)
    BY <1>1 DEF Begun, Left, Journal, ExecutionPCs
  <1>2. CASE Acquired(c)
    BY <1>2 DEF Acquired, Journal, ExecutionPCs
  <1>3. CASE Prepared(c) \/ Assigned(c) \/ Leased(c)
    BY <1>3 DEF Prepared, Assigned, Leased, Journal, ExecutionPCs
  <1>4. CASE Moved(c)
    <2>1. CASE pc[c] = "decide" /\ pc'[c] = "execute"
      <3>1. job[c].snapshots = <<>> /\ tree = job[c].begun
        BY <2>1 DEF TypeInv, Stage, Journal
      <3>2. QED
        BY <1>4, <2>1, <3>1, EmptyPartial DEF Moved, Journal, ExecutionPCs
    <2>2. CASE pc[c] \in ExecutionPCs /\ pc'[c] \in ExecutionPCs
      BY <1>4, <2>2 DEF Moved, Journal, ExecutionPCs
    <2>3. QED
      BY <1>4, <2>1, <2>2 DEF Moved, ExecutionPCs
  <1>5. CASE Worked(c)
    <2>1. /\ pc[c] \in ExecutionPCs /\ pc'[c] \in ExecutionPCs
          /\ pc'[c] \notin {"prepare", "lease", "decide"}
          /\ job'[c].begun = job[c].begun /\ job'[c].snapshots = Snapshot(c, OpPath(c))
          /\ \A path \in Paths \ {OpPath(c)} : tree'[path] = tree[path]
      BY <1>5 DEF Worked, ExecutionPCs
    <2>2. OpPath(c) \in Paths /\ Typed
      BY <1>5, ExecutingElim DEF Worked
    <2>3. QED
      <3>1. /\ DOMAIN job'[c].snapshots = DOMAIN job[c].snapshots \cup {OpPath(c)}
            /\ \A path \in DOMAIN job[c].snapshots \cup {OpPath(c)} :
                 job'[c].snapshots[path] = IF path \in DOMAIN job[c].snapshots
                                           THEN job[c].snapshots[path] ELSE tree[path]
        <4> DEFINE files == Snapshot(c, OpPath(c))
        <4>1. /\ DOMAIN files = DOMAIN job[c].snapshots \cup {OpPath(c)}
              /\ \A path \in DOMAIN job[c].snapshots \cup {OpPath(c)} :
                   files[path] = IF path \in DOMAIN job[c].snapshots
                                 THEN job[c].snapshots[path] ELSE tree[path]
          BY <2>2, SnapshotTyped
        <4>2. job'[c].snapshots = files
          BY <2>1
        <4> HIDE DEF files
        <4>3. QED
          BY <4>1, <4>2
      <3>2. ASSUME NEW path \in Paths
            PROVE  job'[c].begun[path] = IF path \in DOMAIN job'[c].snapshots
                                         THEN job'[c].snapshots[path] ELSE tree'[path]
        <4>1. job[c].begun[path] = IF path \in DOMAIN job[c].snapshots
                                   THEN job[c].snapshots[path] ELSE tree[path]
          BY <2>1 DEF Journal
        <4>2. QED
          BY <2>1, <3>1, <4>1
      <3>3. QED
        BY <2>1, <3>2 DEF Journal
  <1>6. QED
    BY <1>1, <1>2, <1>3, <1>4, <1>5 DEF Kinds

\* An operation that goes through changes its own record only.
LEMMA AppliedImages ==
  ASSUME TypeInv, NEW c \in Clients, pc[c] = "execute", job[c].done + 1 <= Len(job[c].ops),
         tree'[OpPath(c)] = Stored(OpPath(c), Op(c).key, OpEvidence(c).candidate),
         \A path \in Paths \ {OpPath(c)} : tree'[path] = tree[path]
  PROVE  /\ Image(tree'[OpPath(c)], Op(c).key) = OpEvidence(c).candidate
         /\ tree'[OpPath(c)] # Torn /\ (OpPath(c) \in MapPaths => tree'[OpPath(c)] # Absent)
         /\ \A k \in Keys \ {Op(c).key} : Image(tree'[PathOf[k]], k) = Image(tree[PathOf[k]], k)
  <1>1. Typed /\ Op(c).key \in Keys /\ OpEvidence(c).candidate \in Images \cup {None}
    BY ExecutingElim
  <1>2. LET content == tree'[OpPath(c)] IN
        /\ content # Torn /\ (OpPath(c) \in MapPaths => content # Absent)
        /\ Image(content, Op(c).key) = OpEvidence(c).candidate
        /\ \A j \in KeysAt(OpPath(c)) \ {Op(c).key} : Image(content, j) = Image(tree[OpPath(c)], j)
    <2> DEFINE new == Stored(OpPath(c), Op(c).key, OpEvidence(c).candidate)
    <2>1. /\ new # Torn /\ (OpPath(c) \in MapPaths => new # Absent)
          /\ Image(new, Op(c).key) = OpEvidence(c).candidate
          /\ \A j \in KeysAt(OpPath(c)) \ {Op(c).key} : Image(new, j) = Image(tree[OpPath(c)], j)
      BY <1>1, StoredTyped DEF OpPath
    <2>2. tree'[OpPath(c)] = new
      OBVIOUS
    <2> HIDE DEF new
    <2>3. QED
      BY <2>1, <2>2
  <1>3. ASSUME NEW k \in Keys \ {Op(c).key}
        PROVE  Image(tree'[PathOf[k]], k) = Image(tree[PathOf[k]], k)
    <2>1. PathOf[k] \in Paths
      BY ProtectedConstantsAssumption
    <2>2. CASE PathOf[k] = OpPath(c)
      BY <1>2, <2>2 DEF KeysAt
    <2>3. CASE PathOf[k] # OpPath(c)
      BY <2>1, <2>3
    <2>4. QED
      BY <2>2, <2>3
  <1>4. QED
    BY <1>2, <1>3

LEMMA ProgressStep ==
  ASSUME TypeInv, TypeInv', NEW c \in Clients, Journal(c), Progress(c), Kinds(c)
  PROVE  Progress(c)'
  <1>1. CASE Begun(c) \/ Left(c) \/ Acquired(c) \/ Prepared(c) \/ Assigned(c) \/ Leased(c)
    BY <1>1 DEF Begun, Left, Acquired, Prepared, Assigned, Leased, Progress
  <1>2. CASE Moved(c)
    <2>1. CASE pc[c] = "decide" /\ pc'[c] = "execute"
      <3>1. job[c].done = 0 /\ tree = job[c].begun
        BY <2>1 DEF TypeInv, Stage, Journal
      <3>2. job'[c].done = 0 /\ tree' = job'[c].begun /\ 1..0 = {}
        BY <1>2, <3>1 DEF Moved
      <3>3. QED
        BY <3>2 DEF Progress, IsKept
    <2>2. CASE pc[c] = "execute" /\ pc'[c] = "executed"
      BY <1>2, <2>2 DEF Moved, Progress, IsDone, IsKept
    <2>3. CASE pc'[c] = "rollback"
      BY <2>3 DEF Progress
    <2>4. QED
      BY <1>2, <2>1, <2>2, <2>3 DEF Moved
  <1>3. CASE Worked(c)
    <2>1. CASE pc'[c] = "rollback"
      BY <2>1 DEF Progress
    <2>2. CASE pc'[c] # "rollback"
      <3> DEFINE n == job[c].done + 1
      <3>1. /\ pc[c] = "execute" /\ n <= Len(job[c].ops) /\ ~Refused(Op(c), OpEvidence(c))
            /\ job'[c].done = n /\ job'[c].ops = job[c].ops /\ job'[c].begun = job[c].begun
            /\ job'[c].evidence = job[c].evidence
            /\ tree'[OpPath(c)] = Stored(OpPath(c), Op(c).key, OpEvidence(c).candidate)
            /\ \A path \in Paths \ {OpPath(c)} : tree'[path] = tree[path]
        BY <1>3, <2>2 DEF Worked, KeepsCall
      <3>2. /\ Image(tree'[OpPath(c)], Op(c).key) = OpEvidence(c).candidate
            /\ tree'[OpPath(c)] # Torn /\ (OpPath(c) \in MapPaths => tree'[OpPath(c)] # Absent)
            /\ \A k \in Keys \ {Op(c).key} : Image(tree'[PathOf[k]], k) = Image(tree[PathOf[k]], k)
        BY <3>1, AppliedImages
      <3>3. /\ job[c].ops \in Batches /\ n \in 1..Len(job[c].ops) /\ Op(c).key \in Keys
            /\ OpPath(c) \in Paths /\ job[c].done \in Nat
        BY <3>1, ExecutingElim, JobTyped DEF TypeInv
      <3>4. /\ \A i \in 1..job[c].done : IsDone(c, i)
            /\ \A k \in Keys : (\A i \in 1..job[c].done : job[c].ops[i].key # k) => IsKept(c, k)
        BY <3>1 DEF Progress
      <3>5. ASSUME NEW i \in 1..n
            PROVE  IsDone(c, i)'
        <4>1. CASE i = n
          BY <3>1, <3>2, <4>1 DEF IsDone, Op, OpPath, OpEvidence
        <4>2. CASE i # n
          <5>1. i \in 1..job[c].done /\ i \in 1..Len(job[c].ops)
            BY <3>3, <4>2
          <5>2. job[c].ops[i].key \in Keys \ {Op(c).key} /\ PathOf[job[c].ops[i].key] \in Paths
            BY <3>3, <4>2, <5>1, BatchElim DEF Op
          <5>3. IsDone(c, i)
            BY <3>4, <5>1
          <5>4. QED
            BY <3>1, <3>2, <5>2, <5>3 DEF IsDone
        <4>3. QED
          BY <4>1, <4>2
      <3>6. ASSUME NEW k \in Keys, \A i \in 1..n : job[c].ops[i].key # k
            PROVE  IsKept(c, k)'
        <4>1. k # Op(c).key /\ \A i \in 1..job[c].done : job[c].ops[i].key # k
          BY <3>3, <3>6 DEF Op
        <4>2. QED
          BY <3>1, <3>2, <3>4, <4>1 DEF IsKept
      <3> HIDE DEF n
      <3>7. QED
        BY <3>1, <3>5, <3>6 DEF Progress
    <2>3. QED
      BY <2>1, <2>2
  <1>4. QED
    BY <1>1, <1>2, <1>3 DEF Kinds

LEMMA ReceiptsStep ==
  ASSUME TypeInv, TypeInv', NEW c \in Clients, EvidenceFor(c), Journal(c), Receipts(c), Kinds(c)
  PROVE  Receipts(c)'
  <1>1. CASE Begun(c) \/ Left(c) \/ Acquired(c) \/ Prepared(c)
    BY <1>1 DEF Begun, Left, Acquired, Prepared, Receipts, LockedPCs, LeasedPCs, ExecutionPCs
  <1>2. CASE Assigned(c)
    <2> DEFINE b == job[c].ops
    <2>1. /\ job'[c].ops = b /\ job'[c].begun = job[c].begun /\ pc[c] = "prepare"
          /\ Len(job[c].evidence) = Len(b) /\ Len(job'[c].evidence) = Len(b)
          /\ \A i \in 1..Len(b) :
               job'[c].evidence[i] = [job[c].evidence[i] EXCEPT !.receipt = Receipt(c, i)]
      BY <1>2, Zenon DEF Assigned, KeepsCall
    <2>2. b \in Batches /\ tree = job[c].begun /\ Typed /\ Typed'
      BY <2>1 DEF TypeInv, Stage, Journal
    <2>3. DOMAIN b = 1..Len(b)
      BY <2>2, BatchElim
    <2>4. \A i \in 1..Len(b) : /\ job'[c].evidence[i].candidate = job[c].evidence[i].candidate
                               /\ job'[c].evidence[i].receipt = Receipt(c, i)
      <3> SUFFICES ASSUME NEW i \in 1..Len(b)
                   PROVE  /\ job'[c].evidence[i].candidate = job[c].evidence[i].candidate
                          /\ job'[c].evidence[i].receipt = Receipt(c, i)
        OBVIOUS
      <3> DEFINE e == job[c].evidence[i]
                 receipt == Receipt(c, i)
      <3>1. e \in Evidence /\ job'[c].evidence[i] = [e EXCEPT !.receipt = receipt]
        <4>1. e \in Evidence
          BY <2>1, <2>2, JobTyped
        <4>2. job'[c].evidence[i] = [e EXCEPT !.receipt = receipt]
          BY <2>1, Zenon
        <4>3. QED
          BY <4>1, <4>2
      <3> HIDE DEF e, receipt
      <3>2. job'[c].evidence[i].candidate = e.candidate /\ job'[c].evidence[i].receipt = receipt
        BY <3>1 DEF Evidence
      <3>3. QED
        BY <3>2, Zenon DEF e, receipt
    <2>5. Candidates(c)' = Candidates(c)
      <3>1. /\ DOMAIN job[c].evidence = 1..Len(b)
            /\ DOMAIN job'[c].evidence = 1..Len(b)
        <4>1. job[c].evidence \in Seq(Evidence) /\ job'[c].evidence \in Seq(Evidence)
          BY <2>2 DEF Typed, Jobs
        <4>2. QED
          BY <2>1, <4>1
      <3>2. QED
        BY <2>4, <3>1 DEF Candidates
    <2>6. ASSUME NEW i \in 1..Len(b)
          PROVE  IsReceipt(job'[c].evidence[i].receipt, b[i].key, Forecast(c, PathOf[b[i].key])')
      <3> DEFINE k == b[i].key
                 file == Predicted(c, PathOf[k])
      <3>1. IsReceipt(Receipt(c, i), k, file)
        BY Zenon DEF IsReceipt, Receipt, Revision
      <3>2. PathOf[k] \in Paths
        BY <2>2, BatchElim
      <3>3. file = Leaves(b, Candidates(c), tree, PathOf[k])
        BY <2>1, <2>2, <3>2, PredictedLeaves
      <3>4. Forecast(c, PathOf[k])' = Leaves(b, Candidates(c), tree, PathOf[k])
        BY <2>1, <2>2, <2>5, Zenon DEF Forecast
      <3>5. job'[c].evidence[i].receipt = Receipt(c, i)
        BY <2>4
      <3> HIDE DEF k, file
      <3>6. QED
        BY <3>1, <3>3, <3>4, <3>5, Zenon DEF k
    <2>7. QED
      BY <2>1, <2>3, <2>6 DEF Receipts
  <1>3. CASE Leased(c) \/ Moved(c) \/ Worked(c)
    <2>1. /\ job'[c].ops = job[c].ops /\ job'[c].begun = job[c].begun
          /\ job'[c].evidence = job[c].evidence /\ pc[c] \in LockedPCs \ {"prepare"}
      BY <1>3 DEF Leased, Moved, Worked, KeepsCall, LockedPCs, LeasedPCs, ExecutionPCs
    <2>2. \A path : Forecast(c, path)' = Forecast(c, path)
      BY <2>1, Zenon DEF Forecast, Candidates
    <2>3. ASSUME NEW i \in DOMAIN job[c].ops
          PROVE  IsReceipt(job[c].evidence[i].receipt, job[c].ops[i].key,
                           Forecast(c, PathOf[job[c].ops[i].key])')
      BY <2>1, <2>2, Zenon DEF Receipts
    <2>4. QED
      BY <2>1, <2>3 DEF Receipts
  <1>4. QED
    BY <1>1, <1>2, <1>3 DEF Kinds

\* Two contents of a file that are both absent, or both there and agree on every
\* record, are the same.
LEMMA ContentsEqual ==
  ASSUME NEW path \in Paths, NEW x \in Contents(path), NEW y \in Contents(path),
         x # Torn, y # Torn, x = Absent <=> y = Absent,
         \A k \in KeysAt(path) : Image(x, k) = Image(y, k)
  PROVE  x = y
  <1>1. CASE x = Absent
    BY <1>1
  <1>2. CASE x # Absent
    <2>1. /\ x \in [DOMAIN x -> Images] /\ DOMAIN x \subseteq KeysAt(path)
          /\ y \in [DOMAIN y -> Images] /\ DOMAIN y \subseteq KeysAt(path)
          /\ RecordsIn(x) = DOMAIN x /\ RecordsIn(y) = DOMAIN y
      BY <1>2, ContentsElim DEF RecordsIn
    <2>2. \A k \in KeysAt(path) : k \in DOMAIN x <=> k \in DOMAIN y
      BY <2>1, ImageTyped
    <2>3. DOMAIN x = DOMAIN y
      BY <2>1, <2>2
    <2>4. \A k \in DOMAIN x : x[k] = y[k]
      BY <2>1, <2>3 DEF Image
    <2>5. QED
      BY <2>1, <2>3, <2>4
  <1>3. QED
    BY <1>1, <1>2

\* An operation that went through has left what was asked of it.
LEMMA CandidateDone ==
  ASSUME TypeInv, NEW c \in Clients, pc[c] = "executed", EvidenceFor(c), Progress(c),
         NEW i \in 1..Len(job[c].ops)
  PROVE  /\ IsDone(c, i)
         /\ job[c].evidence[i].candidate = None <=> job[c].ops[i].action = "delete"
         /\ LET k == job[c].ops[i].key IN
            job[c].evidence[i].candidate = Intended(job[c].ops[i], Image(job[c].begun[PathOf[k]], k))
  <1> DEFINE op == job[c].ops[i]
             e == job[c].evidence[i]
             file == job[c].begun[PathOf[op.key]]
             pre == Image(file, op.key)
  <1>1. /\ Typed /\ job[c].ops \in Batches /\ job[c].begun \in Trees
        /\ job[c].done = Len(job[c].ops) /\ Len(job[c].evidence) = Len(job[c].ops)
    BY DEF TypeInv, Stage, LockedPCs, LeasedPCs, ExecutionPCs
  <1>2. /\ op \in Operations /\ op.key \in Keys /\ PathOf[op.key] \in Paths
        /\ op.action \in {"insert", "set", "update", "delete"}
        /\ op.action \in {"insert", "set"} => op.data \in Images
    BY <1>1, BatchElim
  <1>3. IsDone(c, i)
    BY <1>1 DEF Progress
  <1>4. ~Refused(op, e)
    BY <1>3 DEF IsDone
  <1>5. IsEvidence(e, op, file)
    BY <1>1, JobTyped DEF EvidenceFor, LockedPCs, LeasedPCs, ExecutionPCs
  <1>6. pre \in Images \cup {None}
    BY <1>1, <1>2, TreeElim, ImageTyped
  <1>7. e.candidate = Candidate(op, pre)
    BY <1>5, Zenon DEF IsEvidence
  <1>8. e.exists = (pre # None)
    BY <1>5, Zenon DEF IsEvidence
  <1>9. (op.action = "update" \/ op.action = "delete") => pre # None
    BY <1>4, <1>8 DEF Refused
  <1> HIDE DEF op, e, pre
  <1>10. /\ Candidate(op, pre) = None <=> op.action = "delete"
         /\ Candidate(op, pre) = Intended(op, pre)
    BY <1>2, <1>6, <1>9, CandidateTyped
  <1>11. QED
    BY <1>3, <1>7, <1>10 DEF op, e, pre

\* A batch that has executed has left its files as predicted.
LEMMA ForecastReached ==
  ASSUME TypeInv, NEW c \in Clients, pc[c] = "executed", EvidenceFor(c), Progress(c),
         NEW i \in 1..Len(job[c].ops)
  PROVE  Forecast(c, PathOf[job[c].ops[i].key]) = tree[PathOf[job[c].ops[i].key]]
  <1> DEFINE b == job[c].ops
             path == PathOf[b[i].key]
             x == Forecast(c, path)
             y == tree[path]
  <1>1. /\ Typed /\ b \in Batches /\ job[c].begun \in Trees /\ tree \in Trees
        /\ job[c].done = Len(b) /\ Len(job[c].evidence) = Len(b)
    BY DEF TypeInv, Typed, Stage, LockedPCs, LeasedPCs, ExecutionPCs
  <1>2. b[i].key \in Keys /\ path \in Paths /\ b[i].key \in KeysAt(path)
    BY <1>1, BatchElim DEF KeysAt
  <1>3. /\ Candidates(c) \in [1..Len(b) -> Images \cup {None}]
        /\ \A j \in 1..Len(b) : Candidates(c)[j] = job[c].evidence[j].candidate
    BY <1>1, CandidatesTyped
  <1>4. /\ x \in Contents(path) /\ x # Torn /\ (path \in MapPaths => x # Absent)
        /\ \A j \in 1..Len(b) : PathOf[b[j].key] = path =>
             /\ b[j].action = "delete" => Image(x, b[j].key) = None
             /\ b[j].action # "delete" /\ Candidates(c)[j] # None =>
                  Image(x, b[j].key) = Candidates(c)[j]
        /\ \A k \in KeysAt(path) :
             path \in MapPaths /\ (\A j \in 1..Len(b) : b[j].key # k) =>
               Image(x, k) = Image(job[c].begun[path], k)
    BY <1>1, <1>2, <1>3, LeavesElim DEF Forecast
  <1>5. y \in Contents(path) /\ y # Torn /\ (path \in MapPaths => y # Absent)
    BY <1>1, <1>2, TreeElim, CandidateDone DEF IsDone
  <1>6. ASSUME NEW k \in KeysAt(path)
        PROVE  Image(x, k) = Image(y, k)
    <2>1. CASE \E j \in 1..Len(b) : b[j].key = k
      <3>1. PICK j \in 1..Len(b) : b[j].key = k
        BY <2>1
      <3>2. PathOf[b[j].key] = path
        BY <3>1 DEF KeysAt
      <3>3. /\ Image(y, k) = job[c].evidence[j].candidate
            /\ job[c].evidence[j].candidate = None <=> b[j].action = "delete"
        BY <3>1, <3>2, CandidateDone DEF IsDone
      <3>4. QED
        BY <1>3, <1>4, <3>1, <3>2, <3>3
    <2>2. CASE ~\E j \in 1..Len(b) : b[j].key = k
      <3>1. path \in MapPaths
        BY <1>2, <2>2, SingleRecord
      <3>2. k \in Keys /\ PathOf[k] = path
        BY DEF KeysAt
      <3>3. IsKept(c, k)
        BY <1>1, <2>2, <3>2 DEF Progress
      <3>4. QED
        BY <1>4, <2>2, <3>1, <3>2, <3>3 DEF IsKept
    <2>3. QED
      BY <2>1, <2>2
  <1> HIDE DEF x, y
  <1>7. x = Absent <=> y = Absent
    <2>1. CASE path \in MapPaths
      BY <1>4, <1>5, <2>1
    <2>2. CASE path \notin MapPaths
      <3>1. \A z \in {x, y} : z = Absent <=> Image(z, b[i].key) = None
        BY <1>2, <1>4, <1>5, <2>2, ContentsElim, ImageTyped, SMTT(30) DEF RecordsIn
      <3>2. QED
        BY <1>2, <1>6, <3>1
    <2>3. QED
      BY <2>1, <2>2
  <1>8. x = y
    BY <1>2, <1>4, <1>5, <1>6, <1>7, ContentsEqual
  <1>9. QED
    BY <1>8 DEF x, y

\* A revision names the file it is of.
LEMMA RevisionFile ==
  ASSUME NEW k, NEW exists, NEW file
  PROVE  <<k, exists, file>>[3] = file
  OBVIOUS

LEMMA KnowsFacts ==
  ASSUME TypeInv, NEW c \in Clients, pc[c] = "decide", EvidenceFor(c), Journal(c)
  PROVE  \A k \in DOMAIN Facts(c) : Facts(c)[k].revision[3] = Facts(c)[k].file
  <1>1. /\ Typed /\ job[c].ops \in Batches /\ tree = job[c].begun
        /\ Len(job[c].evidence) = Len(job[c].ops)
    BY DEF TypeInv, Stage, Journal, LockedPCs, LeasedPCs
  <1>2. /\ DOMAIN Facts(c) = KeysOf(c)
        /\ \A k \in KeysOf(c) : Facts(c)[k] = [revision |-> job[c].evidence[At(c, k)].revision,
                                               file     |-> tree[PathOf[k]]]
    BY <1>1, FactsTyped
  <1>3. ASSUME NEW k \in KeysOf(c)
        PROVE  Facts(c)[k].revision[3] = Facts(c)[k].file
    <2> DEFINE i == At(c, k)
               x == k \in RecordsIn(tree[PathOf[k]])
    <2>1. i \in 1..Len(job[c].ops) /\ job[c].ops[i].key = k
      BY <1>1, AtElim
    <2>2. IsEvidence(job[c].evidence[i], job[c].ops[i], job[c].begun[PathOf[job[c].ops[i].key]])
      BY <1>1, <2>1, JobTyped DEF EvidenceFor, LockedPCs, LeasedPCs
    <2> HIDE DEF i
    <2>3. job[c].evidence[i].revision = <<k, x, tree[PathOf[k]]>>
      BY <1>1, <2>1, <2>2, Zenon DEF IsEvidence, DataRevision, Revision
    <2> HIDE DEF x
    <2>4. job[c].evidence[i].revision[3] = tree[PathOf[k]]
      BY <2>3, RevisionFile
    <2>5. QED
      BY <1>2, <2>4 DEF i
  <1>4. QED
    BY <1>2, <1>3

LEMMA ReceiptFile ==
  ASSUME NEW receipt, NEW k, NEW file, IsReceipt(receipt, k, file)
  PROVE  receipt[3] = file
  <1> DEFINE x == PathOf[k] \in MapPaths \/ file # Absent
  <1>1. receipt = <<k, x, file>>
    BY Zenon DEF IsReceipt
  <1> HIDE DEF x
  <1>2. QED
    BY <1>1, RevisionFile

LEMMA KnowsGranted ==
  ASSUME TypeInv, NEW c \in Clients, pc[c] = "executed", EvidenceFor(c), Progress(c), Receipts(c)
  PROVE  \A k \in DOMAIN Granted(c) : Granted(c)[k].revision[3] = Granted(c)[k].file
  <1>1. Typed /\ job[c].ops \in Batches /\ Len(job[c].evidence) = Len(job[c].ops)
    BY DEF TypeInv, Stage, LockedPCs, LeasedPCs, ExecutionPCs
  <1>2. /\ DOMAIN Granted(c) = KeysOf(c)
        /\ \A k \in KeysOf(c) : Granted(c)[k] = [revision |-> job[c].evidence[At(c, k)].receipt,
                                                 file     |-> tree[PathOf[k]]]
    BY <1>1, FactsTyped
  <1>3. ASSUME NEW k \in KeysOf(c)
        PROVE  Granted(c)[k].revision[3] = Granted(c)[k].file
    <2> DEFINE i == At(c, k)
    <2>1. i \in 1..Len(job[c].ops) /\ job[c].ops[i].key = k /\ DOMAIN job[c].ops = 1..Len(job[c].ops)
      BY <1>1, AtElim, BatchElim
    <2> HIDE DEF i
    <2>2. IsReceipt(job[c].evidence[i].receipt, k, Forecast(c, PathOf[k]))
      BY <2>1 DEF Receipts, LockedPCs, LeasedPCs, ExecutionPCs
    <2>3. Forecast(c, PathOf[k]) = tree[PathOf[k]]
      BY <2>1, ForecastReached
    <2>4. job[c].evidence[i].receipt[3] = tree[PathOf[k]]
      BY <2>2, <2>3, ReceiptFile
    <2>5. QED
      BY <1>2, <2>4 DEF i
  <1>4. QED
    BY <1>2, <1>3

LEMMA KnowsStep ==
  ASSUME TypeInv, NEW c \in Clients, CallInv(c), Kinds(c)
  PROVE  Knows(c)'
  <1>0. EvidenceFor(c) /\ Journal(c) /\ Progress(c) /\ Receipts(c) /\ Knows(c)
    BY DEF CallInv
  <1>1. CASE Left(c)
    <2>1. \A k \in DOMAIN known'[c] : known'[c][k].revision[3] = known'[c][k].file
      BY <1>0, <1>1, KnowsFacts, KnowsGranted DEF Left, Knows
    <2>2. QED
      BY <1>1, <2>1 DEF Left, Knows
  <1>2. CASE Begun(c)
    BY <1>0, <1>2 DEF Begun, Knows
  <1>3. CASE Acquired(c) \/ Prepared(c) \/ Assigned(c) \/ Leased(c)
    <2>1. KeepsCall(c) /\ pc[c] # "idle" /\ pc'[c] \notin {"execute", "executed"}
      BY <1>3 DEF Acquired, Prepared, Assigned, Leased
    <2>2. QED
      BY <1>0, <2>1 DEF KeepsCall, Knows
  <1>4. CASE Moved(c) \/ Worked(c)
    <2>1. /\ KeepsCall(c) /\ pc[c] # "idle" /\ job'[c].evidence = job[c].evidence
          /\ pc'[c] \in {"execute", "executed"} => AsExpected(c)
      BY <1>0, <1>4 DEF Moved, Worked, Knows
    <2>2. AsExpected(c) => AsExpected(c)'
      BY <2>1 DEF KeepsCall, AsExpected
    <2>3. QED
      BY <1>0, <2>1, <2>2 DEF KeepsCall, Knows
  <1>5. QED
    BY <1>1, <1>2, <1>3, <1>4 DEF Kinds

\* What is said of a client stays true when its call, its knowledge and, if it is
\* under the lock, the tree stay.
LEMMA CallFrame ==
  ASSUME NEW d \in Clients, CallInv(d), pc'[d] = pc[d], job'[d] = job[d], known'[d] = known[d],
         tree' = tree \/ pc[d] \notin LockedPCs
  PROVE  CallInv(d)'
  <1>1. EvidenceFor(d)' /\ Knows(d)'
    BY DEF CallInv, EvidenceFor, Knows, AsExpected
  <1>2. Journal(d)' /\ Progress(d)'
    BY DEF CallInv, Journal, Progress, IsDone, IsKept, LockedPCs, LeasedPCs, ExecutionPCs
  <1>3. Receipts(d)'
    <2>1. \A path : Forecast(d, path)' = Forecast(d, path)
      BY Zenon DEF Forecast, Candidates
    <2>2. ASSUME NEW i \in DOMAIN job[d].ops, pc[d] \in LockedPCs \ {"prepare"}
          PROVE  IsReceipt(job[d].evidence[i].receipt, job[d].ops[i].key,
                           Forecast(d, PathOf[job[d].ops[i].key])')
      BY <2>1, <2>2, Zenon DEF CallInv, Receipts
    <2>3. QED
      BY <2>2 DEF Receipts
  <1>4. QED
    BY <1>1, <1>2, <1>3 DEF CallInv

-----------------------------------------------------------------------------
(* The invariant. *)

LEMMA InvInit ==
  ASSUME Init
  PROVE  Inv
  <1>1. TypeInv
    BY TypeInit
  <1>2. PolicyInv
    BY GenerationsTyped DEF Init, PolicyInv, Newer, LeasedPCs, ExecutionPCs
  <1>3. ASSUME NEW c \in Clients
        PROVE  CallInv(c)
    <2>1. pc[c] = "idle" /\ known[c] = <<>> /\ DOMAIN <<>> = {}
      BY DEF Init
    <2>2. QED
      BY <2>1 DEF CallInv, EvidenceFor, Journal, Progress, Receipts, Knows,
                  LockedPCs, LeasedPCs, ExecutionPCs
  <1>4. QED
    BY <1>1, <1>2, <1>3 DEF Inv

\* A step is a client's, another program's, or the management call's.
LEMMA StepKinds ==
  ASSUME Next
  PROVE  \/ \E c \in Clients : ClientStep(c)
         \/ \E w \in OtherWrites : OtherTransaction(w[1], w[2])
         \/ Management
  BY Zenon DEF Next, ClientStep, Management

LEMMA InvStep ==
  ASSUME Inv, [Next]_vars
  PROVE  Inv'
  <1>0. TypeInv /\ PolicyInv /\ \A c \in Clients : CallInv(c)
    BY DEF Inv
  <1>1. ASSUME NEW c \in Clients, ClientStep(c)
        PROVE  Inv'
    <2>1. TypeInv' /\ Others(c) /\ Kinds(c)
      BY <1>0, <1>1, ClientEffect
    <2>2. PolicyInv'
      BY <1>0, <2>1, PolicyOfClient
    <2>3. CallInv(c)'
      <3>1. CallInv(c)
        BY <1>0
      <3>2. Knows(c)'
        BY <1>0, <2>1, <3>1, KnowsStep
      <3>3. EvidenceFor(c)' /\ Journal(c)' /\ Progress(c)' /\ Receipts(c)'
        BY <1>0, <2>1, <3>1, EvidenceStep, JournalStep, ProgressStep, ReceiptsStep DEF CallInv
      <3>4. QED
        BY <3>2, <3>3 DEF CallInv
    <2>4. \A d \in Clients \ {c} : CallInv(d)'
      BY <1>0, <2>1, CallFrame DEF Others
    <2>5. QED
      BY <2>1, <2>2, <2>3, <2>4 DEF Inv
  <1>2. ASSUME NEW w \in OtherWrites, OtherTransaction(w[1], w[2])
        PROVE  Inv'
    <2>1. TypeInv' /\ Free("execute") /\ UNCHANGED <<lock, policy, pc, job, known>>
      BY <1>0, <1>2, OtherTransactionTyped
    <2>2. PolicyInv'
      BY <1>0, <2>1 DEF PolicyInv, policy, Permitted, Newer
    <2>3. ASSUME NEW d \in Clients
          PROVE  CallInv(d)'
      <3>1. pc[d] \notin LockedPCs
        <4>1. pc[d] # "idle" => job[d].kind \in {"inspect", "execute"}
          BY <1>0, JobTyped DEF TypeInv, Stage
        <4>2. QED
          BY <1>0, <2>1, <4>1, FreeOfAll DEF TypeInv, LockedPCs, LeasedPCs, ExecutionPCs
      <3>2. QED
        BY <1>0, <2>1, <3>1, CallFrame
    <2>4. QED
      BY <2>1, <2>2, <2>3 DEF Inv
  <1>3. ASSUME Management
        PROVE  Inv'
    <2>1. TypeInv' /\ UNCHANGED <<tree, lock, pc, job, known>>
      BY <1>0, <1>3, ManagementTyped
    <2>2. PolicyInv'
      BY <1>0, <1>3, PolicyOfManagement
    <2>3. \A d \in Clients : CallInv(d)'
      BY <1>0, <2>1, CallFrame
    <2>4. QED
      BY <2>1, <2>2, <2>3 DEF Inv
  <1>4. ASSUME UNCHANGED vars
        PROVE  Inv'
    <2>1. UNCHANGED <<scenario, tree, lock, head, live, pub, elsewhere, pc, job, known, outcome,
                      calls, writes, faults>>
      BY <1>4 DEF vars
    <2>2. TypeInv'
      BY <1>0, <2>1, OthersTyped DEF TypeInv, Typed
    <2>3. PolicyInv'
      BY <1>0, <2>1 DEF PolicyInv, Permitted, Newer
    <2>4. \A d \in Clients : CallInv(d)'
      BY <1>0, <2>1, CallFrame
    <2>5. QED
      BY <2>2, <2>3, <2>4 DEF Inv
  <1>5. QED
    BY <1>1, <1>2, <1>3, <1>4, StepKinds

LEMMA Invariance == Spec => []Inv
  <1>1. Init => Inv
    BY InvInit
  <1>2. Inv /\ [Next]_vars => Inv'
    BY InvStep
  <1>3. QED
    BY <1>1, <1>2, PTL DEF Spec

LEMMA InvIsTyped ==
  ASSUME Inv
  PROVE  TypeOK
  <1>0. TypeInv /\ PolicyInv
    BY DEF Inv
  <1>1. Cardinality(lock.writer) <= 1
    <2>1. CASE lock.writer = {}
      BY <2>1, FS_EmptySet
    <2>2. CASE lock.writer # {}
      <3>1. PICK c : c \in lock.writer
        BY <2>2
      <3>2. lock.writer = {c}
        BY <1>0, <3>1 DEF TypeInv, LockInv
      <3>3. Cardinality({c}) = 1
        BY FS_Singleton
      <3>4. QED
        BY <3>2, <3>3
    <2>3. QED
      BY <2>1, <2>2
  <1>2. ASSUME NEW c \in Clients
        PROVE  /\ job[c].kind \in {"none", "inspect", "execute"}
               /\ job[c].ops \in Batches \cup {<<>>}
               /\ Len(job[c].evidence) <= Len(job[c].ops) /\ job[c].done <= Len(job[c].ops)
               /\ job[c].snapshots \in Partial
               /\ pc[c] \in LeasedPCs => job[c].lease \in Generations
               /\ DOMAIN known[c] \subseteq Keys
    <2>1. Typed /\ Stage(c) /\ (pc[c] \in LeasedPCs => job[c].lease \in Generations)
      BY <1>0 DEF TypeInv, PolicyInv
    <2>2. DOMAIN known[c] \subseteq Keys
      BY <2>1 DEF Typed, Knowledge
    <2>3. QED
      BY <2>1, <2>2, JobTyped DEF Stage, Typed
  <1>3. QED
    BY <1>0, <1>1, <1>2 DEF TypeInv, Typed, LockInv, TypeOK, Trees

-----------------------------------------------------------------------------
(* How an execution returns. *)

LEMMA FailOutcome ==
  ASSUME TypeInv, NEW c \in Clients, Fail(c)
  PROVE  outcome'[c] = "failed"
  BY ReturnEffect DEF Fail, TypeInv

LEMMA ReturnCases ==
  ASSUME TypeInv, NEW c \in Clients, ClientStep(c), pc[c] # "idle", pc'[c] = "idle",
         job[c].kind = "execute"
  PROVE  \/ /\ outcome'[c] = "failed" /\ tree' = tree
            /\ pc[c] \in {"wait", "prepare", "lease", "decide"}
         \/ Restore(c) /\ outcome'[c] = "failed"
         \/ Succeed(c) /\ outcome'[c] = "ok"
         \/ outcome'[c] \in {"rollbackFailed", "crashed"}
  <1>1. CASE Call(c) \/ AcquireLock(c) \/ AssignReceipts(c)
    BY <1>1, CallEffect, AcquireEffect, AssignEffect DEF Begun, Acquired, Assigned
  <1>2. CASE PrepareOperation(c)
    <2>1. pc[c] = "prepare" /\ tree' = tree /\ (Fail(c) \/ pc' = pc)
      BY <1>2, PrepareTyped
    <2>2. QED
      BY <2>1, FailOutcome
  <1>3. CASE Lease(c)
    <2>1. pc[c] = "lease" /\ tree' = tree /\ (Fail(c) \/ pc'[c] = "decide")
      BY <1>3, LeaseTyped
    <2>2. QED
      BY <2>1, FailOutcome
  <1>4. CASE Decide(c)
    <2>1. pc[c] = "decide" /\ tree' = tree /\ (Fail(c) \/ pc' = [pc EXCEPT ![c] = "execute"])
      BY <1>4, DecideTyped
    <2>2. CASE Fail(c)
      BY <2>1, <2>2, FailOutcome
    <2>3. CASE pc' = [pc EXCEPT ![c] = "execute"]
      BY <2>3 DEF TypeInv, Typed
    <2>4. QED
      BY <2>1, <2>2, <2>3
  <1>5. CASE ExecuteOperation(c)
    BY <1>5, ExecuteEffect DEF Moved, Worked
  <1>6. CASE ExecutionCancelled(c) \/ CallbackFails(c) \/ ExecutionDone(c)
    BY <1>6, EndEffect DEF Moved
  <1>7. CASE Inspected(c)
    BY <1>7 DEF Inspected
  <1>8. CASE Succeed(c)
    <2>1. Return(c, "ok", Granted(c))
      BY <1>8, SucceedTyped
    <2>2. QED
      BY <1>8, <2>1, ReturnEffect DEF TypeInv
  <1>9. CASE Restore(c)
    BY <1>9, FailOutcome DEF Restore
  <1>10. CASE RestoreFails(c)
    BY <1>10, ReturnEffect DEF RestoreFails, TypeInv
  <1>11. CASE Crash(c)
    BY <1>11, ReturnEffect DEF Crash, TypeInv
  <1>12. CASE LockCancelled(c)
    BY <1>12, FailOutcome DEF LockCancelled
  <1>13. QED
    BY <1>1, <1>2, <1>3, <1>4, <1>5, <1>6, <1>7, <1>8, <1>9, <1>10, <1>11, <1>12, Zenon
    DEF ClientStep, Step

\* Only a step of the client itself returns.
LEMMA OwnReturn ==
  ASSUME TypeInv, PolicyInv, [Next]_vars, NEW c \in Clients, pc[c] # "idle", pc'[c] = "idle"
  PROVE  ClientStep(c)
  <1>1. ASSUME NEW d \in Clients, ClientStep(d)
        PROVE  ClientStep(c)
    <2>1. Others(d)
      BY <1>1, ClientEffect
    <2>2. d = c
      BY <2>1 DEF Others
    <2>3. QED
      BY <1>1, <2>2
  <1>2. ASSUME NEW w \in OtherWrites, OtherTransaction(w[1], w[2])
        PROVE  FALSE
    BY <1>2 DEF OtherTransaction
  <1>3. ASSUME Management
        PROVE  FALSE
    BY <1>3, ManagementTyped
  <1>4. ASSUME UNCHANGED vars
        PROVE  FALSE
    BY <1>4 DEF vars
  <1>5. QED
    BY <1>1, <1>2, <1>3, <1>4, StepKinds

\* An execution that returns nil has executed.
LEMMA SuccessfulReturn ==
  ASSUME Inv, [Next]_vars, NEW c \in Clients, Returns(c, "ok")
  PROVE  /\ pc[c] = "executed" /\ tree' = tree /\ CallInv(c) /\ TypeInv
         /\ job[c].ops \in Batches /\ job[c].done = Len(job[c].ops)
         /\ Len(job[c].evidence) = Len(job[c].ops)
         /\ DOMAIN job[c].ops = 1..Len(job[c].ops)
  <1>1. TypeInv /\ PolicyInv /\ CallInv(c)
    BY DEF Inv
  <1>2. ClientStep(c)
    BY <1>1, OwnReturn DEF Returns
  <1>3. Succeed(c)
    BY <1>1, <1>2, ReturnCases DEF Returns
  <1>4. QED
    BY <1>1, <1>3, SucceedTyped, BatchElim DEF Succeed

LEMMA AtomicStep ==
  ASSUME Inv, [Next]_vars, NEW c \in Clients
  PROVE  LET before(k) == Image(job[c].begun[PathOf[k]], k) IN
         /\ Returns(c, "failed") /\ pc[c] # "wait" => tree' = job[c].begun
         /\ Returns(c, "ok") =>
              \A k \in Keys :
                LET on == {i \in DOMAIN job[c].ops : job[c].ops[i].key = k} IN
                Image(tree'[PathOf[k]], k) =
                  IF on = {} THEN before(k)
                  ELSE Intended(job[c].ops[CHOOSE i \in on : TRUE], before(k))
  <1> DEFINE before(k) == Image(job[c].begun[PathOf[k]], k)
  <1>0. TypeInv /\ PolicyInv /\ CallInv(c)
    BY DEF Inv
  <1>1. ASSUME Returns(c, "failed"), pc[c] # "wait"
        PROVE  tree' = job[c].begun
    <2>1. ClientStep(c)
      BY <1>0, <1>1, OwnReturn DEF Returns
    <2>2. \/ tree' = tree /\ pc[c] \in {"prepare", "lease", "decide"}
          \/ Restore(c)
      BY <1>0, <1>1, <2>1, ReturnCases DEF Returns
    <2>3. CASE tree' = tree /\ pc[c] \in {"prepare", "lease", "decide"}
      BY <1>0, <2>3 DEF CallInv, Journal
    <2>4. CASE Restore(c)
      <3>1. pc[c] = "rollback"
            /\ tree' = [path \in Paths |-> IF path \in DOMAIN job[c].snapshots
                                           THEN job[c].snapshots[path] ELSE tree[path]]
        BY <2>4 DEF Restore
      <3>2. \A path \in Paths : job[c].begun[path] = tree'[path]
        BY <1>0, <3>1 DEF CallInv, Journal, ExecutionPCs
      <3>3. job[c].begun \in [Paths -> Content]
        BY <1>0, <3>1 DEF TypeInv, Stage, LockedPCs, LeasedPCs, ExecutionPCs, Trees
      <3>4. QED
        BY <3>1, <3>2, <3>3
    <2>5. QED
      BY <2>2, <2>3, <2>4
  <1>2. ASSUME Returns(c, "ok"), NEW k \in Keys
        PROVE  LET on == {i \in DOMAIN job[c].ops : job[c].ops[i].key = k} IN
               Image(tree'[PathOf[k]], k) =
                 IF on = {} THEN before(k)
                 ELSE Intended(job[c].ops[CHOOSE i \in on : TRUE], before(k))
    <2> DEFINE on == {i \in DOMAIN job[c].ops : job[c].ops[i].key = k}
               i == CHOOSE i \in on : TRUE
    <2>1. /\ pc[c] = "executed" /\ tree' = tree /\ EvidenceFor(c) /\ Progress(c)
          /\ job[c].done = Len(job[c].ops) /\ DOMAIN job[c].ops = 1..Len(job[c].ops)
      BY <1>2, SuccessfulReturn DEF CallInv
    <2>2. CASE on = {}
      <3>1. \A j \in 1..job[c].done : job[c].ops[j].key # k
        BY <2>1, <2>2
      <3>2. IsKept(c, k)
        BY <2>1, <3>1 DEF Progress
      <3>3. QED
        BY <2>1, <2>2, <3>2 DEF IsKept
    <2>3. CASE on # {}
      <3>1. i \in on
        BY <2>3
      <3>2. i \in 1..Len(job[c].ops) /\ job[c].ops[i].key = k
        BY <2>1, <3>1
      <3> HIDE DEF i
      <3>3. /\ IsDone(c, i)
            /\ job[c].evidence[i].candidate = Intended(job[c].ops[i], before(k))
        BY <1>0, <2>1, <3>2, CandidateDone
      <3>4. Image(tree'[PathOf[k]], k) = Intended(job[c].ops[i], before(k))
        BY <2>1, <3>2, <3>3 DEF IsDone
      <3>5. QED
        BY <2>3, <3>4 DEF i
    <2>4. QED
      BY <2>2, <2>3
  <1>3. QED
    BY <1>1, <1>2

LEMMA UnseenStep ==
  ASSUME Inv, [Next]_vars, NEW c \in Clients, Returns(c, "ok"), job[c].guarded = TRUE,
         NEW i \in DOMAIN job[c].ops
  PROVE  known[c][job[c].ops[i].key].file = job[c].begun[PathOf[job[c].ops[i].key]]
  <1> DEFINE k == job[c].ops[i].key
             file == job[c].begun[PathOf[k]]
             x == k \in RecordsIn(file)
  <1>1. /\ pc[c] = "executed" /\ EvidenceFor(c) /\ Knows(c) /\ TypeInv
        /\ Len(job[c].evidence) = Len(job[c].ops) /\ DOMAIN job[c].ops = 1..Len(job[c].ops)
    BY SuccessfulReturn DEF CallInv
  <1>2. k \in DOMAIN known[c] /\ known[c][k].revision[3] = known[c][k].file
    BY <1>1 DEF Knows
  <1>3. known[c][k].revision = job[c].evidence[i].revision
    BY <1>1 DEF Knows, AsExpected
  <1>4. IsEvidence(job[c].evidence[i], job[c].ops[i], file)
    BY <1>1, JobTyped DEF EvidenceFor, TypeInv, LockedPCs, LeasedPCs, ExecutionPCs
  <1>5. job[c].evidence[i].revision = <<k, x, file>>
    BY <1>4, Zenon DEF IsEvidence, DataRevision, Revision
  <1> HIDE DEF x, file, k
  <1>6. known[c][k].file = file
    BY <1>2, <1>3, <1>5, RevisionFile
  <1>7. QED
    BY <1>6 DEF k, file

LEMMA ReceiptStep ==
  ASSUME Inv, [Next]_vars, NEW c \in Clients, Returns(c, "ok"), NEW i \in DOMAIN job[c].ops,
         ~(job[c].ops[i].action = "delete" /\ PathOf[job[c].ops[i].key] \in MapPaths)
  PROVE  job[c].evidence[i].receipt =
           DataRevision(job[c].ops[i].key, tree'[PathOf[job[c].ops[i].key]])
  <1> DEFINE k == job[c].ops[i].key
             path == PathOf[k]
             file == tree[path]
             x == path \in MapPaths \/ file # Absent
             y == k \in RecordsIn(file)
  <1>1. /\ pc[c] = "executed" /\ tree' = tree /\ EvidenceFor(c) /\ Progress(c) /\ Receipts(c)
        /\ TypeInv /\ job[c].ops \in Batches
        /\ DOMAIN job[c].ops = 1..Len(job[c].ops)
    BY SuccessfulReturn DEF CallInv
  <1>2. IsReceipt(job[c].evidence[i].receipt, k, Forecast(c, path))
    BY <1>1 DEF Receipts, LockedPCs, LeasedPCs, ExecutionPCs
  <1>3. Forecast(c, path) = file
    BY <1>1, ForecastReached
  <1>4. job[c].evidence[i].receipt = <<k, x, file>>
    BY <1>2, <1>3, Zenon DEF IsReceipt
  <1>5. DataRevision(k, tree'[path]) = <<k, y, file>>
    BY <1>1, Zenon DEF DataRevision, Revision
  <1>6. /\ path \in Paths /\ k \in Keys /\ k \in KeysAt(path) /\ file \in Contents(path)
    BY <1>1, BatchElim, TreeElim DEF KeysAt, TypeInv, Typed
  <1>7. /\ Image(file, k) = job[c].evidence[i].candidate /\ file # Torn
        /\ job[c].evidence[i].candidate = None <=> job[c].ops[i].action = "delete"
    BY <1>1, CandidateDone DEF IsDone
  <1>8. y <=> job[c].ops[i].action # "delete"
    BY <1>6, <1>7, ImageTyped
  <1>9. x <=> y
    <2>1. CASE job[c].ops[i].action # "delete"
      BY <1>8, <2>1 DEF RecordsIn
    <2>2. CASE job[c].ops[i].action = "delete"
      <3>1. path \notin MapPaths
        BY <2>2
      <3>2. file = Absent
        BY <1>6, <1>7, <1>8, <2>2, <3>1, ContentsElim DEF RecordsIn
      <3>3. QED
        BY <1>8, <2>2, <3>1, <3>2
    <2>3. QED
      BY <2>1, <2>2
  <1>10. x = y
    BY <1>9
  <1> HIDE DEF x, y
  <1>11. QED
    BY <1>4, <1>5, <1>10

-----------------------------------------------------------------------------
(* The theorems. *)

\* Type correctness; of the lock in particular: it is held by exactly the clients
\* that are between acquiring and releasing it, by one writer or by readers
\* (withProtectedLock).
THEOREM TypeCorrect == Spec => []TypeOK
  <1>1. Inv => TypeOK
    BY InvIsTyped
  <1>2. QED
    BY <1>1, Invariance, PTL

\* From its lease to its end no generation is committed, and a batch is executed
\* only under policies that permit all of it and that are the committed ones but
\* for generations published elsewhere since the mount last loaded: the lease is
\* taken under the storage lock, which the commit and the load of a generation
\* need too (ownerPolicyLease, WithinProtectedExecution, activation).
THEOREM RevocationObeyed == Spec => RevocationHolds
  <1> DEFINE A == \A c \in Clients :
       /\ pc[c] \in LeasedPCs /\ pc'[c] \in LeasedPCs => head' = head
       /\ pc[c] # "execute" /\ pc'[c] = "execute" =>
            /\ \A i \in DOMAIN job[c].ops : job[c].ops[i].key \in Permits[job[c].lease]
            /\ Newer(job[c].lease) \subseteq elsewhere
  <1>1. ASSUME Inv, [Next]_vars PROVE [A]_vars
    <2>0. TypeInv /\ PolicyInv
      BY <1>1 DEF Inv
    <2>1. ASSUME NEW d \in Clients, ClientStep(d)
          PROVE  A
      <3>1. Others(d) /\ Kinds(d) /\ head' = head
        BY <2>0, <2>1, ClientEffect DEF Others
      <3>2. ASSUME NEW c \in Clients, pc[c] # "execute", pc'[c] = "execute"
            PROVE  /\ \A i \in DOMAIN job[c].ops : job[c].ops[i].key \in Permits[job[c].lease]
                   /\ Newer(job[c].lease) \subseteq elsewhere
        <4>1. c = d
          BY <3>1, <3>2 DEF Others
        <4>2. pc[c] = "decide" /\ Permitted(c)
          BY <3>1, <3>2, <4>1 DEF Kinds, Begun, Acquired, Left, Prepared, Assigned, Leased, Moved, Worked
        <4>3. QED
          BY <2>0, <4>2 DEF PolicyInv, Permitted, LeasedPCs
      <3>3. QED
        BY <3>1, <3>2
    <2>2. ASSUME NEW w \in OtherWrites, OtherTransaction(w[1], w[2])
          PROVE  A
      BY <2>2 DEF OtherTransaction, policy
    <2>3. ASSUME Management
          PROVE  A
      <3>1. pc' = pc
        BY <2>0, <2>3, ManagementTyped
      <3>2. head' # head => \A c \in Clients : pc[c] \notin LeasedPCs
        BY <2>0, <2>3, HeadMovesFree
      <3>3. QED
        BY <3>1, <3>2
    <2>4. QED
      BY <1>1, <2>1, <2>2, <2>3, StepKinds
  <1>2. QED
    BY <1>1, Invariance, PTL DEF RevocationHolds, Spec

\* A batch is done as asked against the records under its lock, and nothing else
\* is changed, or it is not done at all (WithinProtectedExecution,
\* restoreSnapshots).
THEOREM BatchesAreAtomic == Spec => BatchIsAtomic
  <1> DEFINE A == \A c \in Clients :
       LET before(k) == Image(job[c].begun[PathOf[k]], k) IN
       /\ Returns(c, "failed") /\ pc[c] # "wait" => tree' = job[c].begun
       /\ Returns(c, "ok") =>
            \A k \in Keys :
              LET on == {i \in DOMAIN job[c].ops : job[c].ops[i].key = k} IN
              Image(tree'[PathOf[k]], k) =
                IF on = {} THEN before(k)
                ELSE Intended(job[c].ops[CHOOSE i \in on : TRUE], before(k))
  <1>1. ASSUME Inv, [Next]_vars PROVE [A]_vars
    BY <1>1, AtomicStep
  <1>2. QED
    BY <1>1, Invariance, PTL DEF BatchIsAtomic, Spec

\* A guarded batch succeeds only against the very files that its client saw
\* (prepare under the exclusive lock, revision over the whole file).
THEOREM NothingOverwrittenUnseen == Spec => NoUnseenOverwrite
  <1> DEFINE A == \A c \in Clients : (Returns(c, "ok") /\ job[c].guarded) =>
       \A i \in DOMAIN job[c].ops :
         known[c][job[c].ops[i].key].file = job[c].begun[PathOf[job[c].ops[i].key]]
  <1>1. ASSUME Inv, [Next]_vars PROVE [A]_vars
    <2>1. ASSUME NEW c \in Clients, Returns(c, "ok"), job[c].guarded, NEW i \in DOMAIN job[c].ops
          PROVE  known[c][job[c].ops[i].key].file = job[c].begun[PathOf[job[c].ops[i].key]]
      <3>1. job[c].guarded = TRUE
        <4>1. job[c].guarded \in BOOLEAN
          BY <1>1 DEF Inv, TypeInv, Typed, Jobs
        <4>2. QED
          BY <2>1, <4>1
      <3>2. QED
        BY <1>1, <2>1, <3>1, UnseenStep
    <2>2. QED
      BY <2>1
  <1>2. QED
    BY <1>1, Invariance, PTL DEF NoUnseenOverwrite, Spec

\* The revision a successful batch predicts for a record is that of the file it
\* leaves, deletions in a map of records excepted
\* (assignBatchCandidateRevisions).
THEOREM ReceiptsAreRevisions == Spec => ReceiptIsRevision
  <1> DEFINE A == \A c \in Clients : Returns(c, "ok") =>
       \A i \in DOMAIN job[c].ops :
         LET op == job[c].ops[i] IN
         \/ op.action = "delete" /\ PathOf[op.key] \in MapPaths
         \/ job[c].evidence[i].receipt = DataRevision(op.key, tree'[PathOf[op.key]])
  <1>1. ASSUME Inv, [Next]_vars PROVE [A]_vars
    BY <1>1, ReceiptStep
  <1>2. QED
    BY <1>1, Invariance, PTL DEF ReceiptIsRevision, Spec
=============================================================================
