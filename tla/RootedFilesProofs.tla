-------------------------- MODULE RootedFilesProofs --------------------------
(***************************************************************************)
(* Proofs about RootedFiles, for any number of handles and threads, every  *)
(* mix of operations and every bound on calls and faults.                  *)
(***************************************************************************)
EXTENDS RootedFiles, FiniteSetTheorems, TLAPS

-----------------------------------------------------------------------------
(* The inductive invariant. *)

Jobs == [op : PublicOps \cup ViewOps \cup {"none"}, id : 0..MaxCalls,
         via : Threads \cup {None}, saw : Nat \cup {None}]

Leases == [life : {"open", "closing", "closed"}, operations : Nat, root : BOOLEAN]
Logs == [entry : Presence, lines : Seq(Ids \cup {Torn}), tail : BOOLEAN, safe : Nat, dirty : BOOLEAN]
Docs == [pubs : Seq(Ids \cup {Torn}), safe : Nat, soft : SUBSET Ids]

\* The types of the variables; TypeOK bounds the count of operations too.
Typed ==
  /\ setting \in Settings
  /\ handle \in [Handles -> Leases]
  /\ view \in [Threads -> {"none", "active", "expired"}]
  /\ dir \in Presence /\ lockFile \in BOOLEAN
  /\ log \in Logs
  /\ log.safe <= Len(log.lines)
  /\ doc \in Docs
  /\ doc.safe <= Len(doc.pubs)
  /\ temp \in [Threads -> {"none", "unsynced", "synced"}]
  /\ acked \in [{"log", "doc"} -> SUBSET Ids]
  /\ guarded \in SUBSET (Ids \X Threads)
  /\ pc \in [Threads -> PCs]
  /\ job \in [Threads -> Jobs]
  /\ calls \in 0..MaxCalls /\ faults \in 0..MaxFaults

\* The pcs of an operation, and the operations that come by each.
OpPCs == PCs \ {"idle", "callback", "drain", "closeRoot"}
Fits(op, l) ==
  /\ op \in {"append", "read", "write", "get", "ensure", "lock", "recover"}
  /\ l \in {"mkdir", "syncParent", "syncChild"} => op \in {"append", "write", "ensure", "lock"}
  /\ l \in {"open", "write", "writeRest", "writeTorn", "sync"} => op = "append"
  /\ l = "openRead" => op \in {"read", "recover"}
  /\ l \in {"lockLog", "recover", "syncRecovered"} => op \in {"append", "recover"}
  /\ l = "lockRead" => op = "read"
  /\ l = "read" => op \in {"read", "recover"}
  /\ l \in {"openTemp", "syncTemp", "rename"} => op = "write"
  /\ l = "syncDir" => op \in {"append", "write"}
  /\ l = "get" => op = "get"
  /\ l \in {"openLock", "syncLockDir", "lockWait"} => op = "lock"

\* Where a thread is, and what it holds there.
Place(t) ==
  /\ pc[t] = "idle" => job[t].via = None /\ job[t].id = 0 /\ job[t].saw = None /\ view[t] # "active"
  /\ pc[t] = "callback" => job[t].via = None /\ job[t].id = 0 /\ view[t] = "active"
  /\ pc[t] \in {"drain", "closeRoot"} =>
       /\ job[t].op = "close" /\ job[t].via = None /\ job[t].id = 0 /\ job[t].saw = None
       /\ view[t] # "active"
  /\ pc[t] \in OpPCs => /\ Fits(job[t].op, pc[t])
                        /\ job[t].op = "lock" => /\ job[t].via = None /\ job[t].saw = None
                                                 /\ view[t] # "active"
                        /\ job[t].op \in {"append", "write"} <=> job[t].id # 0
  /\ job[t].via # None => view[job[t].via] = "active" /\ Home(job[t].via) = Home(t)
  /\ job[t].saw # None => view[t] = "active"

\* One callback at a time; identities are given once.
OneView == \A t, u \in Threads : (view[t] = "active" /\ view[u] = "active") => t = u
Distinct ==
  /\ \A t \in Threads : job[t].id <= calls
  /\ \A t, u \in Threads : (job[t].id # 0 /\ job[t].id = job[u].id) => t = u

\* A handle counts its operations and its callbacks.
Busy(h)   == {t \in Threads : Home(t) = h /\ pc[t] \in OpPCs /\ job[t].via = None}
Active(h) == {t \in Threads : Home(t) = h /\ view[t] = "active"}
HandleInv ==
  \A h \in Handles :
    /\ handle[h].operations = Cardinality(Busy(h)) + Cardinality(Active(h))
    /\ handle[h].life = "closed" => handle[h].operations = 0
    /\ ~handle[h].root => handle[h].life = "closed"
ClosingInv ==
  \A t \in Threads :
    /\ pc[t] = "drain" => handle[Home(t)].life # "open"
    /\ pc[t] = "closeRoot" => handle[Home(t)].life = "closed"

LifeInv == Typed /\ (\A t \in Threads : Place(t)) /\ OneView /\ Distinct /\ HandleInv /\ ClosingInv

\* The locks of the stream exclude each other.
LogLocks ==
  \A t, u \in Threads : (t # u /\ ExclusiveLog(t)) => ~ExclusiveLog(u) /\ ~SharedLog(u)

\* An unterminated line is being written, or is left by a failure.
TailInv ==
  /\ log.tail => faults > 0 \/ \E t \in Threads : pc[t] = "writeRest"
  /\ \A t \in Threads : /\ pc[t] # "writeTorn"
                        /\ ExclusiveLog(t) /\ pc[t] \notin {"recover", "writeRest"} => ~log.tail

\* What is in the stream is whole and was written once; what was acknowledged is
\* on stable storage.
Unwritten == {"mkdir", "syncParent", "syncChild", "open", "lockLog", "recover", "syncRecovered",
              "write", "writeRest"}
LinesInv ==
  /\ \A i \in 1..Len(log.lines) : log.lines[i] \in 1..calls
  /\ \A t \in Threads :
       /\ Op(t) = "append" /\ pc[t] \in Unwritten =>
            /\ \A i \in 1..Len(log.lines) : log.lines[i] # job[t].id
            /\ \A u \in Threads : <<job[t].id, u>> \notin guarded
       /\ pc[t] = "sync" => \E i \in 1..Len(log.lines) : log.lines[i] = job[t].id
  /\ \A g \in guarded : g[1] <= calls
EntryInv ==
  /\ \A t \in Threads : pc[t] = "syncDir" /\ Op(t) = "append" =>
       /\ \E i \in 1..log.safe : log.lines[i] = job[t].id
       /\ log.entry # "absent"
  /\ \A t \in Threads : Op(t) = "append" /\ pc[t] \in {"lockLog"} \cup WritingLog =>
       log.entry # "absent"
  /\ \A e \in acked["log"] : (\E i \in 1..log.safe : log.lines[i] = e) /\ log.entry = "durable"

\* So with the document, whose bytes are synced before it is renamed.
Unpublished == {"mkdir", "syncParent", "syncChild", "openTemp", "syncTemp", "rename"}
DocInv ==
  /\ \A i \in 1..Len(doc.pubs) : doc.pubs[i] \in 1..calls
  /\ doc.soft = {}
  /\ \A t \in Threads :
       /\ pc[t] = "rename" => temp[t] = "synced"
       /\ Op(t) = "write" /\ pc[t] \in Unpublished =>
            \A i \in 1..Len(doc.pubs) : doc.pubs[i] # job[t].id
       /\ Op(t) = "write" /\ pc[t] = "syncDir" =>
            \E i \in 1..Len(doc.pubs) : doc.pubs[i] = job[t].id
  /\ \A e \in acked["doc"] : \E i \in 1..doc.safe : doc.pubs[i] = e

\* Since a callback replayed the stream, no other callback has appended to it.
ReplayInv ==
  \A t \in Threads : job[t].saw # None =>
    \A i \in (job[t].saw + 1)..Len(log.lines) :
      \A u \in Threads \ {t} : <<log.lines[i], u>> \notin guarded

-----------------------------------------------------------------------------
(* The kinds of steps, as the life of a handle sees them. *)

Others(t) == \A u \in Threads \ {t} : pc'[u] = pc[u] /\ job'[u] = job[u]

\* A step within an operation.
Inside(t) ==
  /\ t \in Threads /\ pc[t] \in OpPCs /\ pc'[t] \in OpPCs
  /\ Fits(job[t].op, pc'[t])
  /\ job'[t].op = job[t].op /\ job'[t].id = job[t].id /\ job'[t].via = job[t].via
  /\ job'[t].saw # None => job[t].saw # None \/ job[t].via = t
  /\ Others(t)
  /\ UNCHANGED <<setting, handle, view, calls>>

\* An operation of this kind starts, through a view or not.
Enters(t, op, via) ==
  /\ t \in Threads /\ via \in Threads \cup {None}
  /\ pc'[t] \in OpPCs /\ Fits(op, pc'[t])
  /\ job'[t].op = op /\ job'[t].via = via
  /\ job'[t].id = IF op \in {"append", "write"} THEN calls + 1 ELSE 0
  /\ job'[t].saw = IF op = "lock" THEN None ELSE job[t].saw
  /\ calls' = calls + 1
  /\ Others(t)
  /\ UNCHANGED setting

-----------------------------------------------------------------------------
(* Facts that many steps rest on. *)

LEMMA HomeType ==
  ASSUME Typed, NEW t \in Threads
  PROVE  Home(t) \in Handles
BY RootedConstantsAssumption DEF Typed, Home

\* A part of the threads is finite.
LEMMA PartFinite ==
  ASSUME NEW S, S \subseteq Threads
  PROVE  IsFiniteSet(S) /\ Cardinality(S) \in Nat /\ Cardinality(S) <= Cardinality(Threads)
BY RootedConstantsAssumption, FS_Subset, FS_CardinalityType

LEMMA AddThread ==
  ASSUME NEW S, S \subseteq Threads, NEW t \in Threads, t \notin S
  PROVE  Cardinality(S \cup {t}) = Cardinality(S) + 1
BY PartFinite, FS_AddElement

LEMMA RemoveThread ==
  ASSUME NEW S, S \subseteq Threads, NEW t \in S
  PROVE  Cardinality(S \ {t}) = Cardinality(S) - 1 /\ Cardinality(S) > 0
<1>1. IsFiniteSet(S \ {t}) /\ Cardinality(S \ {t}) \in Nat /\ Cardinality(S) \in Nat
  BY PartFinite
<1>2. Cardinality(S \ {t}) = Cardinality(S) - 1
  BY PartFinite, FS_RemoveElement
<1> QED BY <1>1, <1>2

LEMMA SomeThread ==
  ASSUME NEW S, S \subseteq Threads, S # {}
  PROVE  Cardinality(S) > 0
<1>1. PICK t \in S : TRUE
  OBVIOUS
<1> QED BY <1>1, RemoveThread

\* A thread inside an operation or a callback keeps its handle open.
LEMMA InUse ==
  ASSUME LifeInv, NEW t \in Threads, pc[t] \in OpPCs \cup {"callback"} \/ view[t] = "active"
  PROVE  /\ handle[Home(t)].operations > 0
         /\ handle[Home(t)].life # "closed"
         /\ handle[Home(t)].root
<1>1. Busy(Home(t)) # {} \/ Active(Home(t)) # {}
  <2>1. CASE view[t] = "active"
    BY <2>1 DEF Active
  <2>2. CASE pc[t] \in OpPCs /\ job[t].via = None
    BY <2>2 DEF Busy
  <2>3. CASE pc[t] \in OpPCs /\ job[t].via # None
    <3>1. job[t].via \in Threads /\ view[job[t].via] = "active" /\ Home(job[t].via) = Home(t)
      BY <2>3 DEF LifeInv, Typed, Jobs, Place
    <3> QED BY <3>1 DEF Active
  <2>4. CASE pc[t] = "callback"
    BY <2>4 DEF LifeInv, Place, Active
  <2> QED BY <2>1, <2>2, <2>3, <2>4
<1>2. Busy(Home(t)) \subseteq Threads /\ Active(Home(t)) \subseteq Threads
  BY DEF Busy, Active
<1>3. /\ Cardinality(Busy(Home(t))) \in Nat /\ Cardinality(Active(Home(t))) \in Nat
      /\ Cardinality(Busy(Home(t))) > 0 \/ Cardinality(Active(Home(t))) > 0
  BY <1>1, <1>2, PartFinite, SomeThread
<1>4. Home(t) \in Handles
  BY HomeType DEF LifeInv
<1>5. handle[Home(t)].operations > 0
  BY <1>3, <1>4 DEF LifeInv, HandleInv
<1>6. handle[Home(t)].root \in BOOLEAN
  BY <1>4 DEF LifeInv, Typed, Leases
<1> QED BY <1>4, <1>5, <1>6 DEF LifeInv, HandleInv

-----------------------------------------------------------------------------
(* The steps within an operation. *)

LEMMA MoveIsInside ==
  ASSUME LifeInv, NEW t \in Threads, NEW from, NEW to, Moves(t, from, to),
         from \in OpPCs, to \in OpPCs, Fits(job[t].op, to)
  PROVE  Inside(t) /\ (pc' \in [Threads -> PCs]) /\ pc[t] = from /\ pc'[t] = to
<1> USE DEF LifeInv, Typed
<1>1. pc[t] = from /\ pc'[t] = to /\ pc' \in [Threads -> PCs]
  BY DEF Moves, Goto, OpPCs
<1>2. Others(t)
  BY DEF Moves, Goto, Others
<1> QED BY <1>1, <1>2 DEF Inside, Moves

\* A step of t to another pc that keeps the jobs.
LEMMA GotoIsInside ==
  ASSUME LifeInv, NEW t \in Threads, NEW to, Goto(t, to), pc[t] \in OpPCs,
         to \in OpPCs, Fits(job[t].op, to), UNCHANGED <<job, setting, handle, view, calls>>
  PROVE  Inside(t) /\ (pc' \in [Threads -> PCs]) /\ pc'[t] = to
<1> USE DEF LifeInv, Typed
<1>1. pc'[t] = to /\ pc' \in [Threads -> PCs]
  BY DEF Goto, OpPCs
<1>2. Others(t)
  BY DEF Goto, Others
<1> QED BY <1>1, <1>2 DEF Inside

\* What an operation opens is a step of it.
LEMMA OpensFits ==
  ASSUME NEW op \in {"append", "write", "lock", "ensure"}
  PROVE  Opens(op) \in OpPCs /\ Opens(op) \in {"open", "openTemp", "openLock", "end"} /\ Fits(op, Opens(op))
<1>1. CASE op = "append"
  BY <1>1 DEF Opens, OpPCs, PCs, Fits
<1>2. CASE op = "write"
  BY <1>2 DEF Opens, OpPCs, PCs, Fits
<1>3. CASE op = "lock"
  BY <1>3 DEF Opens, OpPCs, PCs, Fits
<1>4. CASE op = "ensure"
  BY <1>4 DEF Opens, OpPCs, PCs, Fits
<1> QED BY <1>1, <1>2, <1>3, <1>4

LEMMA FirstStepFits ==
  ASSUME NEW op \in (PublicOps \cup ViewOps) \ {"close"}
  PROVE  /\ FirstStep(op) \in OpPCs /\ Fits(op, FirstStep(op))
         /\ FirstStep(op) \in {"openRead", "get", "mkdir", "open", "openTemp", "openLock", "end"}
<1>1. op \in {"append", "write", "lock", "ensure", "read", "recover", "get"}
  BY DEF PublicOps, ViewOps
<1>2. CASE op \in {"read", "recover"}
  BY <1>2 DEF FirstStep, OpPCs, PCs, Fits
<1>3. CASE op = "get"
  BY <1>3 DEF FirstStep, OpPCs, PCs, Fits
<1>4. CASE op = "ensure" \/ (Nested /\ op \in {"append", "write", "lock"})
  <2>1. FirstStep(op) = "mkdir"
    BY <1>4 DEF FirstStep
  <2> QED BY <1>4, <2>1 DEF OpPCs, PCs, Fits
<1>5. CASE op \in {"append", "write", "lock"} /\ ~Nested
  <2>1. FirstStep(op) = Opens(op)
    BY <1>5 DEF FirstStep
  <2> QED BY <1>5, <2>1, OpensFits
<1> QED BY <1>1, <1>2, <1>3, <1>4, <1>5, RootedConstantsAssumption

\* The types of the variables that a step within an operation leaves alone.
LEMMA MoveTyped ==
  ASSUME LifeInv, NEW t \in Threads, NEW from, NEW to, Moves(t, from, to),
         pc' \in [Threads -> PCs], dir' \in Presence,
         log' \in Logs, log'.safe <= Len(log'.lines), doc' \in Docs,
         doc'.safe <= Len(doc'.pubs)
  PROVE  Typed'
BY DEF LifeInv, Typed, Moves, history

\* Nothing but the directory changes.
LEMMA MoveInDirectory ==
  ASSUME LifeInv, NEW t \in Threads, NEW from, NEW to, Moves(t, from, to),
         pc' \in [Threads -> PCs], dir' \in Presence, UNCHANGED <<log, doc>>
  PROVE  Typed'
BY MoveTyped DEF LifeInv, Typed

LEMMA FilesTyped ==
  ASSUME LifeInv
  PROVE  /\ log \in Logs /\ doc \in Docs /\ log.safe \in Nat /\ doc.safe \in Nat
         /\ log.lines \in Seq(Ids \cup {Torn}) /\ doc.pubs \in Seq(Ids \cup {Torn})
         /\ Len(log.lines) \in Nat /\ Len(doc.pubs) \in Nat
         /\ log.safe <= Len(log.lines) /\ doc.safe <= Len(doc.pubs)
         /\ doc.soft \subseteq Ids
BY DEF LifeInv, Typed, Logs, Docs

LEMMA DirSyncedTyped ==
  ASSUME LifeInv, DirSynced
  PROVE  /\ log' \in Logs /\ log'.safe <= Len(log'.lines)
         /\ doc' \in Docs /\ doc'.safe <= Len(doc'.pubs)
         /\ log'.lines = log.lines /\ log'.safe = log.safe /\ log'.tail = log.tail
         /\ log'.dirty = log.dirty
         /\ log'.entry = IF log.entry = "linked" THEN "durable" ELSE log.entry
         /\ doc'.pubs = doc.pubs /\ doc'.soft = doc.soft /\ doc'.safe = Len(doc.pubs)
<1> DEFINE e == IF log.entry = "linked" THEN "durable" ELSE log.entry
<1>1. e \in Presence
  BY FilesTyped DEF Logs, Presence
<1>2. log' = [log EXCEPT !.entry = e]
  BY DEF DirSynced
<1>3. /\ log' \in Logs
      /\ log'.lines = log.lines /\ log'.safe = log.safe
      /\ log'.entry = e
  <2> HIDE DEF e
  <2> QED BY <1>1, <1>2, FilesTyped DEF Logs
<1>4. log'.tail = log.tail /\ log'.dirty = log.dirty
  BY <1>2, FilesTyped, Zenon DEF Logs
<1>5. /\ doc' \in Docs
      /\ doc'.pubs = doc.pubs /\ doc'.soft = doc.soft /\ doc'.safe = Len(doc.pubs)
  BY FilesTyped DEF DirSynced, Docs
<1> QED BY <1>3, <1>4, <1>5, FilesTyped

LEMMA FileSyncedTyped ==
  ASSUME LifeInv, FileSynced
  PROVE  /\ log' \in Logs /\ log'.safe <= Len(log'.lines)
         /\ log'.lines = log.lines /\ log'.safe = Len(log.lines) /\ log'.tail = log.tail
         /\ log'.entry = log.entry
<1> DEFINE n == Len(log.lines)
<1>1. log' = [log EXCEPT !.safe = n, !.dirty = FALSE] /\ n \in Nat /\ log \in Logs
  BY FilesTyped DEF FileSynced
<1>2. n = Len(log.lines)
  OBVIOUS
<1> HIDE DEF n
<1>3. log' \in Logs /\ log'.lines = log.lines /\ log'.safe = n /\ log'.entry = log.entry
  BY <1>1 DEF Logs
<1>4. log'.tail = log.tail
  BY <1>1, Zenon DEF Logs
<1> QED BY <1>1, <1>2, <1>3, <1>4

LEMMA MkdirStep ==
  ASSUME LifeInv, NEW t \in Threads, Mkdir(t)
  PROVE  Inside(t) /\ Typed'
<1> DEFINE to == IF dir = "absent" THEN "syncParent" ELSE Opens(Op(t))
<1>1. Moves(t, "mkdir", to)
  BY DEF Mkdir
<1>2. pc[t] = "mkdir" /\ "mkdir" \in OpPCs
  BY <1>1 DEF Moves, OpPCs, PCs
<1>3. Op(t) = job[t].op /\ Op(t) \in {"append", "write", "lock", "ensure"}
  BY <1>2 DEF LifeInv, Place, Fits, Op
<1>4. to \in OpPCs /\ Fits(job[t].op, to)
  <2>1. CASE dir = "absent"
    BY <1>3, <2>1 DEF OpPCs, PCs, Fits
  <2>2. CASE dir # "absent"
    BY <1>3, <2>2, OpensFits
  <2> QED BY <2>1, <2>2
<1> HIDE DEF to
<1>5. Inside(t) /\ pc' \in [Threads -> PCs]
  BY <1>1, <1>2, <1>4, MoveIsInside
<1>6. dir' \in Presence /\ UNCHANGED <<log, doc>>
  BY DEF Mkdir, Presence, LifeInv, Typed
<1> QED BY <1>1, <1>5, <1>6, MoveInDirectory

LEMMA SyncParentStep ==
  ASSUME LifeInv, NEW t \in Threads, SyncParent(t)
  PROVE  Inside(t) /\ Typed'
<1>1. Moves(t, "syncParent", "syncChild")
  BY DEF SyncParent
<1>2. pc[t] = "syncParent" /\ "syncParent" \in OpPCs /\ "syncChild" \in OpPCs
  BY <1>1 DEF Moves, OpPCs, PCs
<1>3. Fits(job[t].op, "syncChild")
  BY <1>2 DEF LifeInv, Place, Fits
<1>4. Inside(t) /\ pc' \in [Threads -> PCs]
  BY <1>1, <1>2, <1>3, MoveIsInside
<1>5. dir' \in Presence /\ UNCHANGED <<log, doc>>
  BY DEF SyncParent, Presence, LifeInv, Typed
<1> QED BY <1>1, <1>4, <1>5, MoveInDirectory

LEMMA SyncChildStep ==
  ASSUME LifeInv, NEW t \in Threads, SyncChild(t)
  PROVE  Inside(t) /\ Typed'
<1> DEFINE to == Opens(Op(t))
<1>1. Moves(t, "syncChild", to) /\ dir' = dir
  BY DEF SyncChild
<1>2. pc[t] = "syncChild" /\ "syncChild" \in OpPCs
  BY <1>1 DEF Moves, OpPCs, PCs
<1>3. Op(t) = job[t].op /\ Op(t) \in {"append", "write", "lock", "ensure"}
  BY <1>2 DEF LifeInv, Place, Fits, Op
<1>4. to \in OpPCs /\ Fits(job[t].op, to)
  BY <1>3, OpensFits
<1> HIDE DEF to
<1>5. Inside(t) /\ pc' \in [Threads -> PCs]
  BY <1>1, <1>2, <1>4, MoveIsInside
<1>6. dir' \in Presence
  BY <1>1 DEF LifeInv, Typed
<1>7. CASE Nested
  BY <1>1, <1>5, <1>6, <1>7, DirSyncedTyped, MoveTyped DEF SyncChild
<1>8. CASE ~Nested
  BY <1>1, <1>5, <1>6, <1>8, MoveInDirectory DEF SyncChild
<1> QED BY <1>7, <1>8

\* A step that moves t on and changes no file.
LEMMA PlainMove ==
  ASSUME LifeInv, NEW t \in Threads, NEW from, NEW to, Moves(t, from, to),
         from \in OpPCs, to \in OpPCs, Fits(job[t].op, to), UNCHANGED <<dir, log, doc>>
  PROVE  Inside(t) /\ Typed'
<1>1. Inside(t) /\ pc' \in [Threads -> PCs]
  BY MoveIsInside
<1>2. dir' \in Presence
  BY DEF LifeInv, Typed
<1> QED BY <1>1, <1>2, MoveInDirectory

\* What an operation is, from where it stands.
LEMMA OpAt ==
  ASSUME LifeInv, NEW t \in Threads, NEW l, pc[t] = l, l \in OpPCs
  PROVE  Fits(job[t].op, l) /\ Op(t) = job[t].op
BY DEF LifeInv, Place, Op

LEMMA OpenReadStep ==
  ASSUME LifeInv, NEW t \in Threads, OpenRead(t)
  PROVE  Inside(t) /\ Typed'
<1> DEFINE to == IF log.entry = "absent" THEN "end"
                 ELSE IF Op(t) = "recover" THEN "lockLog" ELSE "lockRead"
<1>1. Moves(t, "openRead", to) /\ UNCHANGED <<dir, log, doc>>
  BY DEF OpenRead
<1>2. pc[t] = "openRead" /\ "openRead" \in OpPCs /\ to \in OpPCs
  BY <1>1 DEF Moves, OpPCs, PCs
<1>3. Op(t) = job[t].op /\ Op(t) \in {"read", "recover"}
  BY <1>2, OpAt DEF Fits
<1>4. Fits(job[t].op, to)
  BY <1>3 DEF Fits
<1> HIDE DEF to
<1> QED BY <1>1, <1>2, <1>4, PlainMove

LEMMA LockLogStep ==
  ASSUME LifeInv, NEW t \in Threads, LockLog(t)
  PROVE  Inside(t) /\ Typed'
<1>1. Moves(t, "lockLog", "recover") /\ UNCHANGED <<dir, log, doc>>
  BY DEF LockLog
<1>2. pc[t] = "lockLog" /\ "lockLog" \in OpPCs /\ "recover" \in OpPCs
  BY <1>1 DEF Moves, OpPCs, PCs
<1>3. Fits(job[t].op, "recover")
  BY <1>2, OpAt DEF Fits
<1> QED BY <1>1, <1>2, <1>3, PlainMove

LEMMA LockReadStep ==
  ASSUME LifeInv, NEW t \in Threads, LockRead(t)
  PROVE  Inside(t) /\ Typed'
<1>1. Moves(t, "lockRead", "read") /\ UNCHANGED <<dir, log, doc>>
  BY DEF LockRead
<1>2. pc[t] = "lockRead" /\ "lockRead" \in OpPCs /\ "read" \in OpPCs
  BY <1>1 DEF Moves, OpPCs, PCs
<1>3. Fits(job[t].op, "read")
  BY <1>2, OpAt DEF Fits
<1> QED BY <1>1, <1>2, <1>3, PlainMove

LEMMA ReadDocumentStep ==
  ASSUME LifeInv, NEW t \in Threads, ReadDocument(t)
  PROVE  Inside(t) /\ Typed'
<1>1. Moves(t, "get", "end") /\ UNCHANGED <<dir, log, doc>>
  BY DEF ReadDocument
<1>2. pc[t] = "get" /\ "get" \in OpPCs /\ "end" \in OpPCs
  BY <1>1 DEF Moves, OpPCs, PCs
<1>3. Fits(job[t].op, "end")
  BY <1>2, OpAt DEF Fits
<1> QED BY <1>1, <1>2, <1>3, PlainMove

LEMMA LockCancelledStep ==
  ASSUME LifeInv, NEW t \in Threads, LockCancelled(t)
  PROVE  Inside(t) /\ Typed'
<1>1. Moves(t, "lockWait", "end") /\ UNCHANGED <<dir, log, doc>>
  BY DEF LockCancelled
<1>2. pc[t] = "lockWait" /\ "lockWait" \in OpPCs /\ "end" \in OpPCs
  BY <1>1 DEF Moves, OpPCs, PCs
<1>3. Fits(job[t].op, "end")
  BY <1>2, OpAt DEF Fits
<1> QED BY <1>1, <1>2, <1>3, PlainMove

LEMMA OpenAppendStep ==
  ASSUME LifeInv, NEW t \in Threads, OpenAppend(t)
  PROVE  /\ Inside(t) /\ Typed'
         /\ log'.lines = log.lines /\ log'.safe = log.safe /\ log'.tail = log.tail
         /\ log'.entry = (IF log.entry = "absent" THEN "linked" ELSE log.entry)
<1> DEFINE e == IF log.entry = "absent" THEN "linked" ELSE log.entry
<1>1. Moves(t, "open", "lockLog") /\ log' = [log EXCEPT !.entry = e] /\ UNCHANGED <<dir, doc>>
  BY DEF OpenAppend
<1>2. pc[t] = "open" /\ "open" \in OpPCs /\ "lockLog" \in OpPCs
  BY <1>1 DEF Moves, OpPCs, PCs
<1>3. Fits(job[t].op, "lockLog")
  BY <1>2, OpAt DEF Fits
<1>4. Inside(t) /\ pc' \in [Threads -> PCs]
  BY <1>1, <1>2, <1>3, MoveIsInside
<1>5. e \in Presence
  BY FilesTyped DEF Logs, Presence
<1>6. log' \in Logs /\ log'.lines = log.lines /\ log'.safe = log.safe /\ log'.entry = e
  <2> HIDE DEF e
  <2> QED BY <1>1, <1>5, FilesTyped DEF Logs
<1>7. log'.tail = log.tail
  BY <1>1, FilesTyped, Zenon DEF Logs
<1>8. dir' \in Presence /\ doc' \in Docs /\ doc'.safe <= Len(doc'.pubs)
  BY <1>1 DEF LifeInv, Typed
<1>9. log'.safe <= Len(log'.lines)
  BY <1>6, FilesTyped
<1>10. Typed'
  BY <1>1, <1>4, <1>6, <1>8, <1>9, MoveTyped
<1> QED BY <1>4, <1>6, <1>7, <1>10

\* The unterminated tail that a writer leaves or cuts off.
LEMMA TailUpdate ==
  ASSUME NEW l \in Logs, NEW b \in BOOLEAN
  PROVE  LET m == [l EXCEPT !.tail = b, !.dirty = TRUE] IN
         /\ m \in Logs
         /\ m.lines = l.lines /\ m.safe = l.safe /\ m.entry = l.entry /\ m.tail = b
<1> DEFINE m == [l EXCEPT !.tail = b, !.dirty = TRUE]
<1>1. m \in Logs /\ m.lines = l.lines /\ m.safe = l.safe /\ m.entry = l.entry
  BY DEF Logs
<1>2. m.tail = b
  BY Zenon DEF Logs
<1> QED BY <1>1, <1>2

LEMMA RecoverTailStep ==
  ASSUME LifeInv, NEW t \in Threads, RecoverTail(t)
  PROVE  /\ Inside(t) /\ Typed'
         /\ log'.lines = log.lines /\ log'.safe = log.safe /\ log'.entry = log.entry
         /\ log' = log \/ ~log'.tail
         /\ pc'[t] \in {"end", "syncRecovered", Recovered(t)}
         /\ Torn \notin {log.lines[i] : i \in 1..Len(log.lines)} /\ log.tail => ~log'.tail
         /\ pc'[t] # "end" => ~log'.tail
<1> DEFINE malformed == Torn \in {log.lines[i] : i \in 1..Len(log.lines)}
           to == IF malformed THEN "end" ELSE IF log.tail THEN "syncRecovered" ELSE Recovered(t)
           cut == [log EXCEPT !.tail = FALSE, !.dirty = TRUE]
<1>1. Moves(t, "recover", to) /\ UNCHANGED <<dir, doc>>
  BY DEF RecoverTail
<1>2. log' = IF log.tail /\ ~malformed THEN cut ELSE log
  BY DEF RecoverTail
<1>3. pc[t] = "recover" /\ "recover" \in OpPCs
  BY <1>1 DEF Moves, OpPCs, PCs
<1>4. Op(t) = job[t].op /\ Op(t) \in {"append", "recover"}
  BY <1>3, OpAt DEF Fits
<1>5. to \in {"end", "syncRecovered", Recovered(t)} /\ to \in OpPCs /\ Fits(job[t].op, to)
  BY <1>4 DEF Recovered, OpPCs, PCs, Fits
<1>6. cut \in Logs /\ cut.lines = log.lines /\ cut.safe = log.safe /\ cut.entry = log.entry /\ cut.tail = FALSE
  BY FilesTyped, TailUpdate
<1>7. to # "end" => ~malformed
  OBVIOUS
<1>8. Recovered(t) # "end"
  BY DEF Recovered
<1>9. log.tail \in BOOLEAN
  BY FilesTyped DEF Logs
<1> HIDE DEF malformed, cut
<1>10. Inside(t) /\ pc' \in [Threads -> PCs] /\ pc'[t] = to
  <2> HIDE DEF to
  <2> QED BY <1>1, <1>3, <1>5, MoveIsInside
<1>11. log' \in Logs /\ log'.lines = log.lines /\ log'.safe = log.safe /\ log'.entry = log.entry
  BY <1>2, <1>6, FilesTyped
<1>12. log'.safe <= Len(log'.lines) /\ dir' \in Presence /\ doc' \in Docs /\ doc'.safe <= Len(doc'.pubs)
  BY <1>1, <1>11 DEF LifeInv, Typed
<1>13. Typed'
  <2> HIDE DEF to
  <2> QED BY <1>1, <1>10, <1>11, <1>12, MoveTyped
<1>14. (log' = log \/ ~log'.tail) /\ (~malformed /\ log.tail => ~log'.tail)
  BY <1>2, <1>6
<1>15. pc'[t] # "end" => ~log'.tail
  BY <1>2, <1>6, <1>7, <1>9, <1>10
<1>16. Torn \notin {log.lines[i] : i \in 1..Len(log.lines)} /\ log.tail => ~log'.tail
  BY <1>14 DEF malformed
<1> QED BY <1>5, <1>10, <1>11, <1>13, <1>14, <1>15, <1>16

LEMMA SyncRecoveredStep ==
  ASSUME LifeInv, NEW t \in Threads, SyncRecovered(t)
  PROVE  Inside(t) /\ Typed' /\ pc[t] = "syncRecovered" /\ pc'[t] = Recovered(t)
<1> DEFINE to == Recovered(t)
<1>1. Moves(t, "syncRecovered", to) /\ FileSynced /\ UNCHANGED <<dir, doc>>
  BY DEF SyncRecovered
<1>2. pc[t] = "syncRecovered" /\ "syncRecovered" \in OpPCs
  BY <1>1 DEF Moves, OpPCs, PCs
<1>3. Op(t) = job[t].op /\ Op(t) \in {"append", "recover"}
  BY <1>2, OpAt DEF Fits
<1>4. to \in OpPCs /\ Fits(job[t].op, to)
  BY <1>3 DEF Recovered, OpPCs, PCs, Fits
<1> HIDE DEF to
<1>5. Inside(t) /\ pc' \in [Threads -> PCs] /\ pc'[t] = to
  BY <1>1, <1>2, <1>4, MoveIsInside
<1>6. log' \in Logs /\ log'.safe <= Len(log'.lines)
  BY <1>1, FileSyncedTyped
<1>7. dir' \in Presence /\ doc' \in Docs /\ doc'.safe <= Len(doc'.pubs)
  BY <1>1 DEF LifeInv, Typed
<1>8. Typed'
  BY <1>1, <1>5, <1>6, <1>7, MoveTyped
<1> QED BY <1>2, <1>5, <1>8 DEF to

LEMMA SyncLogStep ==
  ASSUME LifeInv, NEW t \in Threads, SyncLog(t)
  PROVE  Inside(t) /\ Typed' /\ pc[t] = "sync" /\ pc'[t] = "syncDir"
<1>1. Moves(t, "sync", "syncDir") /\ FileSynced /\ UNCHANGED <<dir, doc>>
  BY DEF SyncLog
<1>2. pc[t] = "sync" /\ "sync" \in OpPCs /\ "syncDir" \in OpPCs
  BY <1>1 DEF Moves, OpPCs, PCs
<1>3. Fits(job[t].op, "syncDir")
  BY <1>2, OpAt DEF Fits
<1>4. Inside(t) /\ pc' \in [Threads -> PCs] /\ pc'[t] = "syncDir"
  BY <1>1, <1>2, <1>3, MoveIsInside
<1>5. log' \in Logs /\ log'.safe <= Len(log'.lines)
  BY <1>1, FileSyncedTyped
<1>6. dir' \in Presence /\ doc' \in Docs /\ doc'.safe <= Len(doc'.pubs)
  BY <1>1 DEF LifeInv, Typed
<1>7. Typed'
  BY <1>1, <1>4, <1>5, <1>6, MoveTyped
<1> QED BY <1>2, <1>4, <1>7

LEMMA SyncLockDirStep ==
  ASSUME LifeInv, NEW t \in Threads, SyncLockDir(t)
  PROVE  Inside(t) /\ Typed'
<1>1. Moves(t, "syncLockDir", "lockWait") /\ DirSynced /\ dir' = dir
  BY DEF SyncLockDir
<1>2. pc[t] = "syncLockDir" /\ "syncLockDir" \in OpPCs /\ "lockWait" \in OpPCs
  BY <1>1 DEF Moves, OpPCs, PCs
<1>3. Fits(job[t].op, "lockWait")
  BY <1>2, OpAt DEF Fits
<1>4. Inside(t) /\ pc' \in [Threads -> PCs]
  BY <1>1, <1>2, <1>3, MoveIsInside
<1>5. dir' \in Presence
  BY <1>1 DEF LifeInv, Typed
<1> QED BY <1>1, <1>4, <1>5, MoveTyped, DirSyncedTyped

LEMMA WriteLineStep ==
  ASSUME LifeInv, NEW t \in Threads, WriteLine(t)
  PROVE  /\ Inside(t) /\ Typed' /\ pc[t] = "write"
         /\ pc'[t] = (IF log.tail THEN "writeTorn" ELSE "writeRest")
         /\ log'.lines = log.lines /\ log'.safe = log.safe /\ log'.entry = log.entry
<1> DEFINE to == IF log.tail THEN "writeTorn" ELSE "writeRest"
<1>1. Moves(t, "write", to) /\ log' = [log EXCEPT !.tail = TRUE, !.dirty = TRUE] /\ UNCHANGED <<dir, doc>>
  BY DEF WriteLine
<1>2. pc[t] = "write" /\ "write" \in OpPCs /\ to \in OpPCs
  BY <1>1 DEF Moves, OpPCs, PCs
<1>3. Fits(job[t].op, to)
  BY <1>2, OpAt DEF Fits
<1>4. log' \in Logs /\ log'.lines = log.lines /\ log'.safe = log.safe /\ log'.entry = log.entry
  BY <1>1, FilesTyped, TailUpdate
<1>5. log'.safe <= Len(log'.lines) /\ dir' \in Presence /\ doc' \in Docs /\ doc'.safe <= Len(doc'.pubs)
  BY <1>1, <1>4 DEF LifeInv, Typed
<1> HIDE DEF to
<1>6. Inside(t) /\ pc' \in [Threads -> PCs] /\ pc'[t] = to
  BY <1>1, <1>2, <1>3, MoveIsInside
<1>7. Typed'
  BY <1>1, <1>4, <1>5, <1>6, MoveTyped
<1> QED BY <1>2, <1>4, <1>6, <1>7 DEF to

\* The length a callback remembers of the stream.
LEMMA SawUpdate ==
  ASSUME job \in [Threads -> Jobs], NEW t \in Threads, NEW x \in Nat \cup {None},
         job' = [job EXCEPT ![t].saw = x]
  PROVE  /\ job' \in [Threads -> Jobs]
         /\ job'[t].op = job[t].op /\ job'[t].id = job[t].id /\ job'[t].via = job[t].via
         /\ job'[t].saw = x
         /\ \A u \in Threads \ {t} : job'[u] = job[u]
<1> DEFINE r == [job[t] EXCEPT !.saw = x]
<1>1. job[t] \in Jobs
  OBVIOUS
<1>2. /\ r \in Jobs
      /\ r.op = job[t].op /\ r.id = job[t].id /\ r.via = job[t].via /\ r.saw = x
  BY <1>1 DEF Jobs
<1>3. job' = [job EXCEPT ![t] = r]
  OBVIOUS
<1> HIDE DEF r
<1> QED BY <1>2, <1>3

LEMMA ReadLogStep ==
  ASSUME LifeInv, NEW t \in Threads, ReadLog(t)
  PROVE  /\ Inside(t) /\ Typed' /\ pc[t] = "read" /\ pc'[t] = "end"
         /\ job'[t].saw = job[t].saw \/ job'[t].saw = Len(log.lines)
<1> DEFINE x == IF job[t].via = t /\ ~log.tail THEN Len(log.lines) ELSE job[t].saw
<1>1. /\ pc[t] = "read" /\ Goto(t, "end") /\ job' = [job EXCEPT ![t].saw = x]
      /\ UNCHANGED <<handle, view, files, temp, history, calls, faults, setting>>
  BY DEF ReadLog
<1>2. job \in [Threads -> Jobs] /\ x \in Nat \cup {None}
  <2>1. job \in [Threads -> Jobs] /\ job[t] \in Jobs
    BY DEF LifeInv, Typed
  <2>2. job[t].saw \in Nat \cup {None}
    BY <2>1 DEF Jobs
  <2> QED BY <2>1, <2>2, FilesTyped
<1>3. x = job[t].saw \/ x = Len(log.lines)
  OBVIOUS
<1>4. x # None => job[t].saw # None \/ job[t].via = t
  OBVIOUS
<1> HIDE DEF x
<1>5. /\ job' \in [Threads -> Jobs]
      /\ job'[t].op = job[t].op /\ job'[t].id = job[t].id /\ job'[t].via = job[t].via
      /\ job'[t].saw = x
      /\ \A u \in Threads \ {t} : job'[u] = job[u]
  BY <1>1, <1>2, SawUpdate
<1>6. pc[t] \in OpPCs /\ pc'[t] = "end" /\ pc'[t] \in OpPCs /\ pc' \in [Threads -> PCs]
  BY <1>1 DEF Goto, OpPCs, PCs, LifeInv, Typed
<1>7. Fits(job[t].op, pc'[t])
  BY <1>1, <1>6, OpAt DEF Fits
<1>8. Others(t)
  BY <1>1, <1>5 DEF Others, Goto, LifeInv, Typed
<1>9. Inside(t)
  BY <1>1, <1>4, <1>5, <1>6, <1>7, <1>8 DEF Inside
<1>10. Typed'
  BY <1>1, <1>5, <1>6 DEF LifeInv, Typed, files, history
<1> QED BY <1>1, <1>3, <1>5, <1>6, <1>9, <1>10

\* The identity of an operation that writes.
LEMMA WriterId ==
  ASSUME LifeInv, NEW t \in Threads, pc[t] \in OpPCs, job[t].op \in {"append", "write"}
  PROVE  job[t].id \in Ids /\ job[t].id \in 1..calls
<1>1. job[t].id # 0 /\ job[t].id <= calls
  BY DEF LifeInv, Place, Distinct
<1>2. job[t].id \in 0..MaxCalls /\ calls \in Nat /\ MaxCalls \in Nat
  BY RootedConstantsAssumption DEF LifeInv, Typed, Jobs
<1> QED BY <1>1, <1>2 DEF Ids

LEMMA WriteNewlineStep ==
  ASSUME LifeInv, NEW t \in Threads, WriteNewline(t)
  PROVE  /\ Inside(t) /\ Typed' /\ pc[t] \in {"writeRest", "writeTorn"} /\ pc'[t] = "sync"
         /\ log'.lines = Append(log.lines, IF pc[t] = "writeRest" THEN job[t].id ELSE Torn)
         /\ log'.safe = log.safe /\ log'.tail = FALSE /\ log'.entry = log.entry
         /\ job'[t].saw = IF job[t].saw = None THEN None ELSE Len(log'.lines)
<1> DEFINE line == IF pc[t] = "writeRest" THEN job[t].id ELSE Torn
           lines == Append(log.lines, line)
           x == IF job[t].saw = None THEN None ELSE Len(log'.lines)
           g == IF job[t].via = None THEN guarded ELSE guarded \cup {<<job[t].id, job[t].via>>}
<1>1. /\ pc[t] \in {"writeRest", "writeTorn"} /\ Goto(t, "sync")
      /\ log' = [log EXCEPT !.tail = FALSE, !.lines = lines]
      /\ guarded' = g
      /\ job' = [job EXCEPT ![t].saw = x]
      /\ UNCHANGED <<handle, view, dir, lockFile, doc, temp, acked, calls, faults, setting>>
  BY DEF WriteNewline
<1>2. pc[t] \in OpPCs /\ pc'[t] = "sync" /\ pc'[t] \in OpPCs /\ pc' \in [Threads -> PCs]
  BY <1>1 DEF Goto, OpPCs, PCs, LifeInv, Typed
<1>3. job[t].op = "append" /\ Fits(job[t].op, pc'[t])
  BY <1>1, <1>2, OpAt DEF Fits
<1>4. job[t].id \in Ids
  BY <1>2, <1>3, WriterId
<1>5. lines \in Seq(Ids \cup {Torn}) /\ Len(lines) = Len(log.lines) + 1
  BY <1>4, FilesTyped
<1>6. job \in [Threads -> Jobs] /\ job[t] \in Jobs
  BY DEF LifeInv, Typed
<1>7. g \in SUBSET (Ids \X Threads)
  BY <1>4, <1>6 DEF LifeInv, Typed, Jobs
<1>8. /\ log' \in Logs /\ log'.lines = lines /\ log'.safe = log.safe /\ log'.entry = log.entry
      /\ log'.tail = FALSE
  <2> HIDE DEF lines
  <2>1. log' \in Logs /\ log'.lines = lines /\ log'.safe = log.safe /\ log'.entry = log.entry
    BY <1>1, <1>5, FilesTyped DEF Logs
  <2>2. log'.tail = FALSE
    BY <1>1, FilesTyped, Zenon DEF Logs
  <2> QED BY <2>1, <2>2
<1>9. log'.safe <= Len(log'.lines) /\ Len(log'.lines) \in Nat
  BY <1>5, <1>8, FilesTyped
<1>10. x \in Nat \cup {None}
  BY <1>9
<1>11. x # None => job[t].saw # None
  OBVIOUS
<1> HIDE DEF lines, x, g
<1>12. /\ job' \in [Threads -> Jobs]
       /\ job'[t].op = job[t].op /\ job'[t].id = job[t].id /\ job'[t].via = job[t].via
       /\ job'[t].saw = x
       /\ \A u \in Threads \ {t} : job'[u] = job[u]
  BY <1>1, <1>6, <1>10, SawUpdate
<1>13. Others(t)
  BY <1>1, <1>12 DEF Others, Goto, LifeInv, Typed
<1>14. Inside(t)
  BY <1>1, <1>2, <1>3, <1>11, <1>12, <1>13 DEF Inside
<1>15. Typed'
  BY <1>1, <1>2, <1>7, <1>8, <1>9, <1>12 DEF LifeInv, Typed
<1> QED BY <1>1, <1>2, <1>8, <1>12, <1>14, <1>15 DEF lines, x

LEMMA WriteTempStep ==
  ASSUME LifeInv, NEW t \in Threads, WriteTemp(t)
  PROVE  Inside(t) /\ Typed' /\ pc[t] = "openTemp" /\ pc'[t] = "syncTemp"
<1>1. pc[t] = "openTemp" /\ pc[t] \in OpPCs /\ "syncTemp" \in OpPCs
  BY DEF WriteTemp, OpPCs, PCs
<1>2. Fits(job[t].op, "syncTemp")
  BY <1>1, OpAt DEF Fits
<1>3. Inside(t) /\ pc' \in [Threads -> PCs] /\ pc'[t] = "syncTemp"
  BY <1>1, <1>2, GotoIsInside DEF WriteTemp
<1> QED BY <1>1, <1>3 DEF WriteTemp, LifeInv, Typed, files, history

LEMMA SyncTempStep ==
  ASSUME LifeInv, NEW t \in Threads, SyncTemp(t)
  PROVE  Inside(t) /\ Typed' /\ pc[t] = "syncTemp" /\ pc'[t] = "rename" /\ temp'[t] = "synced"
<1>1. pc[t] = "syncTemp" /\ pc[t] \in OpPCs /\ "rename" \in OpPCs
  BY DEF SyncTemp, OpPCs, PCs
<1>2. Fits(job[t].op, "rename")
  BY <1>1, OpAt DEF Fits
<1>3. Inside(t) /\ pc' \in [Threads -> PCs] /\ pc'[t] = "rename"
  BY <1>1, <1>2, GotoIsInside DEF SyncTemp
<1> QED BY <1>1, <1>3 DEF SyncTemp, LifeInv, Typed, files, history

LEMMA RenameStep ==
  ASSUME LifeInv, NEW t \in Threads, Rename(t)
  PROVE  /\ Inside(t) /\ Typed' /\ pc[t] = "rename" /\ pc'[t] = "syncDir"
         /\ job[t].op = "write" /\ job[t].id \in Ids
         /\ doc'.pubs = Append(doc.pubs, job[t].id) /\ doc'.safe = doc.safe
         /\ temp[t] = "synced" => doc'.soft = doc.soft
<1> DEFINE pubs == Append(doc.pubs, job[t].id)
           soft == IF temp[t] = "synced" THEN doc.soft ELSE doc.soft \cup {job[t].id}
<1>1. /\ pc[t] = "rename" /\ Goto(t, "syncDir")
      /\ doc' = [doc EXCEPT !.pubs = pubs, !.soft = soft]
      /\ temp' = [temp EXCEPT ![t] = "none"]
      /\ UNCHANGED <<handle, view, dir, lockFile, log, history, job, calls, faults, setting>>
  BY DEF Rename
<1>2. pc[t] \in OpPCs /\ "syncDir" \in OpPCs
  BY <1>1 DEF OpPCs, PCs
<1>3. job[t].op = "write" /\ Fits(job[t].op, "syncDir")
  BY <1>1, <1>2, OpAt DEF Fits
<1>4. job[t].id \in Ids
  BY <1>2, <1>3, WriterId
<1>5. pubs \in Seq(Ids \cup {Torn}) /\ Len(pubs) = Len(doc.pubs) + 1 /\ soft \in SUBSET Ids
  BY <1>4, FilesTyped
<1>6. Inside(t) /\ pc' \in [Threads -> PCs] /\ pc'[t] = "syncDir"
  BY <1>1, <1>2, <1>3, GotoIsInside
<1>7. doc' \in Docs /\ doc'.pubs = pubs /\ doc'.safe = doc.safe /\ doc'.soft = soft
  <2> HIDE DEF pubs, soft
  <2> QED BY <1>1, <1>5, FilesTyped DEF Docs
<1>8. doc'.safe <= Len(doc'.pubs)
  BY <1>5, <1>7, FilesTyped
<1>9. Typed'
  <2> HIDE DEF pubs, soft
  <2> QED BY <1>1, <1>6, <1>7, <1>8 DEF LifeInv, Typed, history
<1> QED BY <1>1, <1>3, <1>4, <1>6, <1>7, <1>9

LEMMA SyncDirStep ==
  ASSUME LifeInv, NEW t \in Threads, SyncDir(t)
  PROVE  /\ Inside(t) /\ Typed' /\ pc[t] = "syncDir" /\ pc'[t] = "end"
         /\ job[t].op \in {"append", "write"} /\ job[t].id \in Ids
         /\ acked'["log"] = (IF job[t].op = "append" THEN acked["log"] \cup {job[t].id} ELSE acked["log"])
         /\ acked'["doc"] = (IF job[t].op = "append" THEN acked["doc"] ELSE acked["doc"] \cup {job[t].id})
<1> DEFINE what == IF Op(t) = "append" THEN "log" ELSE "doc"
<1>1. /\ pc[t] = "syncDir" /\ Goto(t, "end") /\ DirSynced
      /\ acked' = [acked EXCEPT ![what] = acked[what] \cup {job[t].id}]
      /\ UNCHANGED <<handle, view, dir, lockFile, temp, guarded, job, calls, faults, setting>>
  BY DEF SyncDir
<1>2. pc[t] \in OpPCs /\ "end" \in OpPCs
  BY <1>1 DEF OpPCs, PCs
<1>3. job[t].op \in {"append", "write"} /\ Fits(job[t].op, "end")
  BY <1>1, <1>2, OpAt DEF Fits
<1>4. job[t].id \in Ids
  BY <1>2, <1>3, WriterId
<1>5. Inside(t) /\ pc' \in [Threads -> PCs] /\ pc'[t] = "end"
  BY <1>1, <1>2, <1>3, GotoIsInside
<1>6. /\ acked' \in [{"log", "doc"} -> SUBSET Ids]
      /\ acked'["log"] = (IF job[t].op = "append" THEN acked["log"] \cup {job[t].id} ELSE acked["log"])
      /\ acked'["doc"] = (IF job[t].op = "append" THEN acked["doc"] ELSE acked["doc"] \cup {job[t].id})
  BY <1>1, <1>4 DEF LifeInv, Typed, Op
<1>7. Typed'
  BY <1>1, <1>5, <1>6, DirSyncedTyped DEF LifeInv, Typed
<1> QED BY <1>1, <1>3, <1>4, <1>5, <1>6, <1>7

LEMMA OpenLockStep ==
  ASSUME LifeInv, NEW t \in Threads, OpenLock(t)
  PROVE  Inside(t) /\ Typed'
<1> DEFINE to == IF lockFile THEN "lockWait" ELSE "syncLockDir"
<1>1. /\ pc[t] = "openLock" /\ Goto(t, to) /\ lockFile' = TRUE
      /\ UNCHANGED <<handle, view, dir, log, doc, temp, history, job, calls, faults, setting>>
  BY DEF OpenLock
<1>2. pc[t] \in OpPCs /\ to \in OpPCs
  BY <1>1 DEF OpPCs, PCs
<1>3. Fits(job[t].op, to)
  BY <1>1, <1>2, OpAt DEF Fits
<1> HIDE DEF to
<1>4. Inside(t) /\ pc' \in [Threads -> PCs]
  BY <1>1, <1>2, <1>3, GotoIsInside
<1> QED BY <1>1, <1>4 DEF LifeInv, Typed, history

LEMMA StepFailsStep ==
  ASSUME LifeInv, NEW t \in Threads, StepFails(t)
  PROVE  /\ Inside(t) /\ Typed' /\ pc'[t] = "end" /\ faults' = faults + 1
         /\ log'.lines = log.lines /\ log'.safe = log.safe /\ log'.entry = log.entry
         /\ log' = log \/ pc[t] = "write"
<1> DEFINE torn == [log EXCEPT !.tail = TRUE, !.dirty = TRUE]
<1>1. /\ pc[t] \in HoldsMu \cup {"lockWait"} /\ Fault("error") /\ Goto(t, "end")
      /\ log' = log \/ (pc[t] = "write" /\ log' = torn)
      /\ temp' = [temp EXCEPT ![t] = "none"]
      /\ UNCHANGED <<handle, view, dir, lockFile, doc, history, job, calls, setting>>
  BY DEF StepFails
<1>2. pc[t] \in OpPCs /\ "end" \in OpPCs
  BY <1>1 DEF HoldsMu, OpPCs, PCs
<1>3. Fits(job[t].op, "end")
  BY <1>2, OpAt DEF Fits
<1>4. Inside(t) /\ pc' \in [Threads -> PCs] /\ pc'[t] = "end"
  BY <1>1, <1>2, <1>3, GotoIsInside
<1>5. torn \in Logs /\ torn.lines = log.lines /\ torn.safe = log.safe /\ torn.entry = log.entry
  BY FilesTyped, TailUpdate
<1> HIDE DEF torn
<1>6. /\ log' \in Logs /\ log'.lines = log.lines /\ log'.safe = log.safe /\ log'.entry = log.entry
      /\ log' = log \/ pc[t] = "write"
  BY <1>1, <1>5, FilesTyped
<1>7. faults' = faults + 1 /\ faults' \in 0..MaxFaults
  BY <1>1, RootedConstantsAssumption DEF Fault, LifeInv, Typed
<1>8. log'.safe <= Len(log'.lines)
  BY <1>6, FilesTyped
<1>9. Typed'
  BY <1>1, <1>4, <1>6, <1>7, <1>8 DEF LifeInv, Typed, history
<1> QED BY <1>4, <1>6, <1>7, <1>9

\* A step within an operation keeps the life of the handles.
LEMMA InsideLife ==
  ASSUME LifeInv, Typed', NEW t, Inside(t)
  PROVE  LifeInv'
<1>1. t \in Threads /\ pc[t] \in OpPCs /\ pc'[t] \in OpPCs /\ UNCHANGED <<setting, handle, view, calls>>
  BY DEF Inside
<1>2. \A u \in Threads : Home(u)' = Home(u)
  BY <1>1 DEF Home
<1>3. \A u \in Threads : /\ job'[u].op = job[u].op /\ job'[u].id = job[u].id /\ job'[u].via = job[u].via
                         /\ u # t => pc'[u] = pc[u] /\ job'[u] = job[u]
  BY DEF Inside, Others
<1>4. ASSUME NEW u \in Threads
      PROVE  Place(u)'
  <2>1. Place(u)
    BY DEF LifeInv
  <2>2. job'[u].via = None \/ job'[u].via \in Threads
    BY DEF Typed, Jobs
  <2>3. CASE u # t
    <3>1. pc'[u] = pc[u] /\ job'[u] = job[u] /\ view' = view
      BY <1>1, <1>3, <2>3
    <3>2. job'[u].via # None => Home(job[u].via)' = Home(job[u].via) /\ Home(u)' = Home(u)
      BY <1>2, <2>2, <3>1
    <3> QED BY <2>1, <3>1, <3>2 DEF Place
  <2>4. CASE u = t
    <3>1. job'[t].op = job[t].op /\ job'[t].id = job[t].id /\ job'[t].via = job[t].via /\ view' = view
      BY <1>1, <1>3
    <3>2. job'[u].via # None => Home(job[u].via)' = Home(job[u].via) /\ Home(u)' = Home(u)
      BY <1>2, <2>2, <2>4, <3>1
    <3>3. pc'[t] \notin {"idle", "callback", "drain", "closeRoot"}
      BY <1>1 DEF OpPCs
    <3>4. job'[t].saw # None => job[t].saw # None \/ job[t].via = t
      BY DEF Inside
    <3>5. Fits(job[t].op, pc'[t])
      BY DEF Inside
    <3>6. job'[t].saw # None => view[t] = "active" /\ job[t].op # "lock"
      <4>1. None # t
        BY <1>1, RootedConstantsAssumption
      <4>2. job[t].saw # None => view[t] = "active"
        BY <2>1, <2>4 DEF Place
      <4>3. job[t].via = t => view[t] = "active"
        BY <2>1, <2>4, <4>1 DEF Place
      <4>4. job[t].op = "lock" => view[t] # "active"
        BY <1>1, <2>1, <2>4 DEF Place
      <4> QED BY <3>4, <4>2, <4>3, <4>4
    <3> QED BY <1>1, <2>1, <2>4, <3>1, <3>2, <3>3, <3>5, <3>6 DEF Place
  <2> QED BY <2>3, <2>4
<1>5. OneView' /\ Distinct'
  BY <1>1, <1>3 DEF LifeInv, OneView, Distinct
<1>6. HandleInv'
  <2>1. ASSUME NEW h \in Handles
        PROVE  Busy(h)' = Busy(h) /\ Active(h)' = Active(h)
    BY <1>1, <1>2, <1>3 DEF Busy, Active
  <2> QED BY <1>1, <2>1 DEF HandleInv, LifeInv
<1>7. ClosingInv'
  <2>1. \A u \in Threads : pc'[u] \in {"drain", "closeRoot"} => pc'[u] = pc[u]
    BY <1>1, <1>3 DEF OpPCs
  <2> QED BY <1>1, <1>2, <2>1 DEF ClosingInv, LifeInv
<1> QED BY <1>4, <1>5, <1>6, <1>7 DEF LifeInv

-----------------------------------------------------------------------------
(* An operation begins. *)

LEMMA EnterEffect ==
  ASSUME LifeInv, NEW t \in Threads, NEW op \in (PublicOps \cup ViewOps) \ {"close"},
         NEW via \in Threads \cup {None}, Enter(t, op, via), UNCHANGED setting
  PROVE  /\ Enters(t, op, via)
         /\ job' \in [Threads -> Jobs] /\ pc' \in [Threads -> PCs] /\ calls' \in 0..MaxCalls
         /\ pc'[t] = FirstStep(op)
<1> DEFINE i == IF op \in {"append", "write"} THEN calls + 1 ELSE 0
           s == IF op = "lock" THEN None ELSE job[t].saw
           r == [op |-> op, via |-> via, id |-> i, saw |-> s]
<1>1. calls \in Nat /\ calls < setting.calls /\ setting.calls \in 0..MaxCalls /\ MaxCalls \in Nat
  BY RootedConstantsAssumption DEF Enter, LifeInv, Typed
<1>2. calls' = calls + 1 /\ calls' \in 0..MaxCalls /\ i \in 0..MaxCalls
  BY <1>1 DEF Enter
<1>3. job \in [Threads -> Jobs] /\ job[t] \in Jobs
  BY DEF LifeInv, Typed
<1>4. s \in Nat \cup {None}
  BY <1>3 DEF Jobs
<1>5. job' = [job EXCEPT ![t] = r]
  BY DEF Enter
<1>6. r \in Jobs /\ r.op = op /\ r.via = via /\ r.id = i /\ r.saw = s
  <2> HIDE DEF i, s
  <2> QED BY <1>2, <1>4 DEF Jobs
<1>7. FirstStep(op) \in OpPCs /\ Fits(op, FirstStep(op))
  BY FirstStepFits
<1>8. pc' \in [Threads -> PCs] /\ pc'[t] = FirstStep(op) /\ \A u \in Threads \ {t} : pc'[u] = pc[u]
  BY <1>7 DEF Enter, Goto, OpPCs, LifeInv, Typed
<1>9. job' \in [Threads -> Jobs] /\ job'[t] = r /\ \A u \in Threads \ {t} : job'[u] = job[u]
  <2> HIDE DEF r
  <2> QED BY <1>3, <1>5, <1>6
<1>10. Others(t)
  BY <1>8, <1>9 DEF Others
<1>11. Enters(t, op, via)
  <2> HIDE DEF r
  <2> QED BY <1>2, <1>6, <1>7, <1>8, <1>9, <1>10 DEF Enters
<1> QED BY <1>2, <1>8, <1>9, <1>11

\* Identities stay distinct when an operation begins.
LEMMA EntersDistinct ==
  ASSUME LifeInv, NEW t, NEW op, NEW via, Enters(t, op, via)
  PROVE  Distinct'
<1>1. \A u \in Threads : job[u].id \in Nat /\ job[u].id <= calls /\ calls \in Nat
  BY RootedConstantsAssumption DEF LifeInv, Typed, Jobs, Distinct
<1>2. \A u \in Threads \ {t} : job'[u].id = job[u].id
  BY DEF Enters, Others
<1>3. t \in Threads /\ calls' = calls + 1 /\ job'[t].id \in {0, calls + 1}
  BY DEF Enters
<1>4. \A u \in Threads : job'[u].id <= calls'
  BY <1>1, <1>2, <1>3
<1>5. ASSUME NEW u \in Threads, NEW v \in Threads, job'[u].id # 0, job'[u].id = job'[v].id
      PROVE  u = v
  <2>1. CASE u = t /\ v # t
    BY <1>1, <1>2, <1>3, <1>5, <2>1
  <2>2. CASE u # t /\ v = t
    BY <1>1, <1>2, <1>3, <1>5, <2>2
  <2>3. CASE u # t /\ v # t
    BY <1>2, <1>5, <2>3 DEF LifeInv, Distinct
  <2>4. CASE u = t /\ v = t
    BY <2>4
  <2> QED BY <2>1, <2>2, <2>3, <2>4
<1> QED BY <1>4, <1>5 DEF Distinct

\* The record of one handle changes.
LEMMA HandleUpdate ==
  ASSUME Typed, NEW h \in Handles, NEW r \in Leases, handle' = [handle EXCEPT ![h] = r]
  PROVE  handle' \in [Handles -> Leases] /\ handle'[h] = r /\ \A g \in Handles \ {h} : handle'[g] = handle[g]
BY DEF Typed

LEMMA CountUpdate ==
  ASSUME NEW l \in Leases, NEW n \in Nat
  PROVE  LET r == [l EXCEPT !.operations = n] IN
         r \in Leases /\ r.operations = n /\ r.life = l.life /\ r.root = l.root
<1> DEFINE r == [l EXCEPT !.operations = n]
<1>1. r \in Leases /\ r.operations = n /\ r.life = l.life
  BY DEF Leases
<1>2. r.root = l.root
  BY Zenon DEF Leases
<1> QED BY <1>1, <1>2

LEMMA LeaseType ==
  ASSUME Typed, NEW h \in Handles
  PROVE  handle[h] \in Leases /\ handle[h].operations \in Nat
BY DEF Typed, Leases

LEMMA BeginEffect ==
  ASSUME LifeInv, NEW t \in Threads, NEW op \in PublicOps, BeginOperation(t, op)
  PROVE  /\ Typed' /\ Enters(t, op, None) /\ op # "close"
         /\ pc[t] = "idle" \/ (pc[t] = "callback" /\ op # "lock")
         /\ handle[Home(t)].life = "open"
         /\ handle'[Home(t)].operations = handle[Home(t)].operations + 1
         /\ handle'[Home(t)].life = handle[Home(t)].life /\ handle'[Home(t)].root = handle[Home(t)].root
         /\ \A g \in Handles \ {Home(t)} : handle'[g] = handle[g]
         /\ view'[t] = (IF op = "lock" THEN "none" ELSE view[t])
         /\ \A u \in Threads \ {t} : view'[u] = view[u]
<1> DEFINE h == Home(t)
           n == handle[h].operations + 1
           r == [handle[h] EXCEPT !.operations = n]
<1>1. /\ op # "close"
      /\ pc[t] = "idle" \/ (pc[t] = "callback" /\ op # "lock")
      /\ handle[h].life = "open"
      /\ Enter(t, op, None)
      /\ UNCHANGED <<files, temp, history, faults, setting>>
      /\ handle' = [handle EXCEPT ![h] = r]
      /\ view' = [view EXCEPT ![t] = IF op = "lock" THEN "none" ELSE view[t]]
  BY DEF BeginOperation
<1>2. h \in Handles
  BY HomeType DEF LifeInv
<1>3. handle[h] \in Leases /\ n \in Nat
  BY <1>2, LeaseType DEF LifeInv
<1>4. r \in Leases /\ r.operations = n /\ r.life = handle[h].life /\ r.root = handle[h].root
  <2> HIDE DEF n, h
  <2> QED BY <1>3, CountUpdate, Zenon
<1>5. handle' \in [Handles -> Leases] /\ handle'[h] = r /\ \A g \in Handles \ {h} : handle'[g] = handle[g]
  <2> HIDE DEF r, h
  <2> QED BY <1>1, <1>2, <1>4, HandleUpdate DEF LifeInv
<1>6. /\ Enters(t, op, None)
      /\ job' \in [Threads -> Jobs] /\ pc' \in [Threads -> PCs] /\ calls' \in 0..MaxCalls
  BY <1>1, EnterEffect
<1>7. /\ view' \in [Threads -> {"none", "active", "expired"}]
      /\ view'[t] = (IF op = "lock" THEN "none" ELSE view[t])
      /\ \A u \in Threads \ {t} : view'[u] = view[u]
  BY <1>1 DEF LifeInv, Typed
<1> HIDE DEF r
<1>8. Typed'
  BY <1>1, <1>5, <1>6, <1>7 DEF LifeInv, Typed, files, history
<1>9. /\ handle'[h].operations = handle[h].operations + 1
      /\ handle'[h].life = handle[h].life /\ handle'[h].root = handle[h].root
  BY <1>4, <1>5
<1> QED BY <1>1, <1>5, <1>6, <1>7, <1>8, <1>9

LEMMA BeginLife ==
  ASSUME LifeInv, NEW t \in Threads, NEW op \in PublicOps, BeginOperation(t, op)
  PROVE  LifeInv'
<1> DEFINE h == Home(t)
<1>1. /\ Typed' /\ Enters(t, op, None)
      /\ pc[t] = "idle" \/ (pc[t] = "callback" /\ op # "lock")
      /\ handle[h].life = "open"
      /\ handle'[h].operations = handle[h].operations + 1
      /\ handle'[h].life = handle[h].life /\ handle'[h].root = handle[h].root
      /\ \A g \in Handles \ {h} : handle'[g] = handle[g]
      /\ view'[t] = (IF op = "lock" THEN "none" ELSE view[t])
      /\ \A u \in Threads \ {t} : view'[u] = view[u]
  BY BeginEffect
<1>2. h \in Handles /\ \A u \in Threads : Home(u)' = Home(u)
  BY <1>1, HomeType DEF LifeInv, Enters, Home
<1>3. pc[t] \notin OpPCs /\ pc'[t] \in OpPCs /\ pc'[t] \notin {"idle", "callback", "drain", "closeRoot"}
  BY <1>1 DEF OpPCs, Enters
<1>4. \A u \in Threads \ {t} : pc'[u] = pc[u] /\ job'[u] = job[u]
  BY <1>1 DEF Enters, Others
<1>5. op = "lock" => view[t] # "active"
  BY <1>1 DEF LifeInv, Place
<1>6. \A u \in Threads : view'[u] = "active" <=> view[u] = "active"
  BY <1>1, <1>5
<1>7. ASSUME NEW u \in Threads
      PROVE  Place(u)'
  <2>1. Place(u) /\ (job'[u].via = None \/ job'[u].via \in Threads)
    BY <1>1 DEF LifeInv, Typed, Jobs
  <2>2. CASE u = t
    <3>1. /\ job'[t].op = op /\ job'[t].via = None
          /\ job'[t].id = (IF op \in {"append", "write"} THEN calls + 1 ELSE 0)
          /\ job'[t].saw = (IF op = "lock" THEN None ELSE job[t].saw)
          /\ Fits(op, pc'[t])
      BY <1>1 DEF Enters
    <3>2. calls + 1 # 0
      BY RootedConstantsAssumption DEF LifeInv, Typed
    <3>3. job'[t].saw # None => view'[t] = "active"
      BY <1>6, <2>1, <2>2, <3>1 DEF Place
    <3> QED BY <1>1, <1>3, <1>5, <1>6, <2>2, <3>1, <3>2, <3>3 DEF Place
  <2>3. CASE u # t
    <3>1. pc'[u] = pc[u] /\ job'[u] = job[u] /\ view'[u] = view[u]
      BY <1>1, <1>4, <2>3
    <3>2. job'[u].via # None => /\ Home(job[u].via)' = Home(job[u].via) /\ Home(u)' = Home(u)
                                /\ view'[job[u].via] = "active" <=> view[job[u].via] = "active"
      BY <1>2, <1>6, <2>1, <3>1
    <3> QED BY <2>1, <3>1, <3>2 DEF Place
  <2> QED BY <2>2, <2>3
<1>8. OneView'
  BY <1>6 DEF LifeInv, OneView
<1>9. Distinct'
  BY <1>1, EntersDistinct
<1>10. HandleInv'
  <2>1. ASSUME NEW g \in Handles
        PROVE  Active(g)' = Active(g) /\ Busy(g)' = IF g = h THEN Busy(g) \cup {t} ELSE Busy(g)
    <3>1. Active(g)' = Active(g)
      BY <1>2, <1>6 DEF Active
    <3>2. job'[t].via = None
      BY <1>1 DEF Enters
    <3> QED BY <1>2, <1>3, <1>4, <3>1, <3>2 DEF Busy
  <2>2. Cardinality(Busy(h) \cup {t}) = Cardinality(Busy(h)) + 1
    <3>1. Busy(h) \subseteq Threads /\ t \notin Busy(h)
      BY <1>3 DEF Busy
    <3> QED BY <3>1, AddThread
  <2>3. Cardinality(Busy(h)) \in Nat /\ Cardinality(Active(h)) \in Nat
    BY PartFinite DEF Busy, Active
  <2>4. ASSUME NEW g \in Handles
        PROVE  /\ handle'[g].operations = Cardinality(Busy(g)') + Cardinality(Active(g)')
               /\ handle'[g].life = "closed" => handle'[g].operations = 0
               /\ ~handle'[g].root => handle'[g].life = "closed"
    <3>1. /\ handle[g].operations = Cardinality(Busy(g)) + Cardinality(Active(g))
          /\ handle[g].life = "closed" => handle[g].operations = 0
          /\ ~handle[g].root => handle[g].life = "closed"
      BY DEF LifeInv, HandleInv
    <3>2. CASE g # h
      BY <1>1, <2>1, <3>1, <3>2
    <3>3. CASE g = h
      <4>1. Busy(g)' = Busy(g) \cup {t} /\ Active(g)' = Active(g)
        BY <2>1, <3>3
      <4>2. handle'[g].operations = Cardinality(Busy(g)') + Cardinality(Active(g)')
        BY <1>1, <2>2, <2>3, <3>1, <3>3, <4>1
      <4> QED BY <1>1, <3>1, <3>3, <4>2
    <3> QED BY <3>2, <3>3
  <2> QED BY <2>4 DEF HandleInv
<1>11. ClosingInv'
  <2>1. \A u \in Threads : pc'[u] \in {"drain", "closeRoot"} => pc'[u] = pc[u]
    BY <1>3, <1>4
  <2>2. \A u \in Threads : handle'[Home(u)].life = handle[Home(u)].life
    BY <1>1, HomeType DEF LifeInv
  <2> QED BY <1>2, <2>1, <2>2 DEF ClosingInv, LifeInv
<1> QED BY <1>1, <1>7, <1>8, <1>9, <1>10, <1>11 DEF LifeInv

\* A thread that the step leaves alone, with the view it may work through.
LEMMA PlaceKept ==
  ASSUME LifeInv, NEW u \in Threads, UNCHANGED setting, pc'[u] = pc[u], job'[u] = job[u],
         view'[u] = "active" <=> view[u] = "active",
         job[u].via # None => view'[job[u].via] = "active"
  PROVE  Place(u)'
<1>1. Place(u) /\ (job[u].via = None \/ job[u].via \in Threads)
  BY DEF LifeInv, Typed, Jobs
<1>2. Home(u)' = Home(u) /\ (job'[u].via # None => Home(job[u].via)' = Home(job[u].via))
  BY <1>1 DEF Home
<1> QED BY <1>1, <1>2 DEF Place

LEMMA ViewEffect ==
  ASSUME LifeInv, NEW u \in Threads, NEW t \in Threads, NEW op \in ViewOps, ViewOperation(u, t, op)
  PROVE  /\ Typed' /\ Enters(u, op, t)
         /\ view[t] = "active" /\ Home(u) = Home(t)
         /\ pc[u] \in {"idle", "callback"} /\ UNCHANGED <<handle, view>>
<1>1. op \in (PublicOps \cup ViewOps) \ {"close"}
  BY DEF ViewOps
<1>2. /\ view[t] = "active" /\ Home(u) = Home(t) /\ pc[u] \in {"idle", "callback"}
      /\ Enter(u, op, t) /\ UNCHANGED <<handle, view, files, temp, history, faults, setting>>
  BY DEF ViewOperation
<1>3. /\ Enters(u, op, t)
      /\ job' \in [Threads -> Jobs] /\ pc' \in [Threads -> PCs] /\ calls' \in 0..MaxCalls
  BY <1>1, <1>2, EnterEffect
<1> QED BY <1>2, <1>3 DEF LifeInv, Typed, files, history

LEMMA ViewLife ==
  ASSUME LifeInv, NEW u \in Threads, NEW t \in Threads, NEW op \in ViewOps, ViewOperation(u, t, op)
  PROVE  LifeInv'
<1>1. /\ Typed' /\ Enters(u, op, t)
      /\ view[t] = "active" /\ Home(u) = Home(t)
      /\ pc[u] \in {"idle", "callback"} /\ handle' = handle /\ view' = view /\ setting' = setting
  BY ViewEffect DEF Enters
<1>2. \A v \in Threads : Home(v)' = Home(v)
  BY <1>1 DEF Home
<1>3. pc[u] \notin OpPCs /\ pc'[u] \in OpPCs /\ pc'[u] \notin {"idle", "callback", "drain", "closeRoot"}
  BY <1>1 DEF OpPCs, Enters
<1>4. \A v \in Threads \ {u} : pc'[v] = pc[v] /\ job'[v] = job[v]
  BY <1>1 DEF Enters, Others
<1>5. t # None
  BY RootedConstantsAssumption
<1>6. ASSUME NEW v \in Threads
      PROVE  Place(v)'
  <2>1. Place(v)
    BY DEF LifeInv
  <2>2. CASE v = u
    <3>1. /\ job'[u].op = op /\ job'[u].via = t
          /\ job'[u].id = (IF op \in {"append", "write"} THEN calls + 1 ELSE 0)
          /\ job'[u].saw = (IF op = "lock" THEN None ELSE job[u].saw)
          /\ Fits(op, pc'[u])
      BY <1>1 DEF Enters
    <3>2. calls + 1 # 0
      BY RootedConstantsAssumption DEF LifeInv, Typed
    <3>3. job'[u].saw # None => view'[u] = "active"
      BY <1>1, <2>1, <2>2, <3>1 DEF Place
    <3>4. op # "lock"
      BY DEF ViewOps
    <3>5. Home(job[u].via)' = Home(u)'
      BY <1>1, <1>2, <3>1
    <3> QED BY <1>1, <1>3, <2>2, <3>1, <3>2, <3>3, <3>4, <3>5 DEF Place
  <2>3. CASE v # u
    <3>1. pc'[v] = pc[v] /\ job'[v] = job[v] /\ (job[v].via # None => view'[job[v].via] = "active")
      BY <1>1, <1>4, <2>1, <2>3 DEF Place
    <3> QED BY <1>1, <3>1, PlaceKept
  <2> QED BY <2>2, <2>3
<1>7. OneView'
  BY <1>1 DEF LifeInv, OneView
<1>8. Distinct'
  BY <1>1, EntersDistinct
<1>9. HandleInv'
  <2>1. ASSUME NEW g \in Handles
        PROVE  Active(g)' = Active(g) /\ Busy(g)' = Busy(g)
    <3>1. job'[u].via # None
      BY <1>1, <1>5 DEF Enters
    <3> QED BY <1>1, <1>2, <1>3, <1>4, <3>1 DEF Busy, Active
  <2> QED BY <1>1, <2>1 DEF HandleInv, LifeInv
<1>10. ClosingInv'
  <2>1. \A v \in Threads : pc'[v] \in {"drain", "closeRoot"} => pc'[v] = pc[v]
    BY <1>3, <1>4
  <2> QED BY <1>1, <1>2, <2>1 DEF ClosingInv, LifeInv
<1> QED BY <1>1, <1>6, <1>7, <1>8, <1>9, <1>10 DEF LifeInv

-----------------------------------------------------------------------------
(* An operation ends. *)

\* The job of t is replaced.
LEMMA JobUpdate ==
  ASSUME Typed, NEW t \in Threads, NEW r \in Jobs, job' = [job EXCEPT ![t] = r], NEW l \in PCs, Goto(t, l)
  PROVE  /\ job' \in [Threads -> Jobs] /\ job'[t] = r /\ pc' \in [Threads -> PCs] /\ pc'[t] = l
         /\ Others(t)
BY DEF Typed, Goto, Others

LEMMA NoJobFields ==
  ASSUME NEW x \in Nat \cup {None}
  PROVE  LET r == [NoJob EXCEPT !.saw = x] IN
         r \in Jobs /\ r.op = "none" /\ r.id = 0 /\ r.via = None /\ r.saw = x
BY RootedConstantsAssumption DEF NoJob, Jobs

LEMMA NewJobFields ==
  ASSUME NEW op \in PublicOps
  PROVE  LET r == [NoJob EXCEPT !.op = op] IN
         r \in Jobs /\ r.op = op /\ r.id = 0 /\ r.via = None /\ r.saw = None
BY RootedConstantsAssumption DEF NoJob, Jobs

LEMMA NoJobType ==
  NoJob \in Jobs /\ NoJob.op = "none" /\ NoJob.id = 0 /\ NoJob.via = None /\ NoJob.saw = None
BY RootedConstantsAssumption DEF NoJob, Jobs

\* A job without identity disturbs no other.
LEMMA NoIdDistinct ==
  ASSUME LifeInv, NEW t \in Threads, job'[t].id = 0, Others(t), calls' \in Nat, calls <= calls'
  PROVE  Distinct'
<1>1. \A u \in Threads : job[u].id \in Nat /\ job[u].id <= calls /\ calls \in Nat
  BY RootedConstantsAssumption DEF LifeInv, Typed, Jobs, Distinct
<1>2. \A u \in Threads \ {t} : job'[u].id = job[u].id
  BY DEF Others
<1>3. \A u \in Threads : job'[u].id <= calls'
  BY <1>1, <1>2
<1>4. \A u, v \in Threads : (job'[u].id # 0 /\ job'[u].id = job'[v].id) => u = v
  BY <1>2 DEF LifeInv, Distinct
<1> QED BY <1>3, <1>4 DEF Distinct

LEMMA EndEffect ==
  ASSUME LifeInv, NEW t \in Threads, EndOperation(t)
  PROVE  /\ Typed' /\ Others(t) /\ UNCHANGED <<view, setting, calls>>
         /\ pc[t] = "end" /\ pc'[t] = (IF view[t] = "active" THEN "callback" ELSE "idle")
         /\ job'[t].op = "none" /\ job'[t].id = 0 /\ job'[t].via = None
         /\ job'[t].saw = (IF view[t] = "active" THEN job[t].saw ELSE None)
         /\ job[t].via # None => handle' = handle
         /\ job[t].via = None =>
              /\ t \in Busy(Home(t))
              /\ handle[Home(t)].operations > 0
              /\ handle'[Home(t)].operations = handle[Home(t)].operations - 1
              /\ handle'[Home(t)].life = handle[Home(t)].life
              /\ handle'[Home(t)].root = handle[Home(t)].root
              /\ \A g \in Handles \ {Home(t)} : handle'[g] = handle[g]
<1> DEFINE h == Home(t)
           n == handle[h].operations - 1
           r == [handle[h] EXCEPT !.operations = n]
           s == IF view[t] = "active" THEN job[t].saw ELSE None
           j == [NoJob EXCEPT !.saw = s]
           l == IF view[t] = "active" THEN "callback" ELSE "idle"
<1>1. /\ pc[t] = "end" /\ Goto(t, l) /\ job' = [job EXCEPT ![t] = j]
      /\ handle' = IF job[t].via = None THEN [handle EXCEPT ![h] = r] ELSE handle
      /\ UNCHANGED <<view, files, temp, history, calls, faults, setting>>
  BY DEF EndOperation
<1>2. pc[t] \in OpPCs /\ h \in Handles
  BY <1>1, HomeType DEF OpPCs, PCs, LifeInv
<1>3. handle[h] \in Leases /\ handle[h].operations > 0 /\ n \in Nat
  BY <1>2, LeaseType, InUse DEF LifeInv
<1>4. r \in Leases /\ r.operations = n /\ r.life = handle[h].life /\ r.root = handle[h].root
  <2> HIDE DEF n, h
  <2> QED BY <1>3, CountUpdate, Zenon
<1>5. j \in Jobs /\ j.op = "none" /\ j.id = 0 /\ j.via = None /\ j.saw = s
  <2>1. s \in Nat \cup {None}
    BY DEF LifeInv, Typed, Jobs
  <2> HIDE DEF s
  <2> QED BY <2>1, NoJobFields
<1>6. l \in PCs
  BY DEF PCs
<1>7. job' \in [Threads -> Jobs] /\ job'[t] = j /\ pc' \in [Threads -> PCs] /\ pc'[t] = l /\ Others(t)
  <2> HIDE DEF j, l
  <2> QED BY <1>1, <1>5, <1>6, JobUpdate DEF LifeInv
<1>8. /\ handle' \in [Handles -> Leases]
      /\ job[t].via # None => handle' = handle
      /\ job[t].via = None => handle'[h] = r /\ \A g \in Handles \ {h} : handle'[g] = handle[g]
  <2> HIDE DEF r, h
  <2>1. CASE job[t].via = None
    BY <1>1, <1>2, <1>4, <2>1, HandleUpdate DEF LifeInv
  <2>2. CASE job[t].via # None
    BY <1>1, <2>2 DEF LifeInv, Typed
  <2> QED BY <2>1, <2>2
<1>9. Typed'
  <2> HIDE DEF r, h, j, l
  <2> QED BY <1>1, <1>7, <1>8 DEF LifeInv, Typed, files, history
<1>10. job[t].via = None => t \in Busy(h)
  BY <1>2 DEF Busy
<1>11. job'[t].op = "none" /\ job'[t].id = 0 /\ job'[t].via = None /\ job'[t].saw = s
  <2> HIDE DEF j, s
  <2> QED BY <1>5, <1>7
<1> HIDE DEF r, j
<1> QED BY <1>1, <1>3, <1>4, <1>7, <1>8, <1>9, <1>10, <1>11

LEMMA EndLife ==
  ASSUME LifeInv, NEW t \in Threads, EndOperation(t)
  PROVE  LifeInv'
<1>1. /\ Typed' /\ Others(t) /\ view' = view /\ setting' = setting /\ calls' = calls
      /\ pc[t] = "end" /\ pc'[t] = (IF view[t] = "active" THEN "callback" ELSE "idle")
      /\ job'[t].op = "none" /\ job'[t].id = 0 /\ job'[t].via = None
      /\ job'[t].saw = (IF view[t] = "active" THEN job[t].saw ELSE None)
  BY EndEffect
<1>2. pc[t] \in OpPCs /\ pc'[t] \notin OpPCs /\ pc'[t] \notin {"drain", "closeRoot"}
  BY <1>1 DEF OpPCs, PCs
<1>3. \A u \in Threads : Home(u)' = Home(u)
  BY <1>1 DEF Home
<1>4. \A u \in Threads \ {t} : pc'[u] = pc[u] /\ job'[u] = job[u]
  BY <1>1 DEF Others
<1>5. ASSUME NEW u \in Threads
      PROVE  Place(u)'
  <2>1. CASE u = t
    BY <1>1, <1>2, <2>1 DEF Place
  <2>2. CASE u # t
    <3>1. pc'[u] = pc[u] /\ job'[u] = job[u] /\ (job[u].via # None => view'[job[u].via] = "active")
      BY <1>1, <1>4, <2>2 DEF LifeInv, Place
    <3> QED BY <1>1, <3>1, PlaceKept
  <2> QED BY <2>1, <2>2
<1>6. OneView' /\ Distinct'
  <2>1. OneView'
    BY <1>1 DEF LifeInv, OneView
  <2>2. calls' \in Nat /\ calls <= calls'
    BY <1>1 DEF LifeInv, Typed
  <2> QED BY <1>1, <2>1, <2>2, NoIdDistinct
<1>7. HandleInv'
  <2>1. ASSUME NEW g \in Handles
        PROVE  /\ Active(g)' = Active(g) /\ Busy(g)' = Busy(g) \ {t}
               /\ (g # Home(t) \/ job[t].via # None) => t \notin Busy(g)
    BY <1>1, <1>2, <1>3, <1>4 DEF Busy, Active
  <2>2. ASSUME NEW g \in Handles
        PROVE  /\ handle'[g].operations = Cardinality(Busy(g)') + Cardinality(Active(g)')
               /\ handle'[g].life = "closed" => handle'[g].operations = 0
               /\ ~handle'[g].root => handle'[g].life = "closed"
    <3>1. /\ handle[g].operations = Cardinality(Busy(g)) + Cardinality(Active(g))
          /\ handle[g].life = "closed" => handle[g].operations = 0
          /\ ~handle[g].root => handle[g].life = "closed"
      BY DEF LifeInv, HandleInv
    <3>2. CASE g # Home(t) \/ job[t].via # None
      <4>1. handle'[g] = handle[g]
        BY <3>2, EndEffect
      <4>2. Busy(g)' = Busy(g) /\ Active(g)' = Active(g)
        BY <2>1, <3>2
      <4> QED BY <3>1, <4>1, <4>2
    <3>3. CASE g = Home(t) /\ job[t].via = None
      <4>1. /\ t \in Busy(g) /\ handle[g].operations > 0
            /\ handle'[g].operations = handle[g].operations - 1
            /\ handle'[g].life = handle[g].life /\ handle'[g].root = handle[g].root
        BY <3>3, EndEffect
      <4>2. Busy(g) \subseteq Threads /\ Active(g) \subseteq Threads
        BY DEF Busy, Active
      <4>3. Cardinality(Busy(g) \ {t}) = Cardinality(Busy(g)) - 1
        BY <4>1, <4>2, RemoveThread
      <4>4. Cardinality(Busy(g)) \in Nat /\ Cardinality(Active(g)) \in Nat
        BY <4>2, PartFinite
      <4>5. Busy(g)' = Busy(g) \ {t} /\ Active(g)' = Active(g)
        BY <2>1
      <4>6. handle'[g].operations = Cardinality(Busy(g)') + Cardinality(Active(g)')
        BY <3>1, <4>1, <4>3, <4>4, <4>5
      <4> QED BY <3>1, <4>1, <4>6
    <3> QED BY <3>2, <3>3
  <2> QED BY <2>2 DEF HandleInv
<1>8. ClosingInv'
  <2>1. \A u \in Threads : pc'[u] \in {"drain", "closeRoot"} => pc'[u] = pc[u]
    BY <1>2, <1>4
  <2>2. ASSUME NEW u \in Threads
        PROVE  handle'[Home(u)].life = handle[Home(u)].life
    <3>1. Home(u) \in Handles
      BY HomeType DEF LifeInv
    <3>2. CASE job[t].via = None
      BY <3>1, <3>2, EndEffect
    <3>3. CASE job[t].via # None
      BY <3>3, EndEffect
    <3> QED BY <3>2, <3>3
  <2> QED BY <1>3, <2>1, <2>2 DEF ClosingInv, LifeInv
<1> QED BY <1>1, <1>5, <1>6, <1>7, <1>8 DEF LifeInv

-----------------------------------------------------------------------------
(* A handle is closed and opened. *)

\* A thread goes on to l without an operation before or after the step.
LEMMA OutsideCount ==
  ASSUME LifeInv, NEW t \in Threads, Others(t), UNCHANGED <<setting, view>>,
         pc[t] \notin OpPCs, pc'[t] \notin OpPCs, NEW g \in Handles
  PROVE  Busy(g)' = Busy(g) /\ Active(g)' = Active(g)
BY DEF Others, Busy, Active, Home

LEMMA CloseEffect ==
  ASSUME LifeInv, NEW t \in Threads, Close(t)
  PROVE  /\ Typed' /\ Others(t) /\ UNCHANGED <<view, setting>> /\ calls' = calls + 1
         /\ pc[t] = "idle" /\ pc'[t] = "drain"
         /\ job'[t].op = "close" /\ job'[t].id = 0 /\ job'[t].via = None /\ job'[t].saw = None
         /\ handle'[Home(t)].operations = handle[Home(t)].operations
         /\ handle'[Home(t)].root = handle[Home(t)].root
         /\ handle'[Home(t)].life = (IF handle[Home(t)].life = "open" THEN "closing" ELSE handle[Home(t)].life)
         /\ \A g \in Handles \ {Home(t)} : handle'[g] = handle[g]
<1> DEFINE h == Home(t)
           x == IF handle[h].life = "open" THEN "closing" ELSE handle[h].life
           r == [handle[h] EXCEPT !.life = x]
           j == [NoJob EXCEPT !.op = "close"]
<1>1. /\ pc[t] = "idle" /\ Goto(t, "drain") /\ job' = [job EXCEPT ![t] = j]
      /\ calls < setting.calls /\ calls' = calls + 1
      /\ handle' = [handle EXCEPT ![h] = r]
      /\ UNCHANGED <<view, files, temp, history, faults, setting>>
  BY DEF Close
<1>2. h \in Handles /\ calls' \in 0..MaxCalls
  BY <1>1, HomeType, RootedConstantsAssumption DEF LifeInv, Typed
<1>3. handle[h] \in Leases
  BY <1>2, LeaseType DEF LifeInv
<1>4. r \in Leases /\ r.operations = handle[h].operations /\ r.root = handle[h].root /\ r.life = x
  <2>1. x \in {"open", "closing", "closed"}
    BY <1>3 DEF Leases
  <2> HIDE DEF x, h
  <2>2. r \in Leases /\ r.operations = handle[h].operations /\ r.life = x
    BY <1>3, <2>1 DEF Leases
  <2>3. r.root = handle[h].root
    BY <1>3, Zenon DEF Leases
  <2> QED BY <2>2, <2>3
<1>5. j \in Jobs /\ j.op = "close" /\ j.id = 0 /\ j.via = None /\ j.saw = None
  BY NewJobFields DEF PublicOps
<1>6. job' \in [Threads -> Jobs] /\ job'[t] = j /\ pc' \in [Threads -> PCs] /\ pc'[t] = "drain" /\ Others(t)
  <2>1. "drain" \in PCs
    BY DEF PCs
  <2> HIDE DEF j
  <2> QED BY <1>1, <1>5, <2>1, JobUpdate DEF LifeInv
<1>7. /\ handle' \in [Handles -> Leases] /\ handle'[h] = r
      /\ \A g \in Handles \ {h} : handle'[g] = handle[g]
  <2> HIDE DEF r, h
  <2> QED BY <1>1, <1>2, <1>4, HandleUpdate DEF LifeInv
<1> HIDE DEF r, j
<1>8. Typed'
  BY <1>1, <1>2, <1>6, <1>7 DEF LifeInv, Typed, files, history
<1> QED BY <1>1, <1>4, <1>5, <1>6, <1>7, <1>8

LEMMA CloseLife ==
  ASSUME LifeInv, NEW t \in Threads, Close(t)
  PROVE  LifeInv'
<1>1. /\ Typed' /\ Others(t) /\ view' = view /\ setting' = setting /\ calls' = calls + 1
      /\ pc[t] = "idle" /\ pc'[t] = "drain"
      /\ job'[t].op = "close" /\ job'[t].id = 0 /\ job'[t].via = None /\ job'[t].saw = None
  BY CloseEffect
<1>2. \A g \in Handles : /\ handle'[g].operations = handle[g].operations
                         /\ handle'[g].root = handle[g].root
                         /\ handle'[g].life = handle[g].life \/ (handle[g].life = "open" /\ handle'[g].life = "closing")
  BY CloseEffect
<1>3. pc[t] \notin OpPCs /\ pc'[t] \notin OpPCs
  BY <1>1 DEF OpPCs
<1>4. \A u \in Threads : Home(u)' = Home(u) /\ Home(u) \in Handles
  BY <1>1, HomeType DEF Home, LifeInv
<1>5. \A u \in Threads \ {t} : pc'[u] = pc[u] /\ job'[u] = job[u]
  BY <1>1 DEF Others
<1>6. ASSUME NEW u \in Threads
      PROVE  Place(u)'
  <2>1. CASE u = t
    BY <1>1, <1>3, <2>1 DEF Place, LifeInv
  <2>2. CASE u # t
    <3>1. pc'[u] = pc[u] /\ job'[u] = job[u] /\ (job[u].via # None => view'[job[u].via] = "active")
      BY <1>1, <1>5, <2>2 DEF LifeInv, Place
    <3> QED BY <1>1, <3>1, PlaceKept
  <2> QED BY <2>1, <2>2
<1>7. OneView' /\ Distinct'
  <2>1. OneView'
    BY <1>1 DEF LifeInv, OneView
  <2>2. calls' \in Nat /\ calls <= calls'
    BY <1>1 DEF LifeInv, Typed
  <2> QED BY <1>1, <2>1, <2>2, NoIdDistinct
<1>8. HandleInv'
  <2>1. ASSUME NEW g \in Handles
        PROVE  Busy(g)' = Busy(g) /\ Active(g)' = Active(g)
    BY <1>1, <1>3, OutsideCount
  <2> QED BY <1>2, <2>1 DEF HandleInv, LifeInv
<1>9. ClosingInv'
  <2>1. ASSUME NEW u \in Threads
        PROVE  /\ pc'[u] = "drain" => handle'[Home(u)].life # "open"
               /\ pc'[u] = "closeRoot" => handle'[Home(u)].life = "closed"
    <3>1. CASE u = t
      BY <1>1, <3>1, CloseEffect
    <3>2. CASE u # t
      BY <1>2, <1>4, <1>5, <3>2 DEF ClosingInv, LifeInv
    <3> QED BY <3>1, <3>2
  <2> QED BY <1>4, <2>1 DEF ClosingInv
<1> QED BY <1>1, <1>6, <1>7, <1>8, <1>9 DEF LifeInv

LEMMA CloseDrainedLife ==
  ASSUME LifeInv, NEW t \in Threads, CloseDrained(t)
  PROVE  LifeInv'
<1> DEFINE h == Home(t)
           r == [handle[h] EXCEPT !.life = "closed"]
<1>1. /\ pc[t] = "drain" /\ handle[h].operations = 0 /\ Goto(t, "closeRoot")
      /\ handle' = [handle EXCEPT ![h] = r]
      /\ UNCHANGED <<view, files, temp, history, job, calls, faults, setting>>
  BY DEF CloseDrained
<1>2. h \in Handles
  BY HomeType DEF LifeInv
<1>3. handle[h] \in Leases
  BY <1>2, LeaseType DEF LifeInv
<1>4. r \in Leases /\ r.operations = handle[h].operations /\ r.life = "closed" /\ r.root = handle[h].root
  <2> HIDE DEF h
  <2>1. r \in Leases /\ r.operations = handle[h].operations /\ r.life = "closed"
    BY <1>3 DEF Leases
  <2>2. r.root = handle[h].root
    BY <1>3, Zenon DEF Leases
  <2> QED BY <2>1, <2>2
<1>5. /\ handle' \in [Handles -> Leases] /\ handle'[h] = r
      /\ \A g \in Handles \ {h} : handle'[g] = handle[g]
  <2> HIDE DEF r, h
  <2> QED BY <1>1, <1>2, <1>4, HandleUpdate DEF LifeInv
<1>6. pc' \in [Threads -> PCs] /\ pc'[t] = "closeRoot" /\ Others(t) /\ job' = job /\ view' = view /\ setting' = setting
  BY <1>1 DEF Goto, Others, LifeInv, Typed, PCs
<1>7. Typed'
  <2> HIDE DEF r, h
  <2> QED BY <1>1, <1>5, <1>6 DEF LifeInv, Typed, files, history
<1>8. pc[t] \notin OpPCs /\ pc'[t] \notin OpPCs
  BY <1>1, <1>6 DEF OpPCs
<1>9. \A u \in Threads : Home(u)' = Home(u) /\ Home(u) \in Handles
  BY <1>6, HomeType DEF Home, LifeInv
<1>10. ASSUME NEW u \in Threads
       PROVE  Place(u)'
  <2>1. CASE u = t
    BY <1>1, <1>6, <1>8, <2>1 DEF Place, LifeInv
  <2>2. CASE u # t
    <3>1. pc'[u] = pc[u] /\ job'[u] = job[u] /\ (job[u].via # None => view'[job[u].via] = "active")
      BY <1>6, <2>2 DEF LifeInv, Place, Others
    <3> QED BY <1>6, <3>1, PlaceKept
  <2> QED BY <2>1, <2>2
<1>11. OneView' /\ Distinct'
  BY <1>1 DEF LifeInv, OneView, Distinct
<1>12. HandleInv'
  <2>1. ASSUME NEW g \in Handles
        PROVE  Busy(g)' = Busy(g) /\ Active(g)' = Active(g)
    BY <1>6, <1>8, OutsideCount
  <2>2. \A g \in Handles : /\ handle'[g].operations = handle[g].operations
                           /\ handle'[g].root = handle[g].root
                           /\ g # h => handle'[g].life = handle[g].life
    <3> HIDE DEF r, h
    <3> QED BY <1>4, <1>5
  <2>3. handle'[h].life = "closed" /\ handle'[h].operations = 0
    <3> HIDE DEF r, h
    <3> QED BY <1>1, <1>4, <1>5
  <2> QED BY <2>1, <2>2, <2>3 DEF HandleInv, LifeInv
<1>13. ClosingInv'
  <2>1. \A g \in Handles : handle'[g].life = handle[g].life \/ handle'[g].life = "closed"
    <3> HIDE DEF r, h
    <3> QED BY <1>4, <1>5
  <2>2. handle'[Home(t)].life = "closed"
    <3> HIDE DEF r
    <3> QED BY <1>4, <1>5
  <2> QED BY <1>6, <1>9, <2>1, <2>2 DEF ClosingInv, LifeInv, Others
<1> QED BY <1>7, <1>10, <1>11, <1>12, <1>13 DEF LifeInv

LEMMA CloseRootLife ==
  ASSUME LifeInv, NEW t \in Threads, CloseRoot(t)
  PROVE  LifeInv'
<1> DEFINE h == Home(t)
           r == [handle[h] EXCEPT !.root = FALSE]
<1>1. /\ pc[t] = "closeRoot" /\ Goto(t, "idle") /\ job' = [job EXCEPT ![t] = NoJob]
      /\ handle' = [handle EXCEPT ![h] = r]
      /\ UNCHANGED <<view, files, temp, history, calls, faults, setting>>
  BY DEF CloseRoot
<1>2. h \in Handles
  BY HomeType DEF LifeInv
<1>3. handle[h] \in Leases /\ handle[h].life = "closed"
  BY <1>1, <1>2, LeaseType DEF LifeInv, ClosingInv
<1>4. r \in Leases /\ r.operations = handle[h].operations /\ r.life = handle[h].life
  <2> HIDE DEF h
  <2> QED BY <1>3 DEF Leases
<1>5. /\ handle' \in [Handles -> Leases] /\ handle'[h] = r
      /\ \A g \in Handles \ {h} : handle'[g] = handle[g]
  <2> HIDE DEF r, h
  <2> QED BY <1>1, <1>2, <1>4, HandleUpdate DEF LifeInv
<1>6. /\ job' \in [Threads -> Jobs] /\ job'[t] = NoJob /\ pc' \in [Threads -> PCs] /\ pc'[t] = "idle"
      /\ Others(t) /\ view' = view /\ setting' = setting /\ calls' = calls
  <2>1. "idle" \in PCs
    BY DEF PCs
  <2> QED BY <1>1, <2>1, NoJobType, JobUpdate DEF LifeInv
<1>7. Typed'
  <2> HIDE DEF r, h
  <2> QED BY <1>1, <1>5, <1>6 DEF LifeInv, Typed, files, history
<1>8. pc[t] \notin OpPCs /\ pc'[t] \notin OpPCs
  BY <1>1, <1>6 DEF OpPCs
<1>9. \A u \in Threads : Home(u)' = Home(u) /\ Home(u) \in Handles
  BY <1>6, HomeType DEF Home, LifeInv
<1>10. ASSUME NEW u \in Threads
       PROVE  Place(u)'
  <2>1. CASE u = t
    BY <1>1, <1>6, <1>8, <2>1, NoJobType DEF Place, LifeInv
  <2>2. CASE u # t
    <3>1. pc'[u] = pc[u] /\ job'[u] = job[u] /\ (job[u].via # None => view'[job[u].via] = "active")
      BY <1>6, <2>2 DEF LifeInv, Place, Others
    <3> QED BY <1>6, <3>1, PlaceKept
  <2> QED BY <2>1, <2>2
<1>11. OneView' /\ Distinct'
  <2>1. OneView'
    BY <1>6 DEF LifeInv, OneView
  <2>2. calls' \in Nat /\ calls <= calls'
    BY <1>6 DEF LifeInv, Typed
  <2>3. job'[t].id = 0
    BY <1>6, NoJobType
  <2> QED BY <1>6, <2>1, <2>2, <2>3, NoIdDistinct
<1>12. \A g \in Handles : /\ handle'[g].operations = handle[g].operations
                          /\ handle'[g].life = handle[g].life
                          /\ g # h => handle'[g].root = handle[g].root
  <2> HIDE DEF r, h
  <2> QED BY <1>4, <1>5
<1>13. HandleInv'
  <2>1. ASSUME NEW g \in Handles
        PROVE  Busy(g)' = Busy(g) /\ Active(g)' = Active(g)
    BY <1>6, <1>8, OutsideCount
  <2> QED BY <1>3, <1>12, <2>1 DEF HandleInv, LifeInv
<1>14. ClosingInv'
  BY <1>6, <1>9, <1>12 DEF ClosingInv, LifeInv, Others
<1> QED BY <1>7, <1>10, <1>11, <1>13, <1>14 DEF LifeInv

LEMMA EmptyCount == Cardinality({}) = 0
BY FS_EmptySet

\* A handle that nobody works on starts anew.
LEMMA FreshHandle ==
  ASSUME NEW g \in Handles, handle'[g] = NewHandle, Busy(g)' = {}, Active(g)' = {}
  PROVE  /\ handle'[g].operations = Cardinality(Busy(g)') + Cardinality(Active(g)')
         /\ handle'[g].life = "closed" => handle'[g].operations = 0
         /\ ~handle'[g].root => handle'[g].life = "closed"
BY EmptyCount DEF NewHandle

LEMMA OpenLife ==
  ASSUME LifeInv, NEW h \in Handles, OpenRootedFiles(h)
  PROVE  LifeInv'
<1>1. /\ \A t \in Mates(h) : pc[t] = "idle"
      /\ handle' = [handle EXCEPT ![h] = NewHandle]
      /\ view' = [t \in Threads |-> IF Home(t) = h THEN "none" ELSE view[t]]
      /\ UNCHANGED <<files, temp, history, pc, job, calls, faults, setting>>
  BY DEF OpenRootedFiles
<1>2. NewHandle \in Leases
  BY DEF NewHandle, Leases
<1>3. /\ handle' \in [Handles -> Leases] /\ handle'[h] = NewHandle
      /\ \A g \in Handles \ {h} : handle'[g] = handle[g]
  BY <1>1, <1>2, HandleUpdate DEF LifeInv
<1>4. Typed'
  BY <1>1, <1>3 DEF LifeInv, Typed, files, history
<1>5. \A u \in Threads : Home(u)' = Home(u) /\ Home(u) \in Handles
  BY <1>1, HomeType DEF Home, LifeInv
<1>6. \A u \in Threads : Home(u) = h => pc[u] = "idle" /\ view'[u] = "none" /\ view[u] # "active"
  BY <1>1 DEF Mates, LifeInv, Place
<1>7. \A u \in Threads : Home(u) # h => view'[u] = view[u]
  BY <1>1
<1>8. ASSUME NEW u \in Threads
      PROVE  Place(u)'
  <2>1. job[u].via # None => /\ job[u].via \in Threads /\ view[job[u].via] = "active"
    BY DEF LifeInv, Place, Typed, Jobs
  <2>2. job[u].via # None => view'[job[u].via] = "active"
    BY <1>6, <1>7, <2>1
  <2>3. view'[u] = "active" <=> view[u] = "active"
    BY <1>6, <1>7
  <2>4. UNCHANGED setting /\ pc'[u] = pc[u] /\ job'[u] = job[u]
    BY <1>1
  <2> QED BY <2>2, <2>3, <2>4, PlaceKept
<1>9. OneView'
  BY <1>6, <1>7 DEF LifeInv, OneView
<1>10. Distinct'
  BY <1>1 DEF LifeInv, Distinct
<1>11. HandleInv'
  <2>1. ASSUME NEW g \in Handles
        PROVE  Busy(g)' = Busy(g) /\ Active(g)' = Active(g)
    BY <1>1, <1>5, <1>6, <1>7 DEF Busy, Active
  <2>2. ASSUME NEW g \in Handles
        PROVE  /\ handle'[g].operations = Cardinality(Busy(g)') + Cardinality(Active(g)')
               /\ handle'[g].life = "closed" => handle'[g].operations = 0
               /\ ~handle'[g].root => handle'[g].life = "closed"
    <3>1. CASE g = h
      <4>1. Busy(g) = {} /\ Active(g) = {}
        BY <1>6, <3>1 DEF Busy, Active, OpPCs
      <4>2. Busy(g)' = {} /\ Active(g)' = {}
        BY <2>1, <4>1
      <4> QED BY <1>3, <3>1, <4>2, FreshHandle
    <3>2. CASE g # h
      BY <1>3, <2>1, <3>2 DEF HandleInv, LifeInv
    <3> QED BY <3>1, <3>2
  <2> QED BY <2>2 DEF HandleInv
<1>12. ClosingInv'
  BY <1>1, <1>3, <1>5, <1>6 DEF ClosingInv, LifeInv
<1> QED BY <1>4, <1>8, <1>9, <1>10, <1>11, <1>12 DEF LifeInv

-----------------------------------------------------------------------------
(* WithExclusiveLock takes the lock, and gives it back. *)

LEMMA LockWaitLife ==
  ASSUME LifeInv, NEW t \in Threads, LockWait(t)
  PROVE  LifeInv'
<1>1. /\ pc[t] = "lockWait" /\ Goto(t, "callback") /\ \A u \in Threads : view[u] # "active"
      /\ view' = [view EXCEPT ![t] = "active"]
      /\ UNCHANGED <<handle, files, temp, history, job, calls, faults, setting>>
  BY DEF LockWait
<1>2. /\ pc' \in [Threads -> PCs] /\ pc'[t] = "callback" /\ Others(t)
      /\ view' \in [Threads -> {"none", "active", "expired"}] /\ view'[t] = "active"
      /\ \A u \in Threads \ {t} : view'[u] = view[u]
  BY <1>1 DEF Goto, Others, LifeInv, Typed, PCs
<1>3. Typed'
  BY <1>1, <1>2 DEF LifeInv, Typed, files, history
<1>4. \A u \in Threads : Home(u)' = Home(u) /\ Home(u) \in Handles
  BY <1>1, HomeType DEF Home, LifeInv
<1>5. pc[t] \in OpPCs /\ pc'[t] \notin OpPCs
  BY <1>1, <1>2 DEF OpPCs, PCs
<1>6. job[t].op = "lock" /\ job[t].via = None /\ job[t].id = 0
  <2>1. job[t].op = "lock"
    BY <1>1, <1>5, OpAt DEF Fits
  <2> QED BY <1>5, <2>1 DEF LifeInv, Place
<1>7. \A u \in Threads : job[u].via = None
  BY <1>1 DEF LifeInv, Place, Typed, Jobs
<1>8. ASSUME NEW u \in Threads
      PROVE  Place(u)'
  <2>1. CASE u = t
    BY <1>1, <1>2, <1>5, <1>6, <2>1 DEF Place
  <2>2. CASE u # t
    <3>1. /\ UNCHANGED setting /\ pc'[u] = pc[u] /\ job'[u] = job[u] /\ job[u].via = None
          /\ view'[u] = "active" <=> view[u] = "active"
      BY <1>1, <1>2, <1>7, <2>2 DEF Others
    <3> QED BY <3>1, PlaceKept
  <2> QED BY <2>1, <2>2
<1>9. OneView' /\ Distinct'
  <2>1. OneView'
    BY <1>1, <1>2 DEF OneView
  <2>2. Distinct'
    BY <1>1 DEF LifeInv, Distinct
  <2> QED BY <2>1, <2>2
<1>10. HandleInv'
  <2>1. ASSUME NEW g \in Handles, g # Home(t)
        PROVE  Busy(g)' = Busy(g) /\ Active(g)' = Active(g)
    BY <1>1, <1>2, <1>4, <2>1 DEF Busy, Active, Others
  <2>2. ASSUME NEW g \in Handles, g = Home(t)
        PROVE  Busy(g)' = Busy(g) \ {t} /\ Active(g)' = Active(g) \cup {t}
    BY <1>1, <1>2, <1>4, <1>5, <2>2 DEF Busy, Active, Others
  <2>3. ASSUME NEW g \in Handles
        PROVE  handle'[g].operations = Cardinality(Busy(g)') + Cardinality(Active(g)')
    <3>1. handle[g].operations = Cardinality(Busy(g)) + Cardinality(Active(g)) /\ handle'[g] = handle[g]
      BY <1>1 DEF LifeInv, HandleInv
    <3>2. CASE g # Home(t)
      BY <2>1, <3>1, <3>2
    <3>3. CASE g = Home(t)
      <4>1. Busy(g)' = Busy(g) \ {t} /\ Active(g)' = Active(g) \cup {t}
        BY <2>2, <3>3
      <4>2. /\ Busy(g) \subseteq Threads /\ Active(g) \subseteq Threads
            /\ t \in Busy(g) /\ t \notin Active(g)
        BY <1>1, <1>5, <1>6, <3>3 DEF Busy, Active
      <4>3. Cardinality(Busy(g) \ {t}) = Cardinality(Busy(g)) - 1
        BY <4>2, RemoveThread
      <4>4. Cardinality(Active(g) \cup {t}) = Cardinality(Active(g)) + 1
        BY <4>2, AddThread
      <4>5. Cardinality(Busy(g)) \in Nat /\ Cardinality(Active(g)) \in Nat
        BY <4>2, PartFinite
      <4> QED BY <3>1, <4>1, <4>3, <4>4, <4>5
    <3> QED BY <3>2, <3>3
  <2> QED BY <1>1, <2>3 DEF HandleInv, LifeInv
<1>11. ClosingInv'
  BY <1>1, <1>2, <1>4 DEF ClosingInv, LifeInv, Others
<1> QED BY <1>3, <1>8, <1>9, <1>10, <1>11 DEF LifeInv

LEMMA CallbackLife ==
  ASSUME LifeInv, NEW t \in Threads, CallbackReturns(t)
  PROVE  LifeInv'
<1> DEFINE j == [NoJob EXCEPT !.op = "lock"]
<1>1. /\ pc[t] = "callback" /\ Goto(t, "end") /\ \A u \in Threads : job[u].via # t
      /\ view' = [view EXCEPT ![t] = "expired"]
      /\ job' = [job EXCEPT ![t] = j]
      /\ UNCHANGED <<handle, files, temp, history, calls, faults, setting>>
  BY DEF CallbackReturns
<1>2. j \in Jobs /\ j.op = "lock" /\ j.id = 0 /\ j.via = None /\ j.saw = None
  BY NewJobFields DEF PublicOps
<1> HIDE DEF j
<1>3. /\ job' \in [Threads -> Jobs] /\ job'[t] = j
      /\ pc' \in [Threads -> PCs] /\ pc'[t] = "end" /\ Others(t)
  <2>1. "end" \in PCs
    BY DEF PCs
  <2> QED BY <1>1, <1>2, <2>1, JobUpdate DEF LifeInv
<1>4. /\ view' \in [Threads -> {"none", "active", "expired"}] /\ view'[t] = "expired"
      /\ \A u \in Threads \ {t} : view'[u] = view[u]
  BY <1>1 DEF LifeInv, Typed
<1>5. Typed'
  BY <1>1, <1>3, <1>4 DEF LifeInv, Typed, files, history
<1>6. \A u \in Threads : Home(u)' = Home(u) /\ Home(u) \in Handles
  BY <1>1, HomeType DEF Home, LifeInv
<1>7. pc[t] \notin OpPCs /\ pc'[t] \in OpPCs /\ view[t] = "active"
  BY <1>1, <1>3 DEF OpPCs, PCs, LifeInv, Place
<1>8. ASSUME NEW u \in Threads
      PROVE  Place(u)'
  <2>1. CASE u = t
    <3>1. Fits("lock", "end")
      BY DEF Fits
    <3> QED BY <1>2, <1>3, <1>4, <2>1, <3>1 DEF Place
  <2>2. CASE u # t
    <3>1. /\ UNCHANGED setting /\ pc'[u] = pc[u] /\ job'[u] = job[u]
          /\ view'[u] = "active" <=> view[u] = "active"
      BY <1>1, <1>3, <1>4, <2>2 DEF Others
    <3>2. job[u].via # None => view[job[u].via] = "active" /\ job[u].via \in Threads \ {t}
      BY <1>1 DEF LifeInv, Place, Typed, Jobs
    <3>3. job[u].via # None => view'[job[u].via] = "active"
      BY <1>4, <3>2
    <3> QED BY <3>1, <3>3, PlaceKept
  <2> QED BY <2>1, <2>2
<1>9. OneView' /\ Distinct'
  <2>1. OneView'
    BY <1>4 DEF LifeInv, OneView
  <2>2. calls' \in Nat /\ calls <= calls' /\ job'[t].id = 0
    BY <1>1, <1>2, <1>3 DEF LifeInv, Typed
  <2> QED BY <1>3, <2>1, <2>2, NoIdDistinct
<1>10. HandleInv'
  <2>1. ASSUME NEW g \in Handles, g # Home(t)
        PROVE  Busy(g)' = Busy(g) /\ Active(g)' = Active(g)
    BY <1>1, <1>3, <1>4, <1>6, <2>1 DEF Busy, Active, Others
  <2>2. ASSUME NEW g \in Handles, g = Home(t)
        PROVE  Busy(g)' = Busy(g) \cup {t} /\ Active(g)' = Active(g) \ {t}
    BY <1>2, <1>3, <1>4, <1>6, <1>7, <2>2 DEF Busy, Active, Others
  <2>3. ASSUME NEW g \in Handles
        PROVE  handle'[g].operations = Cardinality(Busy(g)') + Cardinality(Active(g)')
    <3>1. handle[g].operations = Cardinality(Busy(g)) + Cardinality(Active(g)) /\ handle'[g] = handle[g]
      BY <1>1 DEF LifeInv, HandleInv
    <3>2. CASE g # Home(t)
      BY <2>1, <3>1, <3>2
    <3>3. CASE g = Home(t)
      <4>1. Busy(g)' = Busy(g) \cup {t} /\ Active(g)' = Active(g) \ {t}
        BY <2>2, <3>3
      <4>2. /\ Busy(g) \subseteq Threads /\ Active(g) \subseteq Threads
            /\ t \notin Busy(g) /\ t \in Active(g)
        BY <1>7, <3>3 DEF Busy, Active
      <4>3. Cardinality(Active(g) \ {t}) = Cardinality(Active(g)) - 1
        BY <4>2, RemoveThread
      <4>4. Cardinality(Busy(g) \cup {t}) = Cardinality(Busy(g)) + 1
        BY <4>2, AddThread
      <4>5. Cardinality(Busy(g)) \in Nat /\ Cardinality(Active(g)) \in Nat
        BY <4>2, PartFinite
      <4> QED BY <3>1, <4>1, <4>3, <4>4, <4>5
    <3> QED BY <3>2, <3>3
  <2> QED BY <1>1, <2>3 DEF HandleInv, LifeInv
<1>11. ClosingInv'
  BY <1>1, <1>3, <1>6 DEF ClosingInv, LifeInv, Others
<1> QED BY <1>5, <1>8, <1>9, <1>10, <1>11 DEF LifeInv

-----------------------------------------------------------------------------
(* Processes die and start anew. *)

Dead(H) == {t \in Threads : Home(t) \in H}

LEMMA RestartEffect ==
  ASSUME LifeInv, NEW H \in SUBSET Handles, Restart(H)
  PROVE  /\ handle' \in [Handles -> Leases]
         /\ \A h \in Handles : handle'[h] = IF h \in H THEN NewHandle ELSE handle[h]
         /\ view' \in [Threads -> {"none", "active", "expired"}]
         /\ temp' \in [Threads -> {"none", "unsynced", "synced"}]
         /\ pc' \in [Threads -> PCs] /\ job' \in [Threads -> Jobs]
         /\ \A t \in Dead(H) : view'[t] = "none" /\ temp'[t] = "none" /\ pc'[t] = "idle" /\ job'[t] = NoJob
         /\ \A t \in Threads \ Dead(H) :
              view'[t] = view[t] /\ temp'[t] = temp[t] /\ pc'[t] = pc[t] /\ job'[t] = job[t]
<1>1. NewHandle \in Leases /\ NoJob \in Jobs /\ "idle" \in PCs
  BY NoJobType DEF NewHandle, Leases, PCs
<1>2. /\ handle' = [h \in Handles |-> IF h \in H THEN NewHandle ELSE handle[h]]
      /\ view' = [t \in Threads |-> IF t \in Dead(H) THEN "none" ELSE view[t]]
      /\ temp' = [t \in Threads |-> IF t \in Dead(H) THEN "none" ELSE temp[t]]
      /\ pc' = [t \in Threads |-> IF t \in Dead(H) THEN "idle" ELSE pc[t]]
      /\ job' = [t \in Threads |-> IF t \in Dead(H) THEN NoJob ELSE job[t]]
  BY DEF Restart, Dead
<1>3. Dead(H) \subseteq Threads
  BY DEF Dead
<1>4. /\ handle' \in [Handles -> Leases]
      /\ \A h \in Handles : handle'[h] = IF h \in H THEN NewHandle ELSE handle[h]
  BY <1>1, <1>2 DEF LifeInv, Typed
<1>5. /\ view' \in [Threads -> {"none", "active", "expired"}]
      /\ temp' \in [Threads -> {"none", "unsynced", "synced"}]
      /\ pc' \in [Threads -> PCs] /\ job' \in [Threads -> Jobs]
  BY <1>1, <1>2 DEF LifeInv, Typed
<1> QED BY <1>2, <1>3, <1>4, <1>5

LEMMA RestartLife ==
  ASSUME LifeInv, Typed', NEW H \in SUBSET Handles, Restart(H), UNCHANGED <<setting, calls>>
  PROVE  LifeInv'
<1>1. /\ \A h \in Handles : handle'[h] = IF h \in H THEN NewHandle ELSE handle[h]
      /\ \A t \in Dead(H) : view'[t] = "none" /\ pc'[t] = "idle" /\ job'[t] = NoJob
      /\ \A t \in Threads \ Dead(H) : view'[t] = view[t] /\ pc'[t] = pc[t] /\ job'[t] = job[t]
  BY RestartEffect
<1>2. \A u \in Threads : Home(u)' = Home(u) /\ Home(u) \in Handles /\ (u \in Dead(H) <=> Home(u) \in H)
  BY HomeType DEF Home, LifeInv, Dead
<1>3. ASSUME NEW u \in Threads
      PROVE  Place(u)'
  <2>1. CASE u \in Dead(H)
    <3>1. "idle" \notin OpPCs
      BY DEF OpPCs
    <3> QED BY <1>1, <2>1, <3>1, NoJobType DEF Place
  <2>2. CASE u \notin Dead(H)
    <3>1. job[u].via # None => /\ job[u].via \in Threads /\ view[job[u].via] = "active"
                               /\ Home(job[u].via) = Home(u)
      BY DEF LifeInv, Place, Typed, Jobs
    <3>2. job[u].via # None => view'[job[u].via] = "active"
      BY <1>1, <1>2, <2>2, <3>1
    <3>3. pc'[u] = pc[u] /\ job'[u] = job[u] /\ view'[u] = view[u]
      BY <1>1, <2>2
    <3> QED BY <3>2, <3>3, PlaceKept
  <2> QED BY <2>1, <2>2
<1>4. OneView'
  BY <1>1 DEF LifeInv, OneView
<1>5. Distinct'
  <2>1. calls \in Nat
    BY DEF LifeInv, Typed
  <2>2. \A u \in Threads : job'[u].id = 0 \/ job'[u].id = job[u].id
    BY <1>1, NoJobType
  <2> QED BY <2>1, <2>2 DEF LifeInv, Distinct
<1>6. HandleInv'
  <2>1. ASSUME NEW g \in Handles
        PROVE  /\ handle'[g].operations = Cardinality(Busy(g)') + Cardinality(Active(g)')
               /\ handle'[g].life = "closed" => handle'[g].operations = 0
               /\ ~handle'[g].root => handle'[g].life = "closed"
    <3>1. CASE g \in H
      <4>1. \A u \in Threads : Home(u)' = g => pc'[u] = "idle" /\ view'[u] = "none"
        BY <1>1, <1>2, <3>1
      <4>2. Busy(g)' = {} /\ Active(g)' = {}
        BY <4>1 DEF Busy, Active, OpPCs
      <4> QED BY <1>1, <3>1, <4>2, FreshHandle
    <3>2. CASE g \notin H
      <4>1. Busy(g)' = Busy(g) /\ Active(g)' = Active(g)
        BY <1>1, <1>2, <3>2 DEF Busy, Active
      <4> QED BY <1>1, <3>2, <4>1 DEF HandleInv, LifeInv
    <3> QED BY <3>1, <3>2
  <2> QED BY <2>1 DEF HandleInv
<1>7. ClosingInv'
  BY <1>1, <1>2 DEF ClosingInv, LifeInv
<1> QED BY <1>3, <1>4, <1>5, <1>6, <1>7 DEF LifeInv

LEMMA KillLife ==
  ASSUME LifeInv, NEW h \in Handles, Kill(h)
  PROVE  LifeInv'
<1>1. Restart({h}) /\ Fault("kill") /\ UNCHANGED <<files, history, calls, setting>>
  BY DEF Kill
<1>2. faults' \in 0..MaxFaults
  BY <1>1, RootedConstantsAssumption DEF Fault, LifeInv, Typed
<1>3. /\ handle' \in [Handles -> Leases] /\ view' \in [Threads -> {"none", "active", "expired"}]
      /\ temp' \in [Threads -> {"none", "unsynced", "synced"}]
      /\ pc' \in [Threads -> PCs] /\ job' \in [Threads -> Jobs]
  BY <1>1, RestartEffect
<1>4. Typed'
  BY <1>1, <1>2, <1>3 DEF LifeInv, Typed, files, history
<1> QED BY <1>1, <1>4, RestartLife

\* What a power failure leaves of the stream and of the document.
LogLeft(n) == /\ n \in log.safe..Len(log.lines)
              /\ log'.lines = SubSeq(log.lines, 1, n)
              /\ log'.safe = n /\ log'.entry = "durable"
DocLeft(n, torn) == /\ n \in doc.safe..Len(doc.pubs) /\ torn \in SUBSET doc.soft
                    /\ doc'.pubs = [i \in 1..n |-> IF doc.pubs[i] \in torn THEN Torn ELSE doc.pubs[i]]
                    /\ doc'.safe = n /\ doc'.soft = doc.soft

LEMMA PowerLossEffect ==
  ASSUME LifeInv, PowerLoss
  PROVE  /\ Restart(Handles) /\ Fault("power") /\ UNCHANGED <<history, calls, setting>>
         /\ Typed'
         /\ \/ log' = NoLog /\ (Nested \/ log.entry # "durable")
            \/ \E n : LogLeft(n)
         /\ \/ doc' = NoDoc /\ Nested
            \/ \E n, torn : DocLeft(n, torn)
<1>1. /\ Restart(Handles) /\ Fault("power") /\ UNCHANGED <<history, calls, setting>>
      /\ lockFile' \in {FALSE, lockFile}
  BY DEF PowerLoss
<1>2. PICK d \in {"absent", "durable"} : \E e \in {"absent", "durable"} :
       /\ dir \in {"absent", "durable"} => d = dir
       /\ dir' = d
       /\ log.entry \in {"absent", "durable"} => e = log.entry
       /\ IF (Nested /\ d = "absent") \/ e = "absent"
            THEN log' = NoLog
            ELSE \E n \in log.safe..Len(log.lines), torn \in {FALSE, log.dirty} :
                   log' = [entry |-> "durable", lines |-> SubSeq(log.lines, 1, n), tail |-> torn \/ (log.tail /\ ~log.dirty),
                           safe |-> n, dirty |-> FALSE]
       /\ IF Nested /\ d = "absent"
            THEN doc' = NoDoc
            ELSE \E n \in doc.safe..Len(doc.pubs), torn \in SUBSET doc.soft :
                   doc' = [pubs |-> [i \in 1..n |-> IF doc.pubs[i] \in torn THEN Torn ELSE doc.pubs[i]],
                           safe |-> n, soft |-> doc.soft]
  BY DEF PowerLoss
<1>3. PICK e \in {"absent", "durable"} :
       /\ dir' = d
       /\ log.entry \in {"absent", "durable"} => e = log.entry
       /\ IF (Nested /\ d = "absent") \/ e = "absent"
            THEN log' = NoLog
            ELSE \E n \in log.safe..Len(log.lines), torn \in {FALSE, log.dirty} :
                   log' = [entry |-> "durable", lines |-> SubSeq(log.lines, 1, n), tail |-> torn \/ (log.tail /\ ~log.dirty),
                           safe |-> n, dirty |-> FALSE]
       /\ IF Nested /\ d = "absent"
            THEN doc' = NoDoc
            ELSE \E n \in doc.safe..Len(doc.pubs), torn \in SUBSET doc.soft :
                   doc' = [pubs |-> [i \in 1..n |-> IF doc.pubs[i] \in torn THEN Torn ELSE doc.pubs[i]],
                           safe |-> n, soft |-> doc.soft]
  BY <1>2
<1>4. /\ log' \in Logs /\ log'.safe <= Len(log'.lines)
      /\ (log' = NoLog /\ (Nested \/ log.entry # "durable")) \/ \E n : LogLeft(n)
  <2>1. CASE (Nested /\ d = "absent") \/ e = "absent"
    <3>1. log' = NoLog /\ (Nested \/ log.entry # "durable")
      BY <1>3, <2>1
    <3>2. NoLog \in Logs /\ NoLog.safe <= Len(NoLog.lines)
      BY DEF NoLog, Logs, Presence
    <3> QED BY <3>1, <3>2
  <2>2. CASE ~((Nested /\ d = "absent") \/ e = "absent")
    <3>1. PICK n \in log.safe..Len(log.lines) : \E torn \in {FALSE, log.dirty} :
             log' = [entry |-> "durable", lines |-> SubSeq(log.lines, 1, n), tail |-> torn \/ (log.tail /\ ~log.dirty),
                     safe |-> n, dirty |-> FALSE]
      BY <1>3, <2>2
    <3>2. PICK torn \in {FALSE, log.dirty} :
             log' = [entry |-> "durable", lines |-> SubSeq(log.lines, 1, n), tail |-> torn \/ (log.tail /\ ~log.dirty),
                     safe |-> n, dirty |-> FALSE]
      BY <3>1
    <3> DEFINE s == SubSeq(log.lines, 1, n)
               b == torn \/ (log.tail /\ ~log.dirty)
    <3>3. n \in Nat /\ n <= Len(log.lines)
      BY FilesTyped
    <3>4. s \in Seq(Ids \cup {Torn}) /\ Len(s) = n
      BY <3>3, FilesTyped
    <3>5. b \in BOOLEAN
      OBVIOUS
    <3>6. log' = [entry |-> "durable", lines |-> s, tail |-> b, safe |-> n, dirty |-> FALSE]
      BY <3>2
    <3> HIDE DEF s, b
    <3>7. log' \in Logs /\ log'.lines = s /\ log'.safe = n /\ log'.entry = "durable"
      BY <3>3, <3>4, <3>5, <3>6 DEF Logs, Presence
    <3>8. LogLeft(n)
      BY <3>1, <3>7 DEF LogLeft, s
    <3> QED BY <3>3, <3>4, <3>7, <3>8
  <2> QED BY <2>1, <2>2
<1>5. /\ doc' \in Docs /\ doc'.safe <= Len(doc'.pubs)
      /\ (doc' = NoDoc /\ Nested) \/ \E n, torn : DocLeft(n, torn)
  <2>1. CASE Nested /\ d = "absent"
    <3>1. NoDoc \in Docs /\ NoDoc.safe <= Len(NoDoc.pubs)
      BY DEF NoDoc, Docs
    <3> QED BY <1>3, <2>1, <3>1
  <2>2. CASE ~(Nested /\ d = "absent")
    <3>1. PICK n \in doc.safe..Len(doc.pubs) : \E torn \in SUBSET doc.soft :
             doc' = [pubs |-> [i \in 1..n |-> IF doc.pubs[i] \in torn THEN Torn ELSE doc.pubs[i]],
                     safe |-> n, soft |-> doc.soft]
      BY <1>3, <2>2
    <3>2. PICK torn \in SUBSET doc.soft :
             doc' = [pubs |-> [i \in 1..n |-> IF doc.pubs[i] \in torn THEN Torn ELSE doc.pubs[i]],
                     safe |-> n, soft |-> doc.soft]
      BY <3>1
    <3> DEFINE s == [i \in 1..n |-> IF doc.pubs[i] \in torn THEN Torn ELSE doc.pubs[i]]
    <3>3. n \in Nat /\ n <= Len(doc.pubs)
      BY FilesTyped
    <3>4. s \in Seq(Ids \cup {Torn}) /\ Len(s) = n
      <4>1. \A i \in 1..n : s[i] \in Ids \cup {Torn}
        BY <3>3, FilesTyped
      <4> QED BY <3>3, <4>1
    <3>5. doc' = [pubs |-> s, safe |-> n, soft |-> doc.soft]
      BY <3>2
    <3> HIDE DEF s
    <3>6. doc' \in Docs /\ doc'.pubs = s /\ doc'.safe = n /\ doc'.soft = doc.soft
      BY <3>3, <3>4, <3>5, FilesTyped DEF Docs
    <3>7. DocLeft(n, torn)
      BY <3>1, <3>2, <3>6 DEF DocLeft, s
    <3> QED BY <3>3, <3>4, <3>6, <3>7
  <2> QED BY <2>1, <2>2
<1>6. faults' \in 0..MaxFaults
  BY <1>1, RootedConstantsAssumption DEF Fault, LifeInv, Typed
<1>7. /\ handle' \in [Handles -> Leases] /\ view' \in [Threads -> {"none", "active", "expired"}]
      /\ temp' \in [Threads -> {"none", "unsynced", "synced"}]
      /\ pc' \in [Threads -> PCs] /\ job' \in [Threads -> Jobs]
  BY <1>1, RestartEffect
<1>8. dir' \in Presence /\ lockFile' \in BOOLEAN
  <2>1. dir' \in Presence
    BY <1>3 DEF Presence
  <2>2. lockFile' \in BOOLEAN
    BY <1>1 DEF LifeInv, Typed
  <2> QED BY <2>1, <2>2
<1>9. Typed'
  BY <1>1, <1>4, <1>5, <1>6, <1>7, <1>8 DEF LifeInv, Typed, history
<1> QED BY <1>1, <1>4, <1>5, <1>9

LEMMA PowerLossLife ==
  ASSUME LifeInv, PowerLoss
  PROVE  LifeInv'
BY PowerLossEffect, RestartLife

-----------------------------------------------------------------------------
(* The life of the handles. *)

\* Every step of a thread that does not concern the life of its handle.
InsideStep(t) ==
  \/ Mkdir(t) \/ SyncParent(t) \/ SyncChild(t)
  \/ OpenAppend(t) \/ OpenRead(t) \/ LockLog(t) \/ LockRead(t)
  \/ RecoverTail(t) \/ SyncRecovered(t) \/ WriteLine(t) \/ WriteNewline(t) \/ SyncLog(t) \/ ReadLog(t)
  \/ WriteTemp(t) \/ SyncTemp(t) \/ Rename(t) \/ SyncDir(t) \/ ReadDocument(t)
  \/ OpenLock(t) \/ SyncLockDir(t) \/ LockCancelled(t) \/ StepFails(t)

LEMMA InsideStepInside ==
  ASSUME LifeInv, NEW t \in Threads, InsideStep(t)
  PROVE  Inside(t) /\ Typed'
BY MkdirStep, SyncParentStep, SyncChildStep, OpenAppendStep, OpenReadStep, LockLogStep, LockReadStep,
   RecoverTailStep, SyncRecoveredStep, WriteLineStep, WriteNewlineStep, SyncLogStep, ReadLogStep,
   WriteTempStep, SyncTempStep, RenameStep, SyncDirStep, ReadDocumentStep,
   OpenLockStep, SyncLockDirStep, LockCancelledStep, StepFailsStep DEF InsideStep

LEMMA NextCases ==
  ASSUME Next
  PROVE  \/ \E t \in Threads : InsideStep(t)
         \/ \E t \in Threads : \E op \in PublicOps : BeginOperation(t, op)
         \/ \E t \in Threads : \E u \in Threads : \E op \in ViewOps : ViewOperation(t, u, op)
         \/ \E t \in Threads : \/ Close(t) \/ CloseDrained(t) \/ CloseRoot(t)
                               \/ LockWait(t) \/ CallbackReturns(t) \/ EndOperation(t)
         \/ \E h \in Handles : OpenRootedFiles(h) \/ Kill(h)
         \/ PowerLoss
BY DEF Next, Call, Step, InsideStep

LEMMA LifeInit ==
  ASSUME Init
  PROVE  LifeInv
<1>1. NewHandle \in Leases /\ NoJob \in Jobs /\ "idle" \in PCs
  BY NoJobType DEF NewHandle, Leases, PCs
<1>2. /\ NoLog \in Logs /\ NoLog.safe <= Len(NoLog.lines)
      /\ NoDoc \in Docs /\ NoDoc.safe <= Len(NoDoc.pubs)
  BY DEF NoLog, NoDoc, Logs, Docs, Presence
<1>3. Typed
  <2>1. log \in Logs /\ log.safe <= Len(log.lines) /\ doc \in Docs /\ doc.safe <= Len(doc.pubs)
    BY <1>2 DEF Init
  <2>2. handle \in [Handles -> Leases] /\ pc \in [Threads -> PCs] /\ job \in [Threads -> Jobs]
    BY <1>1 DEF Init
  <2>3. /\ view \in [Threads -> {"none", "active", "expired"}]
        /\ temp \in [Threads -> {"none", "unsynced", "synced"}]
        /\ acked \in [{"log", "doc"} -> SUBSET Ids] /\ guarded \in SUBSET (Ids \X Threads)
    BY DEF Init
  <2>4. calls \in 0..MaxCalls /\ faults \in 0..MaxFaults /\ dir \in Presence /\ setting \in Settings
    BY RootedConstantsAssumption DEF Init, Presence
  <2>5. lockFile \in BOOLEAN
    BY DEF Init
  <2> QED BY <2>1, <2>2, <2>3, <2>4, <2>5 DEF Typed
<1>4. ASSUME NEW t \in Threads
      PROVE  Place(t)
  BY NoJobType DEF Init, Place, OpPCs
<1>5. OneView /\ Distinct
  BY NoJobType DEF Init, OneView, Distinct
<1>6. HandleInv
  <2>1. ASSUME NEW h \in Handles
        PROVE  Busy(h) = {} /\ Active(h) = {} /\ handle[h] = NewHandle
    BY DEF Init, Busy, Active, OpPCs
  <2> QED BY <2>1, EmptyCount DEF HandleInv, NewHandle
<1>7. ClosingInv
  BY DEF Init, ClosingInv
<1> QED BY <1>3, <1>4, <1>5, <1>6, <1>7 DEF LifeInv

LEMMA LifeStutter ==
  ASSUME LifeInv, UNCHANGED vars
  PROVE  LifeInv'
<1>1. UNCHANGED <<setting, handle, view, dir, lockFile, log, doc, temp, acked, guarded, pc, job, calls, faults>>
  BY DEF vars
<1>2. Typed' /\ OneView' /\ Distinct' /\ ClosingInv'
  BY <1>1 DEF LifeInv, Typed, OneView, Distinct, ClosingInv, Home
<1>3. \A t \in Threads : Place(t)'
  BY <1>1 DEF LifeInv, Place, Home
<1>4. HandleInv'
  BY <1>1 DEF LifeInv, HandleInv, Busy, Active, Home
<1> QED BY <1>2, <1>3, <1>4 DEF LifeInv

LEMMA LifeStep ==
  ASSUME LifeInv, [Next]_vars
  PROVE  LifeInv'
<1>1. CASE UNCHANGED vars
  BY <1>1, LifeStutter
<1>2. CASE \E t \in Threads : InsideStep(t)
  BY <1>2, InsideStepInside, InsideLife
<1>3. CASE \E t \in Threads : \E op \in PublicOps : BeginOperation(t, op)
  BY <1>3, BeginLife
<1>4. CASE \E t \in Threads : \E u \in Threads : \E op \in ViewOps : ViewOperation(t, u, op)
  BY <1>4, ViewLife
<1>5. CASE \E t \in Threads : \/ Close(t) \/ CloseDrained(t) \/ CloseRoot(t)
                              \/ LockWait(t) \/ CallbackReturns(t) \/ EndOperation(t)
  BY <1>5, CloseLife, CloseDrainedLife, CloseRootLife, LockWaitLife, CallbackLife, EndLife
<1>6. CASE \E h \in Handles : OpenRootedFiles(h) \/ Kill(h)
  BY <1>6, OpenLife, KillLife
<1>7. CASE PowerLoss
  BY <1>7, PowerLossLife
<1> QED BY <1>1, <1>2, <1>3, <1>4, <1>5, <1>6, <1>7, NextCases

LEMMA LifeInvariant == Spec => []LifeInv
<1>1. Init => LifeInv
  BY LifeInit
<1>2. LifeInv /\ [Next]_vars => LifeInv'
  BY LifeStep
<1> QED BY <1>1, <1>2, PTL DEF Spec

\* Every variable keeps its type; the count of a handle never goes below zero, and
\* never above one operation and one callback of each thread (beginOperation,
\* endOperation).
THEOREM TypeCorrect == Spec => []TypeOK
<1>1. LifeInv => TypeOK
  <2> SUFFICES ASSUME LifeInv PROVE TypeOK
    OBVIOUS
  <2>1. Cardinality(Threads) \in Nat
    BY PartFinite
  <2>2. ASSUME NEW h \in Handles
        PROVE  handle[h] \in [life : {"open", "closing", "closed"},
                              operations : 0..2 * Cardinality(Threads), root : BOOLEAN]
    <3>1. Busy(h) \subseteq Threads /\ Active(h) \subseteq Threads
      BY DEF Busy, Active
    <3>2. /\ Cardinality(Busy(h)) \in Nat /\ Cardinality(Busy(h)) <= Cardinality(Threads)
          /\ Cardinality(Active(h)) \in Nat /\ Cardinality(Active(h)) <= Cardinality(Threads)
      BY <3>1, PartFinite
    <3>3. handle[h].operations = Cardinality(Busy(h)) + Cardinality(Active(h))
      BY DEF LifeInv, HandleInv
    <3>4. handle[h].operations \in 0..2 * Cardinality(Threads)
      BY <2>1, <3>2, <3>3
    <3>5. handle[h] \in Leases
      BY LeaseType DEF LifeInv
    <3> QED BY <3>4, <3>5 DEF Leases
  <2>3. handle \in [Handles -> [life : {"open", "closing", "closed"},
                                operations : 0..2 * Cardinality(Threads), root : BOOLEAN]]
    BY <2>2 DEF LifeInv, Typed
  <2> QED BY <2>3 DEF LifeInv, Typed, TypeOK, Logs, Docs, Jobs
<1> QED BY <1>1, LifeInvariant, PTL

\* The root of a handle is open as long as an operation or a callback runs on it,
\* whenever another thread calls Close (the lease of beginOperation).
THEOREM RootStaysOpen == Spec => []RootOpenWhileInUse
<1>1. LifeInv => RootOpenWhileInUse
  <2> SUFFICES ASSUME LifeInv, NEW t \in Threads, pc[t] # "idle", Op(t) # "close"
               PROVE  handle[Home(t)].root
    BY DEF RootOpenWhileInUse
  <2>1. pc[t] \notin {"drain", "closeRoot"}
    BY DEF LifeInv, Place, Op
  <2>2. pc[t] \in OpPCs \cup {"callback"}
    BY <2>1 DEF LifeInv, Typed, OpPCs
  <2> QED BY <2>2, InUse
<1> QED BY <1>1, LifeInvariant, PTL

\* Nobody works through a view whose callback has returned (lockedFiles.mu and
\* invalidate).
THEOREM ViewsAreCovered == Spec => []ViewWithinLock
<1>1. LifeInv => ViewWithinLock
  BY DEF LifeInv, Place, ViewWithinLock
<1> QED BY <1>1, LifeInvariant, PTL

-----------------------------------------------------------------------------
(* The kinds of steps, as the stream and the document see them. *)

\* A step that begins or ends an operation, a callback or the closing of a handle.
OutsideStep(t) ==
  \/ \E op \in PublicOps : BeginOperation(t, op)
  \/ \E u \in Threads : \E op \in ViewOps : ViewOperation(t, u, op)
  \/ Close(t) \/ CloseDrained(t) \/ CloseRoot(t) \/ LockWait(t) \/ CallbackReturns(t) \/ EndOperation(t)

Starts == {"openRead", "get", "mkdir", "open", "openTemp", "openLock", "end"}
Rests  == {"idle", "callback", "drain", "closeRoot", "end"}

\* It writes nothing, holds no lock of the stream afterwards, and gives out at
\* most a new identity.
Outside(t) ==
  /\ UNCHANGED <<log, doc, temp, acked, guarded, faults>>
  /\ Others(t)
  /\ calls' \in Nat /\ calls <= calls'
  /\ pc'[t] \in Starts \cup Rests
  /\ pc'[t] \notin Rests => /\ calls' = calls + 1
                            /\ job'[t].op \in {"append", "write"} => job'[t].id = calls + 1
  /\ job'[t].saw = job[t].saw \/ job'[t].saw = None

LEMMA EntersOutside ==
  ASSUME LifeInv, NEW t, NEW op, NEW via, Enters(t, op, via), pc'[t] \in Starts,
         UNCHANGED <<log, doc, temp, acked, guarded, faults>>
  PROVE  Outside(t)
<1>1. calls \in Nat
  BY DEF LifeInv, Typed
<1> QED BY <1>1 DEF Enters, Outside

LEMMA OutsideEffect ==
  ASSUME LifeInv, NEW t \in Threads, OutsideStep(t)
  PROVE  Outside(t)
<1> USE DEF files, history
<1>1. calls \in Nat /\ job \in [Threads -> Jobs] /\ pc \in [Threads -> PCs]
  BY DEF LifeInv, Typed
<1>2. ASSUME NEW op \in PublicOps, BeginOperation(t, op)
      PROVE  Outside(t)
  <2>1. Enter(t, op, None) /\ UNCHANGED <<log, doc, temp, acked, guarded, faults, setting>> /\ op # "close"
    BY <1>2 DEF BeginOperation
  <2>2. Enters(t, op, None) /\ pc'[t] = FirstStep(op)
    BY <2>1, EnterEffect
  <2> QED BY <2>1, <2>2, FirstStepFits, EntersOutside DEF Starts
<1>3. ASSUME NEW u \in Threads, NEW op \in ViewOps, ViewOperation(t, u, op)
      PROVE  Outside(t)
  <2>1. Enter(t, op, u) /\ UNCHANGED <<log, doc, temp, acked, guarded, faults, setting>> /\ op # "close"
    BY <1>3 DEF ViewOperation, ViewOps
  <2>2. Enters(t, op, u) /\ pc'[t] = FirstStep(op)
    BY <2>1, EnterEffect
  <2> QED BY <2>1, <2>2, FirstStepFits, EntersOutside DEF Starts
<1>4. CASE Close(t)
  <2>1. UNCHANGED <<log, doc, temp, acked, guarded, faults>>
    BY <1>4 DEF Close
  <2> QED BY <1>1, <1>4, <2>1, CloseEffect DEF Outside, Rests
<1>5. CASE CloseDrained(t)
  BY <1>1, <1>5 DEF CloseDrained, Goto, Others, Outside, Rests
<1>6. CASE CloseRoot(t)
  BY <1>1, <1>6, NoJobType DEF CloseRoot, Goto, Others, Outside, Rests
<1>7. CASE LockWait(t)
  BY <1>1, <1>7 DEF LockWait, Goto, Others, Outside, Rests
<1>8. CASE CallbackReturns(t)
  <2> DEFINE j == [NoJob EXCEPT !.op = "lock"]
  <2>1. /\ job' = [job EXCEPT ![t] = j] /\ Goto(t, "end")
        /\ UNCHANGED <<log, doc, temp, acked, guarded, faults, calls>>
    BY <1>8 DEF CallbackReturns
  <2>2. j \in Jobs /\ j.saw = None
    BY NewJobFields DEF PublicOps
  <2> HIDE DEF j
  <2> QED BY <1>1, <2>1, <2>2 DEF Goto, Others, Outside, Rests
<1>9. CASE EndOperation(t)
  <2>1. UNCHANGED <<log, doc, temp, acked, guarded, faults>>
    BY <1>9 DEF EndOperation
  <2> QED BY <1>1, <1>9, <2>1, EndEffect DEF Outside, Rests
<1> QED BY <1>2, <1>3, <1>4, <1>5, <1>6, <1>7, <1>8, <1>9 DEF OutsideStep

\* Nothing that the files or the threads know changes.
Still == UNCHANGED <<log, doc, temp, acked, guarded, pc, job, calls, faults>>

LEMMA StepKinds ==
  ASSUME LifeInv, [Next]_vars
  PROVE  \/ \E t \in Threads : InsideStep(t)
         \/ \E t \in Threads : OutsideStep(t) /\ Outside(t)
         \/ Still
         \/ \E h \in Handles : Kill(h)
         \/ PowerLoss
<1>1. CASE UNCHANGED vars
  BY <1>1 DEF vars, Still
<1>2. ASSUME NEW h \in Handles, OpenRootedFiles(h)
      PROVE  Still
  BY <1>2 DEF OpenRootedFiles, Still, files, history
<1> QED BY <1>1, <1>2, NextCases, OutsideEffect DEF OutsideStep

-----------------------------------------------------------------------------
(* The locks of the stream and its unterminated tail. *)

\* t holds no lock of the stream afterwards; it leaves a tail only by failing.
Aside(t) ==
  /\ ~ExclusiveLog(t)' /\ ~SharedLog(t)'
  /\ log'.tail => log.tail \/ (ExclusiveLog(t) /\ faults' > 0)
  /\ pc[t] = "writeRest" => faults' > 0
TakesExclusive(t) ==
  /\ \A u \in Threads : ~ExclusiveLog(u) /\ ~SharedLog(u)
  /\ pc'[t] = "recover" /\ log' = log
TakesShared(t) ==
  /\ \A u \in Threads : ~ExclusiveLog(u)
  /\ pc'[t] = "read" /\ Op(t)' = "read" /\ log' = log
\* t goes on writing under its lock.
Works(t) ==
  /\ ExclusiveLog(t)
  /\ pc'[t] # "writeTorn"
  /\ log'.tail => pc'[t] = "writeRest"

LocksInv == LogLocks /\ TailInv

LEMMA InsideTail ==
  ASSUME LifeInv, LocksInv, NEW t \in Threads, InsideStep(t)
  PROVE  /\ Aside(t) \/ TakesExclusive(t) \/ TakesShared(t) \/ Works(t)
         /\ faults' \in Nat /\ faults <= faults'
<1>1. /\ Inside(t) /\ Typed' /\ pc[t] \in OpPCs /\ pc'[t] \in PCs /\ job'[t].op = job[t].op
      /\ faults \in Nat /\ faults' \in Nat
  BY InsideStepInside DEF Inside, Typed, LifeInv
<1>2. Op(t) = job[t].op /\ Op(t)' = job[t].op /\ Fits(job[t].op, pc[t])
  BY <1>1, OpAt DEF Op
<1> DEFINE Kind == Aside(t) \/ TakesExclusive(t) \/ TakesShared(t) \/ Works(t)
           Free == {"mkdir", "syncParent", "syncChild", "open", "openRead", "lockLog", "lockRead",
                    "openTemp", "syncTemp", "rename", "get", "openLock", "syncLockDir", "lockWait", "end"}
<1>3. ASSUME pc'[t] \in Free \/ (pc'[t] = "syncDir" /\ job[t].op = "write")
      PROVE  ~ExclusiveLog(t)' /\ ~SharedLog(t)'
  BY <1>2, <1>3 DEF ExclusiveLog, SharedLog, WritingLog
<1>4. ASSUME pc'[t] \in Free \/ (pc'[t] = "syncDir" /\ job[t].op = "write"),
             log'.tail => log.tail, pc[t] # "writeRest"
      PROVE  Kind
  BY <1>3, <1>4 DEF Aside
<1>5. Opens(job[t].op) \in {"open", "openTemp", "openLock", "end"}
         \/ job[t].op \notin {"append", "write", "lock", "ensure"}
  BY OpensFits
<1> USE DEF Moves, Goto
<1>6. pc \in [Threads -> PCs]
  BY DEF LifeInv, Typed
<1>7. CASE Mkdir(t)
  <2>1. pc[t] = "mkdir" /\ pc'[t] \in Free /\ log' = log /\ faults' = faults
    BY <1>2, <1>5, <1>6, <1>7 DEF Mkdir, Fits
  <2> QED BY <1>1, <1>4, <2>1
<1>8. CASE SyncParent(t)
  <2>1. pc[t] = "syncParent" /\ pc'[t] \in Free /\ log' = log /\ faults' = faults
    BY <1>6, <1>8 DEF SyncParent
  <2> QED BY <1>1, <1>4, <2>1
<1>9. CASE SyncChild(t)
  <2>1. pc[t] = "syncChild" /\ pc'[t] \in Free /\ faults' = faults
    BY <1>2, <1>5, <1>6, <1>9 DEF SyncChild, Fits
  <2>2. log'.tail = log.tail
    BY <1>9, DirSyncedTyped DEF SyncChild
  <2> QED BY <1>1, <1>4, <2>1, <2>2
<1>10. CASE OpenAppend(t)
  <2>1. pc[t] = "open" /\ pc'[t] \in Free /\ faults' = faults
    BY <1>6, <1>10 DEF OpenAppend
  <2>2. log'.tail = log.tail
    BY <1>10, OpenAppendStep
  <2> QED BY <1>1, <1>4, <2>1, <2>2
<1>11. CASE OpenRead(t)
  <2>1. pc[t] = "openRead" /\ pc'[t] \in Free /\ faults' = faults /\ log' = log
    BY <1>6, <1>11 DEF OpenRead
  <2> QED BY <1>1, <1>4, <2>1
<1>12. CASE LockLog(t)
  BY <1>1, <1>6, <1>12 DEF LockLog, TakesExclusive
<1>13. CASE LockRead(t)
  <2>1. pc[t] = "lockRead"
    BY <1>13 DEF LockRead
  <2>2. job[t].op = "read"
    BY <1>2, <2>1 DEF Fits
  <2> QED BY <1>1, <1>2, <1>6, <1>13, <2>2 DEF LockRead, TakesShared
<1>14. CASE RecoverTail(t)
  <2>1. pc[t] = "recover" /\ faults' = faults /\ ExclusiveLog(t)
    BY <1>14 DEF RecoverTail, ExclusiveLog, WritingLog
  <2>2. /\ log' = log \/ ~log'.tail
        /\ pc'[t] \in {"end", "syncRecovered", Recovered(t)}
        /\ pc'[t] # "end" => ~log'.tail
    BY <1>14, RecoverTailStep
  <2>3. CASE pc'[t] = "end"
    BY <1>1, <1>4, <2>1, <2>2, <2>3
  <2>4. CASE pc'[t] # "end"
    <3>1. pc'[t] # "writeTorn"
      BY <2>2 DEF Recovered
    <3> QED BY <1>1, <2>1, <2>2, <2>4, <3>1 DEF Works
  <2> QED BY <2>3, <2>4
<1>15. CASE SyncRecovered(t)
  <2>1. pc[t] = "syncRecovered" /\ pc'[t] = Recovered(t) /\ faults' = faults
    BY <1>15, SyncRecoveredStep DEF SyncRecovered
  <2>2. ExclusiveLog(t) /\ ~log.tail
    BY <2>1 DEF LocksInv, TailInv, ExclusiveLog, WritingLog
  <2>3. log'.tail = log.tail
    BY <1>15, FileSyncedTyped DEF SyncRecovered
  <2>4. pc'[t] # "writeTorn"
    BY <2>1 DEF Recovered
  <2> QED BY <1>1, <2>1, <2>2, <2>3, <2>4 DEF Works
<1>16. CASE WriteLine(t)
  <2>1. pc[t] = "write" /\ pc'[t] = (IF log.tail THEN "writeTorn" ELSE "writeRest") /\ faults' = faults
    BY <1>16, WriteLineStep DEF WriteLine
  <2>2. ExclusiveLog(t) /\ ~log.tail
    BY <2>1 DEF LocksInv, TailInv, ExclusiveLog, WritingLog
  <2> QED BY <1>1, <2>1, <2>2 DEF Works
<1>17. CASE WriteNewline(t)
  <2>1. pc[t] \in {"writeRest", "writeTorn"} /\ pc'[t] = "sync" /\ log'.tail = FALSE /\ faults' = faults
    BY <1>17, WriteNewlineStep DEF WriteNewline
  <2> QED BY <1>1, <2>1 DEF Works, ExclusiveLog, WritingLog
<1>18. CASE SyncLog(t)
  <2>1. pc[t] = "sync" /\ pc'[t] = "syncDir" /\ faults' = faults
    BY <1>18, SyncLogStep DEF SyncLog
  <2>2. ExclusiveLog(t) /\ ~log.tail
    BY <2>1 DEF LocksInv, TailInv, ExclusiveLog, WritingLog
  <2>3. log'.tail = log.tail
    BY <1>18, FileSyncedTyped DEF SyncLog
  <2> QED BY <1>1, <2>1, <2>2, <2>3 DEF Works
<1>19. CASE ReadLog(t)
  <2>1. pc[t] = "read" /\ pc'[t] \in Free /\ faults' = faults /\ log' = log
    BY <1>6, <1>19 DEF ReadLog, files
  <2> QED BY <1>1, <1>4, <2>1
<1>20. CASE WriteTemp(t)
  <2>1. pc[t] = "openTemp" /\ pc'[t] \in Free /\ faults' = faults /\ log' = log
    BY <1>6, <1>20 DEF WriteTemp, files
  <2> QED BY <1>1, <1>4, <2>1
<1>21. CASE SyncTemp(t)
  <2>1. pc[t] = "syncTemp" /\ pc'[t] \in Free /\ faults' = faults /\ log' = log
    BY <1>6, <1>21 DEF SyncTemp, files
  <2> QED BY <1>1, <1>4, <2>1
<1>22. CASE Rename(t)
  <2>1. pc[t] = "rename" /\ pc'[t] = "syncDir" /\ faults' = faults /\ log' = log
    BY <1>6, <1>22 DEF Rename
  <2>2. job[t].op = "write"
    BY <1>2, <2>1 DEF Fits
  <2> QED BY <1>1, <1>4, <2>1, <2>2
<1>23. CASE SyncDir(t)
  <2>1. pc[t] = "syncDir" /\ pc'[t] \in Free /\ faults' = faults /\ DirSynced
    BY <1>6, <1>23 DEF SyncDir
  <2> QED BY <1>1, <1>4, <2>1, DirSyncedTyped
<1>24. CASE ReadDocument(t)
  <2>1. pc[t] = "get" /\ pc'[t] \in Free /\ faults' = faults /\ log' = log
    BY <1>6, <1>24 DEF ReadDocument
  <2> QED BY <1>1, <1>4, <2>1
<1>25. CASE OpenLock(t)
  <2>1. pc[t] = "openLock" /\ pc'[t] \in Free /\ faults' = faults /\ log' = log
    BY <1>6, <1>25 DEF OpenLock
  <2> QED BY <1>1, <1>4, <2>1
<1>26. CASE SyncLockDir(t)
  <2>1. pc[t] = "syncLockDir" /\ pc'[t] \in Free /\ faults' = faults /\ DirSynced
    BY <1>6, <1>26 DEF SyncLockDir
  <2> QED BY <1>1, <1>4, <2>1, DirSyncedTyped
<1>27. CASE LockCancelled(t)
  <2>1. pc[t] = "lockWait" /\ pc'[t] \in Free /\ faults' = faults /\ log' = log
    BY <1>6, <1>27 DEF LockCancelled
  <2> QED BY <1>1, <1>4, <2>1
<1>28. CASE StepFails(t)
  <2>1. pc'[t] = "end" /\ faults' = faults + 1 /\ (log' = log \/ pc[t] = "write")
    BY <1>28, StepFailsStep
  <2>2. ~ExclusiveLog(t)' /\ ~SharedLog(t)'
    BY <1>3, <2>1
  <2>3. pc[t] = "write" => ExclusiveLog(t)
    BY DEF ExclusiveLog, WritingLog
  <2> QED BY <1>1, <2>1, <2>2, <2>3 DEF Aside
<1> QED BY <1>7, <1>8, <1>9, <1>10, <1>11, <1>12, <1>13, <1>14, <1>15, <1>16, <1>17, <1>18, <1>19,
           <1>20, <1>21, <1>22, <1>23, <1>24, <1>25, <1>26, <1>27, <1>28 DEF InsideStep

LEMMA OthersLocks ==
  ASSUME NEW t \in Threads, Others(t), NEW u \in Threads, u # t
  PROVE  /\ pc'[u] = pc[u]
         /\ ExclusiveLog(u)' <=> ExclusiveLog(u)
         /\ SharedLog(u)' <=> SharedLog(u)
BY DEF Others, ExclusiveLog, SharedLog, Op

LEMMA AsideLocks ==
  ASSUME LifeInv, LocksInv, NEW t \in Threads, Others(t), Aside(t), faults' \in Nat, faults <= faults'
  PROVE  LocksInv'
<1>1. faults \in Nat
  BY DEF LifeInv, Typed
<1>2. LogLocks'
  <2>1. ASSUME NEW u \in Threads, NEW v \in Threads, u # v, ExclusiveLog(u)'
        PROVE  ~ExclusiveLog(v)' /\ ~SharedLog(v)'
    <3>1. u # t
      BY <2>1 DEF Aside
    <3>2. ExclusiveLog(u)
      BY <2>1, <3>1, OthersLocks
    <3>3. ~ExclusiveLog(v) /\ ~SharedLog(v)
      BY <2>1, <3>2 DEF LocksInv, LogLocks
    <3> QED BY <3>3, OthersLocks DEF Aside
  <2> QED BY <2>1 DEF LogLocks
<1>3. log'.tail => faults' > 0 \/ \E u \in Threads : pc'[u] = "writeRest"
  <2> SUFFICES ASSUME log'.tail
               PROVE  faults' > 0 \/ \E u \in Threads : pc'[u] = "writeRest"
    OBVIOUS
  <2>1. CASE ~log.tail
    BY <2>1 DEF Aside
  <2>2. CASE log.tail
    <3>1. faults > 0 \/ \E u \in Threads : pc[u] = "writeRest"
      BY <2>2 DEF LocksInv, TailInv
    <3> QED BY <1>1, <3>1, OthersLocks DEF Aside
  <2> QED BY <2>1, <2>2
<1>4. ASSUME NEW u \in Threads
      PROVE  /\ pc'[u] # "writeTorn"
             /\ ExclusiveLog(u)' /\ pc'[u] \notin {"recover", "writeRest"} => ~log'.tail
  <2>1. CASE u = t
    <3>1. ~ExclusiveLog(t)'
      BY DEF Aside
    <3> QED BY <2>1, <3>1 DEF ExclusiveLog, WritingLog
  <2>2. CASE u # t
    <3>1. pc'[u] = pc[u] /\ (ExclusiveLog(u)' <=> ExclusiveLog(u))
      BY <2>2, OthersLocks
    <3>2. ExclusiveLog(u) => ~ExclusiveLog(t)
      BY <2>2 DEF LocksInv, LogLocks
    <3> QED BY <3>1, <3>2 DEF LocksInv, TailInv, Aside
  <2> QED BY <2>1, <2>2
<1> QED BY <1>2, <1>3, <1>4 DEF LocksInv, TailInv

LEMMA ExclusiveLocks ==
  ASSUME LifeInv, LocksInv, NEW t \in Threads, Others(t), TakesExclusive(t), faults' \in Nat, faults <= faults'
  PROVE  LocksInv'
<1>1. faults \in Nat
  BY DEF LifeInv, Typed
<1>2. \A u \in Threads \ {t} : ~ExclusiveLog(u)' /\ ~SharedLog(u)'
  BY OthersLocks DEF TakesExclusive
<1>3. ~SharedLog(t)' /\ pc'[t] = "recover"
  BY DEF TakesExclusive, SharedLog
<1>4. LogLocks'
  BY <1>2, <1>3 DEF LogLocks
<1>5. log'.tail => faults' > 0
  <2>1. \A u \in Threads : pc[u] # "writeRest"
    BY DEF TakesExclusive, ExclusiveLog, WritingLog
  <2> QED BY <1>1, <2>1 DEF TakesExclusive, LocksInv, TailInv
<1>6. \A u \in Threads \ {t} : pc'[u] # "writeTorn"
  BY OthersLocks DEF LocksInv, TailInv
<1> QED BY <1>2, <1>3, <1>4, <1>5, <1>6 DEF LocksInv, TailInv

LEMMA SharedLocks ==
  ASSUME LifeInv, LocksInv, NEW t \in Threads, Others(t), TakesShared(t), faults' \in Nat, faults <= faults'
  PROVE  LocksInv'
<1>1. faults \in Nat
  BY DEF LifeInv, Typed
<1>2. \A u \in Threads : ~ExclusiveLog(u)'
  <2>1. \A u \in Threads \ {t} : ~ExclusiveLog(u)'
    BY OthersLocks DEF TakesShared
  <2>2. ~ExclusiveLog(t)'
    BY DEF TakesShared, ExclusiveLog, WritingLog
  <2> QED BY <2>1, <2>2
<1>3. LogLocks'
  BY <1>2 DEF LogLocks
<1>4. log'.tail => faults' > 0
  <2>1. \A u \in Threads : pc[u] # "writeRest"
    BY DEF TakesShared, ExclusiveLog, WritingLog
  <2> QED BY <1>1, <2>1 DEF TakesShared, LocksInv, TailInv
<1>5. \A u \in Threads : pc'[u] # "writeTorn"
  BY <1>2 DEF ExclusiveLog, WritingLog
<1> QED BY <1>2, <1>3, <1>4, <1>5 DEF LocksInv, TailInv

LEMMA WorksLocks ==
  ASSUME LifeInv, LocksInv, NEW t \in Threads, Others(t), Works(t), faults' \in Nat
  PROVE  LocksInv'
<1>1. \A u \in Threads \ {t} : ~ExclusiveLog(u)' /\ ~SharedLog(u)'
  BY OthersLocks DEF Works, LocksInv, LogLocks
<1>2. ExclusiveLog(t)' => ~SharedLog(t)'
  BY DEF ExclusiveLog, SharedLog, WritingLog
<1>3. LogLocks'
  BY <1>1, <1>2 DEF LogLocks
<1>4. \A u \in Threads : pc'[u] # "writeTorn"
  <2>1. \A u \in Threads \ {t} : pc'[u] # "writeTorn"
    BY <1>1 DEF ExclusiveLog, WritingLog
  <2> QED BY <2>1 DEF Works
<1>5. TailInv'
  BY <1>1, <1>4 DEF TailInv, Works
<1> QED BY <1>3, <1>5 DEF LocksInv

LEMMA LocksStep ==
  ASSUME LifeInv, LocksInv, [Next]_vars
  PROVE  LocksInv'
<1>0. faults \in Nat
  BY DEF LifeInv, Typed
<1>1. ASSUME NEW t \in Threads, InsideStep(t)
      PROVE  LocksInv'
  <2>1. Others(t)
    BY <1>1, InsideStepInside DEF Inside
  <2> QED BY <1>1, <2>1, InsideTail, AsideLocks, ExclusiveLocks, SharedLocks, WorksLocks
<1>2. ASSUME NEW t \in Threads, OutsideStep(t), Outside(t)
      PROVE  LocksInv'
  <2>1. ~ExclusiveLog(t)' /\ ~SharedLog(t)'
    <3>1. pc'[t] \in Starts \cup Rests
      BY <1>2 DEF Outside
    <3> QED BY <3>1 DEF Starts, Rests, ExclusiveLog, SharedLog, WritingLog
  <2>2. pc[t] # "writeRest"
    <3>1. \/ pc[t] \in {"idle", "callback", "drain", "closeRoot", "lockWait", "end"}
      BY <1>2 DEF OutsideStep, BeginOperation, ViewOperation, Close, CloseDrained, CloseRoot, LockWait,
                  CallbackReturns, EndOperation
    <3> QED BY <3>1
  <2>3. Aside(t) /\ Others(t) /\ faults' = faults
    BY <1>2, <2>1, <2>2 DEF Aside, Outside
  <2> QED BY <1>0, <2>3, AsideLocks
<1>3. CASE Still
  <2>1. \A u \in Threads : (ExclusiveLog(u)' <=> ExclusiveLog(u)) /\ (SharedLog(u)' <=> SharedLog(u))
    BY <1>3 DEF Still, ExclusiveLog, SharedLog, Op
  <2> QED BY <1>3, <2>1 DEF Still, LocksInv, LogLocks, TailInv
<1>4. ASSUME NEW H \in SUBSET Handles, Restart(H), faults' = faults + 1, H = Handles \/ log' = log
      PROVE  LocksInv'
  <2>1. /\ \A t \in Dead(H) : pc'[t] = "idle"
        /\ \A t \in Threads \ Dead(H) : pc'[t] = pc[t] /\ job'[t] = job[t]
    BY <1>4, RestartEffect
  <2>2. \A t \in Dead(H) : ~ExclusiveLog(t)' /\ ~SharedLog(t)' /\ pc'[t] # "writeTorn"
    BY <2>1 DEF ExclusiveLog, SharedLog, WritingLog
  <2>3. \A t \in Threads \ Dead(H) :
          pc'[t] = pc[t] /\ (ExclusiveLog(t)' <=> ExclusiveLog(t)) /\ (SharedLog(t)' <=> SharedLog(t))
    BY <2>1 DEF ExclusiveLog, SharedLog, Op
  <2>4. LogLocks'
    BY <2>2, <2>3 DEF LocksInv, LogLocks
  <2>5. faults' > 0
    BY <1>0, <1>4
  <2>6. H = Handles => Dead(H) = Threads
    BY HomeType DEF Dead, LifeInv
  <2>7. CASE H = Handles
    BY <2>2, <2>4, <2>5, <2>6, <2>7 DEF LocksInv, TailInv
  <2>8. CASE log' = log
    BY <2>2, <2>3, <2>4, <2>5, <2>8 DEF LocksInv, TailInv
  <2> QED BY <1>4, <2>7, <2>8
<1>5. ASSUME NEW h \in Handles, Kill(h)
      PROVE  LocksInv'
  BY <1>4, <1>5 DEF Kill, Fault, files
<1>6. CASE PowerLoss
  BY <1>4, <1>6 DEF PowerLoss, Fault
<1> QED BY <1>1, <1>2, <1>3, <1>5, <1>6, StepKinds

LEMMA LocksInvariant == Spec => [](LifeInv /\ LocksInv)
<1>1. Init => LifeInv /\ LocksInv
  <2> SUFFICES ASSUME Init PROVE LifeInv /\ LocksInv
    OBVIOUS
  <2>1. \A t \in Threads : ~ExclusiveLog(t) /\ ~SharedLog(t) /\ pc[t] # "writeTorn"
    BY DEF Init, ExclusiveLog, SharedLog, WritingLog
  <2>2. ~log.tail
    BY DEF Init, NoLog
  <2> QED BY <2>1, <2>2, LifeInit DEF LocksInv, LogLocks, TailInv
<1>2. LifeInv /\ LocksInv /\ [Next]_vars => (LifeInv /\ LocksInv)'
  BY LifeStep, LocksStep
<1> QED BY <1>1, <1>2, PTL DEF Spec

\* A reader under its lock meets an unterminated line only after some operation
\* failed or died, and a callback never does (the locks of the stream,
\* recoverAndReadJSONL).
THEOREM ReadersAreShielded == Spec => []ReadersSeeWholeLines
<1>1. LifeInv /\ LocksInv => ReadersSeeWholeLines
  <2> SUFFICES ASSUME LifeInv, LocksInv, NEW t \in Threads, pc[t] = "read", log.tail
               PROVE  Op(t) = "read" /\ faults > 0
    BY DEF ReadersSeeWholeLines
  <2>1. Op(t) \in {"read", "recover"}
    <3>1. "read" \in OpPCs
      BY DEF OpPCs, PCs
    <3> QED BY <3>1, OpAt DEF Fits
  <2>2. Op(t) # "recover"
    BY DEF LocksInv, TailInv, ExclusiveLog
  <2>3. ASSUME NEW u \in Threads, pc[u] = "writeRest"
        PROVE  FALSE
    <3>1. u # t /\ ExclusiveLog(u) /\ SharedLog(t)
      BY <2>1, <2>2, <2>3 DEF ExclusiveLog, SharedLog, WritingLog
    <3> QED BY <3>1 DEF LocksInv, LogLocks
  <2> QED BY <2>1, <2>2, <2>3 DEF LocksInv, TailInv
<1> QED BY <1>1, LocksInvariant, PTL

-----------------------------------------------------------------------------
(* What the steps of an operation write. *)

\* The order of the steps of an append and of the publishing of a document.
Edge(t) ==
  /\ pc'[t] = "sync" => pc[t] \in {"writeRest", "writeTorn"}
  /\ pc'[t] = "syncDir" => pc[t] \in {"sync", "rename"}
  /\ pc'[t] = "rename" => pc[t] = "syncTemp"
  /\ job[t].op = "append" =>
       /\ pc'[t] \in Unwritten => pc[t] \in Unwritten
       /\ pc'[t] \in {"lockLog"} \cup WritingLog => pc[t] \in {"open", "lockLog"} \cup WritingLog
  /\ job[t].op = "write" => (pc'[t] \in Unpublished => pc[t] \in Unpublished)

LEMMA InsideEdge ==
  ASSUME LifeInv, NEW t \in Threads, InsideStep(t)
  PROVE  Edge(t)
<1>1. pc[t] \in OpPCs /\ pc \in [Threads -> PCs]
  BY InsideStepInside DEF Inside, LifeInv, Typed
<1>2. Op(t) = job[t].op /\ Fits(job[t].op, pc[t])
  BY <1>1, OpAt
<1>3. pc[t] \in {"mkdir", "syncParent", "syncChild"} =>
        /\ job[t].op = "append" => Opens(Op(t)) = "open"
        /\ job[t].op = "write" => Opens(Op(t)) = "openTemp"
        /\ Opens(Op(t)) \in {"open", "openTemp", "openLock", "end"}
  <2>1. pc[t] \in {"mkdir", "syncParent", "syncChild"} => job[t].op \in {"append", "write", "lock", "ensure"}
    BY <1>2 DEF Fits
  <2>2. job[t].op = "append" => Opens(Op(t)) = "open"
    BY <1>2 DEF Opens
  <2>3. job[t].op = "write" => Opens(Op(t)) = "openTemp"
    BY <1>2 DEF Opens
  <2> QED BY <1>2, <2>1, <2>2, <2>3, OpensFits
<1> USE DEF Edge, Moves, Goto, Unwritten, Unpublished, WritingLog
<1>4. CASE Mkdir(t)
  <2>1. pc[t] = "mkdir" /\ pc'[t] \in {"syncParent", Opens(Op(t))}
    BY <1>1, <1>4 DEF Mkdir
  <2> QED BY <1>3, <2>1
<1>5. CASE SyncParent(t)
  BY <1>1, <1>5 DEF SyncParent
<1>6. CASE SyncChild(t)
  <2>1. pc[t] = "syncChild" /\ pc'[t] = Opens(Op(t))
    BY <1>1, <1>6 DEF SyncChild
  <2> QED BY <1>3, <2>1
<1>7. CASE OpenAppend(t) \/ LockLog(t) \/ LockRead(t)
  BY <1>1, <1>7 DEF OpenAppend, LockLog, LockRead
<1>8. CASE OpenRead(t)
  <2>1. pc[t] = "openRead" /\ pc'[t] \in {"end", "lockLog", "lockRead"}
    BY <1>1, <1>8 DEF OpenRead
  <2>2. job[t].op \in {"read", "recover"}
    BY <1>2, <2>1 DEF Fits
  <2> QED BY <2>1, <2>2
<1>9. CASE RecoverTail(t)
  <2>1. pc[t] = "recover" /\ pc'[t] \in {"end", "syncRecovered", "write", "read"}
    BY <1>9, RecoverTailStep DEF RecoverTail, Recovered
  <2>2. job[t].op # "write"
    BY <1>2, <2>1 DEF Fits
  <2> QED BY <2>1, <2>2
<1>10. CASE SyncRecovered(t)
  <2>1. pc[t] = "syncRecovered" /\ pc'[t] \in {"write", "read"}
    BY <1>10, SyncRecoveredStep DEF Recovered
  <2>2. job[t].op # "write"
    BY <1>2, <2>1 DEF Fits
  <2> QED BY <2>1, <2>2
<1>11. CASE WriteLine(t)
  BY <1>11, WriteLineStep
<1>12. CASE WriteNewline(t)
  BY <1>12, WriteNewlineStep
<1>13. CASE SyncLog(t)
  BY <1>13, SyncLogStep
<1>14. CASE ReadLog(t) \/ SyncDir(t) \/ StepFails(t)
  BY <1>14, ReadLogStep, SyncDirStep, StepFailsStep
<1>15. CASE WriteTemp(t) \/ SyncTemp(t) \/ Rename(t)
  BY <1>15, WriteTempStep, SyncTempStep, RenameStep
<1>16. CASE ReadDocument(t) \/ SyncLockDir(t) \/ LockCancelled(t)
  BY <1>1, <1>16 DEF ReadDocument, SyncLockDir, LockCancelled
<1>17. CASE OpenLock(t)
  BY <1>1, <1>17 DEF OpenLock
<1> QED BY <1>4, <1>5, <1>6, <1>7, <1>8, <1>9, <1>10, <1>11, <1>12, <1>13, <1>14, <1>15, <1>16, <1>17
        DEF InsideStep

\* Only the newline makes a line; entries and synced bytes stay.
LogCalm(t) ==
  /\ log'.lines = log.lines /\ guarded' = guarded
  /\ log'.safe \in {log.safe, Len(log.lines)}
  /\ log.entry # "absent" => log'.entry # "absent"
  /\ log.entry = "durable" => log'.entry = "durable"
  /\ pc[t] = "open" /\ pc'[t] # "end" => log'.entry # "absent"
  /\ pc[t] = "sync" /\ pc'[t] = "syncDir" => log'.safe = Len(log.lines)
  /\ job'[t].saw = job[t].saw \/ job'[t].saw = Len(log.lines)

LEMMA InsideLog ==
  ASSUME LifeInv, NEW t \in Threads, InsideStep(t), ~WriteNewline(t)
  PROVE  LogCalm(t)
<1>1. pc \in [Threads -> PCs]
  BY DEF LifeInv, Typed
<1> USE DEF LogCalm, Moves, Goto, files, history
<1>2. CASE Mkdir(t) \/ SyncParent(t)
  BY <1>1, <1>2 DEF Mkdir, SyncParent
<1>3. ASSUME DirSynced, guarded' = guarded, job' = job, pc[t] \notin {"open", "sync"}
      PROVE  LogCalm(t)
  BY <1>3, DirSyncedTyped
<1>4. CASE SyncChild(t)
  <2>1. CASE Nested
    BY <1>3, <1>4, <2>1 DEF SyncChild
  <2>2. CASE ~Nested
    BY <1>4, <2>2 DEF SyncChild
  <2> QED BY <2>1, <2>2
<1>5. CASE OpenAppend(t)
  <2>1. job' = job /\ guarded' = guarded /\ pc[t] = "open"
    BY <1>5 DEF OpenAppend
  <2> QED BY <1>5, <2>1, OpenAppendStep
<1>6. CASE OpenRead(t) \/ LockLog(t) \/ LockRead(t) \/ ReadDocument(t) \/ LockCancelled(t)
  BY <1>6 DEF OpenRead, LockLog, LockRead, ReadDocument, LockCancelled
<1>7. CASE RecoverTail(t)
  <2>1. job' = job /\ guarded' = guarded /\ pc[t] = "recover"
    BY <1>7 DEF RecoverTail
  <2> QED BY <1>7, <2>1, RecoverTailStep
<1>8. CASE SyncRecovered(t) \/ SyncLog(t)
  <2>1. job' = job /\ guarded' = guarded /\ FileSynced /\ pc[t] # "open"
    BY <1>8 DEF SyncRecovered, SyncLog
  <2> QED BY <2>1, FileSyncedTyped
<1>9. CASE WriteLine(t)
  <2>1. job' = job /\ guarded' = guarded
    BY <1>9 DEF WriteLine
  <2> QED BY <1>9, <2>1, WriteLineStep
<1>10. CASE ReadLog(t)
  <2>1. log' = log /\ guarded' = guarded /\ pc[t] = "read"
    BY <1>10 DEF ReadLog
  <2> QED BY <1>10, <2>1, ReadLogStep
<1>11. CASE WriteTemp(t) \/ SyncTemp(t) \/ Rename(t) \/ OpenLock(t)
  <2>1. job' = job /\ guarded' = guarded /\ log' = log /\ pc[t] \notin {"open", "sync"}
    BY <1>11 DEF WriteTemp, SyncTemp, Rename, OpenLock
  <2> QED BY <2>1
<1>12. CASE SyncDir(t)
  BY <1>3, <1>12 DEF SyncDir
<1>13. CASE SyncLockDir(t)
  BY <1>3, <1>13 DEF SyncLockDir
<1>14. CASE StepFails(t)
  <2>1. job' = job /\ guarded' = guarded /\ pc'[t] = "end"
    BY <1>1, <1>14 DEF StepFails
  <2> QED BY <1>14, <2>1, StepFailsStep
<1> QED BY <1>2, <1>4, <1>5, <1>6, <1>7, <1>8, <1>9, <1>10, <1>11, <1>12, <1>13, <1>14 DEF InsideStep

\* Only a rename adds a version; what a directory sync made safe stays.
DocCalm ==
  /\ doc'.pubs = doc.pubs /\ doc'.soft = doc.soft
  /\ doc'.safe \in {doc.safe, Len(doc.pubs)}

LEMMA InsideDoc ==
  ASSUME LifeInv, NEW t \in Threads, InsideStep(t)
  PROVE  /\ ~Rename(t) => DocCalm
         /\ ~SyncDir(t) => acked' = acked
         /\ \A u \in Threads \ {t} : temp'[u] = temp[u]
         /\ pc'[t] = "rename" => temp'[t] = "synced"
<1>1. pc \in [Threads -> PCs] /\ temp \in [Threads -> {"none", "unsynced", "synced"}]
  BY DEF LifeInv, Typed
<1>2. pc'[t] = "rename" => pc[t] = "syncTemp"
  BY InsideEdge DEF Edge
<1> USE DEF Moves, Goto, files, history
<1>3. DirSynced => DocCalm
  BY DirSyncedTyped DEF DocCalm
<1>4. doc' = doc => DocCalm
  BY DEF DocCalm
<1>5. CASE Mkdir(t) \/ SyncParent(t) \/ OpenAppend(t) \/ OpenRead(t) \/ LockLog(t) \/ LockRead(t)
  BY <1>2, <1>4, <1>5 DEF Mkdir, SyncParent, OpenAppend, OpenRead, LockLog, LockRead
<1>6. CASE SyncChild(t)
  <2>1. acked' = acked /\ temp' = temp /\ pc[t] = "syncChild" /\ (DirSynced \/ doc' = doc)
    BY <1>6 DEF SyncChild
  <2> QED BY <1>2, <1>3, <1>4, <2>1
<1>7. CASE RecoverTail(t) \/ SyncRecovered(t) \/ WriteLine(t) \/ SyncLog(t) \/ ReadDocument(t) \/ LockCancelled(t)
  BY <1>2, <1>4, <1>7 DEF RecoverTail, SyncRecovered, WriteLine, SyncLog, ReadDocument, LockCancelled
<1>8. CASE WriteNewline(t) \/ ReadLog(t) \/ OpenLock(t)
  BY <1>2, <1>4, <1>8 DEF WriteNewline, ReadLog, OpenLock
<1>9. CASE WriteTemp(t)
  BY <1>1, <1>2, <1>4, <1>9 DEF WriteTemp
<1>10. CASE SyncTemp(t)
  BY <1>1, <1>4, <1>10 DEF SyncTemp
<1>11. CASE Rename(t)
  BY <1>1, <1>2, <1>11 DEF Rename
<1>12. CASE SyncDir(t)
  BY <1>2, <1>3, <1>12 DEF SyncDir
<1>13. CASE SyncLockDir(t)
  BY <1>2, <1>3, <1>13 DEF SyncLockDir
<1>14. CASE StepFails(t)
  BY <1>1, <1>4, <1>14 DEF StepFails
<1> QED BY <1>5, <1>6, <1>7, <1>8, <1>9, <1>10, <1>11, <1>12, <1>13, <1>14 DEF InsideStep

LEMMA OnlyNewline ==
  ASSUME LifeInv, NEW t \in Threads, InsideStep(t), pc'[t] = "sync"
  PROVE  WriteNewline(t)
<1>1. pc[t] \in {"writeRest", "writeTorn"} /\ pc \in [Threads -> PCs]
  BY InsideEdge DEF Edge, LifeInv, Typed
<1> USE DEF Moves, Goto
<1>2. ~(Mkdir(t) \/ SyncParent(t) \/ SyncChild(t) \/ OpenAppend(t) \/ OpenRead(t) \/ LockLog(t) \/ LockRead(t))
  BY <1>1 DEF Mkdir, SyncParent, SyncChild, OpenAppend, OpenRead, LockLog, LockRead
<1>3. ~(RecoverTail(t) \/ SyncRecovered(t) \/ WriteLine(t) \/ SyncLog(t) \/ ReadLog(t))
  BY <1>1 DEF RecoverTail, SyncRecovered, WriteLine, SyncLog, ReadLog
<1>4. ~(WriteTemp(t) \/ SyncTemp(t) \/ Rename(t) \/ SyncDir(t) \/ ReadDocument(t))
  BY <1>1 DEF WriteTemp, SyncTemp, Rename, SyncDir, ReadDocument
<1>5. ~(OpenLock(t) \/ SyncLockDir(t) \/ LockCancelled(t) \/ StepFails(t))
  BY <1>1 DEF OpenLock, SyncLockDir, LockCancelled, StepFails
<1> QED BY <1>2, <1>3, <1>4, <1>5 DEF InsideStep

-----------------------------------------------------------------------------
(* The lines of the stream. *)

LEMMA InsideLines ==
  ASSUME LifeInv, LocksInv, LinesInv, NEW t \in Threads, InsideStep(t), ~WriteNewline(t)
  PROVE  LinesInv'
<1>1. /\ log'.lines = log.lines /\ guarded' = guarded /\ calls' = calls
      /\ job'[t].op = job[t].op /\ job'[t].id = job[t].id
      /\ \A u \in Threads \ {t} : pc'[u] = pc[u] /\ job'[u] = job[u]
  BY InsideLog, InsideStepInside DEF LogCalm, Inside, Others
<1>2. pc'[t] # "sync" /\ (job[t].op = "append" => (pc'[t] \in Unwritten => pc[t] \in Unwritten))
  BY OnlyNewline, InsideEdge DEF Edge
<1> QED BY <1>1, <1>2 DEF LinesInv, Op

\* What the newline adds.
LEMMA NewlineEffect ==
  ASSUME LifeInv, LocksInv, NEW t \in Threads, WriteNewline(t)
  PROVE  /\ pc[t] = "writeRest" /\ pc'[t] = "sync" /\ job[t].op = "append" /\ job[t].id \in 1..calls
         /\ calls \in Nat /\ calls' = calls
         /\ Len(log.lines) \in Nat /\ Len(log'.lines) = Len(log.lines) + 1
         /\ log'.lines = Append(log.lines, job[t].id)
         /\ \A i \in 1..Len(log.lines) : log'.lines[i] = log.lines[i]
         /\ log'.lines[Len(log.lines) + 1] = job[t].id
         /\ \A g : g \in guarded' => g \in guarded \/ (g = <<job[t].id, job[t].via>> /\ job[t].via # None)
         /\ \A g : g \in guarded => g \in guarded'
         /\ job'[t].id = job[t].id /\ job'[t].op = job[t].op
         /\ job'[t].saw # None => job'[t].saw = Len(log'.lines)
         /\ \A u \in Threads \ {t} : pc'[u] = pc[u] /\ job'[u] = job[u]
<1>1. /\ Inside(t) /\ pc[t] \in {"writeRest", "writeTorn"} /\ pc'[t] = "sync"
      /\ log'.lines = Append(log.lines, IF pc[t] = "writeRest" THEN job[t].id ELSE Torn)
      /\ job'[t].saw = IF job[t].saw = None THEN None ELSE Len(log'.lines)
  BY WriteNewlineStep
<1>2. pc[t] = "writeRest"
  BY <1>1 DEF LocksInv, TailInv
<1>3. pc[t] \in OpPCs
  BY <1>1 DEF Inside
<1>4. job[t].op = "append"
  BY <1>2, <1>3, OpAt DEF Fits
<1>5. job[t].id \in 1..calls /\ calls \in Nat
  BY <1>3, <1>4, WriterId DEF LifeInv, Typed
<1>6. /\ log'.lines = Append(log.lines, job[t].id)
      /\ Len(log.lines) \in Nat /\ Len(log'.lines) = Len(log.lines) + 1
      /\ \A i \in 1..Len(log.lines) : log'.lines[i] = log.lines[i]
      /\ log'.lines[Len(log.lines) + 1] = job[t].id
  <2> DEFINE s == log.lines
             e == job[t].id
  <2>1. s \in Seq(Ids \cup {Torn}) /\ log'.lines = Append(s, e)
    BY <1>1, <1>2, FilesTyped
  <2> HIDE DEF s, e
  <2>2. /\ Len(s) \in Nat /\ Len(log'.lines) = Len(s) + 1
        /\ \A i \in 1..Len(s) : log'.lines[i] = s[i]
        /\ log'.lines[Len(s) + 1] = e
    BY <2>1
  <2> QED BY <2>1, <2>2 DEF s, e
<1>7. guarded' = IF job[t].via = None THEN guarded ELSE guarded \cup {<<job[t].id, job[t].via>>}
  BY DEF WriteNewline
<1> QED BY <1>1, <1>2, <1>4, <1>5, <1>6, <1>7 DEF Inside, Others

LEMMA NewlineLines ==
  ASSUME LifeInv, LocksInv, LinesInv, NEW t \in Threads, WriteNewline(t)
  PROVE  LinesInv'
<1> DEFINE n == Len(log.lines)
<1>1. /\ pc[t] = "writeRest" /\ pc'[t] = "sync" /\ job[t].op = "append" /\ job[t].id \in 1..calls
      /\ calls \in Nat /\ calls' = calls
      /\ n \in Nat /\ Len(log'.lines) = n + 1
      /\ \A i \in 1..n : log'.lines[i] = log.lines[i]
      /\ log'.lines[n + 1] = job[t].id
      /\ \A g : g \in guarded' => g \in guarded \/ (g = <<job[t].id, job[t].via>> /\ job[t].via # None)
      /\ job'[t].id = job[t].id
      /\ \A u \in Threads \ {t} : pc'[u] = pc[u] /\ job'[u] = job[u]
  BY NewlineEffect
<1>2. \A i \in 1..Len(log'.lines) : i \in 1..n \/ i = n + 1
  BY <1>1
<1>3. \A i \in 1..Len(log'.lines) : log'.lines[i] \in 1..calls'
  BY <1>1, <1>2 DEF LinesInv
<1>4. \A g \in guarded' : g[1] <= calls'
  BY <1>1 DEF LinesInv
<1>5. ASSUME NEW u \in Threads
      PROVE  /\ job'[u].op = "append" /\ pc'[u] \in Unwritten =>
                  /\ \A i \in 1..Len(log'.lines) : log'.lines[i] # job'[u].id
                  /\ \A v \in Threads : <<job'[u].id, v>> \notin guarded'
             /\ pc'[u] = "sync" => \E i \in 1..Len(log'.lines) : log'.lines[i] = job'[u].id
  <2>1. CASE u = t
    <3>1. pc'[t] \notin Unwritten
      BY <1>1 DEF Unwritten
    <3>2. n + 1 \in 1..Len(log'.lines)
      BY <1>1
    <3> QED BY <1>1, <2>1, <3>1, <3>2
  <2>2. CASE u # t
    <3>1. pc'[u] = pc[u] /\ job'[u] = job[u]
      BY <1>1, <2>2
    <3>2. ASSUME job[u].op = "append", pc[u] \in Unwritten
          PROVE  /\ \A i \in 1..Len(log'.lines) : log'.lines[i] # job[u].id
                 /\ \A v \in Threads : <<job[u].id, v>> \notin guarded'
      <4>1. pc[u] \in OpPCs
        BY <3>2 DEF Unwritten, OpPCs, PCs
      <4>2. job[u].id # job[t].id
        <5>1. job[u].id # 0
          BY <3>2, <4>1 DEF LifeInv, Place
        <5> QED BY <2>2, <5>1 DEF LifeInv, Distinct
      <4>3. /\ \A i \in 1..n : log.lines[i] # job[u].id
            /\ \A v \in Threads : <<job[u].id, v>> \notin guarded
        BY <3>2 DEF LinesInv, Op
      <4>4. \A i \in 1..Len(log'.lines) : log'.lines[i] # job[u].id
        BY <1>1, <1>2, <4>2, <4>3
      <4>5. \A v \in Threads : <<job[u].id, v>> \notin guarded'
        BY <1>1, <4>2, <4>3
      <4> QED BY <4>4, <4>5
    <3>3. ASSUME pc[u] = "sync"
          PROVE  \E i \in 1..Len(log'.lines) : log'.lines[i] = job[u].id
      <4>1. PICK i \in 1..n : log.lines[i] = job[u].id
        BY <3>3 DEF LinesInv
      <4>2. i \in 1..Len(log'.lines) /\ log'.lines[i] = job[u].id
        BY <1>1, <4>1
      <4> QED BY <4>2
    <3> QED BY <3>1, <3>2, <3>3
  <2> QED BY <2>1, <2>2
<1> QED BY <1>3, <1>4, <1>5 DEF LinesInv, Op

LEMMA OutsideLines ==
  ASSUME LifeInv, LinesInv, NEW t \in Threads, Outside(t)
  PROVE  LinesInv'
<1>1. /\ log' = log /\ guarded' = guarded /\ calls' \in Nat /\ calls <= calls' /\ calls \in Nat
      /\ \A u \in Threads \ {t} : pc'[u] = pc[u] /\ job'[u] = job[u]
  BY DEF Outside, Others, LifeInv, Typed
<1>2. \A i \in 1..Len(log.lines) : log.lines[i] \in 1..calls
  BY DEF LinesInv
<1>3. \A g \in guarded : g[1] <= calls
  BY DEF LinesInv
<1>4. \A i \in 1..Len(log'.lines) : log'.lines[i] \in 1..calls'
  BY <1>1, <1>2
<1>5. guarded \subseteq Ids \X Threads /\ \A x \in Ids : x \in Nat
  BY RootedConstantsAssumption DEF LifeInv, Typed, Ids
<1>6. \A g \in guarded' : g[1] <= calls'
  <2>1. \A g \in guarded : g[1] \in Nat
    BY <1>5
  <2> QED BY <1>1, <1>3, <2>1
<1>7. pc'[t] # "sync"
  BY DEF Outside, Starts, Rests
<1>8. ASSUME job'[t].op = "append", pc'[t] \in Unwritten
      PROVE  /\ \A i \in 1..Len(log'.lines) : log'.lines[i] # job'[t].id
             /\ \A v \in Threads : <<job'[t].id, v>> \notin guarded'
  <2>1. pc'[t] \notin Rests
    BY <1>8 DEF Unwritten, Rests
  <2>2. job'[t].id = calls + 1
    BY <1>8, <2>1 DEF Outside
  <2>3. \A v \in Threads : <<calls + 1, v>> \notin guarded
    <3>1. ASSUME NEW v \in Threads, <<calls + 1, v>> \in guarded
          PROVE  FALSE
      <4>1. <<calls + 1, v>>[1] <= calls
        BY <1>3, <3>1
      <4> QED BY <1>1, <4>1
    <3> QED BY <3>1
  <2> QED BY <1>1, <1>2, <2>2, <2>3
<1>9. ASSUME NEW u \in Threads, u # t
      PROVE  /\ job'[u].op = "append" /\ pc'[u] \in Unwritten =>
                  /\ \A i \in 1..Len(log'.lines) : log'.lines[i] # job'[u].id
                  /\ \A v \in Threads : <<job'[u].id, v>> \notin guarded'
             /\ pc'[u] = "sync" => \E i \in 1..Len(log'.lines) : log'.lines[i] = job'[u].id
  BY <1>1, <1>9 DEF LinesInv, Op
<1> QED BY <1>4, <1>6, <1>7, <1>8, <1>9 DEF LinesInv, Op

LEMMA KillLines ==
  ASSUME LifeInv, LinesInv, NEW h \in Handles, Kill(h)
  PROVE  LinesInv'
<1> DEFINE H == {h}
<1>1. Restart(H) /\ H \in SUBSET Handles /\ log' = log /\ guarded' = guarded /\ calls' = calls
  BY DEF Kill, files, history
<1> HIDE DEF H
<1>2. /\ \A t \in Dead(H) : pc'[t] = "idle" /\ job'[t] = NoJob
      /\ \A t \in Threads \ Dead(H) : pc'[t] = pc[t] /\ job'[t] = job[t]
  BY <1>1, RestartEffect
<1>3. "idle" \notin Unwritten
  BY DEF Unwritten
<1> QED BY <1>1, <1>2, <1>3 DEF LinesInv, Op

\* After a power failure nothing runs.
LEMMA PowerLossRest ==
  ASSUME LifeInv, PowerLoss
  PROVE  \A t \in Threads : pc'[t] = "idle" /\ job'[t] = NoJob /\ job'[t].saw = None
<1>1. Restart(Handles)
  BY DEF PowerLoss
<1>2. Dead(Handles) = Threads
  BY HomeType DEF Dead, LifeInv
<1>3. \A t \in Dead(Handles) : pc'[t] = "idle" /\ job'[t] = NoJob
  BY <1>1, RestartEffect
<1> QED BY <1>2, <1>3, NoJobType

\* A prefix of the stream.
LEMMA LogLeftFacts ==
  ASSUME LifeInv, NEW n, LogLeft(n)
  PROVE  /\ n \in Nat /\ log.safe <= n /\ n <= Len(log.lines)
         /\ Len(log'.lines) = n
         /\ \A i \in 1..n : log'.lines[i] = log.lines[i]
<1>1. n \in Nat /\ log.safe <= n /\ n <= Len(log.lines)
  BY FilesTyped DEF LogLeft
<1> DEFINE s == log.lines
<1>2. s \in Seq(Ids \cup {Torn}) /\ log'.lines = SubSeq(s, 1, n) /\ n <= Len(s)
  BY <1>1, FilesTyped DEF LogLeft
<1> HIDE DEF s
<1>3. Len(log'.lines) = n /\ \A i \in 1..n : log'.lines[i] = s[i]
  BY <1>1, <1>2
<1> QED BY <1>1, <1>3 DEF s

LEMMA PowerLossLines ==
  ASSUME LifeInv, LinesInv, PowerLoss
  PROVE  LinesInv'
<1>1. guarded' = guarded /\ calls' = calls
  BY PowerLossEffect DEF history
<1>2. \A t \in Threads : pc'[t] \notin Unwritten /\ pc'[t] # "sync"
  BY PowerLossRest DEF Unwritten
<1>3. \A i \in 1..Len(log'.lines) : log'.lines[i] \in 1..calls'
  <2>1. CASE log' = NoLog
    BY <2>1 DEF NoLog
  <2>2. ASSUME NEW n, LogLeft(n)
        PROVE  \A i \in 1..Len(log'.lines) : log'.lines[i] \in 1..calls'
    BY <1>1, <2>2, LogLeftFacts, FilesTyped, SMTT(30) DEF LinesInv
  <2> QED BY <2>1, <2>2, PowerLossEffect
<1> QED BY <1>1, <1>2, <1>3 DEF LinesInv

LEMMA LinesStep ==
  ASSUME LifeInv, LocksInv, LinesInv, [Next]_vars
  PROVE  LinesInv'
<1>1. CASE Still
  BY <1>1 DEF Still, LinesInv, Op
<1> QED BY <1>1, StepKinds, InsideLines, NewlineLines, OutsideLines, KillLines, PowerLossLines

-----------------------------------------------------------------------------
(* What a callback has replayed. *)

LEMMA InsideReplay ==
  ASSUME LifeInv, ReplayInv, NEW t \in Threads, InsideStep(t), ~WriteNewline(t)
  PROVE  ReplayInv'
<1>1. /\ log'.lines = log.lines /\ guarded' = guarded
      /\ job'[t].saw = job[t].saw \/ job'[t].saw = Len(log.lines)
      /\ \A u \in Threads \ {t} : job'[u] = job[u]
  BY InsideLog, InsideStepInside DEF LogCalm, Inside, Others
<1>2. Len(log.lines) \in Nat
  BY FilesTyped
<1>3. \A i \in (Len(log.lines) + 1)..Len(log.lines) : FALSE
  BY <1>2
<1> QED BY <1>1, <1>3 DEF ReplayInv

LEMMA NewlineReplay ==
  ASSUME LifeInv, LocksInv, LinesInv, ReplayInv, NEW t \in Threads, WriteNewline(t)
  PROVE  ReplayInv'
<1> DEFINE n == Len(log.lines)
<1>1. /\ pc[t] = "writeRest" /\ job[t].op = "append"
      /\ n \in Nat /\ Len(log'.lines) = n + 1
      /\ \A i \in 1..n : log'.lines[i] = log.lines[i]
      /\ log'.lines[n + 1] = job[t].id
      /\ \A g : g \in guarded' => g \in guarded \/ (g = <<job[t].id, job[t].via>> /\ job[t].via # None)
      /\ job'[t].saw # None => job'[t].saw = Len(log'.lines)
      /\ \A u \in Threads \ {t} : job'[u] = job[u]
  BY NewlineEffect
<1>2. /\ \A i \in 1..n : log.lines[i] # job[t].id
      /\ \A v \in Threads : <<job[t].id, v>> \notin guarded
  BY <1>1 DEF LinesInv, Op, Unwritten
<1>3. ASSUME NEW v \in Threads, job'[v].saw # None,
             NEW i \in (job'[v].saw + 1)..Len(log'.lines), NEW u \in Threads \ {v}
      PROVE  <<log'.lines[i], u>> \notin guarded'
  <2>1. CASE v = t
    <3>1. job'[v].saw = n + 1 /\ Len(log'.lines) = n + 1
      BY <1>1, <1>3, <2>1
    <3> QED BY <1>1, <1>3, <3>1
  <2>2. CASE v # t
    <3>1. job'[v] = job[v]
      BY <1>1, <2>2
    <3>2. job[v].saw \in Nat /\ view[v] = "active"
      BY <1>3, <3>1 DEF LifeInv, Typed, Jobs, Place
    <3>3. i \in 1..n \/ i = n + 1
      BY <1>1, <1>3, <3>1, <3>2
    <3>4. CASE i \in 1..n
      <4>1. i \in (job[v].saw + 1)..n
        BY <1>1, <1>3, <3>1, <3>2, <3>4
      <4>2. <<log.lines[i], u>> \notin guarded
        BY <1>3, <3>1, <4>1 DEF ReplayInv
      <4>3. log'.lines[i] = log.lines[i] /\ log.lines[i] # job[t].id
        BY <1>1, <1>2, <3>4
      <4> QED BY <1>1, <4>2, <4>3
    <3>5. CASE i = n + 1
      <4>1. log'.lines[i] = job[t].id /\ <<job[t].id, u>> \notin guarded
        BY <1>1, <1>2, <3>5
      <4>2. job[t].via # None => job[t].via \in Threads /\ view[job[t].via] = "active"
        BY DEF LifeInv, Typed, Jobs, Place
      <4>3. job[t].via # None => job[t].via = v
        BY <3>2, <4>2 DEF LifeInv, OneView
      <4>4. <<job[t].id, u>> \notin guarded'
        BY <1>1, <4>1, <4>3
      <4> QED BY <4>1, <4>4
    <3> QED BY <3>3, <3>4, <3>5
  <2> QED BY <2>1, <2>2
<1> QED BY <1>3 DEF ReplayInv

LEMMA ReplayStep ==
  ASSUME LifeInv, LocksInv, LinesInv, ReplayInv, [Next]_vars
  PROVE  ReplayInv'
<1>1. CASE Still
  BY <1>1 DEF Still, ReplayInv
<1>2. ASSUME NEW t \in Threads, Outside(t)
      PROVE  ReplayInv'
  <2>1. /\ log' = log /\ guarded' = guarded /\ (job'[t].saw = job[t].saw \/ job'[t].saw = None)
        /\ \A u \in Threads \ {t} : job'[u] = job[u]
    BY <1>2 DEF Outside, Others
  <2> QED BY <2>1 DEF ReplayInv
<1>3. ASSUME NEW h \in Handles, Kill(h)
      PROVE  ReplayInv'
  <2> DEFINE H == {h}
  <2>1. Restart(H) /\ H \in SUBSET Handles /\ log' = log /\ guarded' = guarded
    BY <1>3 DEF Kill, files, history
  <2> HIDE DEF H
  <2>2. /\ \A t \in Dead(H) : job'[t] = NoJob
        /\ \A t \in Threads \ Dead(H) : job'[t] = job[t]
    BY <2>1, RestartEffect
  <2> QED BY <2>1, <2>2, NoJobType DEF ReplayInv
<1>4. CASE PowerLoss
  BY <1>4, PowerLossRest DEF ReplayInv
<1> QED BY <1>1, <1>2, <1>3, <1>4, StepKinds, InsideReplay, NewlineReplay

StreamInv == LifeInv /\ LocksInv /\ LinesInv /\ ReplayInv

LEMMA StreamInvariant == Spec => []StreamInv
<1>1. Init => LinesInv /\ ReplayInv
  <2> SUFFICES ASSUME Init PROVE LinesInv /\ ReplayInv
    OBVIOUS
  <2>1. \A t \in Threads : pc[t] = "idle" /\ job[t].saw = None
    BY NoJobType DEF Init
  <2>2. guarded = {} /\ Len(log.lines) = 0
    BY DEF Init, NoLog
  <2> QED BY <2>1, <2>2 DEF LinesInv, ReplayInv, Unwritten
<1>2. StreamInv /\ [Next]_vars => StreamInv'
  BY LifeStep, LocksStep, LinesStep, ReplayStep DEF StreamInv
<1>3. Spec => []LifeInv /\ [](LifeInv /\ LocksInv)
  BY LifeInvariant, LocksInvariant
<1>4. Init /\ LifeInv /\ LocksInv => StreamInv
  BY <1>1 DEF StreamInv
<1> QED BY <1>2, <1>3, <1>4, PTL DEF Spec

\* Between a callback's replay of the stream and its append no other callback, of
\* any process, has appended (WithExclusiveLock around both).
THEOREM ReplaysAreCurrent == Spec => ReplayThenAppend
<1> DEFINE A == \A t \in Threads :
       (pc[t] \in {"writeRest", "writeTorn"} /\ pc'[t] = "sync" /\ job[t].via = t /\ job[t].saw # None) =>
         \A i \in (job[t].saw + 1)..Len(log.lines) :
           \A u \in Threads \ {t} : <<log.lines[i], u>> \notin guarded
<1>1. ASSUME StreamInv, [Next]_vars
      PROVE  [A]_vars
  BY <1>1 DEF StreamInv, ReplayInv
<1> QED BY <1>1, StreamInvariant, PTL DEF Spec, ReplayThenAppend

-----------------------------------------------------------------------------
(* What was acknowledged is on stable storage.  A directory that the scope      *)
(* contains from the start holds the files.                                     *)

\* The sequence of lines or versions only grows, but for a power failure.
LEMMA OnlyRename ==
  ASSUME LifeInv, NEW t \in Threads, InsideStep(t), pc'[t] = "syncDir", job[t].op = "write"
  PROVE  Rename(t)
<1>1. pc[t] \in {"sync", "rename"} /\ pc \in [Threads -> PCs] /\ pc[t] \in OpPCs
  BY InsideEdge, InsideStepInside DEF Edge, Inside, LifeInv, Typed
<1>2. pc[t] = "rename"
  BY <1>1, OpAt DEF Fits
<1> USE DEF Moves, Goto
<1>3. ~(Mkdir(t) \/ SyncParent(t) \/ SyncChild(t) \/ OpenAppend(t) \/ OpenRead(t) \/ LockLog(t) \/ LockRead(t))
  BY <1>2 DEF Mkdir, SyncParent, SyncChild, OpenAppend, OpenRead, LockLog, LockRead
<1>4. ~(RecoverTail(t) \/ SyncRecovered(t) \/ WriteLine(t) \/ WriteNewline(t) \/ SyncLog(t) \/ ReadLog(t))
  BY <1>2 DEF RecoverTail, SyncRecovered, WriteLine, WriteNewline, SyncLog, ReadLog
<1>5. ~(WriteTemp(t) \/ SyncTemp(t) \/ SyncDir(t) \/ ReadDocument(t))
  BY <1>2 DEF WriteTemp, SyncTemp, SyncDir, ReadDocument
<1>6. ~(OpenLock(t) \/ SyncLockDir(t) \/ LockCancelled(t) \/ StepFails(t))
  BY <1>1, <1>2 DEF OpenLock, SyncLockDir, LockCancelled, StepFails
<1> QED BY <1>3, <1>4, <1>5, <1>6 DEF InsideStep

LEMMA InsideEntry ==
  ASSUME StreamInv, EntryInv, NEW t \in Threads, InsideStep(t), ~WriteNewline(t)
  PROVE  EntryInv'
<1>1. /\ log'.lines = log.lines /\ log'.safe \in {log.safe, Len(log.lines)}
      /\ log.entry # "absent" => log'.entry # "absent"
      /\ log.entry = "durable" => log'.entry = "durable"
      /\ pc[t] = "open" /\ pc'[t] # "end" => log'.entry # "absent"
      /\ pc[t] = "sync" /\ pc'[t] = "syncDir" => log'.safe = Len(log.lines)
  BY InsideLog DEF LogCalm, StreamInv
<1>2. /\ pc[t] \in OpPCs /\ job'[t].op = job[t].op /\ job'[t].id = job[t].id
      /\ \A u \in Threads \ {t} : pc'[u] = pc[u] /\ job'[u] = job[u]
  BY InsideStepInside DEF Inside, Others, StreamInv
<1>3. log.safe \in Nat /\ Len(log.lines) \in Nat /\ log.safe <= Len(log.lines) /\ log.entry \in Presence
  BY FilesTyped DEF StreamInv, Logs
<1>4. log'.safe \in Nat /\ log.safe <= log'.safe
  BY <1>1, <1>3
<1>5. ASSUME NEW x, \E i \in 1..log.safe : log.lines[i] = x
      PROVE  \E i \in 1..log'.safe : log'.lines[i] = x
  <2>1. PICK i \in 1..log.safe : log.lines[i] = x
    BY <1>5
  <2>2. i \in 1..log'.safe /\ log'.lines[i] = x
    BY <1>1, <1>3, <1>4, <2>1
  <2> QED BY <2>2
<1>6. ASSUME NEW u \in Threads, pc'[u] = "syncDir", job'[u].op = "append"
      PROVE  (\E i \in 1..log'.safe : log'.lines[i] = job'[u].id) /\ log'.entry # "absent"
  <2>1. CASE u # t
    <3>1. pc[u] = "syncDir" /\ job[u].op = "append" /\ job'[u].id = job[u].id
      BY <1>2, <1>6, <2>1
    <3>2. (\E i \in 1..log.safe : log.lines[i] = job[u].id) /\ log.entry # "absent"
      BY <3>1 DEF EntryInv, Op
    <3> QED BY <1>1, <1>5, <3>1, <3>2
  <2>2. CASE u = t
    <3>1. pc[t] \in {"sync", "rename"} /\ job[t].op = "append"
      BY <1>2, <1>6, <2>2, InsideEdge DEF Edge, StreamInv
    <3>2. pc[t] = "sync"
      BY <1>2, <3>1, OpAt DEF Fits, StreamInv
    <3>3. log'.safe = Len(log.lines) /\ log'.lines = log.lines
      BY <1>1, <1>6, <2>2, <3>2
    <3>4. \E i \in 1..Len(log.lines) : log.lines[i] = job[t].id
      BY <3>2 DEF StreamInv, LinesInv
    <3>5. log.entry # "absent"
      BY <3>1, <3>2 DEF EntryInv, Op, WritingLog
    <3> QED BY <1>1, <1>2, <2>2, <3>3, <3>4, <3>5
  <2> QED BY <2>1, <2>2
<1>7. ASSUME NEW u \in Threads, job'[u].op = "append", pc'[u] \in {"lockLog"} \cup WritingLog
      PROVE  log'.entry # "absent"
  <2>1. CASE u # t
    BY <1>1, <1>2, <1>7, <2>1 DEF EntryInv, Op
  <2>2. CASE u = t
    <3>1. job[t].op = "append" /\ pc[t] \in {"open", "lockLog"} \cup WritingLog /\ pc'[t] # "end"
      BY <1>2, <1>7, <2>2, InsideEdge DEF Edge, StreamInv, WritingLog
    <3> QED BY <1>1, <3>1 DEF EntryInv, Op
  <2> QED BY <2>1, <2>2
<1>8. ASSUME NEW e \in acked'["log"]
      PROVE  (\E i \in 1..log'.safe : log'.lines[i] = e) /\ log'.entry = "durable"
  <2>1. CASE e \in acked["log"]
    <3>1. (\E i \in 1..log.safe : log.lines[i] = e) /\ log.entry = "durable"
      BY <2>1 DEF EntryInv
    <3> QED BY <1>1, <1>5, <3>1
  <2>2. CASE e \notin acked["log"]
    <3>1. SyncDir(t)
      BY <1>8, <2>2, InsideDoc DEF StreamInv
    <3>2. pc[t] = "syncDir" /\ job[t].op = "append" /\ e = job[t].id
      BY <1>8, <2>2, <3>1, SyncDirStep DEF StreamInv
    <3>3. (\E i \in 1..log.safe : log.lines[i] = e) /\ log.entry # "absent"
      BY <3>2 DEF EntryInv, Op
    <3>4. log'.entry = IF log.entry = "linked" THEN "durable" ELSE log.entry
      BY <3>1, DirSyncedTyped DEF SyncDir, StreamInv
    <3> QED BY <1>3, <1>5, <3>3, <3>4 DEF Presence
  <2> QED BY <2>1, <2>2
<1> QED BY <1>6, <1>7, <1>8 DEF EntryInv, Op

LEMMA NewlineEntry ==
  ASSUME StreamInv, EntryInv, NEW t \in Threads, WriteNewline(t)
  PROVE  EntryInv'
<1>1. /\ pc[t] = "writeRest" /\ pc'[t] = "sync" /\ job[t].op = "append"
      /\ \A i \in 1..Len(log.lines) : log'.lines[i] = log.lines[i]
      /\ job'[t].id = job[t].id /\ job'[t].op = job[t].op
      /\ \A u \in Threads \ {t} : pc'[u] = pc[u] /\ job'[u] = job[u]
  BY NewlineEffect DEF StreamInv
<1>2. log'.safe = log.safe /\ log'.entry = log.entry /\ acked' = acked
  BY WriteNewlineStep DEF WriteNewline, StreamInv
<1>3. log.safe \in Nat /\ Len(log.lines) \in Nat /\ log.safe <= Len(log.lines)
  BY FilesTyped DEF StreamInv
<1>4. \A i \in 1..log.safe : log'.lines[i] = log.lines[i]
  BY <1>1, <1>3
<1>5. log.entry # "absent"
  BY <1>1 DEF EntryInv, Op, WritingLog
<1> QED BY <1>1, <1>2, <1>4, <1>5 DEF EntryInv, Op

LEMMA EntryStep ==
  ASSUME Nested = FALSE, StreamInv, EntryInv, [Next]_vars
  PROVE  EntryInv'
<1>1. CASE Still
  BY <1>1 DEF Still, EntryInv, Op
<1>2. ASSUME NEW t \in Threads, Outside(t)
      PROVE  EntryInv'
  <2>1. /\ log' = log /\ acked' = acked
        /\ \A u \in Threads \ {t} : pc'[u] = pc[u] /\ job'[u] = job[u]
        /\ pc'[t] \notin {"syncDir", "lockLog"} \cup WritingLog
    BY <1>2 DEF Outside, Others, Starts, Rests, WritingLog
  <2> QED BY <2>1 DEF EntryInv, Op
<1>3. ASSUME NEW h \in Handles, Kill(h)
      PROVE  EntryInv'
  <2> DEFINE H == {h}
  <2>1. Restart(H) /\ H \in SUBSET Handles /\ log' = log /\ acked' = acked
    BY <1>3 DEF Kill, files, history
  <2> HIDE DEF H
  <2>2. /\ \A t \in Dead(H) : pc'[t] = "idle"
        /\ \A t \in Threads \ Dead(H) : pc'[t] = pc[t] /\ job'[t] = job[t]
    BY <2>1, RestartEffect DEF StreamInv
  <2>3. "idle" \notin {"syncDir", "lockLog"} \cup WritingLog
    BY DEF WritingLog
  <2> QED BY <2>1, <2>2, <2>3 DEF EntryInv, Op
<1>4. CASE PowerLoss
  <2>1. acked' = acked
    BY <1>4 DEF PowerLoss, history
  <2>2. \A t \in Threads : pc'[t] \notin {"syncDir", "lockLog"} \cup WritingLog
    BY <1>4, PowerLossRest DEF StreamInv, WritingLog
  <2>3. ASSUME NEW e \in acked["log"]
        PROVE  (\E i \in 1..log'.safe : log'.lines[i] = e) /\ log'.entry = "durable"
    <3>1. (\E i \in 1..log.safe : log.lines[i] = e) /\ log.entry = "durable"
      BY DEF EntryInv
    <3>2. PICK n : LogLeft(n)
      BY <1>4, <3>1, PowerLossEffect DEF StreamInv
    <3>3. /\ n \in Nat /\ log.safe <= n /\ log'.safe = n /\ log'.entry = "durable"
          /\ \A i \in 1..n : log'.lines[i] = log.lines[i]
      BY <3>2, LogLeftFacts DEF LogLeft, StreamInv
    <3>4. PICK i \in 1..log.safe : log.lines[i] = e
      BY <3>1
    <3>5. log.safe \in Nat
      BY FilesTyped DEF StreamInv
    <3>6. i \in 1..log'.safe /\ log'.lines[i] = e
      BY <3>3, <3>4, <3>5
    <3> QED BY <3>3, <3>6
  <2> QED BY <2>1, <2>2, <2>3 DEF EntryInv
<1>5. LifeInv
  BY DEF StreamInv
<1> QED BY <1>1, <1>2, <1>3, <1>4, <1>5, StepKinds, InsideEntry, NewlineEntry

-----------------------------------------------------------------------------
(* The versions of the document. *)

LEMMA InsideDocument ==
  ASSUME StreamInv, DocInv, NEW t \in Threads, InsideStep(t), ~Rename(t)
  PROVE  DocInv'
<1>1. /\ doc'.pubs = doc.pubs /\ doc'.soft = doc.soft /\ doc'.safe \in {doc.safe, Len(doc.pubs)}
      /\ \A u \in Threads \ {t} : temp'[u] = temp[u]
      /\ pc'[t] = "rename" => temp'[t] = "synced"
  BY InsideDoc DEF DocCalm, StreamInv
<1>2. /\ pc[t] \in OpPCs /\ job'[t].op = job[t].op /\ job'[t].id = job[t].id /\ calls' = calls
      /\ \A u \in Threads \ {t} : pc'[u] = pc[u] /\ job'[u] = job[u]
  BY InsideStepInside DEF Inside, Others, StreamInv
<1>3. doc.safe \in Nat /\ Len(doc.pubs) \in Nat /\ doc.safe <= Len(doc.pubs)
  BY FilesTyped DEF StreamInv
<1>4. /\ job[t].op = "write" => (pc'[t] \in Unpublished => pc[t] \in Unpublished)
      /\ job[t].op = "write" => pc'[t] # "syncDir"
  BY InsideEdge, OnlyRename DEF Edge, StreamInv
<1>5. ASSUME NEW u \in Threads
      PROVE  /\ pc'[u] = "rename" => temp'[u] = "synced"
             /\ job'[u].op = "write" /\ pc'[u] \in Unpublished =>
                  \A i \in 1..Len(doc'.pubs) : doc'.pubs[i] # job'[u].id
             /\ job'[u].op = "write" /\ pc'[u] = "syncDir" =>
                  \E i \in 1..Len(doc'.pubs) : doc'.pubs[i] = job'[u].id
  <2>1. CASE u = t
    BY <1>1, <1>2, <1>4, <2>1 DEF DocInv, Op
  <2>2. CASE u # t
    BY <1>1, <1>2, <2>2 DEF DocInv, Op
  <2> QED BY <2>1, <2>2
<1>6. ASSUME NEW e \in acked'["doc"]
      PROVE  \E i \in 1..doc'.safe : doc'.pubs[i] = e
  <2>1. CASE e \in acked["doc"]
    <3>1. PICK i \in 1..doc.safe : doc.pubs[i] = e
      BY <2>1 DEF DocInv
    <3>2. i \in 1..doc'.safe /\ doc'.pubs[i] = e
      BY <1>1, <1>3, <3>1
    <3> QED BY <3>2
  <2>2. CASE e \notin acked["doc"]
    <3>1. SyncDir(t)
      BY <1>6, <2>2, InsideDoc DEF StreamInv
    <3>2. pc[t] = "syncDir" /\ job[t].op = "write" /\ e = job[t].id
      BY <1>6, <2>2, <3>1, SyncDirStep DEF StreamInv
    <3>3. doc'.safe = Len(doc.pubs) /\ doc'.pubs = doc.pubs
      BY <3>1, DirSyncedTyped DEF SyncDir, StreamInv
    <3> QED BY <3>2, <3>3 DEF DocInv, Op
  <2> QED BY <2>1, <2>2
<1> QED BY <1>1, <1>2, <1>5, <1>6 DEF DocInv, Op

\* What a rename adds.
LEMMA RenameEffect ==
  ASSUME StreamInv, DocInv, NEW t \in Threads, Rename(t)
  PROVE  /\ pc[t] = "rename" /\ pc'[t] = "syncDir" /\ job[t].op = "write" /\ job[t].id \in 1..calls
         /\ calls' = calls /\ acked' = acked
         /\ doc'.soft = doc.soft /\ doc'.safe = doc.safe
         /\ Len(doc.pubs) \in Nat /\ Len(doc'.pubs) = Len(doc.pubs) + 1
         /\ doc'.pubs = Append(doc.pubs, job[t].id)
         /\ \A i \in 1..Len(doc.pubs) : doc'.pubs[i] = doc.pubs[i] /\ doc.pubs[i] # job[t].id
         /\ doc'.pubs[Len(doc.pubs) + 1] = job[t].id
         /\ job' = job /\ \A u \in Threads \ {t} : pc'[u] = pc[u] /\ temp'[u] = temp[u]
<1>1. /\ Inside(t) /\ pc[t] = "rename" /\ pc'[t] = "syncDir" /\ job[t].op = "write"
      /\ doc'.pubs = Append(doc.pubs, job[t].id) /\ doc'.safe = doc.safe
      /\ temp[t] = "synced" => doc'.soft = doc.soft
  BY RenameStep DEF StreamInv
<1>2. temp[t] = "synced"
  BY <1>1 DEF DocInv
<1>3. pc[t] \in OpPCs /\ job[t].id \in 1..calls
  BY <1>1, WriterId DEF Inside, StreamInv
<1>4. /\ Len(doc.pubs) \in Nat /\ Len(doc'.pubs) = Len(doc.pubs) + 1
      /\ \A i \in 1..Len(doc.pubs) : doc'.pubs[i] = doc.pubs[i]
      /\ doc'.pubs[Len(doc.pubs) + 1] = job[t].id
  <2> DEFINE s == doc.pubs
             e == job[t].id
  <2>1. s \in Seq(Ids \cup {Torn}) /\ doc'.pubs = Append(s, e)
    BY <1>1, FilesTyped DEF StreamInv
  <2> HIDE DEF s, e
  <2>2. /\ Len(s) \in Nat /\ Len(doc'.pubs) = Len(s) + 1
        /\ \A i \in 1..Len(s) : doc'.pubs[i] = s[i]
        /\ doc'.pubs[Len(s) + 1] = e
    BY <2>1
  <2> QED BY <2>1, <2>2 DEF s, e
<1>5. \A i \in 1..Len(doc.pubs) : doc.pubs[i] # job[t].id
  BY <1>1 DEF DocInv, Op, Unpublished
<1>6. /\ job' = job /\ calls' = calls /\ acked' = acked
      /\ \A u \in Threads \ {t} : pc'[u] = pc[u] /\ temp'[u] = temp[u]
  BY DEF Rename, Goto, history, StreamInv, LifeInv, Typed
<1> QED BY <1>1, <1>2, <1>3, <1>4, <1>5, <1>6

LEMMA RenameDocument ==
  ASSUME StreamInv, DocInv, NEW t \in Threads, Rename(t)
  PROVE  DocInv'
<1> DEFINE n == Len(doc.pubs)
<1>1. /\ pc[t] = "rename" /\ pc'[t] = "syncDir" /\ job[t].op = "write" /\ job[t].id \in 1..calls
      /\ calls' = calls /\ acked' = acked
      /\ doc'.soft = doc.soft /\ doc'.safe = doc.safe
      /\ n \in Nat /\ Len(doc'.pubs) = n + 1
      /\ \A i \in 1..n : doc'.pubs[i] = doc.pubs[i]
      /\ doc'.pubs[n + 1] = job[t].id
      /\ job' = job /\ \A u \in Threads \ {t} : pc'[u] = pc[u] /\ temp'[u] = temp[u]
  BY RenameEffect
<1>2. \A i \in 1..Len(doc'.pubs) : i \in 1..n \/ i = n + 1
  BY <1>1
<1>3. \A i \in 1..Len(doc'.pubs) : doc'.pubs[i] \in 1..calls'
  BY <1>1, <1>2 DEF DocInv
<1>4. ASSUME NEW u \in Threads
      PROVE  /\ pc'[u] = "rename" => temp'[u] = "synced"
             /\ job'[u].op = "write" /\ pc'[u] \in Unpublished =>
                  \A i \in 1..Len(doc'.pubs) : doc'.pubs[i] # job'[u].id
             /\ job'[u].op = "write" /\ pc'[u] = "syncDir" =>
                  \E i \in 1..Len(doc'.pubs) : doc'.pubs[i] = job'[u].id
  <2>1. CASE u = t
    <3>1. n + 1 \in 1..Len(doc'.pubs) /\ "syncDir" \notin Unpublished
      BY <1>1 DEF Unpublished
    <3> QED BY <1>1, <2>1, <3>1
  <2>2. CASE u # t
    <3>1. pc'[u] = pc[u] /\ job'[u] = job[u] /\ temp'[u] = temp[u]
      BY <1>1, <2>2
    <3>2. ASSUME job[u].op = "write", pc[u] \in Unpublished
          PROVE  \A i \in 1..Len(doc'.pubs) : doc'.pubs[i] # job[u].id
      <4>1. pc[u] \in OpPCs
        BY <3>2 DEF Unpublished, OpPCs, PCs
      <4>2. job[u].id # 0
        BY <3>2, <4>1 DEF StreamInv, LifeInv, Place
      <4>3. job[u].id # job[t].id
        BY <2>2, <4>2 DEF StreamInv, LifeInv, Distinct
      <4>4. \A i \in 1..n : doc.pubs[i] # job[u].id
        BY <3>2 DEF DocInv, Op
      <4> QED BY <1>1, <1>2, <4>3, <4>4
    <3>3. ASSUME job[u].op = "write", pc[u] = "syncDir"
          PROVE  \E i \in 1..Len(doc'.pubs) : doc'.pubs[i] = job[u].id
      <4>1. PICK i \in 1..n : doc.pubs[i] = job[u].id
        BY <3>3 DEF DocInv, Op
      <4>2. i \in 1..Len(doc'.pubs) /\ doc'.pubs[i] = job[u].id
        BY <1>1, <4>1
      <4> QED BY <4>2
    <3>4. pc[u] = "rename" => temp[u] = "synced"
      BY DEF DocInv
    <3> QED BY <3>1, <3>2, <3>3, <3>4
  <2> QED BY <2>1, <2>2
<1>5. doc.safe \in Nat /\ doc.safe <= n
  BY FilesTyped DEF StreamInv
<1>6. \A i \in 1..doc.safe : doc'.pubs[i] = doc.pubs[i]
  BY <1>1, <1>5
<1>7. \A e \in acked'["doc"] : \E i \in 1..doc'.safe : doc'.pubs[i] = e
  BY <1>1, <1>6 DEF DocInv
<1> QED BY <1>1, <1>3, <1>4, <1>7 DEF DocInv, Op

\* A power failure leaves a prefix of the versions, each of them whole.
LEMMA DocLeftFacts ==
  ASSUME StreamInv, DocInv, NEW n, NEW torn, DocLeft(n, torn)
  PROVE  /\ n \in Nat /\ doc.safe <= n /\ n <= Len(doc.pubs) /\ Len(doc'.pubs) = n
         /\ \A i \in 1..n : doc'.pubs[i] = doc.pubs[i]
         /\ doc'.pubs = SubSeq(doc.pubs, 1, n)
         /\ doc'.safe = n /\ doc'.soft = doc.soft
<1>1. n \in Nat /\ doc.safe <= n /\ n <= Len(doc.pubs)
  BY FilesTyped DEF DocLeft, StreamInv
<1>2. torn = {}
  BY DEF DocLeft, DocInv
<1> DEFINE s == doc.pubs
<1>3. s \in Seq(Ids \cup {Torn}) /\ n <= Len(s) /\ doc'.pubs = [i \in 1..n |-> s[i]]
  BY <1>1, <1>2, FilesTyped DEF DocLeft, StreamInv
<1> HIDE DEF s
<1>4. Len(doc'.pubs) = n /\ \A i \in 1..n : doc'.pubs[i] = s[i]
  BY <1>1, <1>3
<1>5. doc'.pubs = SubSeq(s, 1, n)
  BY <1>1, <1>3
<1> QED BY <1>1, <1>4, <1>5 DEF s, DocLeft

LEMMA DocumentStep ==
  ASSUME Nested = FALSE, StreamInv, DocInv, [Next]_vars
  PROVE  DocInv'
<1>0. LifeInv
  BY DEF StreamInv
<1>1. CASE Still
  BY <1>1 DEF Still, DocInv, Op
<1>2. ASSUME NEW t \in Threads, Outside(t)
      PROVE  DocInv'
  <2>1. /\ doc' = doc /\ acked' = acked /\ temp' = temp /\ calls \in Nat /\ calls' \in Nat /\ calls <= calls'
        /\ \A u \in Threads \ {t} : pc'[u] = pc[u] /\ job'[u] = job[u]
        /\ pc'[t] \notin {"syncDir", "rename"}
    BY <1>0, <1>2 DEF Outside, Others, Starts, Rests, LifeInv, Typed
  <2>2. \A i \in 1..Len(doc.pubs) : doc.pubs[i] \in 1..calls
    BY DEF DocInv
  <2>3. ASSUME job'[t].op = "write", pc'[t] \in Unpublished
        PROVE  \A i \in 1..Len(doc'.pubs) : doc'.pubs[i] # job'[t].id
    <3>1. pc'[t] \notin Rests
      BY <2>3 DEF Unpublished, Rests
    <3>2. job'[t].id = calls + 1
      BY <1>2, <2>3, <3>1 DEF Outside
    <3> QED BY <2>1, <2>2, <3>2
  <2>4. \A i \in 1..Len(doc'.pubs) : doc'.pubs[i] \in 1..calls'
    BY <2>1, <2>2
  <2> QED BY <2>1, <2>3, <2>4 DEF DocInv, Op
<1>3. ASSUME NEW h \in Handles, Kill(h)
      PROVE  DocInv'
  <2> DEFINE H == {h}
  <2>1. Restart(H) /\ H \in SUBSET Handles /\ doc' = doc /\ acked' = acked /\ calls' = calls
    BY <1>3 DEF Kill, files, history
  <2> HIDE DEF H
  <2>2. /\ \A t \in Dead(H) : pc'[t] = "idle"
        /\ \A t \in Threads \ Dead(H) : pc'[t] = pc[t] /\ job'[t] = job[t] /\ temp'[t] = temp[t]
    BY <1>0, <2>1, RestartEffect
  <2>3. "idle" \notin {"syncDir", "rename"} \cup Unpublished
    BY DEF Unpublished
  <2> QED BY <2>1, <2>2, <2>3 DEF DocInv, Op
<1>4. CASE PowerLoss
  <2>1. acked' = acked /\ calls' = calls
    BY <1>4 DEF PowerLoss, history
  <2>2. \A t \in Threads : pc'[t] \notin {"syncDir", "rename"} \cup Unpublished
    BY <1>0, <1>4, PowerLossRest DEF Unpublished
  <2>3. PICK n : \E torn : DocLeft(n, torn)
    BY <1>0, <1>4, PowerLossEffect
  <2>4. PICK torn : DocLeft(n, torn)
    BY <2>3
  <2>5. /\ n \in Nat /\ doc.safe <= n /\ n <= Len(doc.pubs) /\ Len(doc'.pubs) = n
        /\ \A i \in 1..n : doc'.pubs[i] = doc.pubs[i]
        /\ doc'.safe = n /\ doc'.soft = doc.soft
    BY <2>4, DocLeftFacts
  <2>6. doc.safe \in Nat /\ Len(doc.pubs) \in Nat
    BY <1>0, FilesTyped
  <2>7. \A i \in 1..Len(doc'.pubs) : doc'.pubs[i] \in 1..calls'
    BY <2>1, <2>5, <2>6 DEF DocInv
  <2>8. \A e \in acked'["doc"] : \E i \in 1..doc'.safe : doc'.pubs[i] = e
    <3>1. ASSUME NEW e \in acked["doc"]
          PROVE  \E i \in 1..doc'.safe : doc'.pubs[i] = e
      <4>1. PICK i \in 1..doc.safe : doc.pubs[i] = e
        BY DEF DocInv
      <4>2. i \in 1..doc'.safe /\ doc'.pubs[i] = e
        BY <2>5, <2>6, <4>1
      <4> QED BY <4>2
    <3> QED BY <2>1, <3>1
  <2> QED BY <2>2, <2>5, <2>7, <2>8 DEF DocInv
<1> QED BY <1>0, <1>1, <1>2, <1>3, <1>4, StepKinds, InsideDocument, RenameDocument

-----------------------------------------------------------------------------
(* The stream and the document implement DurableLog. *)

DurableInv == StreamInv /\ EntryInv /\ DocInv

LEMMA DurableInvariant ==
  ASSUME Nested = FALSE
  PROVE  Spec => []DurableInv
<1>1. Init => EntryInv /\ DocInv
  <2> SUFFICES ASSUME Init PROVE EntryInv /\ DocInv
    OBVIOUS
  <2>1. \A t \in Threads : pc[t] = "idle"
    BY DEF Init
  <2>2. acked["log"] = {} /\ acked["doc"] = {} /\ Len(doc.pubs) = 0 /\ doc.soft = {}
    BY DEF Init, NoDoc
  <2> QED BY <2>1, <2>2 DEF EntryInv, DocInv, Unpublished, WritingLog
<1>2. DurableInv /\ StreamInv' /\ [Next]_vars => DurableInv'
  BY EntryStep, DocumentStep DEF DurableInv
<1>3. Init /\ StreamInv => DurableInv
  BY <1>1 DEF DurableInv
<1> QED BY <1>2, <1>3, StreamInvariant, PTL DEF Spec

\* Nothing but these steps changes the stream, the document or what is acknowledged.
LEMMA DurableKinds ==
  ASSUME DurableInv, [Next]_vars
  PROVE  \/ log'.lines = log.lines /\ doc'.pubs = doc.pubs /\ acked' = acked
         \/ \E t \in Threads : WriteNewline(t) \/ Rename(t) \/ SyncDir(t)
         \/ PowerLoss
<1>1. LifeInv
  BY DEF DurableInv, StreamInv
<1>2. ASSUME NEW t \in Threads, InsideStep(t), ~WriteNewline(t), ~Rename(t), ~SyncDir(t)
      PROVE  log'.lines = log.lines /\ doc'.pubs = doc.pubs /\ acked' = acked
  BY <1>1, <1>2, InsideLog, InsideDoc DEF LogCalm, DocCalm
<1>3. ASSUME NEW h \in Handles, Kill(h)
      PROVE  log'.lines = log.lines /\ doc'.pubs = doc.pubs /\ acked' = acked
  BY <1>3 DEF Kill, files, history
<1> QED BY <1>1, <1>2, <1>3, StepKinds DEF Outside, Still

LEMMA StreamStep ==
  ASSUME Nested = FALSE, DurableInv, [Next]_vars
  PROVE  [Stream!Next]_<<log.lines, acked["log"]>>
<1> DEFINE Goal == Stream!Next \/ (log'.lines = log.lines /\ acked'["log"] = acked["log"])
<1>0. StreamInv /\ LifeInv /\ LocksInv /\ LinesInv /\ EntryInv
  BY DEF DurableInv, StreamInv
<1>1. ASSUME NEW t \in Threads, WriteNewline(t)
      PROVE  Goal
  <2>1. /\ pc[t] = "writeRest" /\ job[t].op = "append" /\ log'.lines = Append(log.lines, job[t].id)
    BY <1>0, <1>1, NewlineEffect
  <2>2. job[t].id \in Ids
    <3>1. pc[t] \in OpPCs
      BY <2>1 DEF OpPCs, PCs
    <3> QED BY <1>0, <2>1, <3>1, WriterId
  <2>3. \A i \in 1..Len(log.lines) : log.lines[i] # job[t].id
    BY <1>0, <2>1 DEF LinesInv, Op, Unwritten
  <2>4. acked' = acked
    BY <1>1 DEF WriteNewline
  <2>5. Stream!Add(job[t].id)
    BY <2>1, <2>3, <2>4 DEF Stream!Add, Stream!Present
  <2> QED BY <2>2, <2>5 DEF Stream!Next
<1>2. ASSUME NEW t \in Threads, Rename(t)
      PROVE  Goal
  BY <1>2 DEF Rename, history
<1>3. ASSUME NEW t \in Threads, SyncDir(t)
      PROVE  Goal
  <2>1. /\ pc[t] = "syncDir" /\ job[t].id \in Ids
        /\ acked'["log"] = (IF job[t].op = "append" THEN acked["log"] \cup {job[t].id} ELSE acked["log"])
    BY <1>0, <1>3, SyncDirStep
  <2>2. log'.lines = log.lines
    BY <1>0, <1>3, DirSyncedTyped DEF SyncDir
  <2>3. CASE job[t].op = "append"
    <3>1. PICK i \in 1..log.safe : log.lines[i] = job[t].id
      BY <1>0, <2>1, <2>3 DEF EntryInv, Op
    <3>2. i \in 1..Len(log.lines)
      BY <1>0, <3>1, FilesTyped
    <3>3. Stream!Acknowledge(job[t].id)
      BY <2>1, <2>2, <2>3, <3>1, <3>2 DEF Stream!Acknowledge, Stream!Present
    <3> QED BY <2>1, <3>3 DEF Stream!Next
  <2>4. CASE job[t].op # "append"
    BY <2>1, <2>2, <2>4
  <2> QED BY <2>3, <2>4
<1>4. CASE PowerLoss
  <2>1. acked' = acked
    BY <1>4 DEF PowerLoss, history
  <2>2. log.lines \in Seq(Ids \cup {Torn}) /\ Len(log.lines) \in Nat /\ log.safe \in Nat
    BY <1>0, FilesTyped
  <2>3. CASE log' = NoLog /\ log.entry # "durable"
    <3>1. acked["log"] = {}
      BY <1>0, <2>3 DEF EntryInv
    <3>2. log'.lines = SubSeq(log.lines, 1, 0)
      <4> DEFINE s == log.lines
      <4>1. s \in Seq(Ids \cup {Torn}) /\ log'.lines = <<>>
        BY <2>2, <2>3 DEF NoLog
      <4> HIDE DEF s
      <4>2. SubSeq(s, 1, 0) = <<>>
        BY <4>1
      <4> QED BY <4>1, <4>2 DEF s
    <3>3. Stream!Lose(0)
      BY <2>1, <3>1, <3>2 DEF Stream!Lose
    <3> QED BY <2>2, <3>3 DEF Stream!Next
  <2>4. ASSUME NEW n, LogLeft(n)
        PROVE  Goal
    <3>1. /\ n \in Nat /\ log.safe <= n /\ n <= Len(log.lines) /\ Len(log'.lines) = n
          /\ \A i \in 1..n : log'.lines[i] = log.lines[i]
          /\ log'.lines = SubSeq(log.lines, 1, n)
      BY <1>0, <2>4, LogLeftFacts DEF LogLeft
    <3>2. ASSUME NEW e \in acked["log"]
          PROVE  e \in Stream!Present(log'.lines)
      <4>1. PICK i \in 1..log.safe : log.lines[i] = e
        BY <1>0 DEF EntryInv
      <4>2. i \in 1..Len(log'.lines) /\ log'.lines[i] = e
        BY <2>2, <3>1, <4>1
      <4> QED BY <4>2 DEF Stream!Present
    <3>3. acked["log"] \subseteq Stream!Present(SubSeq(log.lines, 1, n))
      BY <3>1, <3>2
    <3>4. Stream!Lose(n)
      BY <2>1, <3>1, <3>3 DEF Stream!Lose
    <3>5. n \in 0..Len(log.lines)
      BY <2>2, <3>1
    <3> QED BY <3>4, <3>5 DEF Stream!Next
  <2> QED BY <1>0, <1>4, <2>3, <2>4, PowerLossEffect
<1> QED BY <1>1, <1>2, <1>3, <1>4, DurableKinds

\* The stream is a durable log: an append that returned success is neither lost nor
\* cut nor reordered, whatever fails afterwards (appendJSONL), when the files' own
\* directory was there before.
THEOREM StreamImplements ==
  ASSUME Nested = FALSE
  PROVE  Spec => StreamIsDurable
<1>1. Init => Stream!Init
  BY DEF Init, NoLog, Stream!Init
<1>2. DurableInv /\ [Next]_vars => [Stream!Next]_<<log.lines, acked["log"]>>
  BY StreamStep
<1> QED BY <1>1, <1>2, DurableInvariant, PTL DEF Spec, StreamIsDurable, Stream!Spec

LEMMA VersionsStep ==
  ASSUME Nested = FALSE, DurableInv, [Next]_vars
  PROVE  [Versions!Next]_<<doc.pubs, acked["doc"]>>
<1> DEFINE Goal == Versions!Next \/ (doc'.pubs = doc.pubs /\ acked'["doc"] = acked["doc"])
<1>0. StreamInv /\ LifeInv /\ DocInv
  BY DEF DurableInv, StreamInv
<1>1. ASSUME NEW t \in Threads, WriteNewline(t)
      PROVE  Goal
  BY <1>1 DEF WriteNewline
<1>2. ASSUME NEW t \in Threads, Rename(t)
      PROVE  Goal
  <2>1. /\ doc'.pubs = Append(doc.pubs, job[t].id) /\ acked' = acked
        /\ \A i \in 1..Len(doc.pubs) : doc.pubs[i] # job[t].id
    BY <1>0, <1>2, RenameEffect
  <2>2. job[t].id \in Ids
    BY <1>0, <1>2, RenameStep
  <2>3. Versions!Add(job[t].id)
    BY <2>1 DEF Versions!Add, Versions!Present
  <2> QED BY <2>2, <2>3 DEF Versions!Next
<1>3. ASSUME NEW t \in Threads, SyncDir(t)
      PROVE  Goal
  <2>1. /\ pc[t] = "syncDir" /\ job[t].id \in Ids /\ job[t].op \in {"append", "write"}
        /\ acked'["doc"] = (IF job[t].op = "append" THEN acked["doc"] ELSE acked["doc"] \cup {job[t].id})
    BY <1>0, <1>3, SyncDirStep
  <2>2. doc'.pubs = doc.pubs
    BY <1>0, <1>3, DirSyncedTyped DEF SyncDir
  <2>3. CASE job[t].op = "write"
    <3>1. \E i \in 1..Len(doc.pubs) : doc.pubs[i] = job[t].id
      BY <1>0, <2>1, <2>3 DEF DocInv, Op
    <3>2. Versions!Acknowledge(job[t].id)
      BY <2>1, <2>2, <2>3, <3>1 DEF Versions!Acknowledge, Versions!Present
    <3> QED BY <2>1, <3>2 DEF Versions!Next
  <2>4. CASE job[t].op = "append"
    BY <2>1, <2>2, <2>4
  <2> QED BY <2>1, <2>3, <2>4
<1>4. CASE PowerLoss
  <2>1. acked' = acked
    BY <1>4 DEF PowerLoss, history
  <2>2. PICK n : \E torn : DocLeft(n, torn)
    BY <1>0, <1>4, PowerLossEffect
  <2>3. PICK torn : DocLeft(n, torn)
    BY <2>2
  <2>4. /\ n \in Nat /\ doc.safe <= n /\ n <= Len(doc.pubs) /\ Len(doc'.pubs) = n
        /\ \A i \in 1..n : doc'.pubs[i] = doc.pubs[i]
        /\ doc'.pubs = SubSeq(doc.pubs, 1, n)
    BY <1>0, <2>3, DocLeftFacts
  <2>5. doc.safe \in Nat /\ Len(doc.pubs) \in Nat
    BY <1>0, FilesTyped
  <2>6. ASSUME NEW e \in acked["doc"]
        PROVE  e \in Versions!Present(doc'.pubs)
    <3>1. PICK i \in 1..doc.safe : doc.pubs[i] = e
      BY <1>0 DEF DocInv
    <3>2. i \in 1..Len(doc'.pubs) /\ doc'.pubs[i] = e
      BY <2>4, <2>5, <3>1
    <3> QED BY <3>2 DEF Versions!Present
  <2>7. acked["doc"] \subseteq Versions!Present(SubSeq(doc.pubs, 1, n))
    BY <2>4, <2>6
  <2>8. Versions!Lose(n)
    BY <2>1, <2>4, <2>7 DEF Versions!Lose
  <2>9. n \in 0..Len(doc.pubs)
    BY <2>4, <2>5
  <2> QED BY <2>8, <2>9 DEF Versions!Next
<1> QED BY <1>1, <1>2, <1>3, <1>4, DurableKinds

\* The document is published whole, and after a power failure it is not older than
\* the last acknowledged version (writeJSONAtomicLocked), under the same premise.
THEOREM VersionsImplement ==
  ASSUME Nested = FALSE
  PROVE  Spec => DocumentIsDurable
<1>1. Init => Versions!Init
  BY DEF Init, NoDoc, Versions!Init
<1>2. DurableInv /\ [Next]_vars => [Versions!Next]_<<doc.pubs, acked["doc"]>>
  BY VersionsStep
<1> QED BY <1>1, <1>2, DurableInvariant, PTL DEF Spec, DocumentIsDurable, Versions!Spec
=============================================================================
