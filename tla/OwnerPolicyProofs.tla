------------------------- MODULE OwnerPolicyProofs -------------------------
(***************************************************************************)
(* Proofs about OwnerPolicy, for every number of handles, callers and      *)
(* revisions, every initial manifest and every bound on commits and        *)
(* faults.                                                                 *)
(***************************************************************************)
EXTENDS OwnerPolicy, TLAPS

(***************************************************************************)
(* Type correctness.  TypeOK alone is not inductive: a caller that renames *)
(* a generation must have one (CandInv), and a caller that installs a      *)
(* snapshot must have loaded it (LocTyped).                                *)
(***************************************************************************)
LocTyped == \A c \in Callers : pc[c] = "activate" => loc[c] \in Snapshots
TypeInv == TypeOK /\ CandInv /\ LocTyped

\* HEAD is a commit.
LEMMA HeadTyped ==
  ASSUME TypeOK
  PROVE  /\ HeadCommit \in Commits
         /\ HeadCommit.man \in Manifests
         /\ HeadCommit.gens \in SUBSET Revs
         /\ HeadCommit.since \in Nat
  <1>1. log \in Seq(Commits) /\ Len(log) \in 1..Len(log)
    BY DEF TypeOK
  <1>2. HeadCommit \in Commits
    BY <1>1 DEF HeadCommit
  <1>3. QED
    BY <1>2 DEF Commits

\* A caller that writes has a candidate revision.
LEMMA WriterHasCandidate ==
  ASSUME CandInv, NEW c \in Callers, pc[c] \in WritingPCs
  PROVE  cand[c] \in Revs
  BY Zenon DEF CandInv

\* A call that returns leaves well-typed caller state behind.
LEMMA EndCallTyped ==
  ASSUME TypeInv, NEW c \in Callers, EndCall(c)
  PROVE  /\ act' \in [Handles -> Callers \cup {None}]
         /\ pc' \in [Callers -> PCs]
         /\ call' \in [Callers -> Calls]
         /\ phase' \in [Callers -> Phases]
         /\ cand' \in [Callers -> Revs \cup {None}]
         /\ exp' \in [Callers -> Revs \cup {None}]
         /\ old' \in [Callers -> Nat]
         /\ loc' \in [Callers -> Snapshots \cup {None}]
         /\ blind' \in SUBSET Callers
         /\ CandInv' /\ LocTyped'
  <1>1. /\ act' \in [Handles -> Callers \cup {None}]
        /\ pc' \in [Callers -> PCs]
        /\ call' \in [Callers -> Calls]
        /\ phase' \in [Callers -> Phases]
        /\ cand' \in [Callers -> Revs \cup {None}]
        /\ exp' \in [Callers -> Revs \cup {None}]
        /\ old' \in [Callers -> Nat]
        /\ loc' \in [Callers -> Snapshots \cup {None}]
        /\ blind' \in SUBSET Callers
    BY ConstantsAssumption
    DEF TypeInv, TypeOK, EndCall, Goto, PCs, LockedPCs, Calls, Phases
  <1>2. CandInv' /\ LocTyped'
    BY DEF TypeInv, TypeOK, CandInv, LocTyped, EndCall, Goto, WritingPCs
  <1>3. QED
    BY <1>1, <1>2

\* A call that goes on to Reload is well-typed and has no candidate.
LEMMA ContinueTyped ==
  ASSUME TypeInv, NEW c \in Callers, ContinueWithReload(c)
  PROVE  /\ pc' \in [Callers -> PCs]
         /\ phase' \in [Callers -> Phases]
         /\ cand' \in [Callers -> Revs \cup {None}]
         /\ exp' \in [Callers -> Revs \cup {None}]
         /\ old' \in [Callers -> Nat]
         /\ blind' \in SUBSET Callers
         /\ CandInv' /\ LocTyped'
  <1>1. /\ pc' \in [Callers -> PCs]
        /\ phase' \in [Callers -> Phases]
        /\ cand' \in [Callers -> Revs \cup {None}]
        /\ exp' \in [Callers -> Revs \cup {None}]
        /\ old' \in [Callers -> Nat]
        /\ blind' \in SUBSET Callers
    BY DEF TypeInv, TypeOK, ContinueWithReload, Goto, PCs, LockedPCs, Phases
  <1>2. CandInv' /\ LocTyped'
    BY DEF TypeInv, TypeOK, CandInv, LocTyped, ContinueWithReload, Goto,
           WritingPCs
  <1>3. QED
    BY <1>1, <1>2

\* Publish returns, and every error path returns, into a well-typed state if
\* the repository, the tree and the snapshots stay well-typed.
LEMMA ReturnTyped ==
  ASSUME TypeInv, NEW c \in Callers, LeavePublish(c) \/ ReturnError(c),
         UNCHANGED <<log, wman, wgens, adir, stray, dgens, snap, floor, begun>>,
         dman' \in Manifests, faults' \in Nat
  PROVE  TypeInv'
  <1>1. lock' \in Callers \cup {None}
    BY DEF TypeInv, TypeOK, LeavePublish, ReturnError, Unlock
  <1>2. \/ EndCall(c) /\ (UNCHANGED mount \/ Mounted(c, "closed"))
        \/ ContinueWithReload(c)
    BY DEF LeavePublish, ReturnError
  <1>3. CASE ContinueWithReload(c)
    BY <1>1, <1>3, ContinueTyped DEF TypeInv, TypeOK, ContinueWithReload
  <1>4. CASE EndCall(c) /\ (UNCHANGED mount \/ Mounted(c, "closed"))
    <2>1. mount' \in [Handles -> Mounts]
      BY <1>4, ConstantsAssumption DEF TypeInv, TypeOK, Mounted, Mounts
    <2>2. QED
      BY <1>1, <1>4, <2>1, EndCallTyped DEF TypeInv, TypeOK
  <1>5. QED
    BY <1>2, <1>3, <1>4

\* Every step preserves the type invariant.
LEMMA TypeStep == TypeInv /\ [Next]_vars => TypeInv'
  <1> SUFFICES ASSUME TypeInv, [Next]_vars PROVE TypeInv'
    OBVIOUS
  <1> USE DEF treeVars, diskVars, handleVars, boundVars, callerVars
  <1>1. ASSUME NEW c \in Callers, NEW k \in Calls, NEW ph \in Phases,
               NEW r \in Revs \cup {None}, NEW e \in Revs \cup {None},
               ph = "publish" => r \in Revs,
               Start(c, k, ph, r, e),
               act' \in [Handles -> Callers \cup {None}],
               mount' \in [Handles -> Mounts],
               snap' \in [Handles -> Snapshots \cup {None}],
               begun' \in Nat
        PROVE  TypeInv'
    <2>1. TypeOK'
      BY <1>1 DEF TypeInv, TypeOK, Start, Goto, PCs
    <2>2. CandInv' /\ LocTyped'
      BY <1>1 DEF TypeInv, TypeOK, CandInv, LocTyped, Start, Goto, WritingPCs
    <2>3. QED
      BY <2>1, <2>2 DEF TypeInv
  <1>2. ASSUME NEW c \in Callers, Begin(c) PROVE TypeInv'
    <2>1. ASSUME NEW r \in Revs, NEW e \in Revs \cup {None},
                 BeginPublish(c, r, e)
          PROVE  TypeInv'
      <3>1. /\ act' \in [Handles -> Callers \cup {None}]
            /\ mount' \in [Handles -> Mounts]
            /\ snap' \in [Handles -> Snapshots \cup {None}]
            /\ begun' \in Nat
        BY <2>1 DEF TypeInv, TypeOK, BeginPublish
      <3>2. QED
        BY <1>1, <2>1, <3>1 DEF BeginPublish, Calls, Phases
    <2>2. ASSUME NEW r \in Revs, NEW e \in Revs \cup {None},
                 BeginMountedPublish(c, r, e)
          PROVE  TypeInv'
      <3>1. /\ act' \in [Handles -> Callers \cup {None}]
            /\ mount' \in [Handles -> Mounts]
            /\ snap' \in [Handles -> Snapshots \cup {None}]
            /\ begun' \in Nat
        BY <2>2, ConstantsAssumption DEF TypeInv, TypeOK, BeginMountedPublish
      <3>2. QED
        BY <1>1, <2>2, <3>1 DEF BeginMountedPublish, Calls, Phases
    <2>3. CASE BeginReload(c)
      BY <1>1, <2>3 DEF TypeInv, TypeOK, BeginReload, Calls, Phases
    <2>4. CASE BeginMountedReload(c)
      <3>1. /\ act' \in [Handles -> Callers \cup {None}]
            /\ mount' \in [Handles -> Mounts]
            /\ snap' \in [Handles -> Snapshots \cup {None}]
            /\ begun' \in Nat
        BY <2>4, ConstantsAssumption DEF TypeInv, TypeOK, BeginMountedReload
      <3>2. QED
        BY <1>1, <2>4, <3>1 DEF BeginMountedReload, Calls, Phases
    <2>5. CASE BeginOpen(c)
      <3>1. /\ act' \in [Handles -> Callers \cup {None}]
            /\ mount' \in [Handles -> Mounts]
            /\ snap' \in [Handles -> Snapshots \cup {None}]
            /\ begun' \in Nat
        BY <2>5, ConstantsAssumption DEF TypeInv, TypeOK, BeginOpen, Mounts
      <3>2. QED
        BY <1>1, <2>5, <3>1 DEF BeginOpen, Calls, Phases
    <2>6. QED
      BY <1>2, <2>1, <2>2, <2>3, <2>4, <2>5 DEF Begin
  <1>3. ASSUME NEW c \in Callers, AcquireLock(c) PROVE TypeInv'
    <2>1. TypeOK'
      BY <1>3, HeadTyped DEF TypeInv, TypeOK, AcquireLock, Goto, PCs, LockedPCs
    <2>2. CandInv' /\ LocTyped'
      BY <1>3 DEF TypeInv, TypeOK, CandInv, LocTyped, AcquireLock, Goto, WritingPCs
    <2>3. QED
      BY <2>1, <2>2 DEF TypeInv
  <1>4. ASSUME NEW c \in Callers, PublishCheck(c) PROVE TypeInv'
    <2>1. TypeOK'
      BY <1>4, HeadTyped DEF TypeInv, TypeOK, PublishCheck, Goto, PCs, LockedPCs
    <2>2. CandInv' /\ LocTyped'
      BY <1>4 DEF TypeInv, TypeOK, CandInv, LocTyped, PublishCheck, Goto, WritingPCs
    <2>3. QED
      BY <2>1, <2>2 DEF TypeInv
  <1>5. ASSUME NEW c \in Callers, StageGeneration(c) PROVE TypeInv'
    <2>1. TypeOK'
      BY <1>5, HeadTyped DEF TypeInv, TypeOK, StageGeneration, Goto, PCs, LockedPCs
    <2>2. CandInv' /\ LocTyped'
      BY <1>5 DEF TypeInv, TypeOK, CandInv, LocTyped, StageGeneration, Goto, WritingPCs
    <2>3. QED
      BY <2>1, <2>2 DEF TypeInv
  <1>6. ASSUME NEW c \in Callers, RenameGeneration(c) PROVE TypeInv'
    <2>1. TypeOK'
      <3>1. cand[c] \in Revs
        BY <1>6, WriterHasCandidate DEF TypeInv, RenameGeneration, WritingPCs
      <3>2. QED
        BY <1>6, <3>1 DEF TypeInv, TypeOK, RenameGeneration, Goto, PCs, LockedPCs
    <2>2. CandInv' /\ LocTyped'
      BY <1>6 DEF TypeInv, TypeOK, CandInv, LocTyped, RenameGeneration, Goto, WritingPCs
    <2>3. QED
      BY <2>1, <2>2 DEF TypeInv
  <1>7. ASSUME NEW c \in Callers, SyncGenerations(c) PROVE TypeInv'
    <2>1. TypeOK'
      BY <1>7, HeadTyped DEF TypeInv, TypeOK, SyncGenerations, Goto, PCs, LockedPCs, AfterRecovery, Unlock
    <2>2. CandInv' /\ LocTyped'
      BY <1>7 DEF TypeInv, TypeOK, CandInv, LocTyped, SyncGenerations, Goto, WritingPCs, AfterRecovery
    <2>3. QED
      BY <2>1, <2>2 DEF TypeInv
  <1>8. ASSUME NEW c \in Callers, WritePointerTemp(c) PROVE TypeInv'
    <2>1. TypeOK'
      BY <1>8, HeadTyped DEF TypeInv, TypeOK, WritePointerTemp, Goto, PCs, LockedPCs
    <2>2. CandInv' /\ LocTyped'
      BY <1>8 DEF TypeInv, TypeOK, CandInv, LocTyped, WritePointerTemp, Goto, WritingPCs
    <2>3. QED
      BY <2>1, <2>2 DEF TypeInv
  <1>9. ASSUME NEW c \in Callers, RenamePointer(c) PROVE TypeInv'
    <2>1. TypeOK'
      BY <1>9, HeadTyped DEF TypeInv, TypeOK, RenamePointer, Goto, PCs, LockedPCs, Manifests
    <2>2. CandInv' /\ LocTyped'
      BY <1>9 DEF TypeInv, TypeOK, CandInv, LocTyped, RenamePointer, Goto, WritingPCs
    <2>3. QED
      BY <2>1, <2>2 DEF TypeInv
  <1>10. ASSUME NEW c \in Callers, RecoverCheck(c) PROVE TypeInv'
    <2>1. TypeOK'
      <3>1. /\ pc' \in [Callers -> PCs] /\ lock' \in Callers \cup {None}
        BY <1>10 DEF TypeInv, TypeOK, RecoverCheck, Goto, PCs, LockedPCs, AfterRecovery, Unlock
      <3>2. cand' \in [Callers -> Revs \cup {None}]
        BY <1>10 DEF TypeInv, TypeOK, RecoverCheck, Revision
      <3>3. old' \in [Callers -> Nat]
        <4>1. Len(log) \in Nat
          BY DEF TypeInv, TypeOK
        <4>2. QED
          BY <1>10, <4>1 DEF TypeInv, TypeOK, RecoverCheck
      <3>4. QED
        BY <1>10, <3>1, <3>2, <3>3 DEF TypeInv, TypeOK, RecoverCheck, treeVars, diskVars, handleVars, boundVars
    <2>2. CandInv' /\ LocTyped'
      BY <1>10 DEF TypeInv, TypeOK, CandInv, LocTyped, RecoverCheck, Goto, WritingPCs, Revision, AfterRecovery
    <2>3. QED
      BY <2>1, <2>2 DEF TypeInv
  <1>11. ASSUME NEW c \in Callers, CommitGeneration(c) PROVE TypeInv'
    <2>1. cand[c] \in Revs
      <3>1. pc[c] = "commit"
        BY <1>11 DEF CommitGeneration
      <3>2. QED
        BY <3>1, WriterHasCandidate DEF TypeInv, WritingPCs
    <2> DEFINE new == [man |-> cand[c], gens |-> HeadCommit.gens \cup {cand[c]},
                       since |-> Len(log) + 1, exp |-> exp[c], blind |-> c \in blind]
    <2>2. new \in Commits
      <3>1. Len(log) \in Nat /\ exp[c] \in Revs \cup {None}
        BY DEF TypeInv, TypeOK
      <3>2. HeadCommit.gens \cup {cand[c]} \in SUBSET Revs
        BY <2>1, HeadTyped DEF TypeInv
      <3>3. QED
        BY <2>1, <3>1, <3>2 DEF Commits, Manifests
    <2>3. log' \in Seq(Commits) /\ Len(log') > 0
      <3> HIDE DEF new
      <3>1. log' = Append(log, new)
        BY <1>11 DEF CommitGeneration, new
      <3>2. QED
        BY <2>2, <3>1 DEF TypeInv, TypeOK
    <2>4. floor' \in [Handles -> Nat]
      BY <1>11, ConstantsAssumption DEF TypeInv, TypeOK, CommitGeneration
    <2>5. pc' \in [Callers -> PCs]
      BY <1>11 DEF TypeInv, TypeOK, CommitGeneration, Goto, PCs, LockedPCs
    <2>6. TypeOK'
      BY <1>11, <2>3, <2>4, <2>5 DEF TypeInv, TypeOK, CommitGeneration
    <2>7. CandInv' /\ LocTyped'
      BY <1>11, <2>1 DEF TypeInv, TypeOK, CandInv, LocTyped, CommitGeneration, Goto
    <2>8. QED
      BY <2>6, <2>7 DEF TypeInv
  <1>12. ASSUME NEW c \in Callers, PublishRefused(c) PROVE TypeInv'
    BY <1>12, ReturnTyped DEF TypeInv, TypeOK, PublishRefused
  <1>13. ASSUME NEW c \in Callers, CommitConflict(c) PROVE TypeInv'
    BY <1>13, ReturnTyped DEF TypeInv, TypeOK, CommitConflict
  <1>14. ASSUME NEW c \in Callers, RecoverRefused(c) PROVE TypeInv'
    BY <1>14, ReturnTyped DEF TypeInv, TypeOK, RecoverRefused
  <1>15. ASSUME NEW c \in Callers, LoadRefused(c) PROVE TypeInv'
    BY <1>15, ReturnTyped DEF TypeInv, TypeOK, LoadRefused
  <1>16. ASSUME NEW c \in Callers, StepError(c) PROVE TypeInv'
    BY <1>16, ReturnTyped DEF TypeInv, TypeOK, StepError, Fault
  <1>17. ASSUME NEW c \in Callers, SyncPointer(c) PROVE TypeInv'
    <2>1. CASE LeavePublish(c)
      BY <1>17, <2>1, ReturnTyped DEF TypeInv, TypeOK, SyncPointer
    <2>2. CASE /\ AfterRecovery(c)
               /\ UNCHANGED <<act, mount, call, phase, cand, exp, old, loc, blind>>
      <3>1. TypeOK'
        BY <1>17, <2>2 DEF TypeInv, TypeOK, SyncPointer, AfterRecovery, Unlock,
                          Goto, PCs, LockedPCs
      <3>2. CandInv' /\ LocTyped'
        BY <1>17, <2>2 DEF TypeInv, TypeOK, CandInv, LocTyped, AfterRecovery,
                          Goto, WritingPCs
      <3>3. QED
        BY <3>1, <3>2 DEF TypeInv
    <2>3. QED
      BY <1>17, <2>1, <2>2 DEF SyncPointer
  <1>18. ASSUME NEW c \in Callers, LoadSnapshot(c) PROVE TypeInv'
    <2>1. lock' \in Callers \cup {None}
      BY <1>18 DEF TypeInv, TypeOK, LoadSnapshot, Unlock
    <2>2. CASE call[c] \notin MountedCalls
      BY <1>18, <2>1, <2>2, EndCallTyped DEF TypeInv, TypeOK, LoadSnapshot
    <2>3. CASE call[c] \in MountedCalls
      <3>1. [rev |-> HeadCommit.man, pol |-> wman, at |-> HeadCommit.since,
               blind |-> c \in blind]
              \in Snapshots
        BY <1>18, HeadTyped DEF TypeInv, TypeOK, LoadSnapshot, Snapshots
      <3>2. TypeOK'
        BY <1>18, <2>1, <2>3, <3>1, ZenonT(60) DEF TypeInv, TypeOK, LoadSnapshot, Goto, PCs
      <3>3. CandInv' /\ LocTyped'
        BY <1>18, <2>3, <3>1 DEF TypeInv, TypeOK, CandInv, LocTyped, LoadSnapshot,
                               Goto, WritingPCs
      <3>4. QED
        BY <3>2, <3>3 DEF TypeInv
    <2>4. QED
      BY <2>2, <2>3
  <1>19. ASSUME NEW c \in Callers, Activate(c) PROVE TypeInv'
    <2>1. loc[c] \in Snapshots /\ loc[c].at \in Nat
      BY <1>19 DEF TypeInv, LocTyped, Activate, Snapshots
    <2>2. /\ snap' \in [Handles -> Snapshots \cup {None}]
          /\ floor' \in [Handles -> Nat]
          /\ mount' \in [Handles -> Mounts]
      BY <1>19, <2>1, ConstantsAssumption
      DEF TypeInv, TypeOK, Activate, Mounted, Mounts
    <2>3. QED
      BY <1>19, <2>2, EndCallTyped DEF TypeInv, TypeOK, Activate
  <1>20. ASSUME NEW c \in Callers, OpenRead(c) PROVE TypeInv'
    <2>1. mount' \in [Handles -> Mounts]
      BY <1>20, ConstantsAssumption
      DEF TypeInv, TypeOK, OpenRead, Mounted, Mounts, ContinueWithReload
    <2>2. CASE EndCall(c)
      BY <1>20, <2>1, <2>2, EndCallTyped DEF TypeInv, TypeOK, OpenRead
    <2>3. CASE /\ Goto(c, "openMode")
               /\ UNCHANGED <<act, mount, call, phase, cand, exp, old, loc, blind>>
      <3>1. TypeOK'
        BY <1>20, <2>3 DEF TypeInv, TypeOK, OpenRead, Goto, PCs
      <3>2. CandInv' /\ LocTyped'
        BY <2>3 DEF TypeInv, TypeOK, CandInv, LocTyped, Goto, WritingPCs
      <3>3. QED
        BY <3>1, <3>2 DEF TypeInv
    <2>4. QED
      BY <1>20, <2>2, <2>3 DEF OpenRead
  <1>21. ASSUME NEW c \in Callers, OpenMode(c) PROVE TypeInv'
    <2>1. mount' \in [Handles -> Mounts]
      BY <1>21, ConstantsAssumption
      DEF TypeInv, TypeOK, OpenMode, Mounted, Mounts, ContinueWithReload
    <2>2. CASE EndCall(c)
      BY <1>21, <2>1, <2>2, EndCallTyped DEF TypeInv, TypeOK, OpenMode
    <2>3. CASE ContinueWithReload(c)
      BY <1>21, <2>1, <2>3, ContinueTyped
      DEF TypeInv, TypeOK, OpenMode, ContinueWithReload
    <2>4. QED
      BY <1>21, <2>2, <2>3 DEF OpenMode
  <1>22. CASE ExternalCommit
    <2>1. [HeadCommit EXCEPT !.exp = None, !.blind = FALSE] \in Commits
      BY HeadTyped DEF TypeInv, Commits
    <2>2. log' \in Seq(Commits) /\ Len(log') > 0
      <3> DEFINE new == [HeadCommit EXCEPT !.exp = None, !.blind = FALSE]
      <3> HIDE DEF new
      <3>1. log' = Append(log, new) /\ new \in Commits
        BY <1>22, <2>1 DEF ExternalCommit, new
      <3>2. QED
        BY <3>1 DEF TypeInv, TypeOK
    <2>3. QED
      BY <1>22, <2>2 DEF TypeInv, TypeOK, CandInv, LocTyped, ExternalCommit
  <1>23. ASSUME NEW H \in SUBSET Handles, Die(H),
               UNCHANGED <<log, floor, begun>>, faults' \in Nat,
               wman' \in Manifests, dman' \in Manifests,
               wgens' \in SUBSET Revs, dgens' \in SUBSET Revs,
               adir' \in BOOLEAN, stray' \in BOOLEAN
        PROVE  TypeInv'
    <2>1. TypeOK'
      BY <1>23 DEF TypeInv, TypeOK, Die, PCs, Calls, Phases, Mounts
    <2>2. CandInv' /\ LocTyped'
      BY <1>23 DEF TypeInv, TypeOK, CandInv, LocTyped, Die, WritingPCs
    <2>3. QED
      BY <2>1, <2>2 DEF TypeInv
  <1>24. ASSUME NEW h \in Handles, Crash(h) PROVE TypeInv'
    BY <1>23, <1>24 DEF TypeInv, TypeOK, Crash, Fault
  <1>25. CASE PowerLoss
    <2>1. /\ wman' \in Manifests /\ dman' \in Manifests
          /\ wgens' \in SUBSET Revs /\ dgens' \in SUBSET Revs
          /\ faults' \in Nat
      BY <1>25 DEF TypeInv, TypeOK, PowerLoss, Fault
    <2>2. adir' \in BOOLEAN /\ stray' \in BOOLEAN
      BY <1>25, Zenon DEF TypeInv, TypeOK, PowerLoss
    <2>3. Die(Handles) /\ UNCHANGED <<log, floor, begun>>
      BY <1>25 DEF PowerLoss
    <2>4. QED
      BY <1>23, <2>1, <2>2, <2>3
  <1>26. CASE UNCHANGED vars
    BY <1>26 DEF TypeInv, TypeOK, CandInv, LocTyped, vars
  <1>27. ASSUME NEW c \in Callers, SkipRecovery(c) PROVE TypeInv'
    <2>1. TypeOK'
      <3>1. /\ pc' \in [Callers -> PCs] /\ lock' \in Callers \cup {None}
        BY <1>27 DEF TypeInv, TypeOK, SkipRecovery, Goto, PCs, LockedPCs, AfterRecovery, Unlock
      <3>2. blind' \in SUBSET Callers /\ faults' \in Nat
        BY <1>27 DEF TypeInv, TypeOK, SkipRecovery, Fault
      <3>3. QED
        BY <1>27, <3>1, <3>2 DEF TypeInv, TypeOK, SkipRecovery, treeVars, diskVars, handleVars
    <2>2. CandInv' /\ LocTyped'
      BY <1>27 DEF TypeInv, TypeOK, CandInv, LocTyped, SkipRecovery, Goto, WritingPCs, AfterRecovery
    <2>3. QED
      BY <2>1, <2>2 DEF TypeInv
  <1>28. ASSUME NEW c \in Callers, PublishCheckUnanswered(c) PROVE TypeInv'
    <2>1. TypeOK'
      BY <1>28 DEF TypeInv, TypeOK, PublishCheckUnanswered, Fault, Goto, PCs, LockedPCs
    <2>2. CandInv' /\ LocTyped'
      BY <1>28 DEF TypeInv, TypeOK, CandInv, LocTyped, PublishCheckUnanswered, Goto, WritingPCs
    <2>3. QED
      BY <2>1, <2>2 DEF TypeInv
  <1>29. QED
    BY <1>27, <1>28, <1>2, <1>3, <1>4, <1>5, <1>6, <1>7, <1>8, <1>9, <1>10, <1>11, <1>12, <1>13, <1>14, <1>15, <1>16, <1>17, <1>18, <1>19, <1>20, <1>21, <1>22, <1>24, <1>25, <1>26
    DEF Next, Step

\* The initial states are well-typed.
LEMMA TypeInit == Init => TypeInv
  <1> SUFFICES ASSUME Init PROVE TypeInv
    OBVIOUS
  <1>1. PICK m \in InitialManifests :
          /\ log = <<[man |-> m, gens |-> {m} \cap Revs, since |-> 1,
                      exp |-> None, blind |-> FALSE]>>
          /\ wman = m /\ dman = m
          /\ wgens = {m} \cap Revs /\ dgens = {m} \cap Revs
          /\ adir = (m # None)
    BY DEF Init
  <1>2. log \in Seq(Commits) /\ Len(log) > 0
    <2> DEFINE first == [man |-> m, gens |-> {m} \cap Revs, since |-> 1,
                         exp |-> None, blind |-> FALSE]
    <2>1. first \in Commits
      BY ConstantsAssumption DEF Commits, Manifests
    <2>2. QED
      BY <1>1, <2>1
  <1>3. /\ wman \in Manifests /\ dman \in Manifests
        /\ wgens \in SUBSET Revs /\ dgens \in SUBSET Revs
        /\ adir \in BOOLEAN
    BY <1>1, ConstantsAssumption DEF Manifests
  <1>4. TypeOK
    BY <1>2, <1>3 DEF Init, TypeOK, PCs, Calls, Phases, Mounts
  <1>5. CandInv /\ LocTyped
    BY DEF Init, CandInv, LocTyped, WritingPCs
  <1>6. QED
    BY <1>4, <1>5 DEF TypeInv

\* OwnerPolicy is type-correct in every instance.
THEOREM TypeCorrect == Spec => []TypeOK
  <1>1. TypeInv => TypeOK
    BY DEF TypeInv
  <1>2. QED
    BY <1>1, TypeInit, TypeStep, PTL DEF Spec

(***************************************************************************)
(* No stale admission.  A handle has at most one owner, the caller that    *)
(* holds ownerActivation; only the owner raises the floor or installs a    *)
(* snapshot, and what it installs was read from HEAD after its last        *)
(* commit.                                                                 *)
(***************************************************************************)
\* A step that moves one caller's pc and neither commits, installs nor changes
\* the ownership of a handle.
LEMMA QuietStep ==
  ASSUME TypeInv, OwnershipInv, NEW c \in Callers, NEW l \in PCs,
         l \notin {"idle", "activate"}, pc' = [pc EXCEPT ![c] = l],
         UNCHANGED <<log, act, snap, floor, call, loc>>
  PROVE  OwnershipInv'
  <1>1. HeadCommit' = HeadCommit
    BY DEF HeadCommit
  <1>2. OwnerInv' /\ NoStaleAdmission'
    BY DEF TypeInv, TypeOK, OwnershipInv, OwnerInv, NoStaleAdmission
  <1>3. FloorInv'
    BY <1>1 DEF OwnershipInv, FloorInv
  <1>4. LocInv'
    BY <1>1 DEF TypeInv, TypeOK, OwnershipInv, LocInv
  <1>5. QED
    BY <1>2, <1>3, <1>4 DEF OwnershipInv

\* A call that returns gives up its handle and nothing else.
LEMMA EndCallStep ==
  ASSUME TypeInv, OwnershipInv, NEW c \in Callers, EndCall(c),
         UNCHANGED <<log, snap, floor>>
  PROVE  OwnershipInv'
  <1>1. HeadCommit' = HeadCommit
    BY DEF HeadCommit
  <1>2. /\ pc' = [pc EXCEPT ![c] = "idle"]
        /\ call' = [call EXCEPT ![c] = "none"]
        /\ loc' = [loc EXCEPT ![c] = None]
        /\ act' = [act EXCEPT ![Home[c]] = IF @ = c THEN None ELSE @]
    BY DEF EndCall, Goto
  <1>3. OwnerInv'
    <2> SUFFICES ASSUME NEW d \in Callers
                 PROVE  /\ pc'[d] = "idle" => call'[d] = "none"
                        /\ pc'[d] = "activate" => call'[d] \in MountedCalls
                        /\ call'[d] \in MountedCalls
                             => act'[Home[d]] = d /\ snap'[Home[d]] = None
      BY DEF OwnerInv
    <2>1. CASE d = c
      BY <1>2, <2>1 DEF TypeInv, TypeOK, MountedCalls
    <2>2. CASE d # c
      BY <1>2, <2>2, ConstantsAssumption
      DEF TypeInv, TypeOK, OwnershipInv, OwnerInv
    <2>3. QED
      BY <2>1, <2>2
  <1>4. NoStaleAdmission' /\ FloorInv'
    BY <1>1 DEF OwnershipInv, NoStaleAdmission, FloorInv
  <1>5. LocInv'
    BY <1>1, <1>2 DEF TypeInv, TypeOK, OwnershipInv, LocInv
  <1>6. QED
    BY <1>3, <1>4, <1>5 DEF OwnershipInv

\* Publish returning, and every error path.
LEMMA ReturnStep ==
  ASSUME TypeInv, OwnershipInv, NEW c \in Callers,
         LeavePublish(c) \/ ReturnError(c), UNCHANGED <<log, snap, floor>>
  PROVE  OwnershipInv'
  <1>1. EndCall(c) \/ ContinueWithReload(c)
    BY DEF LeavePublish, ReturnError
  <1>2. CASE ContinueWithReload(c)
    BY <1>2, QuietStep DEF ContinueWithReload, Goto, PCs
  <1>3. QED
    BY <1>1, <1>2, EndCallStep

\* A call begins.  If it is a mounted one it takes a handle that has no owner
\* and withdraws its snapshot.
LEMMA StartStep ==
  ASSUME TypeInv, OwnershipInv, NEW c \in Callers, NEW k \in Calls, NEW ph, NEW r,
         NEW e, Start(c, k, ph, r, e),
         \/ k \notin MountedCalls /\ UNCHANGED <<act, snap>>
         \/ /\ act[Home[c]] = None
            /\ act' = [act EXCEPT ![Home[c]] = c]
            /\ snap' = [snap EXCEPT ![Home[c]] = None]
  PROVE  OwnershipInv'
  <1>1. /\ HeadCommit' = HeadCommit
        /\ UNCHANGED <<log, floor, loc>>
        /\ pc' = [pc EXCEPT ![c] = "wait"]
        /\ call' = [call EXCEPT ![c] = k]
        /\ pc[c] = "idle"
    BY DEF HeadCommit, Start, Goto
  <1>2. OwnerInv'
    <2> SUFFICES ASSUME NEW d \in Callers
                 PROVE  /\ pc'[d] = "idle" => call'[d] = "none"
                        /\ pc'[d] = "activate" => call'[d] \in MountedCalls
                        /\ call'[d] \in MountedCalls
                             => act'[Home[d]] = d /\ snap'[Home[d]] = None
      BY DEF OwnerInv
    <2>1. CASE d = c
      BY <1>1, <2>1, ConstantsAssumption DEF TypeInv, TypeOK
    <2>2. CASE d # c
      <3>1. /\ pc'[d] = pc[d] /\ call'[d] = call[d] /\ d # None
            /\ Home[c] \in Handles /\ Home[d] \in Handles
        BY <1>1, <2>2, ConstantsAssumption DEF TypeInv, TypeOK
      <3>2. /\ pc[d] = "idle" => call[d] = "none"
            /\ pc[d] = "activate" => call[d] \in MountedCalls
            /\ call[d] \in MountedCalls
                 => act[Home[d]] = d /\ snap[Home[d]] = None
        BY DEF OwnershipInv, OwnerInv
      <3>3. call[d] \in MountedCalls
              => act'[Home[d]] = d /\ snap'[Home[d]] = None
        BY <3>1, <3>2 DEF TypeInv, TypeOK
      <3>4. QED
        BY <3>1, <3>2, <3>3
    <2>3. QED
      BY <2>1, <2>2
  <1>3. NoStaleAdmission'
    BY <1>1, ConstantsAssumption
    DEF TypeInv, TypeOK, OwnershipInv, NoStaleAdmission
  <1>4. FloorInv' /\ LocInv'
    BY <1>1 DEF TypeInv, TypeOK, OwnershipInv, FloorInv, LocInv
  <1>5. QED
    BY <1>2, <1>3, <1>4 DEF OwnershipInv

\* HEAD advances: its manifest is never older than before.
LEMMA HeadAdvances ==
  ASSUME TypeInv, FloorInv, NEW new \in Commits, log' = Append(log, new),
         new.since = Len(log) + 1 \/ new.since = HeadCommit.since
  PROVE  /\ HeadCommit' = new
         /\ Len(log') = Len(log) + 1
         /\ HeadCommit.since <= HeadCommit'.since
         /\ HeadCommit'.since <= Len(log')
         /\ HeadCommit'.since \in Nat
  <1>1. /\ Len(log') = Len(log) + 1 /\ Len(log) \in Nat
        /\ log'[Len(log) + 1] = new
    BY DEF TypeInv, TypeOK
  <1>2. HeadCommit' = new
    BY <1>1 DEF HeadCommit
  <1>3. HeadCommit.since \in Nat /\ HeadCommit.since <= Len(log)
    BY HeadTyped DEF TypeInv, FloorInv
  <1>4. QED
    BY <1>1, <1>2, <1>3

\* Every step preserves the ownership invariant.
LEMMA OwnershipStep == TypeInv /\ OwnershipInv /\ [Next]_vars => OwnershipInv'
  <1> SUFFICES ASSUME TypeInv, OwnershipInv, [Next]_vars PROVE OwnershipInv'
    OBVIOUS
  <1> USE DEF treeVars, diskVars, handleVars, boundVars, callerVars
  <1>1. ASSUME NEW c \in Callers, Begin(c) PROVE OwnershipInv'
    <2>1. ASSUME NEW r \in Revs, NEW e \in Revs \cup {None},
                 BeginPublish(c, r, e) \/ BeginMountedPublish(c, r, e)
          PROVE  OwnershipInv'
      BY <2>1, StartStep DEF BeginPublish, BeginMountedPublish, Calls, MountedCalls
    <2>2. CASE BeginReload(c) \/ BeginMountedReload(c)
      BY <2>2, StartStep DEF BeginReload, BeginMountedReload, Calls, MountedCalls
    <2>3. CASE BeginOpen(c)
      BY <2>3, StartStep DEF BeginOpen, Calls, MountedCalls
    <2>4. QED
      BY <1>1, <2>1, <2>2, <2>3 DEF Begin
  <1>2. ASSUME NEW c \in Callers, AcquireLock(c) PROVE OwnershipInv'
    BY <1>2, QuietStep DEF AcquireLock, Goto, PCs, LockedPCs
  <1>3. ASSUME NEW c \in Callers, PublishCheck(c) PROVE OwnershipInv'
    BY <1>3, QuietStep DEF PublishCheck, Goto, PCs, LockedPCs
  <1>4. ASSUME NEW c \in Callers, StageGeneration(c) PROVE OwnershipInv'
    BY <1>4, QuietStep DEF StageGeneration, Goto, PCs, LockedPCs
  <1>5. ASSUME NEW c \in Callers, RenameGeneration(c) PROVE OwnershipInv'
    BY <1>5, QuietStep DEF RenameGeneration, Goto, PCs, LockedPCs
  <1>6. ASSUME NEW c \in Callers, SyncGenerations(c) PROVE OwnershipInv'
    BY <1>6, QuietStep DEF SyncGenerations, Goto, PCs, LockedPCs, AfterRecovery
  <1>7. ASSUME NEW c \in Callers, WritePointerTemp(c) PROVE OwnershipInv'
    BY <1>7, QuietStep DEF WritePointerTemp, Goto, PCs, LockedPCs
  <1>8. ASSUME NEW c \in Callers, RenamePointer(c) PROVE OwnershipInv'
    BY <1>8, QuietStep DEF RenamePointer, Goto, PCs, LockedPCs
  <1>9. ASSUME NEW c \in Callers, RecoverCheck(c) PROVE OwnershipInv'
    BY <1>9, QuietStep DEF RecoverCheck, Goto, PCs, LockedPCs, AfterRecovery
  <1>10. ASSUME NEW c \in Callers, PublishRefused(c) PROVE OwnershipInv'
    BY <1>10, ReturnStep DEF PublishRefused
  <1>11. ASSUME NEW c \in Callers, CommitConflict(c) PROVE OwnershipInv'
    BY <1>11, ReturnStep DEF CommitConflict
  <1>12. ASSUME NEW c \in Callers, RecoverRefused(c) PROVE OwnershipInv'
    BY <1>12, ReturnStep DEF RecoverRefused
  <1>13. ASSUME NEW c \in Callers, LoadRefused(c) PROVE OwnershipInv'
    BY <1>13, ReturnStep DEF LoadRefused
  <1>14. ASSUME NEW c \in Callers, StepError(c) PROVE OwnershipInv'
    BY <1>14, ReturnStep DEF StepError
  <1>15. ASSUME NEW c \in Callers, SyncPointer(c) PROVE OwnershipInv'
    <2>1. CASE LeavePublish(c)
      BY <1>15, <2>1, ReturnStep DEF SyncPointer
    <2>2. CASE AfterRecovery(c) /\ UNCHANGED <<act, call, loc>>
      BY <1>15, <2>2, QuietStep DEF SyncPointer, AfterRecovery, Goto, PCs, LockedPCs
    <2>3. QED
      BY <1>15, <2>1, <2>2 DEF SyncPointer
  <1>16. ASSUME NEW c \in Callers, OpenRead(c) PROVE OwnershipInv'
    <2>1. CASE EndCall(c)
      BY <1>16, <2>1, EndCallStep DEF OpenRead
    <2>2. CASE Goto(c, "openMode") /\ UNCHANGED <<act, call, loc>>
      BY <1>16, <2>2, QuietStep DEF OpenRead, Goto, PCs
    <2>3. QED
      BY <1>16, <2>1, <2>2 DEF OpenRead
  <1>17. ASSUME NEW c \in Callers, OpenMode(c) PROVE OwnershipInv'
    <2>1. CASE EndCall(c)
      BY <1>17, <2>1, EndCallStep DEF OpenMode
    <2>2. CASE ContinueWithReload(c)
      BY <1>17, <2>2, QuietStep DEF OpenMode, ContinueWithReload, Goto, PCs
    <2>3. QED
      BY <1>17, <2>1, <2>2 DEF OpenMode
  <1>18. ASSUME NEW c \in Callers, CommitGeneration(c) PROVE OwnershipInv'
    <2> DEFINE new == [man |-> cand[c], gens |-> HeadCommit.gens \cup {cand[c]},
                       since |-> Len(log) + 1, exp |-> exp[c], blind |-> c \in blind]
    <2>1. new \in Commits
      <3>1. cand[c] \in Revs
        BY <1>18, WriterHasCandidate DEF TypeInv, CommitGeneration, WritingPCs
      <3>2. Len(log) + 1 \in Nat /\ exp[c] \in Revs \cup {None}
        BY DEF TypeInv, TypeOK
      <3>3. HeadCommit.gens \cup {cand[c]} \in SUBSET Revs
        BY <3>1, HeadTyped DEF TypeInv
      <3>4. QED
        BY <3>1, <3>2, <3>3 DEF Commits, Manifests
    <2>2. log' = Append(log, new) /\ new.since = Len(log) + 1
      BY <1>18 DEF CommitGeneration
    <2> HIDE DEF new
    <2>3. /\ HeadCommit'.since = Len(log) + 1
          /\ HeadCommit.since <= HeadCommit'.since
          /\ HeadCommit'.since <= Len(log')
          /\ HeadCommit.since \in Nat /\ HeadCommit'.since \in Nat
      BY <2>1, <2>2, HeadAdvances, HeadTyped DEF TypeInv, OwnershipInv
    <2>4. /\ UNCHANGED <<act, snap, call, loc>>
          /\ pc' = [pc EXCEPT ![c] = "ptrTemp"]
          /\ floor' = IF call[c] = "mountedPublish"
                      THEN [floor EXCEPT ![Home[c]] = HeadCommit'.since] ELSE floor
      BY <1>18, <2>3 DEF CommitGeneration, Goto
    <2>5. OwnerInv'
      BY <2>4 DEF TypeInv, TypeOK, OwnershipInv, OwnerInv
    <2>6. FloorInv'
      BY <2>3, <2>4, ConstantsAssumption
      DEF TypeInv, TypeOK, OwnershipInv, FloorInv
    <2>7. LocInv'
      <3> SUFFICES ASSUME NEW d \in Callers, pc'[d] = "activate"
                   PROVE  /\ loc'[d] \in Snapshots
                          /\ floor'[Home[d]] <= loc'[d].at
                          /\ loc'[d].at <= HeadCommit'.since
        BY DEF LocInv
      <3>1. pc[d] = "activate" /\ d # c
        BY <1>18, <2>4 DEF TypeInv, TypeOK, CommitGeneration
      <3>2. /\ loc[d] \in Snapshots /\ loc[d].at \in Nat
            /\ floor[Home[d]] <= loc[d].at
            /\ loc[d].at <= HeadCommit.since
        BY <3>1 DEF OwnershipInv, LocInv, Snapshots
      <3>3. act[Home[d]] = d
        BY <3>1 DEF OwnershipInv, OwnerInv
      <3>4. call[c] = "mountedPublish" => act[Home[c]] = c
        BY DEF OwnershipInv, OwnerInv, MountedCalls
      <3>5. floor'[Home[d]] = floor[Home[d]]
        BY <2>4, <3>1, <3>3, <3>4, ConstantsAssumption DEF TypeInv, TypeOK
      <3>6. QED
        BY <2>3, <2>4, <3>2, <3>5
    <2>8. NoStaleAdmission'
      <3> SUFFICES ASSUME NEW h \in Handles, snap'[h] # None
                   PROVE  snap'[h].at >= floor'[h]
        BY DEF NoStaleAdmission
      <3>1. snap[h] # None /\ snap[h].at >= floor[h]
        BY <2>4 DEF OwnershipInv, NoStaleAdmission
      <3>2. call[c] = "mountedPublish" => Home[c] # h
        BY <3>1 DEF OwnershipInv, OwnerInv, MountedCalls
      <3>3. floor'[h] = floor[h]
        BY <2>4, <3>2, ConstantsAssumption DEF TypeInv, TypeOK
      <3>4. QED
        BY <2>4, <3>1, <3>3
    <2>9. QED
      BY <2>5, <2>6, <2>7, <2>8 DEF OwnershipInv
  <1>19. ASSUME NEW c \in Callers, LoadSnapshot(c) PROVE OwnershipInv'
    <2>1. CASE call[c] \notin MountedCalls
      BY <1>19, <2>1, EndCallStep DEF LoadSnapshot
    <2>2. CASE call[c] \in MountedCalls
      <3> DEFINE s == [rev |-> HeadCommit.man, pol |-> wman,
                       at |-> HeadCommit.since, blind |-> c \in blind]
      <3>1. s \in Snapshots /\ s.at = HeadCommit.since
        BY <1>19, HeadTyped DEF TypeInv, TypeOK, LoadSnapshot, Snapshots
      <3>2. /\ UNCHANGED <<log, act, snap, floor, call>>
            /\ pc' = [pc EXCEPT ![c] = "activate"]
            /\ loc' = [loc EXCEPT ![c] = s]
        BY <1>19, <2>2 DEF LoadSnapshot, Goto
      <3> HIDE DEF s
      <3>3. HeadCommit' = HeadCommit /\ HeadCommit.since \in Nat
        BY <3>2, HeadTyped DEF HeadCommit, TypeInv
      <3>4. OwnerInv'
        BY <2>2, <3>2 DEF TypeInv, TypeOK, OwnershipInv, OwnerInv
      <3>5. FloorInv' /\ NoStaleAdmission'
        BY <3>2, <3>3 DEF OwnershipInv, FloorInv, NoStaleAdmission
      <3>6. LocInv'
        <4> SUFFICES ASSUME NEW d \in Callers, pc'[d] = "activate"
                     PROVE  /\ loc'[d] \in Snapshots
                            /\ floor'[Home[d]] <= loc'[d].at
                            /\ loc'[d].at <= HeadCommit'.since
          BY DEF LocInv
        <4>1. CASE d = c
          <5>1. loc'[d] = s
            BY <3>2, <4>1 DEF TypeInv, TypeOK
          <5>2. floor'[Home[d]] <= HeadCommit.since
            BY <3>2, ConstantsAssumption DEF OwnershipInv, FloorInv
          <5>3. QED
            BY <3>1, <3>3, <5>1, <5>2
        <4>2. CASE d # c
          <5>1. pc[d] = "activate" /\ loc'[d] = loc[d]
            BY <3>2, <4>2 DEF TypeInv, TypeOK
          <5>2. QED
            BY <3>2, <3>3, <5>1 DEF OwnershipInv, LocInv
        <4>3. QED
          BY <4>1, <4>2
      <3>7. QED
        BY <3>4, <3>5, <3>6 DEF OwnershipInv
    <2>3. QED
      BY <2>1, <2>2
  <1>20. ASSUME NEW c \in Callers, Activate(c) PROVE OwnershipInv'
    <2>1. /\ pc[c] = "activate"
          /\ snap' = [snap EXCEPT ![Home[c]] = loc[c]]
          /\ floor' = [floor EXCEPT ![Home[c]] =
                         IF @ > loc[c].at THEN @ ELSE loc[c].at]
          /\ pc' = [pc EXCEPT ![c] = "idle"]
          /\ call' = [call EXCEPT ![c] = "none"]
          /\ loc' = [loc EXCEPT ![c] = None]
          /\ act' = [act EXCEPT ![Home[c]] = IF @ = c THEN None ELSE @]
          /\ HeadCommit' = HeadCommit /\ UNCHANGED log
      BY <1>20 DEF Activate, EndCall, Goto, HeadCommit
    <2>2. /\ loc[c] \in Snapshots /\ loc[c].at \in Nat
          /\ floor[Home[c]] <= loc[c].at /\ loc[c].at <= HeadCommit.since
      BY <2>1 DEF OwnershipInv, LocInv, Snapshots
    <2>3. Home[c] \in Handles /\ act[Home[c]] = c
      BY <2>1, ConstantsAssumption DEF OwnershipInv, OwnerInv
    <2>4. floor'[Home[c]] = loc[c].at
      BY <2>1, <2>2, <2>3 DEF TypeInv, TypeOK
    <2>5. \A h \in Handles : h # Home[c] => floor'[h] = floor[h] /\ snap'[h] = snap[h]
      BY <2>1 DEF TypeInv, TypeOK
    <2>6. \A d \in Callers : d # c /\ call[d] \in MountedCalls => Home[d] # Home[c]
      BY <2>3 DEF OwnershipInv, OwnerInv
    <2>7. OwnerInv'
      <3> SUFFICES ASSUME NEW d \in Callers
                   PROVE  /\ pc'[d] = "idle" => call'[d] = "none"
                          /\ pc'[d] = "activate" => call'[d] \in MountedCalls
                          /\ call'[d] \in MountedCalls
                               => act'[Home[d]] = d /\ snap'[Home[d]] = None
        BY DEF OwnerInv
      <3>1. CASE d = c
        BY <2>1, <3>1 DEF TypeInv, TypeOK, MountedCalls
      <3>2. CASE d # c
        BY <2>1, <2>5, <2>6, <3>2, ConstantsAssumption
        DEF TypeInv, TypeOK, OwnershipInv, OwnerInv
      <3>3. QED
        BY <3>1, <3>2
    <2>8. FloorInv'
      BY <2>1, <2>2, <2>4, <2>5 DEF OwnershipInv, FloorInv
    <2>9. LocInv'
      <3> SUFFICES ASSUME NEW d \in Callers, pc'[d] = "activate"
                   PROVE  /\ loc'[d] \in Snapshots
                          /\ floor'[Home[d]] <= loc'[d].at
                          /\ loc'[d].at <= HeadCommit'.since
        BY DEF LocInv
      <3>1. d # c /\ pc[d] = "activate" /\ loc'[d] = loc[d]
        BY <2>1 DEF TypeInv, TypeOK
      <3>2. call[d] \in MountedCalls
        BY <3>1 DEF OwnershipInv, OwnerInv
      <3>3. floor'[Home[d]] = floor[Home[d]]
        BY <2>5, <2>6, <3>1, <3>2, ConstantsAssumption
      <3>4. QED
        BY <2>1, <3>1, <3>3 DEF OwnershipInv, LocInv
    <2>10. NoStaleAdmission'
      <3> SUFFICES ASSUME NEW h \in Handles, snap'[h] # None
                   PROVE  snap'[h].at >= floor'[h]
        BY DEF NoStaleAdmission
      <3>1. CASE h = Home[c]
        BY <2>1, <2>2, <2>4, <3>1 DEF TypeInv, TypeOK
      <3>2. CASE h # Home[c]
        BY <2>5, <3>2 DEF OwnershipInv, NoStaleAdmission
      <3>3. QED
        BY <3>1, <3>2
    <2>11. QED
      BY <2>7, <2>8, <2>9, <2>10 DEF OwnershipInv
  <1>21. CASE ExternalCommit
    <2> DEFINE new == [HeadCommit EXCEPT !.exp = None, !.blind = FALSE]
    <2>1. new \in Commits /\ new.since = HeadCommit.since
      BY HeadTyped DEF TypeInv, Commits
    <2>2. log' = Append(log, new) /\ UNCHANGED <<act, snap, floor, pc, call, loc>>
      BY <1>21 DEF ExternalCommit
    <2> HIDE DEF new
    <2>3. /\ HeadCommit'.since = HeadCommit.since
          /\ HeadCommit'.since <= Len(log')
      BY <2>1, <2>2, HeadAdvances DEF OwnershipInv
    <2>4. QED
      BY <2>2, <2>3
      DEF OwnershipInv, OwnerInv, FloorInv, LocInv, NoStaleAdmission
  <1>22. ASSUME NEW H \in SUBSET Handles, Die(H), UNCHANGED <<log, floor>>
        PROVE  OwnershipInv'
    <2>1. HeadCommit' = HeadCommit
      BY <1>22 DEF HeadCommit
    <2>2. OwnerInv'
      BY <1>22, ConstantsAssumption
      DEF TypeInv, TypeOK, OwnershipInv, OwnerInv, Die, MountedCalls
    <2>3. FloorInv' /\ NoStaleAdmission'
      BY <1>22, <2>1
      DEF TypeInv, TypeOK, OwnershipInv, FloorInv, NoStaleAdmission, Die
    <2>4. LocInv'
      BY <1>22, <2>1 DEF TypeInv, TypeOK, OwnershipInv, LocInv, Die
    <2>5. QED
      BY <2>2, <2>3, <2>4 DEF OwnershipInv
  <1>23. CASE PowerLoss \/ \E h \in Handles : Crash(h)
    BY <1>22, <1>23 DEF PowerLoss, Crash
  <1>24. CASE UNCHANGED vars
    BY <1>24 DEF OwnershipInv, OwnerInv, FloorInv, LocInv, NoStaleAdmission,
               HeadCommit, vars
  <1>25. ASSUME NEW c \in Callers, SkipRecovery(c) PROVE OwnershipInv'
    BY <1>25, QuietStep DEF SkipRecovery, Goto, PCs, LockedPCs, AfterRecovery
  <1>26. ASSUME NEW c \in Callers, PublishCheckUnanswered(c) PROVE OwnershipInv'
    BY <1>26, QuietStep DEF PublishCheckUnanswered, Goto, PCs, LockedPCs
  <1>27. QED
    BY <1>1, <1>2, <1>3, <1>4, <1>5, <1>6, <1>7, <1>8, <1>9, <1>10, <1>11, <1>12, <1>13, <1>14, <1>15, <1>16, <1>17, <1>18, <1>19, <1>20, <1>21, <1>23, <1>24, <1>25, <1>26
    DEF Next, Step

LEMMA OwnershipInit == Init => OwnershipInv
  <1> SUFFICES ASSUME Init PROVE OwnershipInv
    OBVIOUS
  <1>1. HeadCommit.since = 1 /\ Len(log) = 1
    BY DEF Init, HeadCommit
  <1>2. QED
    BY <1>1
    DEF Init, OwnershipInv, OwnerInv, FloorInv, LocInv, NoStaleAdmission,
        MountedCalls

\* In every instance, a mounted database never admits under a policy older
\* than one it has itself committed or enforced.
THEOREM NeverStale == Spec => []NoStaleAdmission
  <1>1. OwnershipInv => NoStaleAdmission
    BY DEF OwnershipInv
  <1>2. QED
    BY <1>1, OwnershipInit, TypeInit, TypeStep, OwnershipStep, PTL DEF Spec

(***************************************************************************)
(* What the lock protects.  Between PublishCheck and the commit HEAD is    *)
(* the one that was checked or the compare-and-swap fails (Checked); while *)
(* recovery runs, and while a publisher writes the manifest, HEAD selects  *)
(* the generation that is written (Follows), and the manifest that Reload  *)
(* reads is the one HEAD selects, unless recovery was skipped (Loads).  A  *)
(* loaded or installed snapshot is then what one commit selects (Chosen).  *)
(***************************************************************************)
Excludes(c) ==
  /\ pc[c] \in LockedPCs => lock = c
  /\ pc[c] \in {"check", "commit"} => phase[c] = "publish"
  /\ pc[c] \in {"recover", "load"} => phase[c] # "publish"

Checked(c) ==
  (pc[c] = "commit" \/ (pc[c] \in {"stage", "rename", "syncGens"} /\ phase[c] = "publish")) =>
    /\ old[c] <= Len(log)
    /\ old[c] = Len(log) => \/ exp[c] = Revision(HeadCommit.man)
                            \/ c \in blind /\ exp[c] = None

Follows(c) ==
  /\ (pc[c] \in {"stage", "rename", "syncGens"} /\ phase[c] # "publish")
       => cand[c] = HeadCommit.man
  /\ pc[c] \in {"ptrTemp", "ptrRename", "ptrSync"} => cand[c] = HeadCommit.man
  /\ pc[c] = "ptrSync" => wman = cand[c]

Loads(c) ==
  (pc[c] = "load" /\ HeadCommit.man \in Revs /\ c \notin blind) => wman = HeadCommit.man

\* The snapshot s is what a commit selects.
OfCommit(s) ==
  /\ s.at \in 1..Len(log) /\ log[s.at].man = s.rev
  /\ ~s.blind => s.pol = s.rev
  /\ \E i \in 1..s.at : log[i].man = s.pol
Chosen(c) == pc[c] = "activate" => OfCommit(loc[c])

Reads(c) == Excludes(c) /\ Checked(c) /\ Follows(c) /\ Loads(c) /\ Chosen(c)

\* HEAD's manifest is what the commit that set it selects.
HistoryInv ==
  /\ HeadCommit.since \in 1..Len(log)
  /\ log[HeadCommit.since].man = HeadCommit.man
  /\ NoBlindOverwrite

ReadInv == (\A c \in Callers : Reads(c)) /\ HistoryInv /\ SnapshotIsOneCommit

\* HEAD has selected the manifest m once.
Kept(m) == \E i \in 1..HeadCommit.since : log[i].man = m
KeptInv == Kept(wman) /\ Kept(dman)

\* The other callers are where they were; if one holds the lock it keeps it.
OthersStay(c) ==
  \A d \in Callers : d # c =>
    /\ pc'[d] = pc[d] /\ phase'[d] = phase[d] /\ cand'[d] = cand[d] /\ exp'[d] = exp[d]
    /\ old'[d] = old[d] /\ loc'[d] = loc[d] /\ (d \in blind' <=> d \in blind)
    /\ lock = d => lock' = d

\* The history only grows.
Grows == Len(log) <= Len(log') /\ \A i \in 1..Len(log) : log'[i] = log[i]

\* c changes what the lock protects only while it holds it.
UnderLock(c) == (log' = log /\ wman' = wman) \/ (pc[c] \in LockedPCs /\ Grows)

\* Another caller's step.
LEMMA BystanderReads ==
  ASSUME TypeInv, ReadInv, NEW c \in Callers, NEW d \in Callers, d # c, OthersStay(c), UnderLock(c)
  PROVE  Reads(d)'
<1>1. /\ pc'[d] = pc[d] /\ phase'[d] = phase[d] /\ cand'[d] = cand[d] /\ exp'[d] = exp[d]
      /\ old'[d] = old[d] /\ loc'[d] = loc[d] /\ (d \in blind' <=> d \in blind)
      /\ (lock = d => lock' = d)
  BY DEF OthersStay
<1>2. Reads(d) /\ Excludes(c)
  BY DEF ReadInv, Reads
<1>3. Excludes(d)'
  BY <1>1, <1>2 DEF Reads, Excludes
<1>4. CASE log' = log /\ wman' = wman
  <2>1. HeadCommit' = HeadCommit
    BY <1>4 DEF HeadCommit
  <2>2. Checked(d)'
    BY <1>1, <1>2, <1>4, <2>1 DEF Reads, Checked
  <2>3. Follows(d)' /\ Loads(d)'
    BY <1>1, <1>2, <1>4, <2>1 DEF Reads, Follows, Loads
  <2>4. Chosen(d)'
    BY <1>1, <1>2, <1>4 DEF Reads, Chosen, OfCommit
  <2> QED BY <1>3, <2>2, <2>3, <2>4 DEF Reads
<1>5. CASE pc[c] \in LockedPCs /\ Grows
  <2>1. pc[d] \notin LockedPCs
    BY <1>2, <1>5 DEF Reads, Excludes
  <2>2. Checked(d)' /\ Follows(d)' /\ Loads(d)'
    BY <1>1, <2>1 DEF Checked, Follows, Loads, LockedPCs
  <2>3. Chosen(d)'
    <3> SUFFICES ASSUME pc[d] = "activate" PROVE OfCommit(loc[d])'
      BY <1>1 DEF Chosen, OfCommit
    <3> DEFINE s == loc[d]
    <3>1. OfCommit(s)
      BY <1>2 DEF Reads, Chosen
    <3>2. Len(log) \in Nat /\ Len(log') \in Nat
      BY DEF TypeInv, TypeOK
    <3>3. PICK i \in 1..s.at : log[i].man = s.pol
      BY <3>1 DEF OfCommit
    <3>4. s.at \in 1..Len(log) /\ i \in 1..Len(log) /\ s.at \in 1..Len(log')
      BY <1>5, <3>1, <3>2, <3>3 DEF OfCommit, Grows
    <3>5. log'[s.at] = log[s.at] /\ log'[i] = log[i]
      BY <1>5, <3>4 DEF Grows
    <3> QED BY <1>1, <3>1, <3>3, <3>4, <3>5 DEF OfCommit
  <2> QED BY <1>3, <2>2, <2>3 DEF Reads
<1> QED BY <1>4, <1>5 DEF UnderLock

\* A step of c that leaves the history and the snapshots.
LEMMA QuietReads ==
  ASSUME TypeInv, ReadInv, NEW c \in Callers, OthersStay(c), UnderLock(c), log' = log,
         \A h \in Handles : snap'[h] = snap[h] \/ snap'[h] = None \/ OfCommit(snap'[h]),
         Reads(c)'
  PROVE  ReadInv'
<1>1. \A d \in Callers : Reads(d)'
  BY BystanderReads
<1>2. HistoryInv'
  BY DEF ReadInv, HistoryInv, HeadCommit, NoBlindOverwrite
<1>3. SnapshotIsOneCommit'
  BY DEF ReadInv, SnapshotIsOneCommit, OfCommit
<1> QED BY <1>1, <1>2, <1>3 DEF ReadInv

\* A caller outside the lock has read nothing yet.
LEMMA OutsideReads ==
  ASSUME NEW c, pc'[c] \in {"idle", "wait", "openRead", "openMode"}
  PROVE  Reads(c)'
BY DEF Reads, Excludes, Checked, Follows, Loads, Chosen, LockedPCs

\* A call returns, or goes on to Reload.
LEMMA LeaveReads ==
  ASSUME TypeInv, ReadInv, NEW c \in Callers, EndCall(c) \/ ContinueWithReload(c),
         Unlock(c) \/ lock' = lock, UNCHANGED <<log, wman>>,
         \A h \in Handles : snap'[h] = snap[h] \/ snap'[h] = None \/ OfCommit(snap'[h])
  PROVE  ReadInv'
<1>1. OthersStay(c)
  <2>1. \A d \in Callers : d # c => (lock = d => lock' = d)
    BY DEF Unlock
  <2> QED BY <2>1 DEF OthersStay, EndCall, ContinueWithReload, Goto, TypeInv, TypeOK
<1>2. pc'[c] \in {"idle", "wait"}
  BY DEF EndCall, ContinueWithReload, Goto, TypeInv, TypeOK
<1>3. Reads(c)'
  BY <1>2, OutsideReads
<1> QED BY <1>1, <1>3, QuietReads DEF UnderLock

LEMMA ReturnReads ==
  ASSUME TypeInv, ReadInv, NEW c \in Callers, LeavePublish(c) \/ ReturnError(c),
         UNCHANGED <<log, wman, snap>>
  PROVE  ReadInv'
<1>1. Unlock(c) /\ (EndCall(c) \/ ContinueWithReload(c))
  BY DEF LeavePublish, ReturnError
<1> QED BY <1>1, LeaveReads

\* A call begins.
LEMMA StartReads ==
  ASSUME TypeInv, ReadInv, NEW c \in Callers, NEW k, NEW ph, NEW r, NEW e, Start(c, k, ph, r, e),
         snap' = snap \/ snap' = [snap EXCEPT ![Home[c]] = None]
  PROVE  ReadInv'
<1>1. OthersStay(c) /\ pc'[c] = "wait" /\ UNCHANGED <<log, wman>>
  BY DEF Start, Goto, OthersStay, TypeInv, TypeOK, treeVars
<1>2. Reads(c)'
  BY <1>1, OutsideReads
<1>3. \A h \in Handles : snap'[h] = snap[h] \/ snap'[h] = None
  BY DEF TypeInv, TypeOK
<1> QED BY <1>1, <1>2, <1>3, QuietReads DEF UnderLock

\* A caller under the lock goes on at l and leaves HEAD and the manifest.
LEMMA WalkReads ==
  ASSUME TypeInv, ReadInv, NEW c \in Callers, OthersStay(c), UNCHANGED <<log, wman, snap>>,
         Checked(c)', Follows(c)', Loads(c)', Excludes(c)', pc'[c] # "activate"
  PROVE  ReadInv'
<1>1. Reads(c)'
  BY DEF Reads, Chosen
<1> QED BY <1>1, QuietReads DEF UnderLock

LEMMA AcquireReads ==
  ASSUME TypeInv, ReadInv, NEW c \in Callers, AcquireLock(c)
  PROVE  ReadInv'
<1>1. /\ lock = None /\ lock' = c /\ pc'[c] \in {"check", "recover"}
      /\ pc'[c] = "check" <=> phase[c] = "publish"
      /\ UNCHANGED <<log, wman, snap, phase>>
  BY DEF AcquireLock, Goto, TypeInv, TypeOK, treeVars, handleVars
<1>2. OthersStay(c)
  <2>1. None \notin Callers
    BY ConstantsAssumption
  <2> QED BY <1>1, <2>1 DEF OthersStay, AcquireLock, Goto, TypeInv, TypeOK
<1>3. Excludes(c)' /\ Checked(c)' /\ Follows(c)' /\ Loads(c)'
  BY <1>1 DEF Excludes, Checked, Follows, Loads
<1> QED BY <1>1, <1>2, <1>3, WalkReads

\* The steps that lead from the check to the commit and through recovery.
LEMMA PublishCheckReads ==
  ASSUME TypeInv, ReadInv, NEW c \in Callers, PublishCheck(c)
  PROVE  ReadInv'
<1>1. /\ pc[c] = "check" /\ exp[c] = Revision(HeadCommit.man)
      /\ old'[c] = Len(log) /\ exp' = exp /\ pc'[c] \in {"commit", "stage"}
      /\ UNCHANGED <<log, wman, snap, lock, phase, cand, blind>>
  BY DEF PublishCheck, Goto, TypeInv, TypeOK, treeVars, handleVars
<1>2. OthersStay(c)
  BY DEF OthersStay, PublishCheck, Goto, TypeInv, TypeOK
<1>3. HeadCommit' = HeadCommit /\ Len(log) \in Nat
  BY <1>1 DEF HeadCommit, TypeInv, TypeOK
<1>4. Checked(c)'
  BY <1>1, <1>3 DEF Checked
<1>5. Excludes(c)' /\ Loads(c)'
  BY <1>1 DEF ReadInv, Reads, Excludes, Loads, LockedPCs
<1>6. phase[c] = "publish"
  BY <1>1 DEF ReadInv, Reads, Excludes
<1>7. Follows(c)'
  BY <1>1, <1>6 DEF Follows
<1> QED BY <1>1, <1>2, <1>4, <1>5, <1>7, WalkReads

\* The git show of the old manifest failed.
LEMMA PublishCheckUnansweredReads ==
  ASSUME TypeInv, ReadInv, NEW c \in Callers, PublishCheckUnanswered(c)
  PROVE  ReadInv'
<1>1. /\ pc[c] = "check" /\ exp[c] = None /\ c \in blind'
      /\ old'[c] = Len(log) /\ exp' = exp /\ pc'[c] \in {"commit", "stage"}
      /\ UNCHANGED <<log, wman, snap, lock, phase, cand>>
  BY DEF PublishCheckUnanswered, Goto, TypeInv, TypeOK, treeVars, handleVars
<1>2. OthersStay(c)
  BY DEF OthersStay, PublishCheckUnanswered, Goto, TypeInv, TypeOK
<1>3. HeadCommit' = HeadCommit /\ Len(log) \in Nat
  BY <1>1 DEF HeadCommit, TypeInv, TypeOK
<1>4. Checked(c)'
  BY <1>1, <1>3 DEF Checked
<1>5. Excludes(c)' /\ Loads(c)'
  BY <1>1 DEF ReadInv, Reads, Excludes, Loads, LockedPCs
<1>6. phase[c] = "publish"
  BY <1>1 DEF ReadInv, Reads, Excludes
<1>7. Follows(c)'
  BY <1>1, <1>6 DEF Follows
<1> QED BY <1>1, <1>2, <1>4, <1>5, <1>7, WalkReads

\* Recovery is skipped.
LEMMA SkipRecoveryReads ==
  ASSUME TypeInv, ReadInv, NEW c \in Callers, SkipRecovery(c)
  PROVE  ReadInv'
<1>1. /\ UNCHANGED <<log, wman, snap, phase>> /\ c \in blind'
      /\ \/ pc'[c] = "openRead" /\ (lock' = lock \/ Unlock(c))
         \/ pc[c] = "recover" /\ pc'[c] = "load" /\ lock' = lock
  BY DEF SkipRecovery, AfterRecovery, Goto, TypeInv, TypeOK, treeVars, handleVars
<1>2. OthersStay(c)
  <2>1. \A d \in Callers : d # c => (lock = d => lock' = d)
    BY <1>1 DEF Unlock
  <2> QED BY <2>1 DEF OthersStay, SkipRecovery, AfterRecovery, Goto, TypeInv, TypeOK
<1>3. Reads(c)
  BY DEF ReadInv
<1>4. Excludes(c)' /\ Checked(c)' /\ Follows(c)' /\ Loads(c)'
  BY <1>1, <1>3 DEF Reads, Excludes, Checked, Follows, Loads, LockedPCs
<1> QED BY <1>1, <1>2, <1>4, WalkReads

\* Staging, renaming and the temporary manifest.
LEMMA StepAlongReads ==
  ASSUME TypeInv, ReadInv, NEW c \in Callers,
         StageGeneration(c) \/ RenameGeneration(c) \/ WritePointerTemp(c)
  PROVE  ReadInv'
<1>1. /\ \/ pc[c] = "stage" /\ pc'[c] = "rename"
         \/ pc[c] = "rename" /\ pc'[c] = "syncGens"
         \/ pc[c] = "ptrTemp" /\ pc'[c] = "ptrRename"
      /\ UNCHANGED <<log, wman, snap, lock, phase, cand, exp, old, blind>>
  BY DEF StageGeneration, RenameGeneration, WritePointerTemp, Goto, TypeInv, TypeOK, handleVars
<1>2. OthersStay(c)
  BY DEF OthersStay, StageGeneration, RenameGeneration, WritePointerTemp, Goto, TypeInv, TypeOK
<1>3. HeadCommit' = HeadCommit /\ Reads(c)
  BY <1>1 DEF HeadCommit, ReadInv
<1>4. Excludes(c)' /\ Checked(c)' /\ Follows(c)' /\ Loads(c)'
  BY <1>1, <1>3 DEF Reads, Excludes, Checked, Follows, Loads, LockedPCs
<1> QED BY <1>1, <1>2, <1>4, WalkReads

LEMMA SyncGenerationsReads ==
  ASSUME TypeInv, ReadInv, NEW c \in Callers, SyncGenerations(c)
  PROVE  ReadInv'
<1>1. /\ pc[c] = "syncGens" /\ UNCHANGED <<log, wman, snap, phase, cand, exp, old, blind>>
      /\ \/ phase[c] = "publish" /\ pc'[c] = "commit" /\ lock' = lock
         \/ phase[c] # "publish" /\ pc'[c] = "ptrTemp" /\ lock' = lock
         \/ phase[c] # "publish" /\ wman = cand[c] /\ pc'[c] = "openRead" /\ Unlock(c)
         \/ phase[c] # "publish" /\ wman = cand[c] /\ pc'[c] = "load" /\ lock' = lock
  BY DEF SyncGenerations, AfterRecovery, Goto, TypeInv, TypeOK, treeVars, handleVars
<1>2. OthersStay(c)
  <2>1. \A d \in Callers : d # c => (lock = d => lock' = d)
    BY <1>1 DEF Unlock
  <2> QED BY <2>1 DEF OthersStay, SyncGenerations, AfterRecovery, Goto, TypeInv, TypeOK
<1>3. HeadCommit' = HeadCommit /\ Reads(c)
  BY <1>1 DEF HeadCommit, ReadInv
<1>4. Excludes(c)' /\ Checked(c)' /\ Follows(c)' /\ Loads(c)'
  BY <1>1, <1>3 DEF Reads, Excludes, Checked, Follows, Loads, LockedPCs
<1> QED BY <1>1, <1>2, <1>4, WalkReads

LEMMA RecoverCheckReads ==
  ASSUME TypeInv, ReadInv, NEW c \in Callers, RecoverCheck(c)
  PROVE  ReadInv'
<1>1. /\ pc[c] = "recover" /\ UNCHANGED <<log, wman, snap, phase, exp, blind>>
      /\ cand'[c] = Revision(HeadCommit.man)
      /\ \/ HeadCommit.man \in Revs /\ pc'[c] = "stage" /\ lock' = lock
         \/ HeadCommit.man \in wgens /\ pc'[c] = "ptrTemp" /\ lock' = lock
         \/ pc'[c] = "openRead" /\ Unlock(c)
         \/ /\ HeadCommit.man \in Revs => wman = HeadCommit.man
            /\ pc'[c] = "load" /\ lock' = lock
  BY DEF RecoverCheck, AfterRecovery, Goto, TypeInv, TypeOK, treeVars, handleVars
<1>2. OthersStay(c)
  <2>1. \A d \in Callers : d # c => (lock = d => lock' = d)
    BY <1>1 DEF Unlock
  <2> QED BY <2>1 DEF OthersStay, RecoverCheck, AfterRecovery, Goto, TypeInv, TypeOK
<1>3. HeadCommit' = HeadCommit /\ Reads(c) /\ wgens \subseteq Revs
  BY <1>1 DEF HeadCommit, ReadInv, TypeInv, TypeOK
<1>4. phase[c] # "publish"
  BY <1>1, <1>3 DEF Reads, Excludes
<1>5. Excludes(c)' /\ Checked(c)' /\ Follows(c)' /\ Loads(c)'
  BY <1>1, <1>3, <1>4 DEF Reads, Excludes, Checked, Follows, Loads, LockedPCs, Revision
<1> QED BY <1>1, <1>2, <1>5, WalkReads

LEMMA RenamePointerReads ==
  ASSUME TypeInv, ReadInv, NEW c \in Callers, RenamePointer(c)
  PROVE  ReadInv'
<1>1. /\ pc[c] = "ptrRename" /\ pc'[c] = "ptrSync" /\ wman' = cand[c]
      /\ UNCHANGED <<log, snap, lock, phase, cand, exp, old>>
  BY DEF RenamePointer, Goto, TypeInv, TypeOK, handleVars
<1>2. OthersStay(c)
  BY DEF OthersStay, RenamePointer, Goto, TypeInv, TypeOK
<1>3. HeadCommit' = HeadCommit /\ Reads(c) /\ Len(log) \in Nat
  BY <1>1 DEF HeadCommit, ReadInv, TypeInv, TypeOK
<1>4. Reads(c)'
  BY <1>1, <1>3 DEF Reads, Excludes, Checked, Follows, Loads, Chosen, LockedPCs
<1>5. UnderLock(c)
  BY <1>1, <1>3 DEF UnderLock, Grows, LockedPCs
<1> QED BY <1>1, <1>2, <1>4, <1>5, QuietReads

LEMMA SyncPointerReads ==
  ASSUME TypeInv, ReadInv, NEW c \in Callers, SyncPointer(c)
  PROVE  ReadInv'
<1>1. pc[c] = "ptrSync" /\ UNCHANGED <<log, wman, snap>>
  BY DEF SyncPointer, treeVars
<1>2. CASE LeavePublish(c)
  BY <1>1, <1>2, ReturnReads
<1>3. CASE /\ phase[c] # "publish" /\ AfterRecovery(c)
           /\ UNCHANGED <<act, mount, call, phase, cand, exp, old, loc, blind>>
  <2>1. \/ pc'[c] = "openRead" /\ Unlock(c)
        \/ pc'[c] = "load" /\ lock' = lock
    BY <1>3 DEF AfterRecovery, Goto, TypeInv, TypeOK
  <2>2. OthersStay(c)
    <3>1. \A d \in Callers : d # c => (lock = d => lock' = d)
      BY <2>1 DEF Unlock
    <3> QED BY <1>3, <3>1 DEF OthersStay, AfterRecovery, Goto, TypeInv, TypeOK
  <2>3. HeadCommit' = HeadCommit /\ Reads(c)
    BY <1>1 DEF HeadCommit, ReadInv
  <2>4. Excludes(c)' /\ Checked(c)' /\ Follows(c)' /\ Loads(c)'
    BY <1>1, <1>3, <2>1, <2>3 DEF Reads, Excludes, Checked, Follows, Loads, LockedPCs
  <2> QED BY <1>1, <2>1, <2>2, <2>4, WalkReads
<1> QED BY <1>2, <1>3 DEF SyncPointer

LEMMA LoadSnapshotReads ==
  ASSUME TypeInv, ReadInv, KeptInv, NEW c \in Callers, LoadSnapshot(c)
  PROVE  ReadInv'
<1>1. pc[c] = "load" /\ HeadCommit.man \in Revs /\ UNCHANGED <<log, wman, snap>> /\ Unlock(c)
  BY DEF LoadSnapshot, treeVars
<1>2. CASE EndCall(c)
  BY <1>1, <1>2, LeaveReads
<1>3. CASE ~EndCall(c)
  <2> DEFINE s == [rev |-> HeadCommit.man, pol |-> wman, at |-> HeadCommit.since,
               blind |-> c \in blind]
  <2>1. /\ loc' = [loc EXCEPT ![c] = s] /\ Goto(c, "activate")
        /\ UNCHANGED <<phase, cand, exp, old, blind>>
    BY <1>3 DEF LoadSnapshot
  <2>2. OfCommit(s)
    <3>1. c \notin blind => wman = HeadCommit.man
      BY <1>1 DEF ReadInv, Reads, Loads
    <3>2. HeadCommit.since \in 1..Len(log) /\ log[HeadCommit.since].man = HeadCommit.man
      BY DEF ReadInv, HistoryInv
    <3>3. \E i \in 1..HeadCommit.since : log[i].man = wman
      BY DEF KeptInv, Kept
    <3> QED BY <3>1, <3>2, <3>3 DEF OfCommit
  <2>3. loc'[c] = s /\ pc'[c] = "activate"
    BY <2>1 DEF Goto, TypeInv, TypeOK
  <2> HIDE DEF s
  <2>4. OthersStay(c)
    <3>1. \A d \in Callers : d # c => (lock = d => lock' = d)
      BY <1>1 DEF Unlock
    <3> QED BY <2>1, <3>1 DEF OthersStay, Goto, TypeInv, TypeOK
  <2>5. Reads(c)'
    BY <1>1, <2>2, <2>3 DEF Reads, Excludes, Checked, Follows, Loads, Chosen, OfCommit, LockedPCs
  <2> QED BY <1>1, <2>4, <2>5, QuietReads DEF UnderLock
<1> QED BY <1>2, <1>3

LEMMA ActivateReads ==
  ASSUME TypeInv, ReadInv, NEW c \in Callers, Activate(c)
  PROVE  ReadInv'
<1>1. /\ pc[c] = "activate" /\ EndCall(c) /\ UNCHANGED <<log, wman, lock>>
      /\ snap' = [snap EXCEPT ![Home[c]] = loc[c]]
  BY DEF Activate, treeVars
<1>2. OfCommit(loc[c])
  BY <1>1 DEF ReadInv, Reads, Chosen
<1>3. \A h \in Handles : snap'[h] = snap[h] \/ OfCommit(snap'[h])
  BY <1>1, <1>2 DEF TypeInv, TypeOK
<1> QED BY <1>1, <1>3, LeaveReads

LEMMA OpenReadReads ==
  ASSUME TypeInv, ReadInv, NEW c \in Callers, OpenRead(c)
  PROVE  ReadInv'
<1>1. UNCHANGED <<log, wman, snap, lock>>
  BY DEF OpenRead, treeVars
<1>2. CASE EndCall(c)
  BY <1>1, <1>2, LeaveReads
<1>3. CASE Goto(c, "openMode") /\ UNCHANGED <<act, mount, call, phase, cand, exp, old, loc, blind>>
  <2>1. OthersStay(c) /\ pc'[c] = "openMode"
    BY <1>1, <1>3 DEF OthersStay, Goto, TypeInv, TypeOK
  <2>2. Reads(c)'
    BY <2>1, OutsideReads
  <2> QED BY <1>1, <2>1, <2>2, QuietReads DEF UnderLock
<1> QED BY <1>2, <1>3 DEF OpenRead

LEMMA OpenModeReads ==
  ASSUME TypeInv, ReadInv, NEW c \in Callers, OpenMode(c)
  PROVE  ReadInv'
<1>1. UNCHANGED <<log, wman, snap, lock>> /\ (EndCall(c) \/ ContinueWithReload(c))
  BY DEF OpenMode, treeVars
<1> QED BY <1>1, LeaveReads

\* The history grows by a commit.
LEMMA AppendReads ==
  ASSUME TypeInv, ReadInv, NEW new \in Commits, log' = Append(log, new),
         \/ /\ new.since = Len(log) + 1
            /\ new.exp = Revision(HeadCommit.man) \/ (new.blind /\ new.exp = None)
         \/ new.since = HeadCommit.since /\ new.man = HeadCommit.man
  PROVE  Grows /\ HistoryInv' /\ HeadCommit' = new /\ Len(log') = Len(log) + 1
         /\ \A s : OfCommit(s) => OfCommit(s)'
<1> DEFINE n == Len(log)
<1>1. /\ n \in Nat /\ n > 0 /\ Len(log') = n + 1 /\ log'[n + 1] = new
      /\ \A i \in 1..n : log'[i] = log[i]
  BY DEF TypeInv, TypeOK
<1>2. HeadCommit' = new /\ HeadCommit = log[n]
  BY <1>1 DEF HeadCommit
<1>3. HeadCommit.since \in 1..n /\ log[HeadCommit.since].man = HeadCommit.man
  BY DEF ReadInv, HistoryInv
<1> HIDE DEF n
<1>4. new.since \in 1..(n + 1) /\ log'[new.since].man = new.man
  <2>1. CASE new.since = n + 1
    BY <1>1, <2>1
  <2>2. CASE new.since = HeadCommit.since /\ new.man = HeadCommit.man
    BY <1>1, <1>3, <2>2
  <2> QED BY <2>1, <2>2 DEF n
<1>5. NoBlindOverwrite'
  <2> SUFFICES ASSUME NEW i \in 2..(n + 1), log'[i].since = i
               PROVE  \/ log'[i].exp = Revision(log'[i - 1].man)
                      \/ log'[i].blind /\ log'[i].exp = None
    BY <1>1 DEF NoBlindOverwrite
  <2>1. CASE i = n + 1
    <3>1. new.since = n + 1 /\ log'[i] = new
      BY <1>1, <2>1
    <3>2. new.exp = Revision(HeadCommit.man) \/ (new.blind /\ new.exp = None)
      BY <1>1, <1>3, <3>1 DEF n
    <3>3. i - 1 \in 1..n /\ i - 1 = n
      BY <1>1, <2>1
    <3> QED BY <1>1, <1>2, <3>1, <3>2, <3>3
  <2>2. CASE i # n + 1
    <3>1. i \in 2..n /\ i \in 1..n /\ i - 1 \in 1..n
      BY <1>1, <2>2
    <3>2. log'[i] = log[i] /\ log'[i - 1] = log[i - 1]
      BY <1>1, <3>1
    <3>3. log[i].since = i => \/ log[i].exp = Revision(log[i - 1].man)
                              \/ log[i].blind /\ log[i].exp = None
      BY <3>1 DEF ReadInv, HistoryInv, NoBlindOverwrite, n
    <3> QED BY <3>2, <3>3
  <2> QED BY <2>1, <2>2
<1>6. HistoryInv'
  BY <1>1, <1>2, <1>4, <1>5 DEF HistoryInv
<1>7. ASSUME NEW s, OfCommit(s) PROVE OfCommit(s)'
  <2>1. PICK i \in 1..s.at : log[i].man = s.pol
    BY <1>7 DEF OfCommit
  <2>2. s.at \in 1..n /\ i \in 1..n /\ s.at \in 1..Len(log')
    BY <1>1, <1>7, <2>1 DEF OfCommit, n
  <2>3. log'[s.at] = log[s.at] /\ log'[i] = log[i]
    BY <1>1, <2>2
  <2> QED BY <1>7, <2>1, <2>2, <2>3 DEF OfCommit
<1> QED BY <1>1, <1>2, <1>6, <1>7 DEF Grows, n

\* gitCommitPolicyCAS goes through: HEAD is still the one that was checked.
LEMMA CommitGenerationReads ==
  ASSUME TypeInv, ReadInv, NEW c \in Callers, CommitGeneration(c)
  PROVE  ReadInv'
<1> DEFINE new == [man |-> cand[c], gens |-> HeadCommit.gens \cup {cand[c]},
                   since |-> Len(log) + 1, exp |-> exp[c], blind |-> c \in blind]
<1>1. /\ pc[c] = "commit" /\ old[c] = Len(log) /\ pc'[c] = "ptrTemp"
      /\ UNCHANGED <<wman, snap, lock, phase, cand>>
  BY DEF CommitGeneration, Goto, TypeInv, TypeOK, treeVars
<1>2. new \in Commits
  <2>1. cand[c] \in Revs
    BY <1>1, WriterHasCandidate DEF TypeInv, WritingPCs
  <2>2. Len(log) + 1 \in Nat /\ exp[c] \in Revs \cup {None}
    BY DEF TypeInv, TypeOK
  <2>3. HeadCommit.gens \cup {cand[c]} \in SUBSET Revs
    BY <2>1, HeadTyped DEF TypeInv
  <2> QED BY <2>1, <2>2, <2>3 DEF Commits, Manifests
<1>3. /\ log' = Append(log, new) /\ new.since = Len(log) + 1 /\ new.man = cand[c]
      /\ new.exp = exp[c] /\ new.blind = (c \in blind)
  BY DEF CommitGeneration
<1> HIDE DEF new
<1>4. /\ Reads(c) /\ phase[c] = "publish"
      /\ exp[c] = Revision(HeadCommit.man) \/ (c \in blind /\ exp[c] = None)
  BY <1>1 DEF ReadInv, Reads, Checked, Excludes
<1>5. Grows /\ HistoryInv' /\ HeadCommit' = new /\ \A s : OfCommit(s) => OfCommit(s)'
  BY <1>2, <1>3, <1>4, AppendReads
<1>6. OthersStay(c)
  BY DEF OthersStay, CommitGeneration, Goto, TypeInv, TypeOK
<1>7. \A d \in Callers : d # c => Reads(d)'
  BY <1>1, <1>5, <1>6, BystanderReads DEF UnderLock, LockedPCs
<1>8. Reads(c)'
  BY <1>1, <1>3, <1>4, <1>5 DEF Reads, Excludes, Checked, Follows, Loads, Chosen, LockedPCs
<1>9. SnapshotIsOneCommit'
  <2> SUFFICES ASSUME NEW h \in Handles, snap'[h] # None PROVE OfCommit(snap[h])'
    BY <1>1 DEF SnapshotIsOneCommit, OfCommit
  <2>1. OfCommit(snap[h])
    BY <1>1 DEF ReadInv, SnapshotIsOneCommit, OfCommit
  <2> QED BY <1>1, <1>5, <2>1 DEF OfCommit
<1> QED BY <1>5, <1>7, <1>8, <1>9 DEF ReadInv

\* Other work is committed: HEAD moves, and selects the same manifest.
LEMMA ExternalCommitReads ==
  ASSUME TypeInv, ReadInv, ExternalCommit
  PROVE  ReadInv'
<1> DEFINE new == [HeadCommit EXCEPT !.exp = None, !.blind = FALSE]
<1>1. new \in Commits /\ new.since = HeadCommit.since /\ new.man = HeadCommit.man
  BY HeadTyped DEF TypeInv, Commits
<1>2. /\ log' = Append(log, new)
      /\ UNCHANGED <<wman, snap, lock, pc, phase, cand, exp, old, loc, blind>>
  BY DEF ExternalCommit, treeVars, handleVars, callerVars
<1> HIDE DEF new
<1>3. /\ HistoryInv' /\ HeadCommit' = new /\ Len(log') = Len(log) + 1
      /\ \A s : OfCommit(s) => OfCommit(s)'
  BY <1>1, <1>2, AppendReads
<1>4. ASSUME NEW c \in Callers PROVE Reads(c)'
  <2>1. Reads(c) /\ old[c] \in Nat /\ Len(log) \in Nat
    BY DEF ReadInv, TypeInv, TypeOK
  <2>2. Excludes(c)' /\ Follows(c)' /\ Loads(c)'
    BY <1>1, <1>2, <1>3, <2>1 DEF Reads, Excludes, Follows, Loads
  <2>3. Checked(c)'
    BY <1>2, <1>3, <2>1 DEF Reads, Checked
  <2>4. Chosen(c)'
    <3> SUFFICES ASSUME pc'[c] = "activate" PROVE OfCommit(loc[c])'
      BY <1>2 DEF Chosen, OfCommit
    <3>1. OfCommit(loc[c])
      BY <1>2, <2>1 DEF Reads, Chosen
    <3> QED BY <1>2, <1>3, <3>1 DEF OfCommit
  <2> QED BY <2>2, <2>3, <2>4 DEF Reads
<1>5. SnapshotIsOneCommit'
  <2> SUFFICES ASSUME NEW h \in Handles, snap'[h] # None PROVE OfCommit(snap[h])'
    BY <1>2 DEF SnapshotIsOneCommit, OfCommit
  <2>1. OfCommit(snap[h])
    BY <1>2 DEF ReadInv, SnapshotIsOneCommit, OfCommit
  <2> QED BY <1>2, <1>3, <2>1 DEF OfCommit
<1> QED BY <1>3, <1>4, <1>5 DEF ReadInv

\* Processes die.  Who survives keeps the lock, and the manifest is the same
\* unless everyone died.
LEMMA DieReads ==
  ASSUME TypeInv, ReadInv, NEW H \in SUBSET Handles, Die(H), log' = log,
         wman' = wman \/ H = Handles
  PROVE  ReadInv'
<1>1. ASSUME NEW c \in Callers PROVE Reads(c)'
  <2>1. CASE Home[c] \in H
    <3>1. pc'[c] = "idle"
      BY <2>1 DEF Die, TypeInv, TypeOK
    <3> QED BY <3>1, OutsideReads
  <2>2. CASE Home[c] \notin H
    <3>1. /\ pc'[c] = pc[c] /\ phase'[c] = phase[c] /\ cand'[c] = cand[c] /\ exp'[c] = exp[c]
          /\ old'[c] = old[c] /\ loc'[c] = loc[c] /\ (c \in blind' <=> c \in blind)
      BY <2>2 DEF Die, TypeInv, TypeOK
    <3>2. lock = c => lock' = c
      BY <2>2 DEF Die
    <3>3. wman' = wman
      BY <2>2, ConstantsAssumption
    <3>4. HeadCommit' = HeadCommit /\ Reads(c)
      BY DEF HeadCommit, ReadInv
    <3>5. Excludes(c)' /\ Checked(c)' /\ Follows(c)' /\ Loads(c)'
      BY <3>1, <3>2, <3>3, <3>4 DEF Reads, Excludes, Checked, Follows, Loads
    <3>6. Chosen(c)'
      BY <3>1, <3>4 DEF Reads, Chosen, OfCommit
    <3> QED BY <3>5, <3>6 DEF Reads
  <2> QED BY <2>1, <2>2
<1>2. HistoryInv'
  BY DEF ReadInv, HistoryInv, HeadCommit, NoBlindOverwrite
<1>3. \A h \in Handles : snap'[h] = snap[h] \/ snap'[h] = None
  BY DEF Die
<1>4. SnapshotIsOneCommit'
  BY <1>3 DEF ReadInv, SnapshotIsOneCommit
<1> QED BY <1>1, <1>2, <1>4 DEF ReadInv

\* Every step preserves what the lock protects.
LEMMA ReadStep == TypeInv /\ ReadInv /\ KeptInv /\ [Next]_vars => ReadInv'
<1> SUFFICES ASSUME TypeInv, ReadInv, KeptInv, [Next]_vars PROVE ReadInv'
  OBVIOUS
<1> USE DEF treeVars, diskVars, handleVars, boundVars, callerVars
<1>1. ASSUME NEW c \in Callers, Begin(c) PROVE ReadInv'
  <2>1. ASSUME NEW r \in Revs, NEW e \in Revs \cup {None},
               BeginPublish(c, r, e) \/ BeginMountedPublish(c, r, e)
        PROVE  ReadInv'
    BY <2>1, StartReads DEF BeginPublish, BeginMountedPublish
  <2>2. CASE BeginReload(c) \/ BeginMountedReload(c)
    BY <2>2, StartReads DEF BeginReload, BeginMountedReload
  <2>3. CASE BeginOpen(c)
    BY <2>3, StartReads DEF BeginOpen
  <2> QED BY <1>1, <2>1, <2>2, <2>3 DEF Begin
<1>2. ASSUME NEW c \in Callers,
             PublishRefused(c) \/ CommitConflict(c) \/ RecoverRefused(c) \/ LoadRefused(c) \/ StepError(c)
      PROVE  ReadInv'
  <2>1. UNCHANGED <<log, wman, snap>> /\ (LeavePublish(c) \/ ReturnError(c))
    BY <1>2 DEF PublishRefused, CommitConflict, RecoverRefused, LoadRefused, StepError
  <2> QED BY <2>1, ReturnReads
<1>3. CASE \E c \in Callers : AcquireLock(c) \/ Step(c)
  BY <1>2, <1>3, AcquireReads, PublishCheckReads, StepAlongReads, SyncGenerationsReads, CommitGenerationReads,
     RenamePointerReads, SyncPointerReads, RecoverCheckReads, LoadSnapshotReads, ActivateReads,
     OpenReadReads, OpenModeReads DEF Step
<1>4. CASE ExternalCommit
  BY <1>4, ExternalCommitReads
<1>5. CASE PowerLoss
  BY <1>5, DieReads DEF PowerLoss
<1>6. ASSUME NEW h \in Handles, Crash(h) PROVE ReadInv'
  BY <1>6, DieReads DEF Crash
<1>7. CASE UNCHANGED vars
  <2>1. HeadCommit' = HeadCommit
    BY <1>7 DEF vars, HeadCommit
  <2>2. \A c \in Callers : Reads(c)'
    BY <1>7, <2>1 DEF vars, ReadInv, Reads, Excludes, Checked, Follows, Loads, Chosen, OfCommit
  <2> QED BY <1>7, <2>1, <2>2 DEF vars, ReadInv, HistoryInv, NoBlindOverwrite, SnapshotIsOneCommit
<1>8. CASE \E c \in Callers : SkipRecovery(c) \/ PublishCheckUnanswered(c)
  BY <1>8, SkipRecoveryReads, PublishCheckUnansweredReads
<1> QED BY <1>1, <1>2, <1>3, <1>4, <1>5, <1>6, <1>7, <1>8 DEF Next

\* The working manifest, and the one that a power loss would leave, were
\* committed before they were written.
LEMMA KeptStep == TypeInv /\ ReadInv /\ KeptInv /\ [Next]_vars => KeptInv'
<1> SUFFICES ASSUME TypeInv, ReadInv, KeptInv, [Next]_vars PROVE KeptInv'
  OBVIOUS
<1> USE DEF treeVars, diskVars, handleVars, boundVars, callerVars
<1>1. ASSUME log' = log, wman' \in {wman, dman}, dman' \in {wman, dman} PROVE KeptInv'
  <2>1. HeadCommit' = HeadCommit
    BY <1>1 DEF HeadCommit
  <2> QED BY <1>1, <2>1 DEF KeptInv, Kept
<1>2. ASSUME NEW new \in Commits, log' = Append(log, new), UNCHANGED <<wman, dman>>,
             new.since = Len(log) + 1 \/ new.since = HeadCommit.since
      PROVE  KeptInv'
  <2>1. /\ Len(log) \in Nat /\ HeadCommit.since \in 1..Len(log)
        /\ Len(log') = Len(log) + 1 /\ log'[Len(log) + 1] = new
        /\ \A i \in 1..Len(log) : log'[i] = log[i]
    BY <1>2 DEF TypeInv, TypeOK, ReadInv, HistoryInv
  <2>2. HeadCommit'.since \in Nat /\ HeadCommit.since <= HeadCommit'.since
    BY <1>2, <2>1 DEF HeadCommit
  <2>3. ASSUME NEW m, Kept(m) PROVE Kept(m)'
    <3>1. PICK i \in 1..HeadCommit.since : log[i].man = m
      BY <2>3 DEF Kept
    <3>2. i \in 1..Len(log) /\ i \in 1..HeadCommit'.since
      BY <2>1, <2>2, <3>1
    <3> QED BY <2>1, <3>1, <3>2 DEF Kept
  <2>4. Kept(wman)' /\ Kept(dman)'
    <3>1. PICK m : m = wman
      OBVIOUS
    <3>2. PICK d : d = dman
      OBVIOUS
    <3>3. Kept(m)' /\ Kept(d)'
      BY <2>3, <3>1, <3>2 DEF KeptInv
    <3> QED BY <1>2, <3>1, <3>2, <3>3 DEF Kept
  <2> QED BY <2>4 DEF KeptInv
<1>3. ASSUME NEW c \in Callers, RenamePointer(c) PROVE KeptInv'
  <2>1. pc[c] = "ptrRename" /\ wman' = cand[c] /\ UNCHANGED <<log, dman>>
    BY <1>3 DEF RenamePointer
  <2>2. cand[c] = HeadCommit.man /\ HeadCommit' = HeadCommit
    BY <2>1 DEF ReadInv, Reads, Follows, HeadCommit
  <2>3. HeadCommit.since \in 1..Len(log) /\ log[HeadCommit.since].man = HeadCommit.man
    BY DEF ReadInv, HistoryInv
  <2>4. HeadCommit.since \in 1..HeadCommit.since
    BY <2>3 DEF TypeInv, TypeOK
  <2> QED BY <2>1, <2>2, <2>3, <2>4 DEF KeptInv, Kept
<1>4. ASSUME NEW c \in Callers, CommitGeneration(c) PROVE KeptInv'
  <2> DEFINE new == [man |-> cand[c], gens |-> HeadCommit.gens \cup {cand[c]},
                     since |-> Len(log) + 1, exp |-> exp[c], blind |-> c \in blind]
  <2>1. cand[c] \in Revs
    BY <1>4, WriterHasCandidate DEF TypeInv, CommitGeneration, WritingPCs
  <2>2. Len(log) + 1 \in Nat /\ exp[c] \in Revs \cup {None}
    BY DEF TypeInv, TypeOK
  <2>3. HeadCommit.gens \cup {cand[c]} \in SUBSET Revs
    BY <2>1, HeadTyped DEF TypeInv
  <2>4. new \in Commits
    BY <2>1, <2>2, <2>3 DEF Commits, Manifests
  <2>5. log' = Append(log, new) /\ new.since = Len(log) + 1 /\ UNCHANGED <<wman, dman>>
    BY <1>4 DEF CommitGeneration
  <2> HIDE DEF new
  <2> QED BY <1>2, <2>4, <2>5
<1>5. CASE ExternalCommit
  <2> DEFINE new == [HeadCommit EXCEPT !.exp = None, !.blind = FALSE]
  <2>1. new \in Commits /\ new.since = HeadCommit.since
    BY HeadTyped DEF TypeInv, Commits
  <2>2. log' = Append(log, new) /\ UNCHANGED <<wman, dman>>
    BY <1>5 DEF ExternalCommit
  <2> HIDE DEF new
  <2> QED BY <1>2, <2>1, <2>2
<1>6. ASSUME NEW c \in Callers,
             Begin(c) \/ AcquireLock(c) \/ StepError(c) \/ SkipRecovery(c) \/ PublishCheckUnanswered(c)
      PROVE  KeptInv'
  BY <1>1, <1>6 DEF Begin, BeginPublish, BeginMountedPublish, BeginReload, BeginMountedReload, BeginOpen,
     Start, AcquireLock, StepError, SkipRecovery, PublishCheckUnanswered
<1>7. ASSUME NEW c \in Callers, Step(c) PROVE KeptInv'
  BY <1>1, <1>3, <1>4, <1>7 DEF Step, PublishCheck, PublishRefused, StageGeneration, RenameGeneration,
     SyncGenerations, CommitConflict, WritePointerTemp, SyncPointer, RecoverCheck, RecoverRefused,
     LoadSnapshot, LoadRefused, Activate, OpenRead, OpenMode
<1>8. CASE UNCHANGED vars \/ PowerLoss \/ \E h \in Handles : Crash(h)
  BY <1>1, <1>8 DEF vars, PowerLoss, Crash
<1> QED BY <1>5, <1>6, <1>7, <1>8 DEF Next

LEMMA KeptInit == Init => KeptInv
<1> SUFFICES ASSUME Init PROVE KeptInv
  OBVIOUS
<1>1. PICK m \in InitialManifests :
        /\ log = <<[man |-> m, gens |-> {m} \cap Revs, since |-> 1, exp |-> None, blind |-> FALSE]>>
        /\ wman = m /\ dman = m
  BY DEF Init
<1>2. HeadCommit.since = 1 /\ log[1].man = m /\ 1 \in 1..1
  BY <1>1 DEF HeadCommit
<1> QED BY <1>1, <1>2 DEF KeptInv, Kept

LEMMA ReadInit == Init => ReadInv
<1> SUFFICES ASSUME Init PROVE ReadInv
  OBVIOUS
<1>1. HeadCommit.since = 1 /\ Len(log) = 1 /\ HeadCommit = log[1]
  BY DEF Init, HeadCommit
<1>2. \A c \in Callers : Reads(c)
  BY DEF Init, Reads, Excludes, Checked, Follows, Loads, Chosen, LockedPCs
<1>3. HistoryInv
  BY <1>1 DEF HistoryInv, NoBlindOverwrite
<1>4. SnapshotIsOneCommit
  BY DEF Init, SnapshotIsOneCommit
<1> QED BY <1>2, <1>3, <1>4 DEF ReadInv

\* In every instance, the revision that a mounted database reports is what one
\* commit selects and the policies it enforces are those of that revision,
\* although Reload reads the revision from HEAD and the policies from the
\* working tree in separate steps; where a failed Git command made the Reload
\* skip its recovery, they are those of this or of an older commit.
THEOREM SnapshotsAreCommits == Spec => []SnapshotIsOneCommit
<1>1. ReadInv => SnapshotIsOneCommit
  BY DEF ReadInv
<1> QED BY <1>1, TypeInit, TypeStep, ReadInit, ReadStep, KeptInit, KeptStep, PTL DEF Spec

\* In every instance, a publication replaces exactly the revision that its
\* caller expected, whoever else commits between the check and the
\* compare-and-swap, unless it expected none and its git show failed.
THEOREM NothingOverwrittenBlindly == Spec => []NoBlindOverwrite
<1>1. ReadInv => NoBlindOverwrite
  BY DEF ReadInv, HistoryInv
<1> QED BY <1>1, TypeInit, TypeStep, ReadInit, ReadStep, KeptInit, KeptStep, PTL DEF Spec

(***************************************************************************)
(* What is on disk when it is needed.  A revision that is about to be      *)
(* committed or pointed at has its generation directory (Placed), the      *)
(* access directory exists as soon as anything is in it, and HEAD holds    *)
(* the generation that it selects.  The working tree loses nothing but by  *)
(* a power loss, which no running call survives.                           *)
(***************************************************************************)
Placed(c) ==
  /\ pc[c] \in {"syncGens", "commit", "ptrTemp", "ptrRename"} => cand[c] \in wgens
  /\ pc[c] \in {"rename", "ptrRename", "ptrSync"} => adir = TRUE
  /\ pc[c] = "openRead" /\ c \notin blind /\ HeadCommit.man \in Revs => adir = TRUE

TreeInv ==
  /\ \A c \in Callers : Placed(c)
  /\ wgens # {} => adir = TRUE
  /\ HeadCommit.man \in Revs => HeadCommit.man \in HeadCommit.gens

\* The other callers do not move.
Aside(c) ==
  \A d \in Callers : d # c =>
    pc'[d] = pc[d] /\ cand'[d] = cand[d] /\ (d \in blind' <=> d \in blind)

\* The working tree grows, or stays.
TreeGrows ==
  /\ wgens \subseteq wgens' /\ (adir = TRUE => adir' = TRUE)
  /\ wgens' # {} => adir' = TRUE

LEMMA GrowingTree ==
  ASSUME TypeInv, TreeInv, NEW c \in Callers, Aside(c), TreeGrows,
         log' = log \/ (HeadCommit'.man \in HeadCommit'.gens /\ adir = TRUE), Placed(c)'
  PROVE  TreeInv'
<1>1. HeadCommit'.man \in Revs => HeadCommit'.man \in HeadCommit'.gens
  BY DEF TreeInv, HeadCommit
<1>2. HeadCommit'.man \in Revs => HeadCommit.man \in Revs \/ adir = TRUE
  BY DEF HeadCommit
<1>3. ASSUME NEW d \in Callers, d # c PROVE Placed(d)'
  <2>1. pc'[d] = pc[d] /\ cand'[d] = cand[d] /\ (d \in blind' <=> d \in blind) /\ Placed(d)
    BY <1>3 DEF Aside, TreeInv
  <2> QED BY <1>2, <2>1 DEF Placed, TreeGrows
<1> QED BY <1>1, <1>3 DEF TreeInv, TreeGrows

\* A step of c that leaves the working tree and HEAD.
LEMMA StillTree ==
  ASSUME TypeInv, TreeInv, NEW c \in Callers, Aside(c), UNCHANGED <<log, wgens, adir>>, Placed(c)'
  PROVE  TreeInv'
BY GrowingTree DEF TreeGrows, TreeInv

\* Calls begin, return, go on to Reload, and wait for the lock.
LEMMA AwayTree ==
  ASSUME TypeInv, TreeInv, NEW c \in Callers, Aside(c), UNCHANGED <<log, wgens, adir>>,
         pc'[c] \in {"idle", "wait", "check", "recover", "load", "activate", "openMode", "stage"}
  PROVE  TreeInv'
<1>1. Placed(c)'
  BY DEF Placed
<1> QED BY <1>1, StillTree

LEMMA LeaveTree ==
  ASSUME TypeInv, TreeInv, NEW c \in Callers, EndCall(c) \/ ContinueWithReload(c),
         UNCHANGED <<log, wgens, adir>>
  PROVE  TreeInv'
<1>1. Aside(c) /\ pc'[c] \in {"idle", "wait"}
  BY DEF Aside, EndCall, ContinueWithReload, Goto, TypeInv, TypeOK
<1> QED BY <1>1, AwayTree

LEMMA ReturnTree ==
  ASSUME TypeInv, TreeInv, NEW c \in Callers, LeavePublish(c) \/ ReturnError(c),
         UNCHANGED <<log, wgens, adir>>
  PROVE  TreeInv'
BY LeaveTree DEF LeavePublish, ReturnError

\* Every step preserves what is on disk.
LEMMA TreeStep == TypeInv /\ TreeInv /\ [Next]_vars => TreeInv'
<1> SUFFICES ASSUME TypeInv, TreeInv, [Next]_vars PROVE TreeInv'
  OBVIOUS
<1> USE DEF treeVars, diskVars, handleVars, boundVars, callerVars
<1>1. ASSUME NEW c \in Callers, NEW k, NEW ph, NEW r, NEW e, Start(c, k, ph, r, e)
      PROVE  TreeInv'
  <2>1. Aside(c) /\ pc'[c] = "wait" /\ UNCHANGED <<log, wgens, adir>>
    BY <1>1 DEF Start, Goto, Aside, TypeInv, TypeOK
  <2> QED BY <2>1, AwayTree
<1>2. ASSUME NEW c \in Callers, Begin(c) PROVE TreeInv'
  BY <1>1, <1>2 DEF Begin, BeginPublish, BeginMountedPublish, BeginReload, BeginMountedReload, BeginOpen
<1>3. ASSUME NEW c \in Callers,
             PublishRefused(c) \/ CommitConflict(c) \/ RecoverRefused(c) \/ LoadRefused(c) \/ StepError(c)
      PROVE  TreeInv'
  <2>1. UNCHANGED <<log, wgens, adir>> /\ (LeavePublish(c) \/ ReturnError(c))
    BY <1>3 DEF PublishRefused, CommitConflict, RecoverRefused, LoadRefused, StepError
  <2> QED BY <2>1, ReturnTree
<1>4. ASSUME NEW c \in Callers, AcquireLock(c) PROVE TreeInv'
  <2>1. Aside(c) /\ pc'[c] \in {"check", "recover"} /\ UNCHANGED <<log, wgens, adir>>
    BY <1>4 DEF AcquireLock, Goto, Aside, TypeInv, TypeOK
  <2> QED BY <2>1, AwayTree
<1>5. ASSUME NEW c \in Callers, PublishCheck(c) PROVE TreeInv'
  <2>1. /\ Aside(c) /\ UNCHANGED <<log, wgens, adir, cand>>
        /\ pc'[c] = "stage" \/ (pc'[c] = "commit" /\ cand[c] \in wgens)
    BY <1>5 DEF PublishCheck, Goto, Aside, TypeInv, TypeOK
  <2>2. Placed(c)'
    BY <2>1 DEF Placed
  <2> QED BY <2>1, <2>2, StillTree
<1>6. ASSUME NEW c \in Callers, StageGeneration(c) PROVE TreeInv'
  <2>1. Aside(c) /\ UNCHANGED <<log, wgens>> /\ adir' = TRUE /\ pc'[c] = "rename"
    BY <1>6 DEF StageGeneration, Goto, Aside, TypeInv, TypeOK
  <2>2. Placed(c)'
    BY <2>1 DEF Placed
  <2> QED BY <2>1, <2>2, GrowingTree DEF TreeGrows
<1>7. ASSUME NEW c \in Callers, RenameGeneration(c) PROVE TreeInv'
  <2>1. /\ Aside(c) /\ UNCHANGED <<log, adir, cand>> /\ wgens' = wgens \cup {cand[c]}
        /\ pc[c] = "rename" /\ pc'[c] = "syncGens"
    BY <1>7 DEF RenameGeneration, Goto, Aside, TypeInv, TypeOK
  <2>2. Placed(c)' /\ adir = TRUE
    BY <2>1 DEF Placed, TreeInv
  <2> QED BY <2>1, <2>2, GrowingTree DEF TreeGrows
<1>8. ASSUME NEW c \in Callers, SyncGenerations(c) PROVE TreeInv'
  <2>1. /\ Aside(c) /\ UNCHANGED <<log, wgens, adir, cand>>
        /\ pc[c] = "syncGens" /\ pc'[c] \in {"commit", "ptrTemp", "openRead", "load"}
    BY <1>8 DEF SyncGenerations, AfterRecovery, Goto, Aside, TypeInv, TypeOK
  <2>2. cand[c] \in wgens /\ adir = TRUE
    BY <2>1 DEF TreeInv, Placed
  <2>3. Placed(c)'
    BY <2>1, <2>2 DEF Placed
  <2> QED BY <2>1, <2>3, StillTree
<1>9. ASSUME NEW c \in Callers, CommitGeneration(c) PROVE TreeInv'
  <2> DEFINE new == [man |-> cand[c], gens |-> HeadCommit.gens \cup {cand[c]},
                     since |-> Len(log) + 1, exp |-> exp[c], blind |-> c \in blind]
  <2>1. /\ Aside(c) /\ UNCHANGED <<wgens, adir, cand>>
        /\ pc[c] = "commit" /\ pc'[c] = "ptrTemp" /\ log' = Append(log, new)
    BY <1>9 DEF CommitGeneration, Goto, Aside, TypeInv, TypeOK
  <2>2. new.man \in new.gens
    OBVIOUS
  <2>3. cand[c] \in Revs /\ new \in Commits
    <3>1. cand[c] \in Revs
      BY <2>1, WriterHasCandidate DEF TypeInv, WritingPCs
    <3>2. Len(log) + 1 \in Nat /\ exp[c] \in Revs \cup {None}
      BY DEF TypeInv, TypeOK
    <3>3. HeadCommit.gens \cup {cand[c]} \in SUBSET Revs
      BY <3>1, HeadTyped DEF TypeInv
    <3> QED BY <3>1, <3>2, <3>3 DEF Commits, Manifests
  <2> HIDE DEF new
  <2>4. HeadCommit' = new
    <3>1. Len(log') = Len(log) + 1 /\ log'[Len(log) + 1] = new
      BY <2>1, <2>3 DEF TypeInv, TypeOK
    <3> QED BY <3>1 DEF HeadCommit
  <2>5. cand[c] \in wgens /\ adir = TRUE
    BY <2>1 DEF TreeInv, Placed
  <2>6. Placed(c)'
    BY <2>1, <2>5 DEF Placed
  <2> QED BY <2>1, <2>2, <2>4, <2>5, <2>6, GrowingTree DEF TreeGrows
<1>10. ASSUME NEW c \in Callers, WritePointerTemp(c) PROVE TreeInv'
  <2>1. /\ Aside(c) /\ UNCHANGED <<log, wgens, cand>> /\ adir' = TRUE
        /\ pc[c] = "ptrTemp" /\ pc'[c] = "ptrRename"
    BY <1>10 DEF WritePointerTemp, Goto, Aside, TypeInv, TypeOK
  <2>2. Placed(c)'
    BY <2>1 DEF Placed, TreeInv
  <2> QED BY <2>1, <2>2, GrowingTree DEF TreeGrows
<1>11. ASSUME NEW c \in Callers, RenamePointer(c) PROVE TreeInv'
  <2>1. /\ Aside(c) /\ UNCHANGED <<log, wgens, adir, cand>>
        /\ pc[c] = "ptrRename" /\ pc'[c] = "ptrSync"
    BY <1>11 DEF RenamePointer, Goto, Aside, TypeInv, TypeOK
  <2>2. Placed(c)'
    BY <2>1 DEF Placed, TreeInv
  <2> QED BY <2>1, <2>2, StillTree
<1>12. ASSUME NEW c \in Callers, SyncPointer(c) PROVE TreeInv'
  <2>1. pc[c] = "ptrSync" /\ UNCHANGED <<log, wgens, adir>>
    BY <1>12 DEF SyncPointer
  <2>2. CASE LeavePublish(c)
    BY <2>1, <2>2, ReturnTree
  <2>3. CASE AfterRecovery(c) /\ cand' = cand /\ blind' = blind
    <3>1. Aside(c) /\ pc'[c] \in {"openRead", "load"}
      BY <2>3 DEF AfterRecovery, Goto, Aside, TypeInv, TypeOK
    <3>2. adir = TRUE
      BY <2>1 DEF TreeInv, Placed
    <3>3. Placed(c)'
      BY <2>1, <3>1, <3>2 DEF Placed
    <3> QED BY <2>1, <3>1, <3>3, StillTree
  <2> QED BY <1>12, <2>2, <2>3 DEF SyncPointer
<1>13. ASSUME NEW c \in Callers, RecoverCheck(c) PROVE TreeInv'
  <2>1. /\ Aside(c) /\ UNCHANGED <<log, wgens, adir>> /\ cand'[c] = Revision(HeadCommit.man)
        /\ \/ pc'[c] = "stage"
           \/ HeadCommit.man \in wgens /\ pc'[c] = "ptrTemp"
           \/ /\ HeadCommit.man \in Revs => HeadCommit.man \in wgens
              /\ pc'[c] \in {"openRead", "load"}
    BY <1>13 DEF RecoverCheck, AfterRecovery, Goto, Aside, TypeInv, TypeOK
  <2>2. HeadCommit' = HeadCommit /\ wgens \subseteq Revs
    BY <2>1 DEF HeadCommit, TypeInv, TypeOK
  <2>3. Placed(c)'
    BY <2>1, <2>2 DEF Placed, TreeInv, Revision
  <2> QED BY <2>1, <2>3, StillTree
<1>14. ASSUME NEW c \in Callers, LoadSnapshot(c) \/ Activate(c) PROVE TreeInv'
  <2>1. UNCHANGED <<log, wgens, adir>>
    BY <1>14 DEF LoadSnapshot, Activate
  <2>2. CASE EndCall(c)
    BY <2>1, <2>2, LeaveTree
  <2>3. CASE Goto(c, "activate") /\ cand' = cand /\ blind' = blind
    <3>1. Aside(c) /\ pc'[c] = "activate"
      BY <2>3 DEF Aside, Goto, TypeInv, TypeOK
    <3> QED BY <2>1, <3>1, AwayTree
  <2> QED BY <1>14, <2>2, <2>3 DEF LoadSnapshot, Activate
<1>15. ASSUME NEW c \in Callers, OpenRead(c) \/ OpenMode(c) PROVE TreeInv'
  <2>1. UNCHANGED <<log, wgens, adir>>
    BY <1>15 DEF OpenRead, OpenMode
  <2>2. CASE EndCall(c) \/ ContinueWithReload(c)
    BY <2>1, <2>2, LeaveTree
  <2>3. CASE Goto(c, "openMode") /\ cand' = cand /\ blind' = blind
    <3>1. Aside(c) /\ pc'[c] = "openMode"
      BY <2>3 DEF Aside, Goto, TypeInv, TypeOK
    <3> QED BY <2>1, <3>1, AwayTree
  <2> QED BY <1>15, <2>2, <2>3 DEF OpenRead, OpenMode
<1>16. CASE ExternalCommit
  <2> DEFINE new == [HeadCommit EXCEPT !.exp = None, !.blind = FALSE]
  <2>1. new \in Commits /\ new.gens = HeadCommit.gens /\ new.man = HeadCommit.man
    BY HeadTyped DEF TypeInv, Commits
  <2>2. log' = Append(log, new) /\ UNCHANGED <<wgens, adir, pc, cand, blind>>
    BY <1>16 DEF ExternalCommit
  <2> HIDE DEF new
  <2>3. HeadCommit' = new
    <3>1. Len(log') = Len(log) + 1 /\ log'[Len(log) + 1] = new
      BY <2>1, <2>2 DEF TypeInv, TypeOK
    <3> QED BY <3>1 DEF HeadCommit
  <2>4. \A c \in Callers : Placed(c)'
    BY <2>1, <2>2, <2>3 DEF TreeInv, Placed
  <2> QED BY <2>1, <2>2, <2>3, <2>4 DEF TreeInv
<1>17. ASSUME NEW h \in Handles, Crash(h) PROVE TreeInv'
  <2>1. UNCHANGED <<log, wgens, adir>> /\ Die({h})
    BY <1>17 DEF Crash
  <2>2. ASSUME NEW c \in Callers PROVE Placed(c)'
    <3>1. pc'[c] = "idle" \/ (pc'[c] = pc[c] /\ cand'[c] = cand[c] /\ (c \in blind' <=> c \in blind))
      BY <2>1 DEF Die
    <3> QED BY <2>1, <3>1 DEF TreeInv, Placed, HeadCommit
  <2> QED BY <2>1, <2>2 DEF TreeInv, HeadCommit
<1>18. CASE PowerLoss
  <2>1. \A c \in Callers : pc'[c] = "idle"
    BY <1>18, ConstantsAssumption DEF PowerLoss, Die
  <2>2. \A c \in Callers : Placed(c)'
    BY <2>1 DEF Placed
  <2>3. wgens' # {} => adir' = TRUE
    <3> SUFFICES ASSUME wgens' # {} PROVE adir' = TRUE
      OBVIOUS
    <3>1. wgens' \subseteq wgens
      BY <1>18 DEF PowerLoss
    <3>2. adir = TRUE
      BY <3>1 DEF TreeInv
    <3> QED BY <1>18, <3>2, Zenon DEF PowerLoss
  <2> QED BY <1>18, <2>2, <2>3 DEF TreeInv, PowerLoss, HeadCommit
<1>19. CASE UNCHANGED vars
  <2>1. HeadCommit' = HeadCommit
    BY <1>19 DEF vars, HeadCommit
  <2> QED BY <1>19, <2>1 DEF vars, TreeInv, Placed
<1>20. ASSUME NEW c \in Callers, SkipRecovery(c) PROVE TreeInv'
  <2>1. Aside(c) /\ c \in blind' /\ pc'[c] \in {"openRead", "load"} /\ UNCHANGED <<log, wgens, adir>>
    BY <1>20 DEF SkipRecovery, AfterRecovery, Goto, Aside, TypeInv, TypeOK
  <2>2. Placed(c)'
    BY <2>1 DEF Placed
  <2> QED BY <2>1, <2>2, StillTree
<1>21. ASSUME NEW c \in Callers, PublishCheckUnanswered(c) PROVE TreeInv'
  <2>1. /\ Aside(c) /\ UNCHANGED <<log, wgens, adir, cand>>
        /\ pc'[c] = "stage" \/ (pc'[c] = "commit" /\ cand[c] \in wgens)
    BY <1>21 DEF PublishCheckUnanswered, Goto, Aside, TypeInv, TypeOK
  <2>2. Placed(c)'
    BY <2>1 DEF Placed
  <2> QED BY <2>1, <2>2, StillTree
<1> QED
  BY <1>20, <1>21, <1>2, <1>3, <1>4, <1>5, <1>6, <1>7, <1>8, <1>9, <1>10, <1>11, <1>12, <1>13, <1>14, <1>15, <1>16,
     <1>17, <1>18, <1>19 DEF Next, Step

LEMMA TreeInit == Init => TreeInv
<1> SUFFICES ASSUME Init PROVE TreeInv
  OBVIOUS
<1>1. PICK m \in InitialManifests :
        /\ log = <<[man |-> m, gens |-> {m} \cap Revs, since |-> 1, exp |-> None,
                    blind |-> FALSE]>>
        /\ wgens = {m} \cap Revs /\ adir = (m # None)
  BY DEF Init
<1>2. HeadCommit.man = m /\ HeadCommit.gens = {m} \cap Revs
  BY <1>1 DEF HeadCommit
<1>3. wgens # {} => adir = TRUE
  BY <1>1, ConstantsAssumption
<1>4. \A c \in Callers : Placed(c)
  BY DEF Init, Placed
<1> QED BY <1>2, <1>3, <1>4 DEF TreeInv

(***************************************************************************)
(* What NewDatabase finds after its recovery.  If its recovery was not     *)
(* skipped and HEAD selected a generation then, the working manifest       *)
(* names one, and keeps naming one, until it is read (Opened).             *)
(***************************************************************************)
RecoveringPCs == {"stage", "rename", "syncGens", "ptrTemp", "ptrRename", "ptrSync"}
Opened(c) ==
  /\ phase[c] = "recover" => call[c] = "open"
  /\ pc[c] = "openRead" => phase[c] = "recover"
  /\ pc[c] \in RecoveringPCs /\ phase[c] # "publish" => old[c] \in 1..Len(log)
  /\ pc[c] = "openRead" /\ c \notin blind =>
       old[c] \in 1..Len(log) /\ (log[old[c]].man \in Revs => wman \in Revs)
OpenedInv == \A c \in Callers : Opened(c)

\* What keeps Opened(d): d does not move, the history grows and a generation
\* is replaced only by a generation.
LEMMA OpenedStays ==
  ASSUME TypeInv, Grows, wman \in Revs => wman' \in Revs,
         NEW d \in Callers, Opened(d), pc'[d] = pc[d], phase'[d] = phase[d],
         call'[d] = call[d], old'[d] = old[d], d \in blind' <=> d \in blind
  PROVE  Opened(d)'
<1>1. Len(log) \in Nat /\ Len(log') >= Len(log) /\ \A i \in 1..Len(log) : log'[i] = log[i]
  BY DEF TypeInv, TypeOK, Grows
<1>2. old[d] \in 1..Len(log) => old[d] \in 1..Len(log') /\ log'[old[d]] = log[old[d]]
  BY <1>1
<1> QED BY <1>2 DEF Opened

\* A caller that is away from its recovery.
LEMMA OpenedAway ==
  ASSUME NEW c, pc'[c] \notin RecoveringPCs \cup {"openRead"} \/ phase'[c] = "publish",
         pc'[c] # "openRead", phase'[c] = "recover" => call'[c] = "open"
  PROVE  Opened(c)'
BY DEF Opened

LEMMA OpenedStep == TypeInv /\ ReadInv /\ OpenedInv /\ [Next]_vars => OpenedInv'
<1> SUFFICES ASSUME TypeInv, ReadInv, OpenedInv, [Next]_vars PROVE OpenedInv'
  OBVIOUS
<1> USE DEF treeVars, diskVars, handleVars, boundVars, callerVars
<1>0. Len(log) \in Nat /\ Len(log) \in 1..Len(log) /\ (log' = log => Grows)
  BY DEF TypeInv, TypeOK, Grows
<1>1. ASSUME NEW c \in Callers, Grows, wman \in Revs => wman' \in Revs, Opened(c)',
             \A d \in Callers : d # c =>
               /\ pc'[d] = pc[d] /\ phase'[d] = phase[d] /\ call'[d] = call[d]
               /\ old'[d] = old[d] /\ (d \in blind' <=> d \in blind)
      PROVE  OpenedInv'
  BY <1>1, OpenedStays DEF OpenedInv
<1>2. ASSUME NEW c \in Callers, EndCall(c) \/ ContinueWithReload(c), UNCHANGED <<log, wman>>
      PROVE  OpenedInv'
  <2>1. /\ pc'[c] \in {"idle", "wait"} /\ phase'[c] \in {"publish", "reload"}
        /\ \A d \in Callers : d # c =>
               /\ pc'[d] = pc[d] /\ phase'[d] = phase[d] /\ call'[d] = call[d]
               /\ old'[d] = old[d] /\ (d \in blind' <=> d \in blind)
    BY <1>2 DEF EndCall, ContinueWithReload, Goto, TypeInv, TypeOK
  <2>2. Opened(c)'
    BY <2>1, OpenedAway DEF RecoveringPCs
  <2> QED BY <1>0, <1>1, <1>2, <2>1, <2>2
<1>3. ASSUME NEW c \in Callers, NEW k, NEW ph, NEW r, NEW e, Start(c, k, ph, r, e),
             ph = "recover" => k = "open"
      PROVE  OpenedInv'
  <2>1. /\ pc'[c] = "wait" /\ phase'[c] = ph /\ call'[c] = k /\ UNCHANGED <<log, wman>>
        /\ \A d \in Callers : d # c =>
               /\ pc'[d] = pc[d] /\ phase'[d] = phase[d] /\ call'[d] = call[d]
               /\ old'[d] = old[d] /\ (d \in blind' <=> d \in blind)
    BY <1>3 DEF Start, Goto, TypeInv, TypeOK
  <2>2. Opened(c)'
    BY <1>3, <2>1, OpenedAway DEF RecoveringPCs
  <2> QED BY <1>0, <1>1, <2>1, <2>2
<1>4. ASSUME NEW c \in Callers, Begin(c) PROVE OpenedInv'
  BY <1>3, <1>4 DEF Begin, BeginPublish, BeginMountedPublish, BeginReload, BeginMountedReload, BeginOpen
<1>5. ASSUME NEW c \in Callers,
             PublishRefused(c) \/ CommitConflict(c) \/ RecoverRefused(c) \/ LoadRefused(c) \/ StepError(c)
      PROVE  OpenedInv'
  <2>1. UNCHANGED <<log, wman>> /\ (EndCall(c) \/ ContinueWithReload(c))
    BY <1>5 DEF PublishRefused, CommitConflict, RecoverRefused, LoadRefused, StepError, LeavePublish,
                ReturnError
  <2> QED BY <1>2, <2>1
<1>6. ASSUME NEW c \in Callers, AcquireLock(c) \/ PublishCheck(c) \/ PublishCheckUnanswered(c)
      PROVE  OpenedInv'
  <2>1. /\ UNCHANGED <<log, wman, phase, call>>
        /\ pc'[c] \in {"check", "recover"} \/ (pc[c] = "check" /\ pc'[c] \in {"commit", "stage"})
        /\ \A d \in Callers : d # c =>
               pc'[d] = pc[d] /\ old'[d] = old[d] /\ (d \in blind' <=> d \in blind)
    BY <1>6 DEF AcquireLock, PublishCheck, PublishCheckUnanswered, Goto, TypeInv, TypeOK
  <2>2. pc[c] = "check" => phase[c] = "publish"
    BY DEF ReadInv, Reads, Excludes
  <2>3. phase[c] = "recover" => call[c] = "open"
    BY DEF OpenedInv, Opened
  <2>4. Opened(c)'
    BY <2>1, <2>2, <2>3, OpenedAway DEF RecoveringPCs
  <2> QED BY <1>0, <1>1, <2>1, <2>4
<1>7. ASSUME NEW c \in Callers,
             StageGeneration(c) \/ RenameGeneration(c) \/ WritePointerTemp(c) \/ RenamePointer(c)
      PROVE  OpenedInv'
  <2>1. /\ UNCHANGED <<log, phase, call, old, blind>> /\ pc[c] \in RecoveringPCs /\ pc'[c] \in RecoveringPCs
        /\ wman' = wman \/ (pc[c] = "ptrRename" /\ wman' = cand[c])
        /\ \A d \in Callers : d # c => pc'[d] = pc[d]
    BY <1>7 DEF StageGeneration, RenameGeneration, WritePointerTemp, RenamePointer, Goto, TypeInv, TypeOK,
                RecoveringPCs
  <2>2. wman \in Revs => wman' \in Revs
    BY <2>1, WriterHasCandidate DEF TypeInv, WritingPCs
  <2>3. Opened(c)'
    BY <2>1 DEF OpenedInv, Opened, RecoveringPCs
  <2> QED BY <1>0, <1>1, <2>1, <2>2, <2>3
<1>8. ASSUME NEW c \in Callers, SyncGenerations(c) PROVE OpenedInv'
  <2>1. /\ UNCHANGED <<log, wman, phase, call, old, blind>> /\ pc[c] = "syncGens"
        /\ \/ pc'[c] = "commit" /\ phase[c] = "publish"
           \/ pc'[c] = "ptrTemp" /\ phase[c] # "publish"
           \/ pc'[c] = "openRead" /\ phase[c] = "recover" /\ wman = cand[c]
           \/ pc'[c] = "load"
        /\ \A d \in Callers : d # c => pc'[d] = pc[d]
    BY <1>8 DEF SyncGenerations, AfterRecovery, Goto, TypeInv, TypeOK
  <2>2. cand[c] \in Revs /\ Opened(c)
    BY <2>1, WriterHasCandidate DEF TypeInv, WritingPCs, OpenedInv
  <2>3. Opened(c)'
    BY <2>1, <2>2 DEF Opened, RecoveringPCs
  <2> QED BY <1>0, <1>1, <2>1, <2>3
<1>9. ASSUME NEW c \in Callers, SyncPointer(c) PROVE OpenedInv'
  <2>1. pc[c] = "ptrSync" /\ UNCHANGED <<log, wman>>
    BY <1>9 DEF SyncPointer
  <2>2. CASE LeavePublish(c)
    BY <1>2, <2>1, <2>2 DEF LeavePublish
  <2>3. CASE /\ phase[c] # "publish" /\ AfterRecovery(c)
             /\ UNCHANGED <<act, mount, call, phase, cand, exp, old, loc, blind>>
    <3>1. /\ pc'[c] = "load" \/ (pc'[c] = "openRead" /\ phase[c] = "recover")
          /\ \A d \in Callers : d # c => pc'[d] = pc[d]
      BY <2>3 DEF AfterRecovery, Goto, TypeInv, TypeOK
    <3>2. wman = cand[c] /\ cand[c] \in Revs /\ Opened(c)
      BY <2>1, WriterHasCandidate DEF ReadInv, Reads, Follows, TypeInv, WritingPCs, OpenedInv
    <3>3. Opened(c)'
      BY <2>1, <2>3, <3>1, <3>2 DEF Opened, RecoveringPCs
    <3> QED BY <1>0, <1>1, <2>1, <2>3, <3>1, <3>3
  <2> QED BY <1>9, <2>2, <2>3 DEF SyncPointer
<1>10. ASSUME NEW c \in Callers, RecoverCheck(c) PROVE OpenedInv'
  <2>1. /\ UNCHANGED <<log, wman, phase, call, blind>> /\ old'[c] = Len(log)
        /\ \/ pc'[c] \in RecoveringPCs \cup {"load"}
           \/ /\ pc'[c] = "openRead" /\ phase[c] = "recover"
              /\ HeadCommit.man \in Revs => wman = HeadCommit.man
        /\ \A d \in Callers : d # c => pc'[d] = pc[d] /\ old'[d] = old[d]
    BY <1>10 DEF RecoverCheck, AfterRecovery, Goto, TypeInv, TypeOK, RecoveringPCs
  <2>2. Opened(c) /\ HeadCommit = log[Len(log)]
    BY DEF OpenedInv, HeadCommit
  <2>3. Opened(c)'
    BY <1>0, <2>1, <2>2 DEF Opened, RecoveringPCs
  <2> QED BY <1>0, <1>1, <2>1, <2>3
<1>11. ASSUME NEW c \in Callers, SkipRecovery(c) PROVE OpenedInv'
  <2>1. /\ UNCHANGED <<log, wman, phase, call, old>> /\ c \in blind'
        /\ pc'[c] = "load" \/ (pc'[c] = "openRead" /\ phase[c] = "recover")
        /\ \A d \in Callers : d # c => pc'[d] = pc[d] /\ (d \in blind' <=> d \in blind)
    BY <1>11 DEF SkipRecovery, AfterRecovery, Goto, TypeInv, TypeOK
  <2>2. Opened(c)'
    BY <2>1 DEF OpenedInv, Opened, RecoveringPCs
  <2> QED BY <1>0, <1>1, <2>1, <2>2
<1>12. ASSUME NEW c \in Callers, CommitGeneration(c) PROVE OpenedInv'
  <2>1. /\ UNCHANGED <<wman, phase, call, old, blind>> /\ pc[c] = "commit" /\ pc'[c] = "ptrTemp"
        /\ \A d \in Callers : d # c => pc'[d] = pc[d]
        /\ log' = Append(log, [man |-> cand[c], gens |-> HeadCommit.gens \cup {cand[c]},
                              since |-> Len(log) + 1, exp |-> exp[c], blind |-> c \in blind])
    BY <1>12 DEF CommitGeneration, Goto, TypeInv, TypeOK
  <2>2. phase[c] = "publish"
    BY <2>1 DEF ReadInv, Reads, Excludes
  <2>3. Opened(c)'
    BY <2>1, <2>2, OpenedAway
  <2>4. Grows
    BY <2>1 DEF Grows, TypeInv, TypeOK
  <2> QED BY <1>1, <2>1, <2>3, <2>4
<1>13. ASSUME NEW c \in Callers, LoadSnapshot(c) \/ Activate(c) \/ OpenRead(c) \/ OpenMode(c)
       PROVE  OpenedInv'
  <2>1. UNCHANGED <<log, wman>>
    BY <1>13 DEF LoadSnapshot, Activate, OpenRead, OpenMode
  <2>2. CASE EndCall(c) \/ ContinueWithReload(c)
    BY <1>2, <2>1, <2>2
  <2>3. CASE (Goto(c, "activate") \/ Goto(c, "openMode")) /\ UNCHANGED <<call, phase, old, blind>>
    <3>1. pc'[c] \in {"activate", "openMode"} /\ \A d \in Callers : d # c => pc'[d] = pc[d]
      BY <2>3 DEF Goto, TypeInv, TypeOK
    <3>2. Opened(c)'
      BY <2>3, <3>1 DEF OpenedInv, Opened, RecoveringPCs
    <3> QED BY <1>0, <1>1, <2>1, <2>3, <3>1, <3>2
  <2> QED BY <1>13, <2>2, <2>3 DEF LoadSnapshot, Activate, OpenRead, OpenMode
<1>14. CASE ExternalCommit
  <2>1. /\ UNCHANGED <<wman, pc, phase, call, old, blind>>
        /\ log' = Append(log, [HeadCommit EXCEPT !.exp = None, !.blind = FALSE])
    BY <1>14 DEF ExternalCommit
  <2>2. Grows
    BY <2>1 DEF Grows, TypeInv, TypeOK
  <2> QED BY <2>1, <2>2, OpenedStays DEF OpenedInv
<1>15. ASSUME NEW H \in SUBSET Handles, Die(H), log' = log, wman' = wman \/ H = Handles
       PROVE  OpenedInv'
  <2> SUFFICES ASSUME NEW c \in Callers PROVE Opened(c)'
    BY DEF OpenedInv
  <2>1. CASE Home[c] \in H
    <3>1. pc'[c] = "idle" /\ phase'[c] = "publish"
      BY <1>15, <2>1 DEF Die, TypeInv, TypeOK
    <3> QED BY <3>1, OpenedAway
  <2>2. CASE Home[c] \notin H
    <3>1. /\ pc'[c] = pc[c] /\ phase'[c] = phase[c] /\ call'[c] = call[c]
          /\ old'[c] = old[c] /\ (c \in blind' <=> c \in blind)
      BY <1>15, <2>2 DEF Die, TypeInv, TypeOK
    <3>2. wman' = wman
      BY <1>15, <2>2, ConstantsAssumption
    <3> QED BY <1>0, <1>15, <3>1, <3>2, OpenedStays DEF OpenedInv
  <2> QED BY <2>1, <2>2
<1>16. CASE PowerLoss \/ \E h \in Handles : Crash(h)
  BY <1>15, <1>16 DEF PowerLoss, Crash
<1>17. CASE UNCHANGED vars
  BY <1>0, <1>17, OpenedStays DEF vars, OpenedInv
<1> QED
  BY <1>4, <1>5, <1>6, <1>7, <1>8, <1>9, <1>10, <1>11, <1>12, <1>13, <1>14, <1>16, <1>17 DEF Next, Step

\* A mount becomes unprotected only where NewDatabase found no access
\* directory, or a disabled manifest in it.
LEMMA UnprotectedOnlyInOpenRead ==
  ASSUME TypeInv, [Next]_vars, NEW h \in Handles, mount[h] # "unprotected", mount'[h] = "unprotected"
  PROVE  \E c \in Callers : pc[c] = "openRead" /\ Home[c] = h /\ (adir # TRUE \/ wman = Disabled)
<1> USE DEF treeVars, diskVars, handleVars, boundVars, callerVars
<1>1. ASSUME NEW c \in Callers, NEW m, m # "unprotected",
             mount' = mount \/ mount' = [mount EXCEPT ![Home[c]] = m]
      PROVE  FALSE
  BY <1>1 DEF TypeInv, TypeOK
<1>2. ASSUME NEW c \in Callers, Begin(c) PROVE FALSE
  <2>1. mount' = mount \/ mount' = [mount EXCEPT ![Home[c]] = "opening"]
    BY <1>2 DEF Begin, BeginPublish, BeginMountedPublish, BeginReload, BeginMountedReload, BeginOpen
  <2> QED BY <1>1, <2>1
<1>3. ASSUME NEW c \in Callers, LeavePublish(c) \/ ReturnError(c) PROVE FALSE
  <2>1. mount' = mount \/ mount' = [mount EXCEPT ![Home[c]] = "closed"]
    BY <1>3 DEF LeavePublish, ReturnError, ContinueWithReload, Mounted
  <2> QED BY <1>1, <2>1
<1>4. ASSUME NEW c \in Callers, OpenMode(c) PROVE FALSE
  <2>1. mount' = mount \/ mount' = [mount EXCEPT ![Home[c]] = "static"]
    BY <1>4 DEF OpenMode, ContinueWithReload, Mounted
  <2> QED BY <1>1, <2>1
<1>5. ASSUME NEW c \in Callers, Activate(c) PROVE FALSE
  <2>1. mount' = mount \/ mount' = [mount EXCEPT ![Home[c]] = "generation"]
    BY <1>5 DEF Activate, Mounted
  <2> QED BY <1>1, <2>1
<1>6. ASSUME NEW c \in Callers, OpenRead(c) 
      PROVE pc[c] = "openRead" /\ Home[c] = h /\ (adir # TRUE \/ wman = Disabled)
  <2>1. pc[c] = "openRead"
    BY <1>6 DEF OpenRead
  <2>2. CASE mount' = mount
    BY <1>1, <2>2
  <2>3. CASE mount' = [mount EXCEPT ![Home[c]] = "closed"]
    BY <1>1, <2>3
  <2>4. CASE (~adir \/ wman = Disabled) /\ mount' = [mount EXCEPT ![Home[c]] = "unprotected"]
    <3>1. Home[c] = h
      BY <2>4 DEF TypeInv, TypeOK
    <3> QED BY <2>1, <2>4, <3>1
  <2> QED BY <1>6, <2>2, <2>3, <2>4 DEF OpenRead, Mounted
<1>7. ASSUME mount' = mount PROVE FALSE
  BY <1>7
<1>8. ASSUME NEW H, Die(H) PROVE FALSE
  BY <1>8 DEF Die
<1>9. ASSUME NEW c \in Callers, AcquireLock(c) \/ Step(c) 
      PROVE pc[c] = "openRead" /\ Home[c] = h /\ (adir # TRUE \/ wman = Disabled)
  <2>1. CASE mount' = mount
    BY <1>7, <2>1
  <2>2. CASE LeavePublish(c) \/ ReturnError(c)
    BY <1>3, <2>2
  <2>3. CASE AcquireLock(c) \/ PublishCheck(c) \/ StageGeneration(c) \/ RenameGeneration(c)
             \/ SyncGenerations(c) \/ CommitGeneration(c) \/ WritePointerTemp(c) \/ RenamePointer(c)
             \/ RecoverCheck(c) \/ LoadSnapshot(c)
    BY <2>1, <2>3 DEF AcquireLock, PublishCheck, StageGeneration, RenameGeneration, SyncGenerations,
       CommitGeneration, WritePointerTemp, RenamePointer, RecoverCheck, LoadSnapshot
  <2>4. CASE PublishRefused(c) \/ CommitConflict(c) \/ SyncPointer(c) \/ RecoverRefused(c) \/ LoadRefused(c)
    BY <2>1, <2>2, <2>4 DEF PublishRefused, CommitConflict, SyncPointer, RecoverRefused, LoadRefused
  <2> QED BY <1>4, <1>5, <1>6, <1>9, <2>3, <2>4 DEF Step
<1>10. CASE \E c \in Callers : StepError(c)
  BY <1>3, <1>10 DEF StepError
<1>11. CASE ExternalCommit \/ UNCHANGED vars
  BY <1>7, <1>11 DEF ExternalCommit, vars
<1>12. CASE PowerLoss \/ \E g \in Handles : Crash(g)
  BY <1>8, <1>12 DEF PowerLoss, Crash
<1>13. CASE \E c \in Callers : SkipRecovery(c) \/ PublishCheckUnanswered(c)
  BY <1>7, <1>13 DEF SkipRecovery, PublishCheckUnanswered
<1> QED BY <1>2, <1>9, <1>10, <1>11, <1>12, <1>13 DEF Next

\* In every instance, NewDatabase returns an unprotected database while HEAD
\* selects a generation only if its recovery was skipped because a Git command
\* failed, or if a first publication over a disabled manifest committed after
\* its recovery: otherwise recovery has recreated the access directory and the
\* pointer before the manifest is read, even after a power loss lost them, and
\* a publication that overtakes the reader creates the directory first.
THEOREM NeverOpenedUnprotected == Spec => NoUnprotectedOpen
<1> DEFINE A == \A h \in Handles : mount[h] = "opening" /\ mount'[h] = "unprotected" =>
                  \/ HeadCommit.man \notin Revs
                  \/ act[h] \in blind
                  \/ wman = Disabled /\ log[old[act[h]]].man \notin Revs
<1>1. ASSUME TypeInv, OwnershipInv, TreeInv, OpenedInv, [Next]_vars PROVE [A]_mount
  <2> SUFFICES ASSUME NEW h \in Handles, mount[h] = "opening", mount'[h] = "unprotected"
               PROVE  \/ HeadCommit.man \notin Revs
                      \/ act[h] \in blind
                      \/ wman = Disabled /\ log[old[act[h]]].man \notin Revs
    OBVIOUS
  <2>1. PICK c \in Callers : pc[c] = "openRead" /\ Home[c] = h /\ (adir # TRUE \/ wman = Disabled)
    BY <1>1, UnprotectedOnlyInOpenRead
  <2>2. call[c] = "open" /\ Opened(c)
    BY <1>1, <2>1 DEF OpenedInv, Opened
  <2>3. act[h] = c
    BY <1>1, <2>1, <2>2 DEF OwnershipInv, OwnerInv, MountedCalls
  <2>4. CASE c \in blind
    BY <2>3, <2>4
  <2>5. CASE c \notin blind /\ adir # TRUE
    BY <1>1, <2>1, <2>5 DEF TreeInv, Placed
  <2>6. CASE c \notin blind /\ wman = Disabled
    <3>1. Disabled \notin Revs
      BY ConstantsAssumption
    <3> QED BY <2>1, <2>2, <2>3, <2>6, <3>1 DEF Opened
  <2> QED BY <2>1, <2>4, <2>5, <2>6
<1>2. Init => OpenedInv
  BY DEF Init, OpenedInv, Opened, RecoveringPCs
<1> QED
  BY <1>1, <1>2, TypeInit, TypeStep, OwnershipInit, OwnershipStep, ReadInit, ReadStep, KeptInit, KeptStep,
     TreeInit, TreeStep, OpenedStep, PTL DEF Spec, NoUnprotectedOpen

\* The manifest of the working tree names a generation that is there.
PointerInv == wman \in {None, Flat, Disabled} \cup wgens

LEMMA PointerStep ==
  ASSUME "power" \notin FaultKinds, TypeInv, TreeInv, PointerInv, [Next]_vars
  PROVE  PointerInv'
<1> USE DEF treeVars, diskVars, handleVars, boundVars, callerVars
<1>1. ASSUME wman' = wman, wgens \subseteq wgens' PROVE PointerInv'
  BY <1>1 DEF PointerInv
<1>2. ASSUME NEW c \in Callers, RenamePointer(c) PROVE PointerInv'
  <2>1. pc[c] = "ptrRename" /\ wman' = cand[c] /\ wgens' = wgens
    BY <1>2 DEF RenamePointer
  <2>2. cand[c] \in wgens /\ cand[c] \in Revs
    BY <2>1, WriterHasCandidate DEF TypeInv, WritingPCs, TreeInv, Placed
  <2> QED BY <2>1, <2>2, ConstantsAssumption DEF PointerInv
<1>3. ASSUME NEW c \in Callers,
             Begin(c) \/ AcquireLock(c) \/ StepError(c) \/ SkipRecovery(c) \/ PublishCheckUnanswered(c)
      PROVE  PointerInv'
  BY <1>1, <1>3 DEF Begin, BeginPublish, BeginMountedPublish, BeginReload, BeginMountedReload, BeginOpen,
     Start, AcquireLock, StepError, SkipRecovery, PublishCheckUnanswered
<1>4. ASSUME NEW c \in Callers, Step(c) PROVE PointerInv'
  BY <1>1, <1>2, <1>4 DEF Step, PublishCheck, PublishRefused, StageGeneration, RenameGeneration,
     SyncGenerations, CommitGeneration, CommitConflict, WritePointerTemp, SyncPointer, RecoverCheck,
     RecoverRefused, LoadSnapshot, LoadRefused, Activate, OpenRead, OpenMode
<1>5. CASE ExternalCommit \/ UNCHANGED vars \/ \E h \in Handles : Crash(h)
  BY <1>1, <1>5 DEF ExternalCommit, Crash, vars
<1>6. CASE PowerLoss
  BY <1>6 DEF PowerLoss, Fault
<1> QED BY <1>3, <1>4, <1>5, <1>6 DEF Next

\* In every instance in which no power is lost, startup recovery and Reload go
\* through whenever the lock is free, wherever publishers failed or were
\* killed, unless the working manifest is still one that selects no generation,
\* which recovery refuses.  The premise is needed: recovery does not find a
\* reused generation directory that a power loss removed.
THEOREM AlwaysRecoverable ==
  ASSUME "power" \notin FaultKinds
  PROVE  Spec => []Recoverable
<1>1. Init => PointerInv
  <2> SUFFICES ASSUME Init PROVE PointerInv
    OBVIOUS
  <2>1. PICK m \in InitialManifests : wman = m /\ wgens = {m} \cap Revs
    BY DEF Init
  <2> QED BY <2>1, ConstantsAssumption DEF PointerInv
<1>2. TypeInv /\ TreeInv /\ PointerInv /\ [Next]_vars => PointerInv'
  BY PointerStep
<1>3. TreeInv /\ PointerInv => Recoverable
  BY DEF TreeInv, PointerInv, Recoverable, RecoveryGoesThrough
<1> QED BY <1>1, <1>2, <1>3, TypeInit, TypeStep, TreeInit, TreeStep, PTL DEF Spec

(***************************************************************************)
(* Publication implements PolicyRegister.  A commit appends to the         *)
(* history, Activate installs, everything else at most withdraws.          *)
(***************************************************************************)
\* The refinement mapping.
Hist == [i \in 1..Len(log) |-> log[i].man]
Live == [h \in Handles |-> IF snap[h] = None THEN 0 ELSE snap[h].at]

LEMMA HistTyped ==
  ASSUME TypeInv
  PROVE  Hist \in Seq(Manifests) /\ Len(Hist) = Len(log)
<1>1. log \in Seq(Commits) /\ Len(log) \in Nat
  BY DEF TypeInv, TypeOK
<1>2. ASSUME NEW i \in 1..Len(log) PROVE log[i].man \in Manifests
  <2>1. log[i] \in Commits
    BY <1>1
  <2> QED BY <2>1 DEF Commits
<1> DEFINE n == Len(log)
<1>3. n \in Nat
  BY <1>1
<1> HIDE DEF n
<1>4. [i \in 1..n |-> log[i].man] \in Seq(Manifests) /\ Len([i \in 1..n |-> log[i].man]) = n
  BY <1>2, <1>3 DEF n
<1> QED BY <1>4 DEF Hist, n

LEMMA HistAppends ==
  ASSUME TypeInv, NEW new \in Commits, log' = Append(log, new)
  PROVE  Hist' = Append(Hist, new.man)
<1> DEFINE n == Len(log)
           app == Append(Hist, new.man)
<1>1. /\ n \in Nat /\ Len(log') = n + 1 /\ log'[n + 1] = new
      /\ \A i \in 1..n : log'[i] = log[i]
  BY DEF TypeInv, TypeOK
<1>2. Hist \in Seq(Manifests) /\ Len(Hist) = n /\ new.man \in Manifests
  BY HistTyped DEF Commits
<1>3. \A i \in 1..n : Hist[i] = log[i].man
  BY DEF Hist
<1>4. app \in Seq(Manifests) /\ Len(app) = n + 1 /\ app[n + 1] = new.man /\ \A i \in 1..n : app[i] = Hist[i]
  <2> HIDE DEF n
  <2> QED BY <1>1, <1>2
<1> HIDE DEF n, app
<1>5. app = [i \in 1..(n + 1) |-> app[i]]
  BY <1>1, <1>4
<1>6. \A i \in 1..(n + 1) : app[i] = log'[i].man
  <2> SUFFICES ASSUME NEW i \in 1..(n + 1) PROVE app[i] = log'[i].man
    OBVIOUS
  <2>1. CASE i = n + 1
    BY <1>1, <1>4, <2>1
  <2>2. CASE i \in 1..n
    BY <1>1, <1>3, <1>4, <2>2
  <2> QED BY <1>1, <2>1, <2>2
<1>7. Hist' = [i \in 1..(n + 1) |-> log'[i].man]
  BY <1>1 DEF Hist
<1> QED BY <1>5, <1>6, <1>7 DEF app

\* A step that neither commits nor installs.
LEMMA WithdrawingStep ==
  ASSUME UNCHANGED <<log, floor>>, \A h \in Handles : snap'[h] = snap[h] \/ snap'[h] = None
  PROVE  Register!Next
<1>0. PICK H \in SUBSET Handles : H = {h \in Handles : snap'[h] = None}
  OBVIOUS
<1>1. Live' = [h \in Handles |-> IF h \in H THEN 0 ELSE Live[h]]
  BY <1>0 DEF Live
<1>2. Hist' = Hist
  BY DEF Hist
<1>3. Register!Withdraw(H)
  BY <1>1, <1>2 DEF Register!Withdraw, Hist, Live
<1> QED BY <1>3 DEF Register!Next

LEMMA CommittingStep ==
  ASSUME TypeInv, OwnershipInv, NEW c \in Callers, CommitGeneration(c)
  PROVE  Register!Next
<1> DEFINE new == [man |-> cand[c], gens |-> HeadCommit.gens \cup {cand[c]},
                   since |-> Len(log) + 1, exp |-> exp[c], blind |-> c \in blind]
<1>1. pc[c] = "commit" /\ log' = Append(log, new) /\ new.man = cand[c] /\ snap' = snap
  BY DEF CommitGeneration
<1>2. PICK r \in Revs : r = cand[c]
  BY <1>1, WriterHasCandidate DEF TypeInv, WritingPCs
<1>3. new \in Commits
  <2>1. Len(log) + 1 \in Nat /\ exp[c] \in Revs \cup {None}
    BY DEF TypeInv, TypeOK
  <2>2. HeadCommit.gens \cup {cand[c]} \in SUBSET Revs
    BY <1>2, HeadTyped DEF TypeInv
  <2> QED BY <1>2, <2>1, <2>2 DEF Commits, Manifests
<1> HIDE DEF new
<1>4. Hist' = Append(Hist, r) /\ Live' = Live /\ Len(Hist) = Len(log)
  BY <1>1, <1>2, <1>3, HistAppends, HistTyped DEF Live
<1>5. PICK h \in Handles : h = Home[c]
  BY ConstantsAssumption
<1>6. CASE call[c] = "mountedPublish"
  <2>1. snap[h] = None
    BY <1>5, <1>6 DEF OwnershipInv, OwnerInv, MountedCalls
  <2>2. floor' = [floor EXCEPT ![h] = Len(Hist) + 1]
    BY <1>4, <1>5, <1>6 DEF CommitGeneration
  <2>3. Live[h] = 0
    BY <2>1 DEF Live
  <2>4. Register!CommitBy(h, r)
    BY <1>4, <2>2, <2>3 DEF Register!CommitBy, Hist, Live
  <2> QED BY <2>4 DEF Register!Next
<1>7. CASE call[c] # "mountedPublish"
  <2>1. floor' = floor
    BY <1>7 DEF CommitGeneration
  <2>2. Register!Commit(r)
    BY <1>4, <2>1 DEF Register!Commit, Hist, Live
  <2> QED BY <2>2 DEF Register!Next, Manifests
<1> QED BY <1>6, <1>7

LEMMA ExternalStep ==
  ASSUME TypeInv, ExternalCommit
  PROVE  Register!Next
<1> DEFINE new == [HeadCommit EXCEPT !.exp = None, !.blind = FALSE]
<1>1. new \in Commits /\ new.man \in Manifests
  BY HeadTyped DEF TypeInv, Commits
<1>2. log' = Append(log, new) /\ UNCHANGED <<snap, floor>>
  BY DEF ExternalCommit, handleVars
<1> HIDE DEF new
<1>3. PICK r \in Manifests : r = new.man
  BY <1>1
<1>4. Hist' = Append(Hist, r) /\ Live' = Live
  BY <1>1, <1>2, <1>3, HistAppends DEF Live
<1>5. Register!Commit(r)
  BY <1>2, <1>4 DEF Register!Commit, Hist, Live
<1> QED BY <1>5 DEF Register!Next

LEMMA InstallingStep ==
  ASSUME TypeInv, OwnershipInv, ReadInv, NEW c \in Callers, Activate(c)
  PROVE  Register!Next
<1>0. PICK h \in Handles : h = Home[c]
  BY ConstantsAssumption
<1>1. PICK s \in Snapshots : s = loc[c]
  BY DEF OwnershipInv, LocInv, Activate
<1>2. /\ pc[c] = "activate" /\ UNCHANGED log
      /\ snap' = [snap EXCEPT ![h] = s]
      /\ floor' = [floor EXCEPT ![h] = IF floor[h] > s.at THEN floor[h] ELSE s.at]
  BY <1>0, <1>1 DEF Activate
<1>3. PICK i \in Nat : i = s.at
  BY DEF Snapshots
<1>4. s.rev \in Revs /\ s # None /\ floor[h] <= i /\ snap[h] = None
  BY <1>0, <1>1, <1>2, <1>3, SnapshotsAssumption DEF Snapshots, OwnershipInv, LocInv, OwnerInv
<1>5. i \in 1..Len(log) /\ log[i].man = s.rev
  BY <1>1, <1>2, <1>3 DEF ReadInv, Reads, Chosen, OfCommit
<1>6. Live[h] = 0 /\ Live' = [Live EXCEPT ![h] = i]
  BY <1>2, <1>3, <1>4 DEF Live, TypeInv, TypeOK
<1>7. floor' = [floor EXCEPT ![h] = i] /\ i >= floor[h]
  <2>1. floor[h] \in Nat /\ floor' = [floor EXCEPT ![h] = IF floor[h] > i THEN floor[h] ELSE i]
    BY <1>2, <1>3 DEF TypeInv, TypeOK
  <2>2. (IF floor[h] > i THEN floor[h] ELSE i) = i
    BY <1>4, <2>1
  <2> QED BY <1>4, <2>1, <2>2
<1>8. Hist' = Hist /\ Hist[i] \in Revs /\ i \in 1..Len(Hist)
  BY <1>2, <1>4, <1>5, HistTyped DEF Hist
<1>9. Register!Install(h, i)
  BY <1>6, <1>7, <1>8 DEF Register!Install, Hist, Live
<1> QED BY <1>8, <1>9 DEF Register!Next, Hist

\* Every step implements a step of the register.
LEMMA RegisterStep ==
  ASSUME TypeInv, OwnershipInv, ReadInv, [Next]_vars
  PROVE  Register!Next
<1> USE DEF treeVars, diskVars, handleVars, boundVars, callerVars
<1>1. ASSUME UNCHANGED <<log, floor, snap>> PROVE Register!Next
  BY <1>1, WithdrawingStep
<1>2. ASSUME NEW c \in Callers, Begin(c) PROVE Register!Next
  <2>1. UNCHANGED <<log, floor>> /\ (snap' = snap \/ snap' = [snap EXCEPT ![Home[c]] = None])
    BY <1>2 DEF Begin, BeginPublish, BeginMountedPublish, BeginReload, BeginMountedReload, BeginOpen, Start
  <2>2. \A h \in Handles : snap'[h] = snap[h] \/ snap'[h] = None
    BY <2>1 DEF TypeInv, TypeOK
  <2> QED BY <2>1, <2>2, WithdrawingStep
<1>3. ASSUME NEW c \in Callers,
             AcquireLock(c) \/ StepError(c) \/ SkipRecovery(c) \/ PublishCheckUnanswered(c)
      PROVE  Register!Next
  BY <1>1, <1>3 DEF AcquireLock, StepError, SkipRecovery, PublishCheckUnanswered
<1>4. ASSUME NEW c \in Callers, Step(c) PROVE Register!Next
  BY <1>1, <1>4, CommittingStep, InstallingStep DEF Step, PublishCheck, PublishRefused, StageGeneration,
     RenameGeneration, SyncGenerations, CommitConflict, WritePointerTemp, RenamePointer, SyncPointer,
     RecoverCheck, RecoverRefused, LoadSnapshot, LoadRefused, OpenRead, OpenMode
<1>5. CASE UNCHANGED vars
  BY <1>1, <1>5 DEF vars
<1>6. ASSUME NEW H, Die(H), UNCHANGED <<log, floor>> PROVE Register!Next
  BY <1>6, WithdrawingStep DEF Die
<1>7. CASE PowerLoss \/ \E h \in Handles : Crash(h)
  BY <1>6, <1>7 DEF PowerLoss, Crash
<1> QED BY <1>2, <1>3, <1>4, <1>5, <1>7, ExternalStep DEF Next

\* In every instance, publication, recovery and activation together implement
\* the register: one linear history of manifests, every mounted database
\* enforces one of its commits or admits nothing, and none goes back behind
\* what it has itself committed or enforced.
THEOREM PublicationImplementsRegister == Spec => ImplementsRegister
<1>1. Init => Register!Init
  <2> SUFFICES ASSUME Init PROVE Register!Init
    OBVIOUS
  <2>1. PICK m \in InitialManifests :
          log = <<[man |-> m, gens |-> {m} \cap Revs, since |-> 1, exp |-> None,
                    blind |-> FALSE]>>
    BY DEF Init
  <2>2. [i \in 1..Len(log) |-> log[i].man] = <<m>> /\ m \in Manifests
    BY <2>1, ConstantsAssumption DEF Manifests
  <2> QED BY <2>2 DEF Init, Register!Init
<1>2. TypeInv /\ OwnershipInv /\ ReadInv /\ [Next]_vars => [Register!Next]_Register!vars
  BY RegisterStep
<1> QED
  BY <1>1, <1>2, OwnershipInit, TypeInit, TypeStep, OwnershipStep, ReadInit, ReadStep, KeptInit, KeptStep, PTL
  DEF Spec, ImplementsRegister, Register!Spec
=============================================================================
