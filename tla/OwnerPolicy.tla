----------------------------- MODULE OwnerPolicy -----------------------------
(***************************************************************************)
(* Publication, recovery and activation of owner-policy generations        *)
(* (access_generation.go, access_manifest.go, and the facade in            *)
(* database.go).                                                           *)
(*                                                                         *)
(* A generation is a content-addressed directory of policy files.  Publish *)
(* stages it, renames it into place, commits it together with the active   *)
(* manifest by compare-and-swap on Git HEAD, and only then replaces the    *)
(* manifest of the working tree.  Recovery makes the working tree follow   *)
(* HEAD again.  A mounted database enforces an in-memory snapshot, which   *)
(* its management calls withdraw, reload and install.                      *)
(*                                                                         *)
(* Callers are goroutines; Home[c] is the mounted database (one process    *)
(* each) through which c works.  Callers interleave between any two        *)
(* filesystem or Git steps.  A caller may fail with an error at any step,  *)
(* a process may be killed, the machine may lose power, and a process that *)
(* knows nothing of the lock may commit other work.  Where the code takes  *)
(* the failure of a Git command for an answer (no repository, no manifest  *)
(* in HEAD, no active generation) the call goes on, and is then "blind".   *)
(***************************************************************************)
EXTENDS Integers, Sequences, FiniteSets

CONSTANTS
  Handles,            \* mounted databases, each in a process of its own
  Callers,            \* goroutines that make management calls
  Home,               \* Home[c]: the handle whose process runs c
  Revs,               \* revisions: the SHA-256 digests of generations
  None,               \* no manifest, no snapshot, nobody
  Flat,               \* an enabled manifest that lists policies, no generation
  Disabled,           \* a manifest that says enabled: false, no generation
  InitialManifests,   \* what the first commit may select
  FaultKinds,         \* which of "error", "git", "crash", "power" may happen
  MaxCommits,         \* bound: publish calls begun and external commits
  MaxFaults           \* bound: faults of any kind

ASSUME ConstantsAssumption ==
  /\ Home \in [Callers -> Handles]
  /\ None \notin Revs \cup Callers \cup {Flat, Disabled}
  /\ Flat \notin Revs \cup {Disabled} /\ Disabled \notin Revs
  /\ InitialManifests \subseteq Revs \cup {None, Flat, Disabled}
  /\ MaxCommits \in Nat
  /\ MaxFaults \in Nat

VARIABLES
  \* Git: log[i] is commit i of the branch, log[Len(log)] is HEAD.
  \*   man: the active manifest in its tree; gens: complete generations in its
  \*   tree; since: the commit that set man; exp, blind (history): the revision
  \*   that its publisher expected to replace, and whether it was blind.
  log,
  \* The working tree under .ingitdb/access, as running processes see it.
  wman,               \* manifest.yaml
  wgens,              \* generations/<revision> directories, complete
  adir,               \* whether the directory exists
  stray,              \* whether a .tmp- file of a dead writer is left in it
  \* What of it survives a power loss: entries whose directory was synced.
  dman, dgens,
  \* The advisory transaction lock of the project.
  lock,
  \* Per handle.
  act,                \* holder of ownerActivation (of the handle, while opening)
  mount,              \* what NewDatabase returned
  snap,               \* ownerState: the installed snapshot
  floor,              \* history: newest commit h has published or enforced
  \* Per caller.
  pc, call, phase,
  cand,               \* the revision being written
  exp,                \* expectedRevision
  old,                \* oldHead; for a recovery (history) the HEAD it read
  loc,                \* the snapshot that Reload compiled
  blind,              \* history: callers whose Publish, recovery or Reload has
                      \* taken a failed Git command for an answer
  \* Bounds.
  begun, faults

gitVars    == <<log>>
treeVars   == <<wman, wgens, adir, stray>>
diskVars   == <<dman, dgens>>
handleVars == <<act, mount, snap, floor>>
callerVars == <<pc, call, phase, cand, exp, old, loc, blind>>
boundVars  == <<begun, faults>>
vars == <<log, wman, wgens, adir, stray, dman, dgens, lock, act, mount, snap,
          floor, pc, call, phase, cand, exp, old, loc, blind, begun, faults>>

Manifests == Revs \cup {None, Flat, Disabled}
Commits   == [man : Manifests, gens : SUBSET Revs, since : Nat,
              exp : Revs \cup {None}, blind : BOOLEAN]
Snapshots == [rev : Revs, pol : Manifests, at : Nat, blind : BOOLEAN]

\* No snapshot is the nil pointer.
ASSUME SnapshotsAssumption == None \notin Snapshots

\* Steps at which a caller holds the transaction lock.
LockedPCs == {"check", "stage", "rename", "syncGens", "commit", "ptrTemp",
              "ptrRename", "ptrSync", "recover", "load"}
PCs       == LockedPCs \cup {"idle", "wait", "activate", "openRead", "openMode"}
Calls     == {"none", "publish", "reload", "mountedPublish", "mountedReload",
              "open"}
Phases    == {"publish", "recover", "reload"}
Mounts    == {"closed", "opening", "unprotected", "static", "generation"}
\* Calls that own the handle until they return.
MountedCalls == {"mountedPublish", "mountedReload", "open"}

TypeOK ==
  /\ log \in Seq(Commits) /\ Len(log) > 0
  /\ wman \in Manifests /\ dman \in Manifests
  /\ wgens \in SUBSET Revs /\ dgens \in SUBSET Revs
  /\ adir \in BOOLEAN /\ stray \in BOOLEAN
  /\ lock \in Callers \cup {None}
  /\ act \in [Handles -> Callers \cup {None}]
  /\ mount \in [Handles -> Mounts]
  /\ snap \in [Handles -> Snapshots \cup {None}]
  /\ floor \in [Handles -> Nat]
  /\ pc \in [Callers -> PCs]
  /\ call \in [Callers -> Calls]
  /\ phase \in [Callers -> Phases]
  /\ cand \in [Callers -> Revs \cup {None}]
  /\ exp \in [Callers -> Revs \cup {None}]
  /\ old \in [Callers -> Nat]
  /\ loc \in [Callers -> Snapshots \cup {None}]
  /\ blind \in SUBSET Callers
  /\ begun \in Nat /\ faults \in Nat

-----------------------------------------------------------------------------
(* What the code reads. *)

HeadCommit == log[Len(log)]

\* Mutant: every manifest counts as a generation.
RevisionOfAny(man) == man

\* committedGenerationRevisionAt, workingGenerationRevision: a manifest without
\* a generation field has revision "".
Revision(man) == IF man \in Revs THEN man ELSE None

\* requireCleanAccessTree.  Every tracked file equals HEAD; an untracked file
\* is allowed only in a complete generation or in a staging directory.
CleanAccessTree ==
  /\ wman = HeadCommit.man
  /\ HeadCommit.gens \subseteq wgens
  /\ ~stray

\* recoverCommittedGenerationLocked goes through: HEAD holds the generation it
\* selects, and a working manifest that differs from HEAD names a generation
\* that is intact.
RecoveryGoesThrough ==
  HeadCommit.man \in Revs => /\ HeadCommit.man \in HeadCommit.gens
                       /\ wman \in {None, HeadCommit.man} \cup wgens

\* readAccessManifest returns a manifest; its generation verifies.
ManifestReads == adir /\ wman # None /\ (wman \in Revs => wman \in wgens)

\* Owner policies are in force: the manifest says enabled.
PoliciesEnabled == ManifestReads /\ wman # Disabled

-----------------------------------------------------------------------------
Init ==
  /\ \E m \in InitialManifests :
       LET g == {m} \cap Revs IN
       /\ log = <<[man |-> m, gens |-> g, since |-> 1, exp |-> None,
                   blind |-> FALSE]>>
       /\ wman = m /\ dman = m
       /\ wgens = g /\ dgens = g
       /\ adir = (m # None)
  /\ stray = FALSE
  /\ lock = None
  /\ act = [h \in Handles |-> None]
  /\ mount = [h \in Handles |-> "closed"]
  /\ snap = [h \in Handles |-> None]
  /\ floor = [h \in Handles |-> 0]
  /\ pc = [c \in Callers |-> "idle"]
  /\ call = [c \in Callers |-> "none"]
  /\ phase = [c \in Callers |-> "publish"]
  /\ cand = [c \in Callers |-> None]
  /\ exp = [c \in Callers |-> None]
  /\ old = [c \in Callers |-> 0]
  /\ loc = [c \in Callers |-> None]
  /\ blind = {}
  /\ begun = 0 /\ faults = 0

Goto(c, l) == pc' = [pc EXCEPT ![c] = l]

-----------------------------------------------------------------------------
(* Calls begin. *)

Start(c, k, ph, r, e) ==
  /\ pc[c] = "idle"
  /\ Goto(c, "wait")
  /\ call' = [call EXCEPT ![c] = k]
  /\ phase' = [phase EXCEPT ![c] = ph]
  /\ cand' = [cand EXCEPT ![c] = r]
  /\ exp' = [exp EXCEPT ![c] = e]
  /\ UNCHANGED <<log, treeVars, diskVars, lock, floor, old, loc, blind,
                 faults>>

\* OwnerPolicyController.Publish called directly, not through a mount.
BeginPublish(c, r, e) ==
  /\ begun < MaxCommits
  /\ begun' = begun + 1
  /\ Start(c, "publish", "publish", r, e)
  /\ UNCHANGED <<act, mount, snap>>

\* OwnerPolicyController.Reload called directly.
BeginReload(c) ==
  /\ Start(c, "reload", "reload", None, None)
  /\ UNCHANGED <<act, mount, snap, begun>>

\* Mutant: ownerActivation is not taken.
BeginMountedPublishUnserialized(c, r, e) ==
  LET h == Home[c] IN
  /\ begun < MaxCommits
  /\ begun' = begun + 1
  /\ mount[h] = "generation"
  /\ snap' = [snap EXCEPT ![h] = None]
  /\ Start(c, "mountedPublish", "publish", r, e)
  /\ UNCHANGED <<act, mount>>

\* Mutant: admissions stay open during the publication.
BeginMountedPublishOpen(c, r, e) ==
  LET h == Home[c] IN
  /\ begun < MaxCommits
  /\ begun' = begun + 1
  /\ mount[h] = "generation"
  /\ act[h] = None
  /\ act' = [act EXCEPT ![h] = c]
  /\ Start(c, "mountedPublish", "publish", r, e)
  /\ UNCHANGED <<mount, snap>>

\* securedDatabase.PublishOwnerPolicyGeneration up to controller.Publish: it
\* takes ownerActivation and closes admissions.
BeginMountedPublish(c, r, e) ==
  LET h == Home[c] IN
  /\ begun < MaxCommits
  /\ begun' = begun + 1
  /\ mount[h] = "generation"
  /\ act[h] = None
  /\ act' = [act EXCEPT ![h] = c]
  /\ snap' = [snap EXCEPT ![h] = None]
  /\ Start(c, "mountedPublish", "publish", r, e)
  /\ UNCHANGED mount

\* securedDatabase.ReloadOwnerPolicies up to controller.Reload.
BeginMountedReload(c) ==
  LET h == Home[c] IN
  /\ mount[h] = "generation"
  /\ act[h] = None
  /\ act' = [act EXCEPT ![h] = c]
  /\ snap' = [snap EXCEPT ![h] = None]
  /\ Start(c, "mountedReload", "reload", None, None)
  /\ UNCHANGED <<mount, begun>>

\* NewDatabase up to recoverCommittedGeneration.  Nobody else has the handle,
\* and its ownerState is new.
BeginOpen(c) ==
  LET h == Home[c] IN
  /\ mount[h] = "closed"
  /\ act[h] = None
  /\ act' = [act EXCEPT ![h] = c]
  /\ mount' = [mount EXCEPT ![h] = "opening"]
  /\ snap' = [snap EXCEPT ![h] = None]
  /\ Start(c, "open", "recover", None, None)
  /\ UNCHANGED begun

-----------------------------------------------------------------------------
(* Calls end. *)

\* withExclusiveLock releases on every path out of its callback.
Unlock(c) == lock' = IF lock = c THEN None ELSE lock

\* c returns to its caller; deferred ownerActivation.Unlock.
EndCall(c) ==
  /\ Goto(c, "idle")
  /\ call' = [call EXCEPT ![c] = "none"]
  /\ phase' = [phase EXCEPT ![c] = "publish"]
  /\ cand' = [cand EXCEPT ![c] = None]
  /\ exp' = [exp EXCEPT ![c] = None]
  /\ old' = [old EXCEPT ![c] = 0]
  /\ loc' = [loc EXCEPT ![c] = None]
  /\ blind' = blind \ {c}
  /\ act' = [act EXCEPT ![Home[c]] = IF @ = c THEN None ELSE @]

Mounted(c, m) == mount' = [mount EXCEPT ![Home[c]] = m]

\* c goes on to controller.Reload: PublishOwnerPolicyGeneration does so after
\* controller.Publish, whether or not it failed; NewDatabase does so last.
ContinueWithReload(c) ==
  /\ Goto(c, "wait")
  /\ phase' = [phase EXCEPT ![c] = "reload"]
  /\ cand' = [cand EXCEPT ![c] = None]
  /\ exp' = [exp EXCEPT ![c] = None]
  /\ old' = [old EXCEPT ![c] = 0]
  /\ blind' = blind \ {c}
  /\ UNCHANGED <<act, mount, call, loc>>

LeavePublish(c) ==
  /\ Unlock(c)
  /\ \/ call[c] = "mountedPublish" /\ ContinueWithReload(c)
     \/ call[c] # "mountedPublish" /\ EndCall(c) /\ UNCHANGED mount

\* The current step returned an error.  The facade leaves the snapshot
\* withdrawn; NewDatabase returns no database.
ReturnError(c) ==
  \/ phase[c] = "publish" /\ LeavePublish(c)
  \/ /\ phase[c] # "publish"
     /\ Unlock(c)
     /\ EndCall(c)
     /\ IF call[c] = "open" THEN Mounted(c, "closed") ELSE UNCHANGED mount

-----------------------------------------------------------------------------
(* Steps under the lock. *)

AcquireLock(c) ==
  /\ pc[c] = "wait"
  /\ lock = None
  /\ lock' = c
  /\ Goto(c, IF phase[c] = "publish" THEN "check" ELSE "recover")
  /\ UNCHANGED <<log, treeVars, diskVars, handleVars, call, phase, cand, exp,
                 old, loc, blind, boundVars>>

\* Mutant: the expected revision is not compared.
PublishCheckBlind(c) ==
  /\ pc[c] = "check"
  /\ CleanAccessTree
  /\ old' = [old EXCEPT ![c] = Len(log)]
  /\ Goto(c, IF cand[c] \in wgens THEN "commit" ELSE "stage")
  /\ UNCHANGED <<log, treeVars, diskVars, lock, handleVars, call, phase, cand,
                 exp, loc, blind, boundVars>>

\* Publish: read HEAD, compare the expected revision, require a clean tree.
\* materializeGeneration reuses an intact directory of the same digest.
PublishCheck(c) ==
  /\ pc[c] = "check"
  /\ exp[c] = Revision(HeadCommit.man)
  /\ CleanAccessTree
  /\ old' = [old EXCEPT ![c] = Len(log)]
  /\ Goto(c, IF cand[c] \in wgens THEN "commit" ELSE "stage")
  /\ UNCHANGED <<log, treeVars, diskVars, lock, handleVars, call, phase, cand,
                 exp, loc, blind, boundVars>>

\* Mutant: the error path returns without releasing the lock.
PublishRefusedLeaky(c) ==
  /\ pc[c] = "check"
  /\ exp[c] # Revision(HeadCommit.man) \/ ~CleanAccessTree
  /\ \/ call[c] = "mountedPublish" /\ ContinueWithReload(c)
     \/ call[c] # "mountedPublish" /\ EndCall(c) /\ UNCHANGED mount
  /\ UNCHANGED <<log, treeVars, diskVars, lock, snap, floor, boundVars>>

\* Publish: revision conflict, or a policy path that differs from HEAD.
PublishRefused(c) ==
  /\ pc[c] = "check"
  /\ exp[c] # Revision(HeadCommit.man) \/ ~CleanAccessTree
  /\ LeavePublish(c)
  /\ UNCHANGED <<log, treeVars, diskVars, snap, floor, boundVars>>

\* MkdirAll, then every file written and synced in a .generation- directory.
StageGeneration(c) ==
  /\ pc[c] = "stage"
  /\ adir' = TRUE
  /\ Goto(c, "rename")
  /\ UNCHANGED <<log, wman, wgens, stray, diskVars, lock, handleVars, call,
                 phase, cand, exp, old, loc, blind, boundVars>>

RenameGeneration(c) ==
  /\ pc[c] = "rename"
  /\ wgens' = wgens \cup {cand[c]}
  /\ Goto(c, "syncGens")
  /\ UNCHANGED <<log, wman, adir, stray, diskVars, lock, handleVars, call,
                 phase, cand, exp, old, loc, blind, boundVars>>

\* Recovery is complete.  NewDatabase's own recovery releases the lock;
\* Reload's goes on under it.
AfterRecovery(c) ==
  IF phase[c] = "recover"
  THEN Unlock(c) /\ Goto(c, "openRead")
  ELSE UNCHANGED lock /\ Goto(c, "load")

\* syncDir(generations).
SyncGenerations(c) ==
  /\ pc[c] = "syncGens"
  /\ dgens' = wgens
  /\ \/ phase[c] = "publish" /\ Goto(c, "commit") /\ UNCHANGED lock
     \/ /\ phase[c] # "publish" /\ wman # cand[c]
        /\ Goto(c, "ptrTemp") /\ UNCHANGED lock
     \/ phase[c] # "publish" /\ wman = cand[c] /\ AfterRecovery(c)
  /\ UNCHANGED <<log, treeVars, dman, handleVars, call, phase, cand, exp, old,
                 loc, blind, boundVars>>

\* Mutant: the generation's files are not staged.
CommitGenerationUnstaged(c) ==
  /\ pc[c] = "commit"
  /\ old[c] = Len(log)
  /\ log' = Append(log, [man |-> cand[c], gens |-> HeadCommit.gens,
                         since |-> Len(log) + 1, exp |-> exp[c],
                         blind |-> c \in blind])
  /\ floor' = IF call[c] = "mountedPublish"
              THEN [floor EXCEPT ![Home[c]] = Len(log) + 1] ELSE floor
  /\ Goto(c, "ptrTemp")
  /\ UNCHANGED <<treeVars, diskVars, lock, act, mount, snap, call, phase, cand,
                 exp, old, loc, blind, boundVars>>

\* gitCommitPolicyCAS: the tree of oldHead plus the generation and the active
\* manifest; update-ref moves HEAD only if it is still oldHead.
CommitGeneration(c) ==
  /\ pc[c] = "commit"
  /\ old[c] = Len(log)
  /\ log' = Append(log, [man |-> cand[c], gens |-> HeadCommit.gens \cup {cand[c]},
                         since |-> Len(log) + 1, exp |-> exp[c],
                         blind |-> c \in blind])
  /\ floor' = IF call[c] = "mountedPublish"
              THEN [floor EXCEPT ![Home[c]] = Len(log) + 1] ELSE floor
  /\ Goto(c, "ptrTemp")
  /\ UNCHANGED <<treeVars, diskVars, lock, act, mount, snap, call, phase, cand,
                 exp, old, loc, blind, boundVars>>

\* HEAD moved since PublishCheck: update-ref refuses.
CommitConflict(c) ==
  /\ pc[c] = "commit"
  /\ old[c] # Len(log)
  /\ LeavePublish(c)
  /\ UNCHANGED <<log, treeVars, diskVars, snap, floor, boundVars>>

\* atomicWriteFile(manifest.yaml): the .tmp- file is created and synced, ...
WritePointerTemp(c) ==
  /\ pc[c] = "ptrTemp"
  /\ adir' = TRUE
  /\ Goto(c, "ptrRename")
  /\ UNCHANGED <<log, wman, wgens, stray, diskVars, lock, handleVars, call,
                 phase, cand, exp, old, loc, blind, boundVars>>

\* ... renamed over the manifest, ...
RenamePointer(c) ==
  /\ pc[c] = "ptrRename"
  /\ wman' = cand[c]
  /\ Goto(c, "ptrSync")
  /\ UNCHANGED <<log, wgens, adir, stray, diskVars, lock, handleVars, call,
                 phase, cand, exp, old, loc, blind, boundVars>>

\* ... and the directory is synced.
SyncPointer(c) ==
  /\ pc[c] = "ptrSync"
  /\ dman' = wman
  /\ \/ phase[c] = "publish" /\ LeavePublish(c)
     \/ /\ phase[c] # "publish" /\ AfterRecovery(c)
        /\ UNCHANGED <<act, mount, call, phase, cand, exp, old, loc, blind>>
  /\ UNCHANGED <<log, treeVars, dgens, snap, floor, boundVars>>

\* Mutant: recovery restores the generation but not a stale manifest.
RecoverCheckKeepsPointer(c) ==
  /\ pc[c] = "recover"
  /\ RecoveryGoesThrough
  /\ cand' = [cand EXCEPT ![c] = Revision(HeadCommit.man)]
  /\ old' = [old EXCEPT ![c] = Len(log)]
  /\ AfterRecovery(c)
  /\ UNCHANGED <<log, treeVars, diskVars, handleVars, call, phase, exp, loc,
                 blind, boundVars>>

\* recoverCommittedGenerationLocked up to its first write.
RecoverCheck(c) ==
  /\ pc[c] = "recover"
  /\ RecoveryGoesThrough
  /\ cand' = [cand EXCEPT ![c] = Revision(HeadCommit.man)]
  /\ old' = [old EXCEPT ![c] = Len(log)]
  /\ \/ /\ HeadCommit.man \in Revs /\ HeadCommit.man \notin wgens
        /\ Goto(c, "stage") /\ UNCHANGED lock
     \/ /\ HeadCommit.man \in wgens /\ wman # HeadCommit.man
        /\ Goto(c, "ptrTemp") /\ UNCHANGED lock
     \/ /\ HeadCommit.man \in Revs => HeadCommit.man \in wgens /\ wman = HeadCommit.man
        /\ AfterRecovery(c)
  /\ UNCHANGED <<log, treeVars, diskVars, handleVars, call, phase, exp, loc,
                 blind, boundVars>>

\* "dirty access manifest is not a recoverable committed generation", or the
\* committed generation is not readable.
RecoverRefused(c) ==
  /\ pc[c] = "recover"
  /\ ~RecoveryGoesThrough
  /\ ReturnError(c)
  /\ UNCHANGED <<log, treeVars, diskVars, snap, floor, boundVars>>

\* Reload after recovery: manifest and policies from the working tree, the
\* revision from HEAD.
LoadSnapshot(c) ==
  /\ pc[c] = "load"
  /\ PoliciesEnabled
  /\ HeadCommit.man \in Revs
  /\ \/ /\ call[c] \in MountedCalls
        /\ loc' = [loc EXCEPT ![c] = [rev |-> HeadCommit.man, pol |-> wman,
                                      at |-> HeadCommit.since,
                                      blind |-> c \in blind]]
        /\ Unlock(c)
        /\ Goto(c, "activate")
        /\ UNCHANGED <<act, call, phase, cand, exp, old, blind>>
     \/ call[c] \notin MountedCalls /\ Unlock(c) /\ EndCall(c)
  /\ UNCHANGED <<log, treeVars, diskVars, mount, snap, floor, boundVars>>

\* No enabled manifest, or the generation is not committed.
LoadRefused(c) ==
  /\ pc[c] = "load"
  /\ ~(PoliciesEnabled /\ HeadCommit.man \in Revs)
  /\ ReturnError(c)
  /\ UNCHANGED <<log, treeVars, diskVars, snap, floor, boundVars>>

-----------------------------------------------------------------------------
(* Steps outside the lock. *)

\* ownerState.Store(&snapshot), then return.
Activate(c) ==
  LET h == Home[c] IN
  /\ pc[c] = "activate"
  /\ snap' = [snap EXCEPT ![h] = loc[c]]
  /\ floor' = [floor EXCEPT ![h] = IF @ > loc[c].at THEN @ ELSE loc[c].at]
  /\ EndCall(c)
  /\ IF call[c] = "open" THEN Mounted(c, "generation") ELSE UNCHANGED mount
  /\ UNCHANGED <<log, treeVars, diskVars, lock, boundVars>>

\* Mutant: a directory without a manifest counts as no configuration.
OpenReadLenient(c) ==
  /\ pc[c] = "openRead"
  /\ \/ PoliciesEnabled /\ Goto(c, "openMode")
        /\ UNCHANGED <<act, mount, call, phase, cand, exp, old, loc, blind>>
     \/ wman \in {None, Disabled} /\ EndCall(c) /\ Mounted(c, "unprotected")
     \/ wman # None /\ ~ManifestReads /\ EndCall(c) /\ Mounted(c, "closed")
  /\ UNCHANGED <<log, treeVars, diskVars, lock, snap, floor, boundVars>>

\* NewDatabase reads the manifest and the policy files without the lock.  No
\* access directory, or a manifest that is not enabled: no policies.
OpenRead(c) ==
  /\ pc[c] = "openRead"
  /\ \/ PoliciesEnabled /\ Goto(c, "openMode")
        /\ UNCHANGED <<act, mount, call, phase, cand, exp, old, loc, blind>>
     \/ /\ ~adir \/ wman = Disabled
        /\ EndCall(c) /\ Mounted(c, "unprotected")
     \/ adir /\ ~ManifestReads /\ EndCall(c) /\ Mounted(c, "closed")
  /\ UNCHANGED <<log, treeVars, diskVars, lock, snap, floor, boundVars>>

\* workingGenerationRevision decides between fixed policies and a controller.
OpenMode(c) ==
  /\ pc[c] = "openMode"
  /\ \/ Revision(wman) = None /\ EndCall(c) /\ Mounted(c, "static")
     \/ Revision(wman) # None /\ ContinueWithReload(c)
  /\ UNCHANGED <<log, treeVars, diskVars, lock, snap, floor, boundVars>>

-----------------------------------------------------------------------------
(* The environment. *)

\* Another Git process commits work outside .ingitdb/access.
ExternalCommit ==
  /\ begun < MaxCommits
  /\ begun' = begun + 1
  /\ log' = Append(log, [HeadCommit EXCEPT !.exp = None, !.blind = FALSE])
  /\ UNCHANGED <<treeVars, diskVars, lock, handleVars, callerVars, faults>>

Fault(k) ==
  /\ k \in FaultKinds
  /\ faults < MaxFaults
  /\ faults' = faults + 1

\* The step that c is about to take fails: a filesystem or Git error, or a
\* cancelled context.  Deferred calls remove temporary files.
StepError(c) ==
  /\ Fault("error")
  /\ pc[c] \in (LockedPCs \cup {"wait", "openRead", "openMode"})
  /\ ReturnError(c)
  /\ UNCHANGED <<log, treeVars, diskVars, snap, floor, begun>>

\* Recovery is skipped with success.  NewDatabase's looks for a repository
\* before it takes the lock, and a failed rev-parse says there is none; the
\* manifest of HEAD is read under the lock, and a failed git show says that
\* HEAD has none.
SkipRecovery(c) ==
  /\ Fault("git")
  /\ \/ pc[c] = "wait" /\ phase[c] = "recover" /\ Goto(c, "openRead")
        /\ UNCHANGED lock
     \/ pc[c] = "recover" /\ AfterRecovery(c)
  /\ blind' = blind \cup {c}
  /\ UNCHANGED <<log, treeVars, diskVars, handleVars, call, phase, cand, exp,
                 old, loc, begun>>

\* committedGenerationRevisionAt: a failed git show says that no generation is
\* active, which is what a first publication expects.
PublishCheckUnanswered(c) ==
  /\ Fault("git")
  /\ pc[c] = "check"
  /\ exp[c] = None
  /\ CleanAccessTree
  /\ old' = [old EXCEPT ![c] = Len(log)]
  /\ blind' = blind \cup {c}
  /\ Goto(c, IF cand[c] \in wgens THEN "commit" ELSE "stage")
  /\ UNCHANGED <<log, treeVars, diskVars, lock, handleVars, call, phase, cand,
                 exp, loc, begun>>

\* Every caller in the processes of H is gone, with their locks and memory.
Die(H) ==
  LET dead == {c \in Callers : Home[c] \in H} IN
  /\ lock' = IF lock \in dead THEN None ELSE lock
  /\ act' = [h \in Handles |-> IF h \in H THEN None ELSE act[h]]
  /\ mount' = [h \in Handles |-> IF h \in H THEN "closed" ELSE mount[h]]
  /\ snap' = [h \in Handles |-> IF h \in H THEN None ELSE snap[h]]
  /\ pc' = [c \in Callers |-> IF c \in dead THEN "idle" ELSE pc[c]]
  /\ call' = [c \in Callers |-> IF c \in dead THEN "none" ELSE call[c]]
  /\ phase' = [c \in Callers |-> IF c \in dead THEN "publish" ELSE phase[c]]
  /\ cand' = [c \in Callers |-> IF c \in dead THEN None ELSE cand[c]]
  /\ exp' = [c \in Callers |-> IF c \in dead THEN None ELSE exp[c]]
  /\ old' = [c \in Callers |-> IF c \in dead THEN 0 ELSE old[c]]
  /\ loc' = [c \in Callers |-> IF c \in dead THEN None ELSE loc[c]]
  /\ blind' = blind \ dead

\* A process is killed.  Its unrenamed .tmp- file stays.
Crash(h) ==
  /\ Fault("crash")
  /\ Die({h})
  /\ stray' = (stray \/ \E c \in Callers : Home[c] = h /\ pc[c] = "ptrRename")
  /\ UNCHANGED <<log, wman, wgens, adir, diskVars, floor, begun>>

\* The machine loses power: directory entries that were not synced may be
\* lost.  Git keeps its objects and refs durable by itself.
PowerLoss ==
  /\ Fault("power")
  /\ Die(Handles)
  /\ stray' \in {stray, stray \/ \E c \in Callers : pc[c] = "ptrRename"}
  /\ wman' \in {wman, dman}
  /\ \E lost \in SUBSET (wgens \ dgens) : wgens' = wgens \ lost
  /\ adir' \in {adir, wman' # None \/ wgens' # {} \/ stray'}
  /\ dman' = wman' /\ dgens' = wgens'
  /\ UNCHANGED <<log, floor, begun>>

-----------------------------------------------------------------------------
Begin(c) ==
  \/ \E r \in Revs, e \in Revs \cup {None} :
       BeginPublish(c, r, e) \/ BeginMountedPublish(c, r, e)
  \/ BeginReload(c) \/ BeginMountedReload(c) \/ BeginOpen(c)

\* The steps a running call takes by itself once it has the lock, or after it.
Step(c) ==
  \/ PublishCheck(c) \/ PublishRefused(c) \/ StageGeneration(c)
  \/ RenameGeneration(c) \/ SyncGenerations(c) \/ CommitGeneration(c)
  \/ CommitConflict(c) \/ WritePointerTemp(c) \/ RenamePointer(c)
  \/ SyncPointer(c) \/ RecoverCheck(c) \/ RecoverRefused(c)
  \/ LoadSnapshot(c) \/ LoadRefused(c) \/ Activate(c) \/ OpenRead(c)
  \/ OpenMode(c)

Next ==
  \/ \E c \in Callers : \/ Begin(c) \/ AcquireLock(c) \/ Step(c)
                         \/ StepError(c) \/ SkipRecovery(c)
                         \/ PublishCheckUnanswered(c)
  \/ ExternalCommit
  \/ \E h \in Handles : Crash(h)
  \/ PowerLoss

Spec == Init /\ [][Next]_vars

\* A running call keeps taking steps; the kernel grants a lock that keeps
\* becoming free to every process that keeps waiting for it.
Fairness == \A c \in Callers : WF_vars(Step(c)) /\ SF_vars(AcquireLock(c))

FairSpec == Spec /\ Fairness

-----------------------------------------------------------------------------
(* Properties. *)

\* A live snapshot is one committed generation: the revision it reports is
\* what the commit it was loaded at selects, and the policies that are enforced
\* are those of that revision (Reload reads the policies from the working tree
\* and the revision from HEAD, in separate steps, after recovery).  If recovery
\* was skipped because a Git command failed, the policies may be those of an
\* older commit, but never of one that HEAD has not reached.
SnapshotIsOneCommit ==
  \A h \in Handles : snap[h] # None =>
    /\ snap[h].at \in 1..Len(log)
    /\ log[snap[h].at].man = snap[h].rev
    /\ ~snap[h].blind => snap[h].pol = snap[h].rev
    /\ \E i \in 1..snap[h].at : log[i].man = snap[h].pol

\* "Reload recovers the Git-authoritative generation into the working tree and
\* compiles one complete snapshot" (access_generation.go): the policies that
\* are enforced are those of the revision that is reported, always.
SnapshotIsAuthoritative ==
  \A h \in Handles : snap[h] # None => snap[h].pol = snap[h].rev

\* A mounted database never admits under a policy older than one it has itself
\* committed or enforced, whatever failed in between (ownerActivation and the
\* Store(nil) at the start of each management call).
NoStaleAdmission ==
  \A h \in Handles : snap[h] # None => snap[h].at >= floor[h]

\* Why NoStaleAdmission holds.  Only the caller that owns a handle can raise
\* its floor or install a snapshot, and a snapshot is read from HEAD after the
\* handle's last commit; HEAD never selects an older manifest than before.
FloorInv ==
  /\ HeadCommit.since <= Len(log)
  /\ \A h \in Handles : floor[h] <= HeadCommit.since
OwnerInv ==
  \A c \in Callers :
    /\ pc[c] = "idle" => call[c] = "none"
    /\ pc[c] = "activate" => call[c] \in MountedCalls
    /\ call[c] \in MountedCalls => act[Home[c]] = c /\ snap[Home[c]] = None
LocInv ==
  \A c \in Callers : pc[c] = "activate" =>
    /\ loc[c] \in Snapshots
    /\ floor[Home[c]] <= loc[c].at
    /\ loc[c].at <= HeadCommit.since
\* A caller on its way to write a generation or the manifest has a revision.
WritingPCs == {"check", "stage", "rename", "syncGens", "commit", "ptrTemp",
               "ptrRename", "ptrSync"}
CandInv ==
  \A c \in Callers :
    /\ pc[c] \in WritingPCs => cand[c] \in Revs
    /\ pc[c] = "wait" /\ phase[c] = "publish" => cand[c] \in Revs
OwnershipInv == OwnerInv /\ FloorInv /\ LocInv /\ NoStaleAdmission

\* Whenever the lock is free, startup recovery and Reload go through
\* (recoverCommittedGenerationLocked after any crash or error of Publish), over
\* every working manifest that a publication has left.
Recoverable ==
  lock = None => RecoveryGoesThrough \/ wman \in {Flat, Disabled}

\* "Startup treats committed HEAD as authoritative and reconstructs a missing or
\* stale working pointer" (README.md): also one that selects no generation.
RecoversFromAnyPointer == lock = None => RecoveryGoesThrough

\* A publication replaces exactly the revision that its caller expected, even
\* if other work was committed meanwhile.  Only a caller that expected no
\* generation, and whose git show of the old manifest failed, may replace one
\* that it did not know of (committedGenerationRevisionAt).
NoBlindOverwrite ==
  \A i \in 2..Len(log) : log[i].since = i =>
    \/ log[i].exp = Revision(log[i - 1].man)
    \/ log[i].blind /\ log[i].exp = None

\* NewDatabase returns an unprotected database while HEAD selects a generation
\* only if its recovery was skipped, or if the working manifest is a disabled
\* one and no generation was active when its recovery read HEAD: the manifest
\* is read outside the lock, and a first publication may commit in between.
NoUnprotectedOpen ==
  [][ \A h \in Handles : mount[h] = "opening" /\ mount'[h] = "unprotected" =>
        \/ HeadCommit.man \notin Revs
        \/ act[h] \in blind
        \/ wman = Disabled /\ log[old[act[h]]].man \notin Revs
    ]_mount

\* Publication implements the abstract register: one linear history, and no
\* handle goes behind its own commits.
Register == INSTANCE PolicyRegister WITH
  hist <- [i \in 1..Len(log) |-> log[i].man],
  live <- [h \in Handles |-> IF snap[h] = None THEN 0 ELSE snap[h].at],
  seen <- floor
ImplementsRegister == Register!Spec

\* Every management call returns: none of its paths keeps the transaction lock.
CallsReturn == \A c \in Callers : pc[c] # "idle" ~> pc[c] = "idle"
=============================================================================
