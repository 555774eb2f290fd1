--------------------------- MODULE PolicyRegister ---------------------------
(***************************************************************************)
(* What owner-policy publication promises to the rest of the adapter.      *)
(*                                                                         *)
(* The repository keeps one linear history of access manifests: every      *)
(* commit selects a manifest, and a commit of other work selects the same  *)
(* one as its parent.  Every mounted database either has no policy         *)
(* snapshot installed (it admits nothing) or enforces the manifest of one  *)
(* commit.  A database never goes back behind a commit that it has itself  *)
(* published or enforced: a revocation that took effect stays in effect.   *)
(*                                                                         *)
(* OwnerPolicy implements this specification with files, Git refs, locks,  *)
(* and recovery.                                                           *)
(***************************************************************************)
EXTENDS Integers, Sequences

CONSTANTS
  Handles,      \* the mounted databases
  Revs,         \* generation revisions (digests)
  Manifests     \* everything a commit can select; includes Revs

VARIABLES
  hist,         \* hist[i]: the manifest that commit i selects
  live,         \* live[h]: the commit whose policies h enforces; 0 if none
  seen          \* seen[h]: h must not enforce a commit older than this

vars == <<hist, live, seen>>

TypeOK ==
  /\ hist \in Seq(Manifests)
  /\ live \in [Handles -> Nat]
  /\ seen \in [Handles -> Nat]

Init ==
  /\ \E m \in Manifests : hist = <<m>>
  /\ live = [h \in Handles |-> 0]
  /\ seen = [h \in Handles |-> 0]

\* A commit that no mounted database made: another process published r, or a
\* commit of other work kept the manifest.
Commit(r) ==
  /\ hist' = Append(hist, r)
  /\ UNCHANGED <<live, seen>>

\* h itself publishes r.  Its admissions are closed while it does.
CommitBy(h, r) ==
  /\ live[h] = 0
  /\ hist' = Append(hist, r)
  /\ seen' = [seen EXCEPT ![h] = Len(hist) + 1]
  /\ UNCHANGED live

\* h starts to enforce commit i.  It need not be the newest one: another
\* process may publish while h installs.
Install(h, i) ==
  /\ live[h] = 0
  /\ i >= seen[h]
  /\ hist[i] \in Revs
  /\ live' = [live EXCEPT ![h] = i]
  /\ seen' = [seen EXCEPT ![h] = i]
  /\ UNCHANGED hist

\* The databases in H stop admitting: a management call started, or the
\* process that mounted them died.
Withdraw(H) ==
  /\ live' = [h \in Handles |-> IF h \in H THEN 0 ELSE live[h]]
  /\ UNCHANGED <<hist, seen>>

Next ==
  \/ \E r \in Manifests : Commit(r)
  \/ \E h \in Handles, r \in Revs : CommitBy(h, r)
  \/ \E h \in Handles : \E i \in 1..Len(hist) : Install(h, i)
  \/ \E H \in SUBSET Handles : Withdraw(H)

Spec == Init /\ [][Next]_vars
=============================================================================
