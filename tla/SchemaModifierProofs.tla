------------------------ MODULE SchemaModifierProofs ------------------------
(***************************************************************************)
(* Proofs about SchemaModifier, for every set of processes, collections,   *)
(* fields and record files and every bound on calls and faults.            *)
(*                                                                         *)
(* The argument is the one the lock on definition.yaml is there for: a     *)
(* call that is alone, in the sense that no drop overlaps it or a call it  *)
(* overlaps, holds the lock from the read to the last flush (Owns), so the *)
(* definition on disk is the one it read with its operations applied       *)
(* (Knows), and the record files behind its walk have lost the column      *)
(* (Swept).  A definition that a create has written or found whole stays   *)
(* whole, unless a write of it fails, which marks the create (Spoils).     *)
(***************************************************************************)
EXTENDS SchemaModifier, TLAPS

CreatePCs == {"mkdir", "createLock", "writeDef", "register", "writeEntry"}
DropPCs == {"nothing", "remove", "deregister", "dropEntry"}
AlterPCs == {"alterLock", "readDef", "apply", "rewrite", "flush"}

\* Where a call is under the lock on the definition.
Holding == {"writeDef", "readDef", "apply", "rewrite", "flush"}

\* A running call is one of the three and has a collection.
Fits(p) ==
  /\ pc[p] # "idle" => Name(p) \in Names
  /\ pc[p] \in CreatePCs => job[p].call = "create"
  /\ pc[p] \in DropPCs => job[p].call = "drop"
  /\ pc[p] \in AlterPCs => job[p].call = "alter"

\* Calls of one collection are alone or not together, and none is if one is a drop.
Shielded(p, q) ==
  (p # q /\ pc[p] # "idle" /\ pc[q] # "idle" /\ Name(p) = Name(q)) =>
    /\ job[p].alone => job[q].alone
    /\ job[p].alone => job[p].call # "drop" /\ job[q].call # "drop"

Owns(p) == pc[p] \in Holding => lock[Name(p)] = p

Knows(p) ==
  /\ pc[p] \in {"writeDef", "register", "writeEntry"} => def[Name(p)] # Absent
  /\ (pc[p] \in {"register", "writeEntry"} /\ p \notin spoilt) => def[Name(p)] # Torn
  /\ pc[p] \in {"apply", "rewrite", "flush"} => def[Name(p)] \notin {Absent, Torn}
  /\ pc[p] = "apply" => job[p].mem = def[Name(p)]
  /\ pc[p] \in {"rewrite", "flush"} => job[p].mem = Applied(job[p].op, def[Name(p)])
  /\ pc[p] \in {"deregister", "dropEntry"} =>
       def[Name(p)] = Absent /\ \A f \in Files : recs[Name(p)][f] = Absent

Clean(c, col) == c = Absent \/ col \notin c

Swept(p) ==
  (pc[p] \in {"rewrite", "flush"} /\ job[p].op.from # None /\ job[p].form = "yaml") =>
    /\ job[p].op.to # job[p].op.from
    /\ pc[p] = "flush" => job[p].todo = {}
    /\ \A f \in YamlFiles \ job[p].todo : Clean(recs[Name(p)][f], job[p].op.from)

Safe(p) == job[p].alone => Owns(p) /\ Knows(p) /\ Swept(p)

DdlInv ==
  /\ TypeOK
  /\ \A p \in Procs : Fits(p) /\ Safe(p)
  /\ \A p, q \in Procs : Shielded(p, q)

-----------------------------------------------------------------------------
(* What a step of a running call q does. *)

Others(q) == \A u \in Procs : u # q => pc'[u] = pc[u] /\ job'[u] = job[u]

\* What q does to the definition, the records and the lock of its collection.
Disk(q, n) ==
  \/ /\ def'[n] = def[n] /\ recs'[n] = recs[n]
     /\ lock'[n] = lock[n] \/ lock[n] = q
  \/ /\ lock[n] = None /\ recs'[n] = recs[n]
     /\ def'[n] = def[n] \/ def[n] = Absent
  \/ pc[q] \in Holding /\ (def[n] # Absent => def'[n] # Absent)
  \/ pc[q] = "remove"

\* Who tears the definition marks the other calls of the collection.
Spoils(q) ==
  \A u \in Procs : u # q =>
    /\ u \in spoilt => u \in spoilt'
    /\ (Name(u) = Name(q) /\ def'[Name(q)] = Torn /\ def[Name(q)] \notin {Absent, Torn}) =>
         u \in spoilt'

\* What q does to other collections: it gives back a lock.
Elsewhere(q) ==
  \A m \in Names : m # Name(q) =>
    /\ def'[m] = def[m] /\ recs'[m] = recs[m]
    /\ lock'[m] = lock[m] \/ lock[m] = q

\* What the properties say of the step.
Promise(q) ==
  /\ (pc[q] = "flush" /\ pc'[q] = "apply") =>
       def'[Name(q)] = job[q].mem /\ form'[Name(q)] = job[q].form /\ recs' = recs
  /\ Returns(q, {"ok"}) =>
       \/ pc[q] \in {"register", "writeEntry"} /\ reg'[Name(q)] = "self" /\ def' = def
       \/ /\ pc[q] \in {"deregister", "dropEntry"}
          /\ reg'[Name(q)] = "none" /\ def' = def /\ recs' = recs
       \/ pc[q] \in {"nothing", "apply"}

\* The call goes on at l, or it is over.
Goes(q) ==
  \/ pc'[q] = "idle"
  \/ job'[q].call = job[q].call /\ job'[q].name = job[q].name /\ job'[q].alone = job[q].alone

Does(q) ==
  /\ pc[q] # "idle" /\ Others(q) /\ Elsewhere(q) /\ Disk(q, Name(q)) /\ Spoils(q) /\ Goes(q)
  /\ Promise(q) /\ Fits(q)' /\ Safe(q)'

-----------------------------------------------------------------------------
(* A call that is alone is shielded from the others. *)

LEMMA Bystander ==
  ASSUME DdlInv, NEW p \in Procs, NEW q \in Procs, p # q, Does(q),
         pc[p] # "idle", job[p].alone
  PROVE  /\ pc[p] \in Holding => /\ lock'[Name(p)] = p
                                 /\ def'[Name(p)] = def[Name(p)] /\ recs'[Name(p)] = recs[Name(p)]
         /\ def[Name(p)] # Absent => def'[Name(p)] # Absent
         /\ job[p].call = "drop" => def'[Name(p)] = def[Name(p)] /\ recs'[Name(p)] = recs[Name(p)]
         /\ p \notin spoilt' => /\ p \notin spoilt
                                /\ def[Name(p)] \notin {Absent, Torn} => def'[Name(p)] # Torn
<1> DEFINE n == Name(p)
<1>1. n \in Names /\ (pc[p] \in Holding => lock[n] = p)
  BY DEF DdlInv, Fits, Safe, Owns
<1>2. CASE Name(q) # n
  BY <1>1, <1>2 DEF Does, Elsewhere, Spoils
<1>3. CASE Name(q) = n
  <2>1. pc[q] # "idle" /\ Shielded(p, q)
    BY DEF Does, DdlInv
  <2>2. job[q].alone /\ job[p].call # "drop" /\ job[q].call # "drop"
    BY <1>3, <2>1 DEF Shielded
  <2>3. Owns(q) /\ Fits(q)
    BY <2>2 DEF DdlInv, Safe
  <2>4. Disk(q, n) /\ pc[q] # "remove" /\ (pc[q] \in Holding => lock[n] = q)
    BY <1>3, <2>2, <2>3 DEF Does, Owns, Fits, DropPCs
  <2>5. None # p
    BY DdlConstantsAssumption
  <2>6. Spoils(q) /\ Name(q) = n
    BY <1>3 DEF Does
  <2> QED BY <1>1, <2>2, <2>4, <2>5, <2>6 DEF Disk, Spoils
<1> QED BY <1>2, <1>3

\* What holds of a call that is alone holds after another's step.
LEMMA BystanderSafe ==
  ASSUME DdlInv, NEW p \in Procs, NEW q \in Procs, p # q, Does(q)
  PROVE  Fits(p)' /\ Safe(p)'
<1>1. pc'[p] = pc[p] /\ job'[p] = job[p] /\ Fits(p) /\ Safe(p)
  BY DEF Does, Others, DdlInv
<1>2. Fits(p)'
  BY <1>1 DEF Fits, Name
<1>3. CASE ~job[p].alone
  <2>1. ~job'[p].alone
    BY <1>1, <1>3
  <2> QED BY <1>2, <2>1 DEF Safe
<1>5. CASE pc[p] = "idle"
  <2>1. Owns(p)' /\ Knows(p)' /\ Swept(p)'
    BY <1>1, <1>5 DEF Owns, Knows, Swept, Holding
  <2> QED BY <1>2, <2>1 DEF Safe
<1>4. CASE pc[p] # "idle" /\ job[p].alone
  <2> DEFINE n == Name(p)
  <2>1. Name(p)' = n /\ Owns(p) /\ Knows(p) /\ Swept(p)
    BY <1>1, <1>4 DEF Safe, Name
  <2>2. /\ pc[p] \in Holding => lock'[n] = p /\ def'[n] = def[n] /\ recs'[n] = recs[n]
        /\ def[n] # Absent => def'[n] # Absent
        /\ job[p].call = "drop" => def'[n] = def[n] /\ recs'[n] = recs[n]
        /\ p \notin spoilt' => p \notin spoilt /\ (def[n] \notin {Absent, Torn} => def'[n] # Torn)
    BY <1>4, Bystander
  <2> HIDE DEF n
  <2>3. Owns(p)'
    BY <1>1, <2>1, <2>2 DEF Owns
  <2>4. Knows(p)'
    BY <1>1, <2>1, <2>2 DEF Knows, Holding, Fits, DropPCs, n
  <2>5. Swept(p)'
    BY <1>1, <2>1, <2>2 DEF Swept, Holding, n
  <2> QED BY <1>2, <2>3, <2>4, <2>5 DEF Safe
<1> QED BY <1>2, <1>3, <1>4, <1>5

LEMMA StepInv ==
  ASSUME DdlInv, NEW q \in Procs, Does(q), TypeOK'
  PROVE  DdlInv'
<1>1. \A p \in Procs : Fits(p)' /\ Safe(p)'
  BY BystanderSafe DEF Does
<1>2. ASSUME NEW u \in Procs, NEW v \in Procs PROVE Shielded(u, v)'
  <2>1. /\ \A w \in Procs : pc'[w] # "idle" => pc[w] # "idle" /\ job'[w].call = job[w].call
                              /\ job'[w].name = job[w].name /\ job'[w].alone = job[w].alone
    BY DEF Does, Others, Goes
  <2>2. Shielded(u, v)
    BY DEF DdlInv
  <2> QED BY <2>1, <2>2 DEF Shielded, Name
<1> QED BY <1>1, <1>2 DEF DdlInv

-----------------------------------------------------------------------------
(* A call begins. *)

\* The job of a call that a new one overlaps, or does not.
LEMMA MarkedJob ==
  ASSUME NEW i \in Jobs, NEW b \in BOOLEAN, NEW j, j = [i EXCEPT !.alone = b]
  PROVE  /\ j \in Jobs /\ j.alone = b
         /\ j.call = i.call /\ j.name = i.name /\ j.mem = i.mem /\ j.form = i.form /\ j.op = i.op
         /\ j.todo = i.todo
BY DEF Jobs

LEMMA BeginInv ==
  ASSUME DdlInv, NEW p \in Procs, NEW c \in {"create", "drop", "alter"}, NEW n \in Names,
         NEW o \in BOOLEAN, NEW l \in {"mkdir", "register", "remove", "nothing", "alterLock"},
         Begin(p, c, n, o, l),
         l \in {"mkdir", "register"} => c = "create",
         l \in {"remove", "nothing"} => c = "drop",
         l = "alterLock" => c = "alter",
         l = "register" => def[n] # Absent
  PROVE  DdlInv'
<1> DEFINE Ov == Overlapped(p, c, n)
           free == Ov = {}
           keeps(q) == job[q].alone /\ q \notin Ov
           new == [NoJob EXCEPT !.call = c, !.name = n, !.optional = o, !.alone = free]
           old(q) == [job[q] EXCEPT !.alone = keeps(q)]
<1>0. free \in BOOLEAN /\ \A q : keeps(q) \in BOOLEAN
  BY Zenon
<1>3. job' = [q \in Procs |-> IF q = p THEN new ELSE old(q)]
  BY DEF Begin
<1>7. /\ \A q \in Ov : q \in Procs \ {p} /\ pc[q] # "idle" /\ job[q].name = n
      /\ \A q \in Procs \ {p} : (pc[q] # "idle" /\ job[q].name = n) =>
           (q \in Ov <=> c = "drop" \/ job[q].call = "drop" \/ ~job[q].alone)
  BY DEF Overlapped, Name
<1>a. /\ free <=> Ov = {}
      /\ \A q : keeps(q) <=> job[q].alone /\ q \notin Ov
  BY Zenon
<1> HIDE DEF free, keeps
<1>1. new \in Jobs /\ new.call = c /\ new.name = n /\ new.alone = free
  <2> HIDE DEF new
  <2>1. PICK j : j = new
    OBVIOUS
  <2>2. j = [NoJob EXCEPT !.call = c, !.name = n, !.optional = o, !.alone = free]
    BY <2>1 DEF new
  <2>3. PICK b \in BOOLEAN : b = free
    BY <1>0, Zenon
  <2>4. j = [NoJob EXCEPT !.call = c, !.name = n, !.optional = o, !.alone = b]
    BY <2>2, <2>3, Zenon
  <2>5. j = [call |-> c, name |-> n, optional |-> o, mem |-> {}, form |-> "yaml", op |-> NoOp, todo |-> {},
             ops |-> 0, alone |-> b, entries |-> [m \in Names |-> "none"]]
    BY <2>4 DEF NoJob
  <2>6. [m \in Names |-> "none"] \in Registries /\ 0 \in 0..MaxOps
    BY DdlConstantsAssumption DEF Registries
  <2>7. j \in Jobs /\ j.call = c /\ j.name = n /\ j.alone = b
    BY <2>5, <2>6 DEF Jobs, Forms
  <2> QED BY <2>1, <2>3, <2>7, Zenon
<1>2. \A q \in Procs :
        /\ old(q) \in Jobs /\ old(q).alone = keeps(q)
        /\ old(q).call = job[q].call /\ old(q).name = job[q].name /\ old(q).mem = job[q].mem
        /\ old(q).form = job[q].form /\ old(q).op = job[q].op /\ old(q).todo = job[q].todo
  <2> TAKE q \in Procs
  <2>1. job[q] \in Jobs /\ keeps(q) \in BOOLEAN
    BY <1>0 DEF DdlInv, TypeOK
  <2> HIDE DEF old
  <2> QED BY <2>1, MarkedJob DEF old
<1> HIDE DEF new, old, Ov
<1>4. job' \in [Procs -> Jobs] /\ job'[p] = new
  BY <1>1, <1>2, <1>3
<1>b. \A q \in Procs : q # p => job'[q] = old(q)
  BY <1>3
<1>5. \A q \in Procs : q # p =>
        /\ job'[q].call = job[q].call /\ job'[q].name = job[q].name /\ job'[q].mem = job[q].mem
        /\ job'[q].form = job[q].form /\ job'[q].op = job[q].op /\ job'[q].todo = job[q].todo
        /\ job'[q].alone <=> (job[q].alone /\ q \notin Ov)
  BY <1>2, <1>a, <1>b, Zenon
<1>c. job'[p].alone <=> Ov = {}
  BY <1>1, <1>4, <1>a, Zenon
<1>6. /\ pc[p] = "idle" /\ pc' = [pc EXCEPT ![p] = l] /\ pc'[p] = l
      /\ \A q \in Procs : q # p => pc'[q] = pc[q]
      /\ UNCHANGED <<dir, def, recs, reg, lock, faults, form, scenario>>
  BY DEF Begin, Goto, DdlInv, TypeOK
<1>d. /\ spoilt' \in SUBSET Procs /\ (p \notin spoilt' => def[n] # Torn)
      /\ \A q \in Procs : q # p => (q \in spoilt' <=> q \in spoilt)
  BY DEF Begin, DdlInv, TypeOK
<1>8. TypeOK'
  <2>1. pc' \in [Procs -> PCs]
    BY <1>6 DEF DdlInv, TypeOK, PCs
  <2>2. outcome' \in [Procs -> Outcomes]
    BY DEF Begin, DdlInv, TypeOK, Outcomes
  <2>3. calls' \in 0..MaxCalls
    <3>1. scenario.calls \in 0..MaxCalls
      BY DdlConstantsAssumption DEF DdlInv, TypeOK
    <3>2. calls \in 0..MaxCalls /\ calls < scenario.calls /\ calls' = calls + 1
      BY DEF Begin, DdlInv, TypeOK
    <3> QED BY <3>1, <3>2, DdlConstantsAssumption
  <2> QED BY <1>4, <1>6, <1>d, <2>1, <2>2, <2>3 DEF DdlInv, TypeOK
<1>9. ASSUME NEW q \in Procs PROVE Fits(q)' /\ Safe(q)'
  <2>1. CASE q = p
    <3>1. Fits(q)'
      BY <1>1, <1>4, <1>6, <2>1 DEF Fits, Name, CreatePCs, DropPCs, AlterPCs
    <3>2. Owns(q)' /\ Knows(q)' /\ Swept(q)'
      BY <1>1, <1>4, <1>6, <1>d, <2>1 DEF Owns, Knows, Swept, Name, Holding
    <3> QED BY <3>1, <3>2 DEF Safe
  <2>2. CASE q # p
    <3>1. pc'[q] = pc[q] /\ Name(q)' = Name(q) /\ Fits(q) /\ Safe(q)
      BY <1>5, <1>6, <2>2 DEF DdlInv, Name
    <3>2. Fits(q)'
      BY <1>5, <2>2, <3>1 DEF Fits
    <3>3. job'[q].alone => job[q].alone
      BY <1>5, <2>2
    <3>4. Owns(q) => Owns(q)'
      BY <1>6, <3>1 DEF Owns
    <3>5. Knows(q) => Knows(q)'
      BY <1>5, <1>6, <1>d, <2>2, <3>1 DEF Knows
    <3>6. Swept(q) => Swept(q)'
      BY <1>5, <1>6, <2>2, <3>1 DEF Swept
    <3> QED BY <3>1, <3>2, <3>3, <3>4, <3>5, <3>6 DEF Safe
  <2> QED BY <2>1, <2>2
<1>10. ASSUME NEW u \in Procs, NEW v \in Procs PROVE Shielded(u, v)'
  <2>1. Shielded(u, v) /\ \A w \in Procs : Shielded(u, w) /\ Shielded(v, w) /\ Shielded(w, u)
    BY DEF DdlInv
  <2>2. CASE u # p /\ v # p
    <3> SUFFICES ASSUME u # v, pc[u] # "idle", pc[v] # "idle", job[u].name = job[v].name,
                        job'[u].alone
                 PROVE  job'[v].alone /\ job'[u].call # "drop" /\ job'[v].call # "drop"
      BY <1>5, <1>6, <2>2 DEF Shielded, Name
    <3>1. job[u].alone /\ u \notin Ov
      BY <1>5, <2>2
    <3>2. job[v].alone /\ job[u].call # "drop" /\ job[v].call # "drop"
      BY <2>1, <3>1 DEF Shielded, Name
    <3>3. v \notin Ov
      BY <1>7, <2>2, <3>1, <3>2
    <3> QED BY <1>5, <2>2, <3>2, <3>3
  <2>3. CASE u = p /\ v # p
    <3> SUFFICES ASSUME pc[v] # "idle", job[v].name = n, job'[p].alone
                 PROVE  job'[v].alone /\ job'[p].call # "drop" /\ job'[v].call # "drop"
      BY <1>1, <1>4, <1>5, <1>6, <2>3 DEF Shielded, Name
    <3>1. Ov = {}
      BY <1>c
    <3>2. c # "drop" /\ job[v].call # "drop" /\ job[v].alone
      BY <1>7, <2>3, <3>1
    <3> QED BY <1>1, <1>4, <1>5, <2>3, <3>1, <3>2
  <2>4. CASE u # p /\ v = p
    <3> SUFFICES ASSUME pc[u] # "idle", job[u].name = n, job'[u].alone
                 PROVE  job'[p].alone /\ job'[u].call # "drop" /\ job'[p].call # "drop"
      BY <1>1, <1>4, <1>5, <1>6, <2>4 DEF Shielded, Name
    <3>1. job[u].alone /\ u \notin Ov
      BY <1>5, <2>4
    <3>2. c # "drop" /\ job[u].call # "drop"
      BY <1>7, <2>4, <3>1
    <3>3. ASSUME NEW w \in Ov PROVE FALSE
      <4>1. w \in Procs \ {p} /\ pc[w] # "idle" /\ job[w].name = n /\ w # u
        BY <1>7, <3>1, <3>3
      <4>2. job[w].alone /\ job[w].call # "drop"
        BY <2>1, <3>1, <4>1 DEF Shielded, Name
      <4> QED BY <1>7, <3>2, <3>3, <4>1, <4>2
    <3>4. Ov = {}
      BY <3>3
    <3> QED BY <1>1, <1>4, <1>5, <1>c, <2>4, <3>2, <3>4
  <2>5. CASE u = v
    BY <2>5 DEF Shielded
  <2> QED BY <2>2, <2>3, <2>4, <2>5
<1> QED BY <1>8, <1>9, <1>10 DEF DdlInv

-----------------------------------------------------------------------------
(* Parts of steps. *)

LEMMA NoJobTyped == NoJob \in Jobs
<1>1. [m \in Names |-> "none"] \in Registries /\ 0 \in 0..MaxOps
  BY DdlConstantsAssumption DEF Registries
<1> QED BY <1>1 DEF NoJob, Jobs, Forms

\* A call ends.
LEMMA EndEffect ==
  ASSUME DdlInv, NEW p \in Procs, NEW result \in Outcomes, End(p, result)
  PROVE  /\ pc' \in [Procs -> PCs] /\ job' \in [Procs -> Jobs] /\ outcome' \in [Procs -> Outcomes]
         /\ pc'[p] = "idle" /\ outcome'[p] = result
         /\ Others(p) /\ Goes(p) /\ Fits(p)' /\ Safe(p)'
<1>1. /\ pc' \in [Procs -> PCs] /\ job' \in [Procs -> Jobs] /\ outcome' \in [Procs -> Outcomes]
      /\ pc'[p] = "idle" /\ outcome'[p] = result /\ Others(p)
  BY NoJobTyped DEF End, Goto, DdlInv, TypeOK, PCs, Others
<1>2. Owns(p)' /\ Knows(p)' /\ Swept(p)' /\ Fits(p)'
  BY <1>1 DEF Owns, Knows, Swept, Fits, Holding, CreatePCs, DropPCs, AlterPCs
<1> QED BY <1>1, <1>2 DEF Safe, Goes

LEMMA UnlockEffect ==
  ASSUME DdlInv, NEW p \in Procs, Unlock(p)
  PROVE  /\ lock' \in [Names -> Procs \cup {None}]
         /\ \A m \in Names : lock'[m] = lock[m] \/ lock[m] = p
BY DEF Unlock, DdlInv, TypeOK

\* A call returns and changes no definition and no record.
LEMMA ReturnEffect ==
  ASSUME DdlInv, NEW p \in Procs, pc[p] # "idle", NEW result \in Outcomes, Return(p, result),
         UNCHANGED <<dir, def, recs, calls, form, spoilt, scenario>>, faults' \in 0..MaxFaults, reg' \in Registries,
         Promise(p)
  PROVE  TypeOK' /\ Does(p)
<1>1. /\ pc' \in [Procs -> PCs] /\ job' \in [Procs -> Jobs] /\ outcome' \in [Procs -> Outcomes]
      /\ Others(p) /\ Goes(p) /\ Fits(p)' /\ Safe(p)'
  BY EndEffect DEF Return
<1>2. /\ lock' \in [Names -> Procs \cup {None}]
      /\ \A m \in Names : lock'[m] = lock[m] \/ lock[m] = p
  BY UnlockEffect DEF Return
<1>3. Name(p) \in Names
  BY DEF DdlInv, Fits
<1>4. TypeOK'
  BY <1>1, <1>2 DEF DdlInv, TypeOK
<1>5. Elsewhere(p) /\ Disk(p, Name(p)) /\ Spoils(p)
  BY <1>2, <1>3 DEF Elsewhere, Spoils, Disk
<1> QED BY <1>1, <1>4, <1>5 DEF Does

\* A call that is refused.
LEMMA RefusedEffect ==
  ASSUME DdlInv, NEW p \in Procs, Refused(p)
  PROVE  \E result \in Outcomes : Return(p, result) /\ result # "ok"
BY DEF Refused, Outcomes

\* A call goes on at l with its job as it was.
LEMMA GotoEffect ==
  ASSUME DdlInv, NEW p \in Procs, NEW l \in PCs, Goto(p, l), job' = job
  PROVE  /\ pc' \in [Procs -> PCs] /\ job' \in [Procs -> Jobs]
         /\ pc'[p] = l /\ Others(p) /\ Goes(p) /\ Name(p)' = Name(p)
<1>1. pc' \in [Procs -> PCs] /\ job' \in [Procs -> Jobs] /\ pc'[p] = l /\ Others(p) /\ Name(p)' = Name(p)
  BY DEF DdlInv, TypeOK, Goto, Others, Name
<1> QED BY <1>1 DEF Goes

\* A call goes on at l with another job of the same call.
LEMMA JobEffect ==
  ASSUME DdlInv, NEW p \in Procs, NEW l \in PCs, Goto(p, l), NEW r \in Jobs,
         job' = [job EXCEPT ![p] = r],
         r.call = job[p].call, r.name = job[p].name, r.alone = job[p].alone
  PROVE  /\ pc' \in [Procs -> PCs] /\ job' \in [Procs -> Jobs]
         /\ pc'[p] = l /\ job'[p] = r /\ Others(p) /\ Goes(p) /\ Name(p)' = Name(p)
<1>1. pc' \in [Procs -> PCs] /\ job' \in [Procs -> Jobs] /\ pc'[p] = l /\ job'[p] = r /\ Others(p)
  BY DEF DdlInv, TypeOK, Goto, Others
<1> QED BY <1>1 DEF Goes, Name

-----------------------------------------------------------------------------
(* The steps of CreateCollection and DropCollection. *)

LEMMA MakeSchemaDirEffect ==
  ASSUME DdlInv, NEW p \in Procs, MakeSchemaDir(p)
  PROVE  TypeOK' /\ Does(p)
<1>1. /\ pc[p] = "mkdir" /\ Goto(p, "createLock") /\ job' = job
      /\ UNCHANGED <<def, recs, reg, lock, outcome, calls, faults, form, spoilt, scenario>>
      /\ dir' = [dir EXCEPT ![Name(p)] = TRUE]
  BY DEF MakeSchemaDir
<1>2. /\ pc' \in [Procs -> PCs] /\ job' \in [Procs -> Jobs] /\ pc'[p] = "createLock"
      /\ Others(p) /\ Goes(p) /\ Name(p)' = Name(p)
  BY <1>1, GotoEffect DEF PCs
<1>3. dir' \in [Names -> BOOLEAN] /\ \A n \in Names : dir[n] => dir'[n]
  BY <1>1 DEF DdlInv, TypeOK
<1>4. TypeOK'
  BY <1>1, <1>2, <1>3 DEF DdlInv, TypeOK
<1>5. Elsewhere(p) /\ Disk(p, Name(p)) /\ Spoils(p)
  BY <1>1 DEF Elsewhere, Spoils, Disk
<1>6. Fits(p)' /\ Promise(p)
  BY <1>1, <1>2 DEF DdlInv, Fits, Promise, Returns, CreatePCs, DropPCs, AlterPCs
<1>7. Owns(p)' /\ Knows(p)' /\ Swept(p)'
  BY <1>2 DEF Owns, Knows, Swept, Holding
<1> QED BY <1>1, <1>2, <1>4, <1>5, <1>6, <1>7 DEF Does, Safe

\* The lock on a definition is taken, and the file is there.
LEMMA TakeLockEffect ==
  ASSUME DdlInv, NEW p \in Procs, LockNewDefinition(p) \/ LockDefinition(p)
  PROVE  TypeOK' /\ Does(p)
<1> DEFINE n == Name(p)
<1>1. /\ \/ pc[p] = "createLock" /\ Goto(p, "writeDef")
         \/ pc[p] = "alterLock" /\ Goto(p, "readDef")
      /\ dir[n] /\ lock[n] = None /\ lock' = [lock EXCEPT ![n] = p]
      /\ def' = [def EXCEPT ![n] = IF @ = Absent THEN Torn ELSE @]
      /\ UNCHANGED <<dir, recs, reg, job, outcome, calls, faults, form, spoilt, scenario>>
  BY DEF LockNewDefinition, LockDefinition
<1>2. n \in Names
  BY <1>1 DEF DdlInv, Fits
<1>3. /\ pc' \in [Procs -> PCs] /\ job' \in [Procs -> Jobs]
      /\ pc'[p] \in {"writeDef", "readDef"} /\ (pc'[p] = "writeDef" <=> pc[p] = "createLock")
      /\ Others(p) /\ Goes(p) /\ Name(p)' = n
  BY <1>1, GotoEffect DEF PCs
<1>4. /\ def' \in [Names -> Columns] /\ def'[n] # Absent /\ (def'[n] = def[n] \/ def[n] = Absent)
      /\ \A m \in Names : m # n => def'[m] = def[m]
      /\ lock' \in [Names -> Procs \cup {None}] /\ lock'[n] = p
      /\ \A m \in Names : m # n => lock'[m] = lock[m]
  BY <1>1, <1>2, DdlConstantsAssumption DEF DdlInv, TypeOK, Columns
<1> HIDE DEF n
<1>5. TypeOK'
  BY <1>1, <1>3, <1>4 DEF DdlInv, TypeOK
<1>6. Elsewhere(p) /\ Disk(p, Name(p)) /\ Spoils(p)
  BY <1>1, <1>2, <1>4 DEF Elsewhere, Spoils, Disk, n
<1>7. Fits(p)' /\ Promise(p)
  BY <1>1, <1>2, <1>3 DEF DdlInv, Fits, Promise, Returns, CreatePCs, DropPCs, AlterPCs
<1>8. Owns(p)' /\ Knows(p)' /\ Swept(p)'
  BY <1>3, <1>4 DEF Owns, Knows, Swept, Holding
<1> QED BY <1>1, <1>3, <1>5, <1>6, <1>7, <1>8 DEF Does, Safe

LEMMA WriteDefinitionEffect ==
  ASSUME DdlInv, NEW p \in Procs, NEW cols \in SUBSET Fields, WriteDefinition(p, cols)
  PROVE  TypeOK' /\ Does(p)
<1> DEFINE n == Name(p)
<1>1. /\ pc[p] = "writeDef" /\ Goto(p, "register") /\ dir[n] /\ Unlock(p)
      /\ def' = [def EXCEPT ![n] = cols] /\ form' = [form EXCEPT ![n] = "yaml"]
      /\ spoilt' = spoilt \ {p}
      /\ UNCHANGED <<dir, recs, reg, job, outcome, calls, faults, scenario>>
  BY DEF WriteDefinition
<1>2. n \in Names
  BY <1>1 DEF DdlInv, Fits
<1>3. /\ pc' \in [Procs -> PCs] /\ job' \in [Procs -> Jobs]
      /\ pc'[p] = "register" /\ Others(p) /\ Goes(p) /\ Name(p)' = n
  BY <1>1, GotoEffect DEF PCs
<1>4. /\ def' \in [Names -> Columns] /\ def'[n] \notin {Absent, Torn}
      /\ \A m \in Names : m # n => def'[m] = def[m]
      /\ form' \in [Names -> Forms] /\ spoilt' \in SUBSET Procs
  BY <1>1, <1>2, DdlConstantsAssumption DEF DdlInv, TypeOK, Columns, Forms
<1>5. /\ lock' \in [Names -> Procs \cup {None}]
      /\ \A m \in Names : lock'[m] = lock[m] \/ lock[m] = p
  BY <1>1, UnlockEffect
<1> HIDE DEF n
<1>6. TypeOK'
  BY <1>1, <1>3, <1>4, <1>5 DEF DdlInv, TypeOK
<1>7. Elsewhere(p) /\ Disk(p, Name(p)) /\ Spoils(p)
  BY <1>1, <1>2, <1>4, <1>5 DEF Elsewhere, Spoils, Disk, Holding, n
<1>8. Fits(p)' /\ Promise(p)
  BY <1>1, <1>2, <1>3 DEF DdlInv, Fits, Promise, Returns, CreatePCs, DropPCs, AlterPCs
<1>9. Owns(p)' /\ Knows(p)' /\ Swept(p)'
  BY <1>3, <1>4 DEF Owns, Knows, Swept, Holding
<1> QED BY <1>1, <1>3, <1>6, <1>7, <1>8, <1>9 DEF Does, Safe

\* The registry is read, on the way to the write that changes it.
LEMMA ReadRegistryEffect ==
  ASSUME DdlInv, NEW p \in Procs, NEW l \in PCs, Goto(p, l),
         \/ pc[p] = "register" /\ l = "writeEntry"
         \/ pc[p] = "deregister" /\ l = "dropEntry",
         job' = [job EXCEPT ![p].entries = reg],
         UNCHANGED <<dir, def, recs, reg, lock, outcome, calls, faults, form, spoilt, scenario>>
  PROVE  TypeOK' /\ Does(p)
<1> DEFINE r == [job[p] EXCEPT !.entries = reg]
<1>1. /\ r \in Jobs /\ r.call = job[p].call /\ r.name = job[p].name /\ r.alone = job[p].alone
      /\ job' = [job EXCEPT ![p] = r]
  <2>1. job[p] \in Jobs /\ reg \in Registries /\ job \in [Procs -> Jobs]
    BY DEF DdlInv, TypeOK
  <2> QED BY <2>1 DEF Jobs
<1> HIDE DEF r
<1>2. /\ pc' \in [Procs -> PCs] /\ job' \in [Procs -> Jobs]
      /\ pc'[p] = l /\ job'[p] = r /\ Others(p) /\ Goes(p) /\ Name(p)' = Name(p)
  BY <1>1, JobEffect
<1>3. TypeOK'
  BY <1>2 DEF DdlInv, TypeOK
<1>4. Elsewhere(p) /\ Disk(p, Name(p)) /\ Spoils(p)
  BY DEF Elsewhere, Spoils, Disk
<1>5. Fits(p)' /\ Promise(p)
  BY <1>1, <1>2 DEF DdlInv, Fits, Promise, Returns, CreatePCs, DropPCs, AlterPCs
<1>6. ASSUME job'[p].alone PROVE Owns(p)' /\ Knows(p)' /\ Swept(p)'
  <2>1. job[p].alone
    BY <1>1, <1>2, <1>6, Zenon
  <2>2. Knows(p)
    BY <2>1 DEF DdlInv, Safe
  <2> QED BY <1>2, <2>2 DEF Owns, Knows, Swept, Holding
<1> QED BY <1>2, <1>3, <1>4, <1>5, <1>6 DEF Does, Safe

LEMMA RegisterEffect ==
  ASSUME DdlInv, NEW p \in Procs, Register(p)
  PROVE  TypeOK' /\ Does(p)
<1>1. pc[p] = "register" /\ UNCHANGED <<dir, def, recs, reg, calls, faults, form, spoilt, scenario>>
  BY DEF Register
<1>2. faults' \in 0..MaxFaults /\ reg' \in Registries
  BY <1>1 DEF DdlInv, TypeOK
<1>3. CASE job' = [job EXCEPT ![p].entries = reg] /\ Goto(p, "writeEntry") /\ UNCHANGED <<lock, outcome>>
  BY <1>1, <1>3, ReadRegistryEffect DEF PCs
<1>4. CASE reg[Name(p)] = "self" /\ Return(p, "ok")
  <2>1. Promise(p)
    BY <1>1, <1>4 DEF Promise
  <2> QED BY <1>1, <1>2, <1>4, <2>1, ReturnEffect DEF Outcomes
<1>5. CASE Refused(p)
  <2>1. PICK result \in Outcomes : Return(p, result) /\ result # "ok"
    BY <1>5, RefusedEffect
  <2>2. outcome'[p] # "ok"
    BY <2>1, EndEffect DEF Return
  <2>3. Promise(p)
    BY <1>1, <2>2 DEF Promise, Returns
  <2> QED BY <1>1, <1>2, <2>1, <2>3, ReturnEffect
<1> QED BY <1>3, <1>4, <1>5 DEF Register

LEMMA DeregisterEffect ==
  ASSUME DdlInv, NEW p \in Procs, Deregister(p)
  PROVE  TypeOK' /\ Does(p)
<1>1. pc[p] = "deregister" /\ UNCHANGED <<dir, def, recs, reg, calls, faults, form, spoilt, scenario>>
  BY DEF Deregister
<1>2. faults' \in 0..MaxFaults /\ reg' \in Registries
  BY <1>1 DEF DdlInv, TypeOK
<1>3. CASE reg[Name(p)] = "none"
  <2>1. Return(p, "ok")
    BY <1>3 DEF Deregister
  <2>2. Promise(p)
    BY <1>1, <1>3 DEF Promise
  <2> QED BY <1>1, <1>2, <2>1, <2>2, ReturnEffect DEF Outcomes
<1>4. CASE reg[Name(p)] # "none"
  <2>1. job' = [job EXCEPT ![p].entries = reg] /\ Goto(p, "dropEntry") /\ UNCHANGED <<lock, outcome>>
    BY <1>4 DEF Deregister
  <2> QED BY <1>1, <2>1, ReadRegistryEffect DEF PCs
<1> QED BY <1>3, <1>4

\* The registry is written.
LEMMA WriteRegistryEffect ==
  ASSUME DdlInv, NEW p \in Procs, WriteEntry(p) \/ DropEntry(p)
  PROVE  TypeOK' /\ Does(p)
<1>1. /\ \/ pc[p] = "writeEntry" /\ reg' = [job[p].entries EXCEPT ![Name(p)] = "self"]
         \/ pc[p] = "dropEntry" /\ reg' = [job[p].entries EXCEPT ![Name(p)] = "none"]
      /\ Return(p, "ok") /\ UNCHANGED <<dir, def, recs, calls, faults, form, spoilt, scenario>>
  BY DEF WriteEntry, DropEntry
<1>2. Name(p) \in Names /\ job[p].entries \in Registries /\ faults' \in 0..MaxFaults
  BY <1>1 DEF DdlInv, TypeOK, Fits, Jobs
<1>3. /\ reg' \in Registries
      /\ pc[p] = "writeEntry" => reg'[Name(p)] = "self"
      /\ pc[p] = "dropEntry" => reg'[Name(p)] = "none"
  BY <1>1, <1>2 DEF Registries
<1>4. Promise(p)
  BY <1>1, <1>3 DEF Promise
<1> QED BY <1>1, <1>2, <1>3, <1>4, ReturnEffect DEF Outcomes

LEMMA NothingToDropEffect ==
  ASSUME DdlInv, NEW p \in Procs, NothingToDrop(p)
  PROVE  TypeOK' /\ Does(p)
<1>1. pc[p] = "nothing" /\ Return(p, "ok") /\ UNCHANGED <<dir, def, recs, reg, calls, faults, form, spoilt, scenario>>
  BY DEF NothingToDrop
<1>2. faults' \in 0..MaxFaults /\ reg' \in Registries /\ Promise(p)
  BY <1>1 DEF DdlInv, TypeOK, Promise
<1> QED BY <1>1, <1>2, ReturnEffect DEF Outcomes

LEMMA RemoveCollectionEffect ==
  ASSUME DdlInv, NEW p \in Procs, RemoveCollection(p)
  PROVE  TypeOK' /\ Does(p)
<1> DEFINE n == Name(p)
<1>1. /\ pc[p] = "remove" /\ Goto(p, "deregister")
      /\ dir' = [dir EXCEPT ![n] = FALSE] /\ def' = [def EXCEPT ![n] = Absent]
      /\ recs' = [recs EXCEPT ![n] = [f \in Files |-> Absent]]
      /\ lock' = [lock EXCEPT ![n] = None]
      /\ UNCHANGED <<reg, job, outcome, calls, faults, form, spoilt, scenario>>
  BY DEF RemoveCollection
<1>2. n \in Names
  BY <1>1 DEF DdlInv, Fits
<1>3. /\ pc' \in [Procs -> PCs] /\ job' \in [Procs -> Jobs]
      /\ pc'[p] = "deregister" /\ Others(p) /\ Goes(p) /\ Name(p)' = n
  BY <1>1, GotoEffect DEF PCs
<1>4. /\ dir' \in [Names -> BOOLEAN] /\ \A m \in Names : m # n => dir'[m] = dir[m]
      /\ def' \in [Names -> Columns] /\ def'[n] = Absent
      /\ \A m \in Names : m # n => def'[m] = def[m] /\ recs'[m] = recs[m] /\ lock'[m] = lock[m]
      /\ recs' \in [Names -> [Files -> Columns]] /\ \A f \in Files : recs'[n][f] = Absent
      /\ lock' \in [Names -> Procs \cup {None}]
  BY <1>1, <1>2 DEF DdlInv, TypeOK, Columns
<1> HIDE DEF n
<1>5. TypeOK'
  BY <1>1, <1>3, <1>4 DEF DdlInv, TypeOK
<1>6. Elsewhere(p) /\ Disk(p, Name(p)) /\ Spoils(p)
  BY <1>1, <1>2, <1>4, DdlConstantsAssumption DEF Elsewhere, Spoils, Disk, n
<1>7. Fits(p)' /\ Promise(p)
  BY <1>1, <1>2, <1>3 DEF DdlInv, Fits, Promise, Returns, CreatePCs, DropPCs, AlterPCs
<1>8. Owns(p)' /\ Knows(p)' /\ Swept(p)'
  BY <1>3, <1>4 DEF Owns, Knows, Swept, Holding
<1> QED BY <1>1, <1>3, <1>5, <1>6, <1>7, <1>8 DEF Does, Safe

-----------------------------------------------------------------------------
(* The steps of AlterCollection. *)

\* A call fails and leaves the disk as it is.
LEMMA FailEffect ==
  ASSUME DdlInv, NEW p \in Procs, pc[p] # "idle", NEW result \in Outcomes, Return(p, result),
         result # "ok", UNCHANGED <<dir, def, recs, reg, calls, form, spoilt, scenario>>, faults' \in 0..MaxFaults
  PROVE  TypeOK' /\ Does(p)
<1>1. pc'[p] = "idle" /\ outcome'[p] # "ok"
  BY EndEffect DEF Return
<1>2. Promise(p) /\ reg' \in Registries
  BY <1>1 DEF Promise, Returns, DdlInv, TypeOK
<1> QED BY <1>2, ReturnEffect

LEMMA RefusedStep ==
  ASSUME DdlInv, NEW p \in Procs, pc[p] # "idle", Refused(p),
         UNCHANGED <<dir, def, recs, reg, calls, form, spoilt, scenario>>, faults' \in 0..MaxFaults
  PROVE  TypeOK' /\ Does(p)
<1>1. PICK result \in Outcomes : Return(p, result) /\ result # "ok"
  BY RefusedEffect
<1> QED BY <1>1, FailEffect

LEMMA InapplicableEffect ==
  ASSUME DdlInv, NEW p \in Procs, NEW op \in AlterOps, InapplicableOp(p, op)
  PROVE  TypeOK' /\ Does(p)
<1>1. pc[p] # "idle" /\ Refused(p) /\ UNCHANGED <<dir, def, recs, reg, calls, faults, form, spoilt, scenario>>
  BY DEF InapplicableOp
<1>2. faults' \in 0..MaxFaults
  BY <1>1 DEF DdlInv, TypeOK
<1> QED BY <1>1, <1>2, RefusedStep

LEMMA DirectoryGoneEffect ==
  ASSUME DdlInv, NEW p \in Procs, DirectoryGone(p)
  PROVE  TypeOK' /\ Does(p)
<1>1. pc[p] # "idle" /\ Refused(p) /\ UNCHANGED <<dir, def, recs, reg, calls, faults, form, spoilt, scenario>>
  BY DEF DirectoryGone
<1>2. faults' \in 0..MaxFaults
  BY <1>1 DEF DdlInv, TypeOK
<1> QED BY <1>1, <1>2, RefusedStep

LEMMA ReadDefinitionEffect ==
  ASSUME DdlInv, NEW p \in Procs, ReadDefinition(p)
  PROVE  TypeOK' /\ Does(p)
<1> DEFINE n == Name(p)
<1>1. pc[p] = "readDef" /\ UNCHANGED <<dir, def, recs, reg, calls, faults, form, spoilt, scenario>>
  BY DEF ReadDefinition
<1>2. n \in Names /\ faults' \in 0..MaxFaults
  BY <1>1 DEF DdlInv, Fits, TypeOK
<1>3. CASE def[n] \in {Absent, Torn}
  <2>1. Refused(p) \/ Return(p, "crashed")
    BY <1>3 DEF ReadDefinition
  <2> QED BY <1>1, <1>2, <2>1, RefusedStep, FailEffect DEF Outcomes
<1>4. CASE def[n] \notin {Absent, Torn}
  <2> DEFINE r == [job[p] EXCEPT !.mem = def[n], !.form = form[n]]
  <2>1. job' = [job EXCEPT ![p].mem = def[n], ![p].form = form[n]] /\ Goto(p, "apply") /\ UNCHANGED <<lock, outcome>>
    BY <1>4 DEF ReadDefinition
  <2>2. job[p] \in Jobs /\ def[n] \in SUBSET Fields /\ form[n] \in Forms /\ job \in [Procs -> Jobs]
    BY <1>2, <1>4 DEF DdlInv, TypeOK, Columns
  <2>3. /\ r \in Jobs /\ r.call = job[p].call /\ r.name = job[p].name /\ r.alone = job[p].alone
        /\ r.mem = def[n] /\ job' = [job EXCEPT ![p] = r]
    BY <2>1, <2>2 DEF Jobs
  <2> HIDE DEF r
  <2>4. /\ pc' \in [Procs -> PCs] /\ job' \in [Procs -> Jobs]
        /\ pc'[p] = "apply" /\ job'[p] = r /\ Others(p) /\ Goes(p) /\ Name(p)' = n
    BY <2>1, <2>3, JobEffect DEF PCs
  <2>5. TypeOK'
    BY <1>1, <2>1, <2>4 DEF DdlInv, TypeOK
  <2>6. Elsewhere(p) /\ Disk(p, Name(p)) /\ Spoils(p)
    BY <1>1, <2>1 DEF Elsewhere, Spoils, Disk
  <2>7. Fits(p)' /\ Promise(p)
    BY <1>1, <1>2, <2>3, <2>4 DEF DdlInv, Fits, Promise, Returns, CreatePCs, DropPCs, AlterPCs
  <2>8. ASSUME job'[p].alone PROVE Owns(p)' /\ Knows(p)' /\ Swept(p)'
    <3>1. job[p].alone
      BY <2>3, <2>4, <2>8, Zenon
    <3>2. lock[n] = p
      BY <1>1, <3>1 DEF DdlInv, Safe, Owns, Holding
    <3> QED BY <1>1, <1>4, <2>1, <2>3, <2>4, <3>2 DEF Owns, Knows, Swept, Holding
  <2> QED BY <1>1, <2>4, <2>5, <2>6, <2>7, <2>8 DEF Does, Safe
<1> QED BY <1>3, <1>4

\* What an operation makes of a set of columns.
LEMMA AppliedTyped ==
  ASSUME NEW op \in AlterOps \cup {NoOp}, NEW cols \in SUBSET Fields
  PROVE  Applied(op, cols) \in SUBSET Fields
<1>1. op.to \in Fields \cup {None}
  BY DEF AlterOps, NoOp
<1> QED BY <1>1 DEF Applied

LEMMA RewrittenTyped ==
  ASSUME NEW p, job[p].op \in AlterOps \cup {NoOp}, NEW cols \in SUBSET Fields
  PROVE  Rewritten(p, cols) \in SUBSET Fields
BY AppliedTyped DEF Rewritten

\* The next operation, or one that keeps the columns, is taken up.
LEMMA TakeUp ==
  ASSUME DdlInv, NEW p \in Procs, NEW l \in {"rewrite", "flush"}, NEW op \in AlterOps \cup {NoOp},
         NEW mem \in SUBSET Fields, NEW todo \in SUBSET Files,
         pc[p] = "apply", job[p].ops < scenario.ops,
         job' = [job EXCEPT ![p] = [job[p] EXCEPT !.op = op, !.mem = mem, !.ops = @ + 1, !.todo = todo]],
         Goto(p, l), UNCHANGED <<dir, def, recs, reg, lock, outcome, calls, faults, form, spoilt, scenario>>,
         mem = Applied(op, job[p].mem),
         op.from # None =>
           l = "rewrite" /\ op.to # op.from /\ (job[p].form = "yaml" => todo = YamlFiles)
  PROVE  TypeOK' /\ Does(p)
<1> DEFINE r == [job[p] EXCEPT !.op = op, !.mem = mem, !.ops = @ + 1, !.todo = todo]
           n == Name(p)
<1>1. job[p].ops + 1 \in 0..MaxOps
  <2>1. scenario.ops \in 0..MaxOps
    BY DdlConstantsAssumption DEF DdlInv, TypeOK
  <2>2. job[p].ops \in 0..MaxOps
    BY DEF DdlInv, TypeOK, Jobs
  <2> QED BY <2>1, <2>2, DdlConstantsAssumption
<1>2. /\ r \in Jobs /\ r.call = job[p].call /\ r.name = job[p].name /\ r.alone = job[p].alone
      /\ r.op = op /\ r.mem = mem /\ r.form = job[p].form /\ r.todo = todo
  <2>1. job[p] \in Jobs
    BY DEF DdlInv, TypeOK
  <2> QED BY <1>1, <2>1 DEF Jobs
<1>3. job' = [job EXCEPT ![p] = r] /\ n \in Names /\ l \in PCs
  BY DEF DdlInv, Fits, PCs
<1> HIDE DEF r
<1>4. /\ pc' \in [Procs -> PCs] /\ job' \in [Procs -> Jobs]
      /\ pc'[p] = l /\ job'[p] = r /\ Others(p) /\ Goes(p) /\ Name(p)' = n
  BY <1>2, <1>3, JobEffect
<1>5. TypeOK'
  BY <1>4 DEF DdlInv, TypeOK
<1>6. Elsewhere(p) /\ Disk(p, Name(p)) /\ Spoils(p)
  BY DEF Elsewhere, Spoils, Disk
<1>7. Fits(p)' /\ Promise(p)
  BY <1>2, <1>3, <1>4 DEF DdlInv, Fits, Promise, Returns, CreatePCs, DropPCs, AlterPCs
<1>8. ASSUME job'[p].alone PROVE Owns(p)' /\ Knows(p)' /\ Swept(p)'
  <2>1. job[p].alone
    BY <1>2, <1>4, <1>8, Zenon
  <2>2. lock[n] = p /\ def[n] \notin {Absent, Torn} /\ job[p].mem = def[n]
    BY <2>1 DEF DdlInv, Safe, Owns, Knows, Holding
  <2>3. Owns(p)'
    BY <1>4, <2>2 DEF Owns
  <2>4. Knows(p)'
    BY <1>2, <1>4, <2>2 DEF Knows
  <2>5. Swept(p)'
    BY <1>2, <1>4 DEF Swept
  <2> QED BY <2>3, <2>4, <2>5
<1> QED BY <1>4, <1>5, <1>6, <1>7, <1>8 DEF Does, Safe

LEMMA ApplyOpEffect ==
  ASSUME DdlInv, NEW p \in Procs, NEW op \in AlterOps, ApplyOp(p, op)
  PROVE  TypeOK' /\ Does(p)
<1> DEFINE mem == Applied(op, job[p].mem)
           todo == FilesToRewrite(p, op)
<1>1. /\ pc[p] = "apply" /\ job[p].ops < scenario.ops /\ Applicable(op, job[p].mem)
      /\ job' = [job EXCEPT ![p].op = op, ![p].mem = Applied(op, @), ![p].ops = @ + 1,
                            ![p].todo = FilesToRewrite(p, op)]
      /\ Goto(p, "rewrite") /\ UNCHANGED <<dir, def, recs, reg, lock, outcome, calls, faults, form, spoilt, scenario>>
  BY DEF ApplyOp
<1>2. job[p].mem \in SUBSET Fields /\ job \in [Procs -> Jobs] /\ job[p] \in Jobs
  BY DEF DdlInv, TypeOK, Jobs
<1>3. mem \in SUBSET Fields /\ todo \in SUBSET Files
  BY <1>2, AppliedTyped, DdlConstantsAssumption DEF FilesToRewrite
<1>4. op.from # None => op.to # op.from /\ (job[p].form = "yaml" => todo = YamlFiles)
  BY <1>1 DEF Applicable, FilesToRewrite
<1>5. job' = [job EXCEPT ![p] = [job[p] EXCEPT !.op = op, !.mem = mem, !.ops = @ + 1, !.todo = todo]]
  BY <1>1, <1>2 DEF Jobs
<1> HIDE DEF todo
<1> QED BY <1>1, <1>3, <1>4, <1>5, TakeUp

LEMMA KeepColumnsEffect ==
  ASSUME DdlInv, NEW p \in Procs, KeepColumns(p)
  PROVE  TypeOK' /\ Does(p)
<1>1. /\ pc[p] = "apply" /\ job[p].ops < scenario.ops
      /\ job' = [job EXCEPT ![p].op = NoOp, ![p].ops = @ + 1, ![p].todo = {}]
      /\ Goto(p, "flush") /\ UNCHANGED <<dir, def, recs, reg, lock, outcome, calls, faults, form, spoilt, scenario>>
  BY DEF KeepColumns
<1> DEFINE mem == job[p].mem
<1>2. mem \in SUBSET Fields /\ job \in [Procs -> Jobs] /\ job[p] \in Jobs
  BY DEF DdlInv, TypeOK, Jobs
<1>3. mem = Applied(NoOp, job[p].mem) /\ NoOp.from = None
  BY <1>2, DdlConstantsAssumption DEF Applied, NoOp
<1>4. job' = [job EXCEPT ![p] = [job[p] EXCEPT !.op = NoOp, !.mem = mem, !.ops = @ + 1, !.todo = {}]]
  BY <1>1, <1>2 DEF Jobs
<1> HIDE DEF mem
<1>5. PICK op \in AlterOps \cup {NoOp}, todo \in SUBSET Files, l \in {"rewrite", "flush"} :
        op = NoOp /\ todo = {} /\ l = "flush"
  OBVIOUS
<1>6. /\ job' = [job EXCEPT ![p] = [job[p] EXCEPT !.op = op, !.mem = mem, !.ops = @ + 1, !.todo = todo]]
      /\ Goto(p, l) /\ mem = Applied(op, job[p].mem) /\ op.from = None
  BY <1>1, <1>3, <1>4, <1>5
<1>7. /\ pc[p] = "apply" /\ job[p].ops < scenario.ops
      /\ UNCHANGED <<dir, def, recs, reg, lock, outcome, calls, faults, form, spoilt, scenario>>
  BY <1>1
<1>8. mem \in SUBSET Fields
  BY <1>2
<1> QED BY <1>6, <1>7, <1>8, TakeUp

\* One record file of the walk.
LEMMA RewriteRecordEffect ==
  ASSUME DdlInv, NEW p \in Procs, RewriteRecord(p)
  PROVE  TypeOK' /\ Does(p)
<1> DEFINE n == Name(p)
           f == FirstFile(job[p].todo)
           op == job[p].op
<1>1. pc[p] = "rewrite" /\ UNCHANGED <<dir, def, reg, calls, faults, form, spoilt, scenario>>
  BY DEF RewriteRecord
<1>2. /\ n \in Names /\ faults' \in 0..MaxFaults /\ job[p] \in Jobs /\ job \in [Procs -> Jobs]
      /\ op \in AlterOps \cup {NoOp} /\ recs \in [Names -> [Files -> Columns]] /\ def \in [Names -> Columns]
  BY <1>1 DEF DdlInv, Fits, TypeOK, Jobs
<1>3. CASE recs[n][f] = Torn
  <2>1. Refused(p) /\ recs' = recs
    BY <1>3 DEF RewriteRecord
  <2> QED BY <1>1, <1>2, <2>1, RefusedStep
<1>4. CASE recs[n][f] # Torn
  <2> DEFINE r == [job[p] EXCEPT !.todo = @ \ {f}]
  <2>1. /\ recs' = IF recs[n][f] # Absent
                   THEN [recs EXCEPT ![n][f] = Rewritten(p, @)] ELSE recs
        /\ job' = [job EXCEPT ![p].todo = @ \ {f}]
        /\ UNCHANGED <<pc, lock, outcome>>
    BY <1>4 DEF RewriteRecord
  <2>2. /\ r \in Jobs /\ r.call = job[p].call /\ r.name = job[p].name /\ r.alone = job[p].alone
        /\ r.op = op /\ r.mem = job[p].mem /\ r.form = job[p].form /\ r.todo = job[p].todo \ {f}
        /\ job' = [job EXCEPT ![p] = r]
    BY <1>2, <2>1 DEF Jobs
  <2>3. Goto(p, "rewrite")
    BY <1>1, <2>1 DEF Goto, DdlInv, TypeOK
  <2> HIDE DEF r, f
  <2>4. /\ pc' \in [Procs -> PCs] /\ job' \in [Procs -> Jobs]
        /\ pc'[p] = "rewrite" /\ job'[p] = r /\ Others(p) /\ Goes(p) /\ Name(p)' = n
    BY <2>2, <2>3, JobEffect DEF PCs
  <2>5. /\ recs' \in [Names -> [Files -> Columns]]
        /\ \A m \in Names : m # n => recs'[m] = recs[m]
        /\ \A g \in Files : g # f => recs'[n][g] = recs[n][g]
        /\ f \in Files => recs'[n][f] = IF recs[n][f] # Absent
                                        THEN Rewritten(p, recs[n][f]) ELSE recs[n][f]
    <3>1. CASE recs[n][f] = Absent
      BY <1>2, <2>1, <3>1
    <3>2. CASE recs[n][f] # Absent
      <4>1. recs' = [recs EXCEPT ![n] = [recs[n] EXCEPT ![f] = Rewritten(p, recs[n][f])]]
        BY <1>2, <2>1, <3>2
      <4> DEFINE row == [recs[n] EXCEPT ![f] = Rewritten(p, recs[n][f])]
      <4>2. f \in Files => Rewritten(p, recs[n][f]) \in Columns
        <5> HAVE f \in Files
        <5>1. recs[n][f] \in SUBSET Fields
          BY <1>2, <1>4, <3>2 DEF Columns
        <5> QED BY <1>2, <5>1, RewrittenTyped DEF Columns
      <4>3. /\ row \in [Files -> Columns] /\ \A g \in Files : g # f => row[g] = recs[n][g]
            /\ f \in Files => row[f] = Rewritten(p, recs[n][f])
        BY <1>2, <4>2
      <4> HIDE DEF row
      <4>4. recs' = [recs EXCEPT ![n] = row]
        BY <4>1 DEF row
      <4>5. recs' \in [Names -> [Files -> Columns]] /\ recs'[n] = row
            /\ \A m \in Names : m # n => recs'[m] = recs[m]
        BY <1>2, <4>3, <4>4
      <4> QED BY <3>2, <4>3, <4>5
    <3> QED BY <3>1, <3>2
  <2>6. TypeOK'
    BY <1>1, <2>1, <2>4, <2>5 DEF DdlInv, TypeOK
  <2>7. Fits(p)' /\ Promise(p)
    BY <1>1, <1>2, <2>2, <2>4 DEF DdlInv, Fits, Promise, Returns, CreatePCs, DropPCs, AlterPCs
  <2>8. ASSUME job'[p].alone PROVE Owns(p)' /\ Knows(p)' /\ Swept(p)'
    <3>1. job[p].alone
      BY <2>2, <2>4, <2>8, Zenon
    <3>2. Owns(p) /\ Knows(p) /\ Swept(p)
      BY <3>1 DEF DdlInv, Safe
    <3>3. Owns(p)'
      BY <1>1, <2>1, <2>4, <3>2 DEF Owns, Holding
    <3>4. Knows(p)'
      BY <1>1, <2>2, <2>4, <3>2 DEF Knows
    <3>5. Swept(p)'
      <4>0. (op.from # None /\ job[p].form = "yaml") =>
              op.to # op.from /\ \A h \in YamlFiles \ job[p].todo : Clean(recs[n][h], op.from)
        BY <1>1, <3>2 DEF Swept
      <4> SUFFICES ASSUME op.from # None, job[p].form = "yaml", NEW g \in YamlFiles \ (job[p].todo \ {f})
                   PROVE  Clean(recs'[n][g], op.from)
        BY <2>2, <2>4, <4>0 DEF Swept
      <4>1. /\ op.to # op.from /\ \A h \in YamlFiles \ job[p].todo : Clean(recs[n][h], op.from)
            /\ g \in Files
        BY <4>0, DdlConstantsAssumption
      <4>2. CASE g # f
        BY <2>5, <4>1, <4>2
      <4>3. CASE g = f
        <5>1. op.from \notin Rewritten(p, recs[n][f])
          BY <4>1 DEF Applied, Rewritten
        <5> QED BY <2>5, <4>1, <4>3, <5>1 DEF Clean
      <4> QED BY <4>2, <4>3
    <3> QED BY <3>3, <3>4, <3>5
  <2>9. Elsewhere(p) /\ Disk(p, Name(p)) /\ Spoils(p)
    <3>1. Elsewhere(p)
      BY <1>1, <2>1, <2>5 DEF Elsewhere
    <3>2. Disk(p, n)
      BY <1>1 DEF Disk, Holding
    <3>3. Spoils(p)
      BY <1>1 DEF Spoils
    <3> QED BY <3>1, <3>2, <3>3
  <2> QED BY <1>1, <2>4, <2>6, <2>7, <2>8, <2>9 DEF Does, Safe
<1> QED BY <1>3, <1>4

LEMMA RewriteDoneEffect ==
  ASSUME DdlInv, NEW p \in Procs, RewriteDone(p)
  PROVE  TypeOK' /\ Does(p)
<1>1. /\ pc[p] = "rewrite" /\ job[p].todo = {} /\ Goto(p, "flush") /\ job' = job
      /\ UNCHANGED <<dir, def, recs, reg, lock, outcome, calls, faults, form, spoilt, scenario>>
  BY DEF RewriteDone
<1>2. /\ pc' \in [Procs -> PCs] /\ job' \in [Procs -> Jobs] /\ pc'[p] = "flush"
      /\ Others(p) /\ Goes(p) /\ Name(p)' = Name(p)
  BY <1>1, GotoEffect DEF PCs
<1>3. TypeOK'
  BY <1>1, <1>2 DEF DdlInv, TypeOK
<1>4. Elsewhere(p) /\ Disk(p, Name(p)) /\ Spoils(p)
  BY <1>1 DEF Elsewhere, Spoils, Disk
<1>5. Fits(p)' /\ Promise(p)
  BY <1>1, <1>2 DEF DdlInv, Fits, Promise, Returns, CreatePCs, DropPCs, AlterPCs
<1>6. ASSUME job'[p].alone PROVE Owns(p)' /\ Knows(p)' /\ Swept(p)'
  <2>1. job[p].alone
    BY <1>1, <1>6, Zenon
  <2>2. Owns(p) /\ Knows(p) /\ Swept(p)
    BY <2>1 DEF DdlInv, Safe
  <2>3. Owns(p)' /\ Knows(p)'
    BY <1>1, <1>2, <2>2 DEF Owns, Knows, Holding
  <2>4. Swept(p)'
    BY <1>1, <1>2, <2>2 DEF Swept
  <2> QED BY <2>3, <2>4
<1> QED BY <1>1, <1>2, <1>3, <1>4, <1>5, <1>6 DEF Does, Safe

LEMMA FlushEffect ==
  ASSUME DdlInv, NEW p \in Procs, Flush(p)
  PROVE  TypeOK' /\ Does(p)
<1> DEFINE n == Name(p)
<1>1. /\ pc[p] = "flush" /\ dir[n] /\ Goto(p, "apply") /\ job' = job
      /\ def' = [def EXCEPT ![n] = job[p].mem] /\ form' = [form EXCEPT ![n] = job[p].form]
      /\ UNCHANGED <<dir, recs, reg, lock, outcome, calls, faults, spoilt, scenario>>
  BY DEF Flush
<1>2. n \in Names /\ job[p].mem \in SUBSET Fields /\ job[p].form \in Forms
  BY <1>1 DEF DdlInv, Fits, TypeOK, Jobs
<1>3. /\ pc' \in [Procs -> PCs] /\ job' \in [Procs -> Jobs] /\ pc'[p] = "apply"
      /\ Others(p) /\ Goes(p) /\ Name(p)' = n
  BY <1>1, GotoEffect DEF PCs
<1>4. /\ def' \in [Names -> Columns] /\ def'[n] = job[p].mem /\ def'[n] \notin {Absent, Torn}
      /\ \A m \in Names : m # n => def'[m] = def[m]
      /\ form' \in [Names -> Forms] /\ form'[n] = job[p].form
  BY <1>1, <1>2, DdlConstantsAssumption DEF DdlInv, TypeOK, Columns
<1> HIDE DEF n
<1>5. TypeOK'
  BY <1>1, <1>3, <1>4 DEF DdlInv, TypeOK
<1>6. Elsewhere(p) /\ Disk(p, Name(p)) /\ Spoils(p)
  BY <1>1, <1>2, <1>4 DEF Elsewhere, Spoils, Disk, Holding, n
<1>7. Fits(p)' /\ Promise(p)
  BY <1>1, <1>2, <1>3, <1>4 DEF DdlInv, Fits, Promise, Returns, CreatePCs, DropPCs, AlterPCs, n
<1>8. ASSUME job'[p].alone PROVE Owns(p)' /\ Knows(p)' /\ Swept(p)'
  <2>1. job[p].alone
    BY <1>1, <1>8, Zenon
  <2>2. Owns(p)
    BY <2>1 DEF DdlInv, Safe
  <2> QED BY <1>1, <1>3, <1>4, <2>2 DEF Owns, Knows, Swept, Holding, n
<1> QED BY <1>1, <1>3, <1>5, <1>6, <1>7, <1>8 DEF Does, Safe

LEMMA AlterDoneEffect ==
  ASSUME DdlInv, NEW p \in Procs, AlterDone(p)
  PROVE  TypeOK' /\ Does(p)
<1>1. pc[p] = "apply" /\ Return(p, "ok") /\ UNCHANGED <<dir, def, recs, reg, calls, faults, form, spoilt, scenario>>
  BY DEF AlterDone
<1>2. faults' \in 0..MaxFaults /\ reg' \in Registries /\ Promise(p)
  BY <1>1 DEF DdlInv, TypeOK, Promise
<1> QED BY <1>1, <1>2, ReturnEffect DEF Outcomes

-----------------------------------------------------------------------------
(* Faults. *)

LEMMA FaultTyped ==
  ASSUME DdlInv, Fault
  PROVE  faults' \in 0..MaxFaults
<1>1. scenario.faults \in 0..MaxFaults
  BY DdlConstantsAssumption DEF DdlInv, TypeOK
<1>2. faults \in 0..MaxFaults /\ faults < scenario.faults /\ faults' = faults + 1
  BY DEF Fault, DdlInv, TypeOK
<1> QED BY <1>1, <1>2, DdlConstantsAssumption

LEMMA StepFailsEffect ==
  ASSUME DdlInv, NEW p \in Procs, StepFails(p)
  PROVE  TypeOK' /\ Does(p)
<1> DEFINE n == Name(p)
           f == FirstFile(job[p].todo)
<1>1. pc[p] # "idle" /\ Refused(p) /\ faults' \in 0..MaxFaults /\ UNCHANGED <<calls, scenario>>
  BY FaultTyped DEF StepFails
<1>2. n \in Names
  BY <1>1 DEF DdlInv, Fits
<1>3. PICK result \in Outcomes : Return(p, result) /\ result # "ok"
  BY <1>1, RefusedEffect
<1>4. /\ pc' \in [Procs -> PCs] /\ job' \in [Procs -> Jobs] /\ outcome' \in [Procs -> Outcomes]
      /\ pc'[p] = "idle" /\ outcome'[p] # "ok"
      /\ Others(p) /\ Goes(p) /\ Fits(p)' /\ Safe(p)'
  BY <1>3, EndEffect DEF Return
<1>5. /\ lock' \in [Names -> Procs \cup {None}]
      /\ \A m \in Names : lock'[m] = lock[m] \/ lock[m] = p
  BY <1>3, UnlockEffect DEF Return
<1>6. Promise(p)
  BY <1>4 DEF Promise, Returns
<1>7. CASE UNCHANGED <<dir, def, form, recs, reg, spoilt>>
  BY <1>1, <1>7, RefusedStep
<1>8. ASSUME NEW left \in {Torn} \cup SUBSET Fields,
             pc[p] \in {"writeDef", "flush"}, dir[n], def' = [def EXCEPT ![n] = left],
             form' = [form EXCEPT ![n] = job[p].form],
             spoilt' = spoilt \cup {q \in Procs \ {p} : Name(q) = n}, UNCHANGED <<dir, recs, reg>>
      PROVE  TypeOK' /\ Does(p)
  <2>1. /\ def' \in [Names -> Columns] /\ def'[n] # Absent
        /\ \A m \in Names : m # n => def'[m] = def[m]
    BY <1>2, <1>8, DdlConstantsAssumption DEF DdlInv, TypeOK, Columns
  <2>2. form' \in [Names -> Forms] /\ spoilt' \in SUBSET Procs
    BY <1>8 DEF DdlInv, TypeOK, Jobs
  <2>3. Spoils(p)
    BY <1>8 DEF Spoils
  <2> HIDE DEF n
  <2>4. TypeOK'
    BY <1>1, <1>4, <1>5, <1>8, <2>1, <2>2 DEF DdlInv, TypeOK
  <2>5. Elsewhere(p) /\ Disk(p, Name(p))
    BY <1>2, <1>5, <1>8, <2>1 DEF Elsewhere, Disk, Holding, n
  <2> QED BY <1>1, <1>4, <1>6, <2>3, <2>4, <2>5 DEF Does
<1>9. ASSUME NEW left, f \in Files => left \in Columns,
             pc[p] = "rewrite", recs' = [recs EXCEPT ![n][f] = left],
             UNCHANGED <<dir, def, form, reg, spoilt>>
      PROVE  TypeOK' /\ Does(p)
  <2>1. recs' \in [Names -> [Files -> Columns]] /\ \A m \in Names : m # n => recs'[m] = recs[m]
    <3> HIDE DEF f
    <3>1. [recs[n] EXCEPT ![f] = left] \in [Files -> Columns]
      <4>1. recs[n] \in [Files -> Columns]
        BY <1>2 DEF DdlInv, TypeOK
      <4>2. CASE f \in Files
        BY <1>9, <4>1, <4>2
      <4>3. CASE f \notin Files
        BY <4>1, <4>3
      <4> QED BY <4>2, <4>3
    <3> QED BY <1>2, <1>9, <3>1 DEF DdlInv, TypeOK
  <2> HIDE DEF n
  <2>2. TypeOK'
    BY <1>1, <1>4, <1>5, <1>9, <2>1 DEF DdlInv, TypeOK
  <2>3. Elsewhere(p) /\ Disk(p, Name(p)) /\ Spoils(p)
    BY <1>2, <1>5, <1>9, <2>1 DEF Elsewhere, Disk, Spoils, Holding, n
  <2> QED BY <1>1, <1>4, <1>6, <2>2, <2>3 DEF Does
<1>10. CASE reg' = [m \in Names |-> "none"] /\ UNCHANGED <<dir, def, form, recs, spoilt>>
  <2>1. reg' \in Registries
    BY <1>10 DEF Registries
  <2> QED BY <1>1, <1>3, <1>6, <1>10, <2>1, ReturnEffect
<1>11. job[p].mem \in SUBSET Fields /\ job[p].op \in AlterOps \cup {NoOp}
  BY DEF DdlInv, TypeOK, Jobs
<1>12. ASSUME pc[p] \in {"writeDef", "flush"},
              NEW left \in Partly(IF pc[p] = "flush" THEN job[p].mem ELSE Fields)
       PROVE  left \in {Torn} \cup SUBSET Fields
  BY <1>11, <1>12 DEF Partly
<1>13. ASSUME pc[p] = "rewrite", job[p].todo # {}, recs[n][f] \notin {Absent, Torn},
              NEW left \in Partly(Rewritten(p, recs[n][f]))
       PROVE  f \in Files => left \in Columns
  <2>1. HAVE f \in Files
  <2>2. recs[n][f] \in SUBSET Fields
    BY <1>2, <1>13, <2>1 DEF DdlInv, TypeOK, Columns
  <2>3. Rewritten(p, recs[n][f]) \in SUBSET Fields
    BY <1>11, <2>2, RewrittenTyped
  <2> HIDE DEF f, n
  <2> QED BY <1>13, <2>3 DEF Partly, Columns
<1> HIDE DEF f, n
<1>14. \/ UNCHANGED <<dir, def, form, recs, reg, spoilt>>
       \/ /\ pc[p] \in {"writeDef", "flush"} /\ dir[n]
          /\ \E left \in Partly(IF pc[p] = "flush" THEN job[p].mem ELSE Fields) :
               def' = [def EXCEPT ![n] = left]
          /\ form' = [form EXCEPT ![n] = job[p].form]
          /\ spoilt' = spoilt \cup {q \in Procs \ {p} : Name(q) = n}
          /\ UNCHANGED <<dir, recs, reg>>
       \/ /\ pc[p] = "rewrite" /\ job[p].todo # {} /\ recs[n][f] \notin {Absent, Torn}
          /\ \E left \in Partly(Rewritten(p, recs[n][f])) : recs' = [recs EXCEPT ![n][f] = left]
          /\ UNCHANGED <<dir, def, form, reg, spoilt>>
       \/ reg' = [m \in Names |-> "none"] /\ UNCHANGED <<dir, def, form, recs, spoilt>>
  BY DEF StepFails, f, n
<1> QED BY <1>7, <1>8, <1>9, <1>10, <1>12, <1>13, <1>14

LEMMA RemoveFailsEffect ==
  ASSUME DdlInv, NEW p \in Procs, RemoveFails(p)
  PROVE  TypeOK' /\ Does(p)
<1> DEFINE n == Name(p)
<1>1. /\ pc[p] = "remove" /\ End(p, "error") /\ faults' \in 0..MaxFaults
      /\ UNCHANGED <<reg, calls, form, spoilt, scenario>>
  BY FaultTyped DEF RemoveFails
<1>2. n \in Names
  BY <1>1 DEF DdlInv, Fits
<1>3. /\ pc' \in [Procs -> PCs] /\ job' \in [Procs -> Jobs] /\ outcome' \in [Procs -> Outcomes]
      /\ pc'[p] = "idle" /\ outcome'[p] = "error"
      /\ Others(p) /\ Goes(p) /\ Fits(p)' /\ Safe(p)'
  BY <1>1, EndEffect DEF Outcomes
<1>4. recs' \in [Names -> [Files -> Columns]] /\ \A m \in Names : m # n => recs'[m] = recs[m]
  <2>1. PICK gone \in SUBSET Files :
          recs' = [recs EXCEPT ![n] = [f \in Files |-> IF f \in gone THEN Absent ELSE recs[n][f]]]
    BY DEF RemoveFails
  <2>2. [f \in Files |-> IF f \in gone THEN Absent ELSE recs[n][f]] \in [Files -> Columns]
    BY <1>2 DEF DdlInv, TypeOK, Columns
  <2> QED BY <1>2, <2>1, <2>2 DEF DdlInv, TypeOK
<1>5. /\ dir' \in [Names -> BOOLEAN] /\ def' \in [Names -> Columns]
      /\ lock' \in [Names -> Procs \cup {None}]
      /\ \A m \in Names : m # n => dir'[m] = dir[m] /\ def'[m] = def[m] /\ lock'[m] = lock[m]
      /\ def'[n] = Absent \/ (def'[n] = def[n] /\ dir'[n] = dir[n])
  <2>1. CASE UNCHANGED <<dir, def, lock>>
    BY <2>1 DEF DdlInv, TypeOK
  <2>2. CASE /\ dir' \in {dir, [dir EXCEPT ![n] = FALSE]} /\ def' = [def EXCEPT ![n] = Absent]
             /\ lock' = [lock EXCEPT ![n] = None]
    BY <1>2, <2>2 DEF DdlInv, TypeOK, Columns
  <2> QED BY <2>1, <2>2 DEF RemoveFails
<1> HIDE DEF n
<1>6. TypeOK'
  BY <1>1, <1>2, <1>3, <1>4, <1>5 DEF DdlInv, TypeOK
<1>7. Elsewhere(p) /\ Disk(p, Name(p)) /\ Spoils(p) /\ Promise(p)
  BY <1>1, <1>3, <1>4, <1>5, DdlConstantsAssumption DEF Elsewhere, Spoils, Disk, Promise, Returns, n
<1> QED BY <1>1, <1>3, <1>6, <1>7 DEF Does

LEMMA CrashEffect ==
  ASSUME DdlInv, NEW p \in Procs, Crash(p)
  PROVE  TypeOK' /\ Does(p)
<1>1. /\ pc[p] # "idle" /\ Return(p, "crashed") /\ faults' \in 0..MaxFaults
      /\ UNCHANGED <<dir, def, recs, reg, calls, form, spoilt, scenario>>
  BY FaultTyped DEF Crash
<1> QED BY <1>1, FailEffect DEF Outcomes

-----------------------------------------------------------------------------
(* The invariant. *)

\* A step is the beginning of a call or a step of a running one.
LEMMA Steps ==
  ASSUME DdlInv, Next
  PROVE  \E p \in Procs : Call(p) \/ (TypeOK' /\ Does(p))
<1>1. PICK p \in Procs :
        \/ Call(p) \/ Step(p) \/ TakeLock(p)
        \/ \E op \in AlterOps : ApplyOp(p, op) \/ InapplicableOp(p, op)
        \/ KeepColumns(p)
        \/ StepFails(p) \/ RemoveFails(p) \/ Crash(p)
  BY DEF Next
<1>2. CASE Step(p)
  <2>1. CASE \E cols \in SUBSET Fields : WriteDefinition(p, cols)
    BY <2>1, WriteDefinitionEffect
  <2> QED BY <1>2, <2>1, DirectoryGoneEffect, MakeSchemaDirEffect, RegisterEffect, WriteRegistryEffect,
             NothingToDropEffect, RemoveCollectionEffect, DeregisterEffect, ReadDefinitionEffect,
             RewriteRecordEffect, RewriteDoneEffect, FlushEffect, AlterDoneEffect DEF Step
<1>3. CASE TakeLock(p)
  BY <1>3, TakeLockEffect DEF TakeLock
<1>4. CASE \E op \in AlterOps : ApplyOp(p, op) \/ InapplicableOp(p, op)
  <2>1. PICK op \in AlterOps : ApplyOp(p, op) \/ InapplicableOp(p, op)
    BY <1>4
  <2> QED BY <2>1, ApplyOpEffect, InapplicableEffect
<1> QED BY <1>1, <1>2, <1>3, <1>4, KeepColumnsEffect, StepFailsEffect, RemoveFailsEffect, CrashEffect

LEMMA CallInv ==
  ASSUME DdlInv, NEW p \in Procs, Call(p)
  PROVE  DdlInv' /\ pc[p] = "idle" /\ \A q \in Procs : q # p => pc'[q] = pc[q]
<1>1. ASSUME NEW c, NEW n, NEW o, NEW l, Begin(p, c, n, o, l)
      PROVE  pc[p] = "idle" /\ \A q \in Procs : q # p => pc'[q] = pc[q]
  BY <1>1 DEF Begin, Goto, DdlInv, TypeOK
<1>2. ASSUME NEW n \in Names, NEW o \in BOOLEAN, CreateCollection(p, n, o) PROVE DdlInv'
  BY <1>2, BeginInv DEF CreateCollection
<1>3. ASSUME NEW n \in Names, NEW o \in BOOLEAN, DropCollection(p, n, o) PROVE DdlInv'
  BY <1>3, BeginInv DEF DropCollection
<1>4. ASSUME NEW n \in Names, AlterCollection(p, n) PROVE DdlInv'
  BY <1>4, BeginInv DEF AlterCollection
<1> QED BY <1>1, <1>2, <1>3, <1>4 DEF Call, CreateCollection, DropCollection, AlterCollection

LEMMA DdlStep == DdlInv /\ [Next]_vars => DdlInv'
<1> SUFFICES ASSUME DdlInv, [Next]_vars PROVE DdlInv'
  OBVIOUS
<1>1. CASE Next
  BY <1>1, Steps, CallInv, StepInv
<1>2. CASE UNCHANGED vars
  <2>1. TypeOK'
    BY <1>2 DEF vars, DdlInv, TypeOK
  <2>2. ASSUME NEW p \in Procs PROVE Fits(p)' /\ Safe(p)'
    <3>1. Fits(p) /\ Safe(p) /\ Name(p)' = Name(p)
      BY <1>2 DEF DdlInv, vars, Name
    <3> QED BY <1>2, <3>1 DEF vars, Fits, Safe, Owns, Knows, Swept
  <2>3. ASSUME NEW p \in Procs, NEW q \in Procs PROVE Shielded(p, q)'
    <3>1. Shielded(p, q)
      BY DEF DdlInv
    <3> QED BY <1>2, <3>1 DEF vars, Shielded, Name
  <2> QED BY <2>1, <2>2, <2>3 DEF DdlInv
<1> QED BY <1>1, <1>2

LEMMA DdlInit == Init => DdlInv
<1> SUFFICES ASSUME Init PROVE DdlInv
  OBVIOUS
<1>1. /\ scenario \in Scenarios /\ def = scenario.defs /\ reg = scenario.reg
      /\ scenario.defs \in [Names -> {Absent} \cup SUBSET Fields] /\ scenario.reg \in Registries
      /\ form = scenario.form /\ form \in [Names -> Forms] /\ spoilt = {}
  BY DdlConstantsAssumption DEF Init, Registries
<1>2. def \in [Names -> Columns] /\ reg \in Registries
  BY <1>1 DEF Columns
<1>3. TypeOK
  <2>1. dir \in [Names -> BOOLEAN] /\ \A n \in Names : dir[n] = (def[n] # Absent)
    BY Zenon DEF Init
  <2>2. recs \in [Names -> [Files -> Columns]]
    BY <1>2 DEF Init
  <2>3. lock \in [Names -> Procs \cup {None}] /\ pc \in [Procs -> PCs] /\ job \in [Procs -> Jobs]
        /\ outcome \in [Procs -> Outcomes]
    BY NoJobTyped DEF Init, PCs, Outcomes
  <2>4. calls \in 0..MaxCalls /\ faults \in 0..MaxFaults
    BY DdlConstantsAssumption DEF Init
  <2>5. \A n \in Names : def[n] # Absent => dir[n]
    BY <2>1, Zenon
  <2> QED BY <1>1, <1>2, <2>1, <2>2, <2>3, <2>4, <2>5 DEF TypeOK
<1>4. \A p \in Procs : pc[p] = "idle"
  BY DEF Init
<1> QED BY <1>3, <1>4 DEF DdlInv, Fits, Safe, Owns, Knows, Swept, Shielded, Holding,
                       CreatePCs, DropPCs, AlterPCs

LEMMA DdlInvariant == Spec => []DdlInv
BY DdlInit, DdlStep, PTL DEF Spec

-----------------------------------------------------------------------------
(* The theorems. *)

\* Every variable keeps its type, and a definition is in a directory that exists.
THEOREM TypeCorrect == Spec => []TypeOK
<1>1. DdlInv => TypeOK
  BY DEF DdlInv
<1> QED BY <1>1, DdlInvariant, PTL

\* What the properties say of a step holds of every process.
LEMMA EveryPromise ==
  ASSUME DdlInv, [Next]_vars, NEW p \in Procs
  PROVE  Promise(p)
<1>1. CASE pc'[p] = pc[p] \/ pc[p] = "idle"
  BY <1>1 DEF Promise, Returns
<1>2. CASE pc'[p] # pc[p] /\ pc[p] # "idle"
  <2>1. Next
    BY <1>2 DEF vars
  <2>2. PICK q \in Procs : Call(q) \/ Does(q)
    BY <2>1, Steps
  <2>3. q = p /\ ~Call(q)
    BY <1>2, <2>2, CallInv DEF Does, Others
  <2> QED BY <2>2, <2>3 DEF Does
<1> QED BY <1>1, <1>2

\* AlterCollection applies its operation to the definition that is on disk when it
\* flushes: the lock from read to flush keeps every other alteration, however
\* many processes alter, fail and die.
THEOREM AltersAreNotLost == Spec => NoLostAlter
<1> DEFINE A == \A p \in Procs : (job[p].alone /\ pc[p] = "flush" /\ pc'[p] = "apply") =>
                  /\ def[Name(p)] \notin {Absent, Torn}
                  /\ def'[Name(p)] = Applied(job[p].op, def[Name(p)])
<1>1. ASSUME DdlInv, [Next]_vars PROVE [A]_vars
  <2> SUFFICES ASSUME NEW p \in Procs, job[p].alone, pc[p] = "flush", pc'[p] = "apply"
               PROVE  /\ def[Name(p)] \notin {Absent, Torn}
                      /\ def'[Name(p)] = Applied(job[p].op, def[Name(p)])
    OBVIOUS
  <2>1. Knows(p)
    BY <1>1 DEF DdlInv, Safe
  <2>2. def'[Name(p)] = job[p].mem
    BY <1>1, EveryPromise DEF Promise
  <2> QED BY <2>1, <2>2 DEF Knows
<1> QED BY <1>1, DdlInvariant, PTL DEF Spec, NoLostAlter

\* When the definition of a collection with a YAML file per record loses a column,
\* every .yaml record file has lost the field.
THEOREM ColumnsLeaveRecords == Spec => ColumnLeavesEveryRecord
<1> DEFINE A == \A p \in Procs :
                  (/\ job[p].alone /\ pc[p] = "flush" /\ pc'[p] = "apply"
                   /\ form'[Name(p)] = "yaml" /\ job[p].op.from # None) =>
                    \A f \in YamlFiles :
                      recs'[Name(p)][f] = Absent \/ job[p].op.from \notin recs'[Name(p)][f]
<1>1. ASSUME DdlInv, [Next]_vars PROVE [A]_vars
  <2> SUFFICES ASSUME NEW p \in Procs, job[p].alone, pc[p] = "flush", pc'[p] = "apply",
                      form'[Name(p)] = "yaml", job[p].op.from # None, NEW f \in YamlFiles
               PROVE  recs'[Name(p)][f] = Absent \/ job[p].op.from \notin recs'[Name(p)][f]
    OBVIOUS
  <2>1. Swept(p)
    BY <1>1 DEF DdlInv, Safe
  <2>2. recs' = recs /\ job[p].form = "yaml"
    BY <1>1, EveryPromise DEF Promise
  <2> QED BY <2>1, <2>2 DEF Swept, Clean
<1> QED BY <1>1, DdlInvariant, PTL DEF Spec, ColumnLeavesEveryRecord

\* When a create returns success the collection is registered and has a definition,
\* a whole one unless the call found a torn one or another call's write of it
\* failed; a drop that found the collection leaves nothing of it.
THEOREM CallsTakeEffect == Spec => DdlTakesEffect
<1> DEFINE A == \A p \in Procs : job[p].alone =>
                  /\ job[p].call = "create" /\ Returns(p, {"ok"}) =>
                       /\ reg'[Name(p)] = "self" /\ def'[Name(p)] # Absent
                       /\ p \notin spoilt => def'[Name(p)] # Torn
                  /\ pc[p] \in {"deregister", "dropEntry"} /\ Returns(p, {"ok"}) =>
                       /\ reg'[Name(p)] = "none" /\ def'[Name(p)] = Absent
                       /\ \A f \in Files : recs'[Name(p)][f] = Absent
<1>1. ASSUME DdlInv, [Next]_vars PROVE [A]_vars
  <2>1. ASSUME NEW p \in Procs, job[p].alone, Returns(p, {"ok"}), job[p].call = "create"
        PROVE  /\ reg'[Name(p)] = "self" /\ def'[Name(p)] # Absent
               /\ p \notin spoilt => def'[Name(p)] # Torn
    <3>1. Knows(p) /\ Fits(p)
      BY <1>1, <2>1 DEF DdlInv, Safe
    <3>2. Promise(p)
      BY <1>1, EveryPromise
    <3>3. pc[p] \notin DropPCs \cup AlterPCs
      BY <2>1, <3>1 DEF Fits
    <3> QED BY <2>1, <3>1, <3>2, <3>3 DEF Promise, Knows, DropPCs, AlterPCs
  <2>2. ASSUME NEW p \in Procs, job[p].alone, Returns(p, {"ok"}), pc[p] \in {"deregister", "dropEntry"}
        PROVE  /\ reg'[Name(p)] = "none" /\ def'[Name(p)] = Absent
               /\ \A f \in Files : recs'[Name(p)][f] = Absent
    <3>1. Knows(p)
      BY <1>1, <2>2 DEF DdlInv, Safe
    <3>2. Promise(p)
      BY <1>1, EveryPromise
    <3> QED BY <2>2, <3>1, <3>2 DEF Promise, Knows
  <2> QED BY <2>1, <2>2
<1> QED BY <1>1, DdlInvariant, PTL DEF Spec, DdlTakesEffect
=============================================================================
