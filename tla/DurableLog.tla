------------------------------ MODULE DurableLog ------------------------------
(***************************************************************************)
(* What RootedFiles promises of a JSONL stream, and of the versions of an  *)
(* atomically published JSON document: entries are added at the end, each  *)
(* once and whole; an entry may be acknowledged once it is there; a        *)
(* failure of the machine may take entries from the end, but none up to    *)
(* the last acknowledged one.                                              *)
(***************************************************************************)
EXTENDS Naturals, Sequences

CONSTANT Entries

VARIABLES log, acked

Present(s) == {s[i] : i \in 1..Len(s)}

Init == log = <<>> /\ acked = {}

Add(e) ==
  /\ e \notin Present(log)
  /\ log' = Append(log, e)
  /\ UNCHANGED acked

Acknowledge(e) ==
  /\ e \in Present(log)
  /\ acked' = acked \cup {e}
  /\ UNCHANGED log

Lose(n) ==
  /\ log' = SubSeq(log, 1, n)
  /\ acked \subseteq Present(SubSeq(log, 1, n))
  /\ UNCHANGED acked

Next ==
  \/ \E e \in Entries : Add(e) \/ Acknowledge(e)
  \/ \E n \in 0..Len(log) : Lose(n)

Spec == Init /\ [][Next]_<<log, acked>>
===============================================================================
