-------------------------- MODULE MCProtectedStorage --------------------------
(* Small instances of ProtectedStorage: a record in a file of its own and two   *)
(* records in a map.                                                            *)
EXTENDS ProtectedStorage, TLC

CONSTANTS c1, c2, k1, m1, m2, f, g

TwoClients  == {c1, c2}
ThreeKeys   == {k1, m1, m2}
TwoPaths    == {1, 2}
MapFile     == {2}
KeyPaths    == [k \in ThreeKeys |-> IF k = k1 THEN 1 ELSE 2]
TwoFields   == {f, g}
TwoValues   == {0, 1}

\* The second generation revokes the writes of a record in the map, the third
\* those of the other instead.
Revoking == <<ThreeKeys, ThreeKeys \ {m2}, ThreeKeys \ {m1}>>

Ones == [x \in TwoFields |-> 1]
F1   == [x \in {f} |-> 1]
G1   == [x \in {g} |-> 1]

Op(action, key, data) == [action |-> action, key |-> key, data |-> data]
\* Updates of different fields, batches that share a file, batches that span
\* files, and batches whose second operation may be refused.
SomeBatches ==
  {<<Op("update", m1, F1)>>,
   <<Op("update", m1, G1), Op("set", m2, Ones)>>,
   <<Op("set", k1, Ones), Op("insert", m2, Ones)>>,
   <<Op("delete", m1, <<>>), Op("update", m2, F1)>>,
   <<Op("delete", k1, <<>>), Op("update", m1, G1)>>}

\* Another program deletes a record of the map, adds one, or changes the other file.
SomeWrites == {<<m2, None>>, <<m2, Ones>>, <<k1, Ones>>}

\* An inspection, a call of the other client, and a batch on what was inspected.
Chained   == [calls |-> 3, writes |-> 0, faults |-> 0, manage |-> FALSE]
\* The same with another program between.
Disturbed == [calls |-> 2, writes |-> 1, faults |-> 1, manage |-> FALSE]
\* Policies are published, here and elsewhere, and reloaded around two calls, ...
Revoked   == [calls |-> 2, writes |-> 0, faults |-> 0, manage |-> TRUE]
\* ... or around one, and a publication, a reload or the call fails.
Failing   == [calls |-> 1, writes |-> 0, faults |-> 1, manage |-> TRUE]
AllScenarios == {Chained, Disturbed, Revoked, Failing}

ClientSymmetry == Permutations(TwoClients)
=============================================================================
