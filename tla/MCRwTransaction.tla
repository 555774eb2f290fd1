--------------------------- MODULE MCRwTransaction ---------------------------
(* Small instances of RwTransaction: a parent record in a file of its own and *)
(* a child record in a map of records.                                        *)
EXTENDS RwTransaction

CONSTANTS p1, p2, parent, child

TwoProcs     == {p1, p2}
TwoKeys      == {parent, child}
OneParent    == {parent}
TwoFiles     == {1, 2}
MapFile      == {2}
TwoKeyPaths  == [k \in TwoKeys |-> IF k = parent THEN 1 ELSE 2]

\* Two transactions of two operations, one fault.
Contending == [kinds |-> {"error", "crash", "killed", "panic"}, txs |-> 2, ops |-> 2, faults |-> 1]
\* One transaction of two operations, two faults: a write fails and so does its rollback.
Failing    == [kinds |-> {"error", "crash", "killed", "panic"}, txs |-> 1, ops |-> 2, faults |-> 2]
\* Two transactions of one operation, two faults.
Recovering == [kinds |-> {"error", "crash", "killed"}, txs |-> 2, ops |-> 1, faults |-> 2]
\* Git cannot be run when a transaction looks for the lock file or the work tree.
GitMissing == [kinds |-> {"nogit", "error"}, txs |-> 1, ops |-> 2, faults |-> 1]
AllScenarios == {Contending, Failing, Recovering, GitMissing}
=============================================================================
