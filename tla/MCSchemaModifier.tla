-------------------------- MODULE MCSchemaModifier --------------------------
(* Small instances of SchemaModifier. *)
EXTENDS SchemaModifier

CONSTANTS p1, p2, n1, n2, a, b

TwoProcs  == {p1, p2}
TwoNames  == {n1, n2}
TwoFields == {a, b}
ThreeFiles == {1, 2, 3}
OneAndTwo  == {1, 2}

Defined(S) == [n \in TwoNames |-> IF n \in S THEN {a} ELSE Absent]
Entries(S) == [n \in TwoNames |-> IF n \in S THEN "self" ELSE "none"]
Form(k)    == [n \in TwoNames |-> k]

\* Two processes alter one collection; errors and crashes, then new attempts.
Altering == [procs |-> TwoProcs, names |-> {n1}, kinds |-> {"create", "alter"},
             defs |-> Defined({n1}), reg |-> Entries({n1}), form |-> Form("yaml"),
             calls |-> 4, ops |-> 2, faults |-> 2]
\* One process creates, drops and alters two collections; errors and crashes.
Managing == [procs |-> {p1}, names |-> TwoNames, kinds |-> {"create", "drop", "alter"},
             defs |-> Defined({n1}), reg |-> Entries({n1}), form |-> Form("yaml"),
             calls |-> 3, ops |-> 1, faults |-> 2]
\* The registry has the second name with another path.
Conflicting == [Managing EXCEPT
                !.reg = [n \in TwoNames |-> IF n = n1 THEN "self" ELSE "other"]]
\* Two processes make every kind of call of one collection.
Overlapping == [procs |-> TwoProcs, names |-> {n1}, kinds |-> {"create", "drop", "alter"},
                defs |-> Defined({n1}), reg |-> Entries({n1}), form |-> Form("yaml"),
                calls |-> 3, ops |-> 1, faults |-> 2]
\* The collection that there is at first is not in YAML.
OtherFormat == [Managing EXCEPT !.names = {n1}, !.form = Form("other"), !.faults = 1]
AllScenarios == {Altering, Managing, Conflicting, Overlapping, OtherFormat}

\* One process alters one collection of maps of records.
AlteringOnce == {[procs |-> {p1}, names |-> {n1}, kinds |-> {"alter"}, defs |-> Defined({n1}),
                  reg |-> Entries({n1}), form |-> Form("map"), calls |-> 1, ops |-> 1, faults |-> 0]}
=============================================================================
