--------------------------- MODULE MCOwnerPolicy ---------------------------
(* Instances of OwnerPolicy for TLC. *)
EXTENDS OwnerPolicy, TLC

CONSTANTS h1, h2, c1, c2, r1, r2

\* Two goroutines share one mounted database.
OneHandle  == {h1}
TwoCallers == {c1, c2}
SharedHome == [c \in TwoCallers |-> h1]

\* A second process works on the same repository.
TwoHandles == {h1, h2}
TwoHomes   == (c1 :> h1) @@ (c2 :> h2)

\* One process with one goroutine.
OneCaller == {c1}
OneHome   == (c1 :> h1)

TwoRevs == {r1, r2}
FreshOrPublished == {None, r1}
LegacyFlat == {Flat}
AnyStart == {None, Flat, Disabled, r1}

ErrorsAndCrashes == {"error", "crash"}
ErrorsAndGit == {"error", "git"}
NoPowerLoss == {"error", "git", "crash"}
GitAnswers == {"error", "crash", "power"}
=============================================================================
