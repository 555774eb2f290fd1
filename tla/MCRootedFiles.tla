---------------------------- MODULE MCRootedFiles ----------------------------
(* Small instances of RootedFiles. *)
EXTENDS RootedFiles

CONSTANTS h1, h2, t1, t2

TwoHandles == {h1, h2}
TwoThreads == {t1, t2}

\* Two goroutines share a handle, or each is a process of its own.
Together == [t \in TwoThreads |-> h1]
Apart    == [t \in TwoThreads |-> IF t = t1 THEN h1 ELSE h2]

\* Two processes append to and read the stream.
Appending == [home |-> Apart, ops |-> {"append", "read"}, views |-> {}, calls |-> 3, faults |-> 2]
\* Two processes replay the stream and append to it under the advisory lock.
Replaying == [home |-> Apart, ops |-> {"lock"}, views |-> {"recover", "append"}, calls |-> 6, faults |-> 1]
\* Two processes publish a document and make a directory.
Publishing == [home |-> Apart, ops |-> {"write", "get", "ensure"}, views |-> {}, calls |-> 3, faults |-> 2]
\* A goroutine closes the handle while the other one works on it.
Closing == [home |-> Together, ops |-> {"append", "lock", "close"}, views |-> {"write", "get"},
            calls |-> 4, faults |-> 1]
AllSettings == {Appending, Replaying, Publishing, Closing}
FirstAppends == {[home |-> Apart, ops |-> {"append"}, views |-> {}, calls |-> 2, faults |-> 2]}

AllFaults == {"error", "kill", "power"}
Crashes   == {"kill", "power"}
=============================================================================
