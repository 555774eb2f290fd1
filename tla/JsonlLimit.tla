------------------------------ MODULE JsonlLimit ------------------------------
(***************************************************************************)
(* Reading a JSONL stream into memory (rooted_files.go: readJSONLContent,  *)
(* growRootedJSONLBuffer, probeRootedJSONLOverflow, readJSONLRecords,      *)
(* recoverJSONLTailWithLimit), with or without a limit on its bytes.       *)
(*                                                                         *)
(* The reader may return fewer bytes than asked for, none, or an error.    *)
(* The read of a LockedFiles view makes two passes: the first takes an     *)
(* unterminated tail away, the second reads what is left.  The file lock   *)
(* is held, so nobody else changes the stream; RootedFiles models who      *)
(* reads and writes it when.                                               *)
(*                                                                         *)
(* A stream is counted in bytes: those up to the last newline and those    *)
(* behind it.                                                              *)
(***************************************************************************)
EXTENDS Integers

CONSTANTS
  InitialCapacity,    \* rootedJSONLInitialReadCapacity
  MaxInt,             \* the largest int
  Sizes,              \* how many bytes a stream may have up to its last newline, or behind it
  Limits,             \* the limits that callers ask for
  MaxCalls            \* bound: reads begun

ASSUME LimitConstantsAssumption ==
  /\ InitialCapacity \in Nat \ {0}
  /\ MaxInt \in Nat \ {0}
  /\ Sizes \subseteq Nat
  /\ Limits \subseteq Int
  /\ MaxCalls \in Nat

VARIABLES
  committed,          \* bytes of the stream up to its last newline
  tail,               \* bytes behind it
  malformed,          \* a committed line is not a JSON object
  pc,                 \* "idle", or in a read: "all", "fill", "parse"
  pass,               \* "recover" or "read"
  limited, maxBytes,  \* the caller's limit
  len, cap,           \* length and capacity of content
  result,             \* how the last read returned
  calls

vars == <<committed, tail, malformed, pc, pass, limited, maxBytes, len, cap, result, calls>>
stream  == <<committed, tail, malformed>>
request == <<limited, maxBytes>>

Size == committed + tail

Results == {"none", "ok", "invalid", "exceeded", "interrupted", "malformed", "failed"}

TypeOK ==
  /\ committed \in Nat /\ tail \in Nat /\ malformed \in BOOLEAN
  /\ pc \in {"idle", "all", "fill", "parse"}
  /\ pass \in {"recover", "read"}
  /\ limited \in BOOLEAN
  /\ maxBytes \in 1..MaxInt
  /\ len \in 0..Size
  /\ cap \in 0..MaxInt
  /\ pc = "fill" => limited /\ len <= cap
  /\ result \in Results
  /\ calls \in 0..MaxCalls

-----------------------------------------------------------------------------
\* minRootedJSONLReadCapacity
FirstCapacity(m) == IF m < InitialCapacity THEN m ELSE InitialCapacity

\* The call returns; what it read is kept for the caller to look at.
Return(r) ==
  /\ pc' = "idle"
  /\ result' = r
  /\ UNCHANGED <<pass, limited, maxBytes, calls>>

\* Seek to the start and a fresh buffer, for a pass of a read.
StartPass(l, m) ==
  /\ pc' = IF l THEN "fill" ELSE "all"
  /\ len' = 0
  /\ cap' = IF l THEN FirstCapacity(m) ELSE 0

\* Mutant: the limit is not looked at.
ValidUnchecked(m) == m \in Int

\* rootedJSONLBufferSizeWithMax
Valid(m) == 0 < m /\ m <= MaxInt

Begin ==
  /\ pc = "idle" /\ calls < MaxCalls
  /\ calls' = calls + 1
  /\ UNCHANGED stream

\* ReadJSONLWithLimit of the handle (first pass "read") or of a view ("recover").
ReadJSONLWithLimit(p, m) ==
  /\ Begin
  /\ IF Valid(m)
       THEN /\ limited' = TRUE /\ maxBytes' = m /\ pass' = p
            /\ result' = "none"
            /\ StartPass(TRUE, m)
       ELSE /\ result' = "invalid"
            /\ UNCHANGED <<pc, pass, limited, maxBytes, len, cap>>

\* ReadJSONL
ReadJSONL(p) ==
  /\ Begin
  /\ limited' = FALSE /\ pass' = p /\ result' = "none"
  /\ UNCHANGED maxBytes
  /\ StartPass(FALSE, maxBytes)

-----------------------------------------------------------------------------
(* readJSONLContent. *)

\* Without a limit: io.ReadAll.
ReadAll ==
  /\ pc = "all"
  /\ len' = Size
  /\ pc' = "parse"
  /\ UNCHANGED <<stream, request, pass, cap, result, calls>>

Full == len = cap

\* Mutant: the capacity is doubled, whatever the limit.
GrownUncapped(m) == cap + cap

\* Mutant: a capacity that cannot be doubled stays.
GrownNever(m) == IF cap > m - cap THEN cap ELSE cap + cap

\* growRootedJSONLBuffer: the capacity doubles up to the limit.
Grown(m) == cap + (IF cap > m - cap THEN m - cap ELSE cap)

Grow ==
  /\ pc = "fill" /\ Full /\ cap # maxBytes
  /\ cap' = Grown(maxBytes)
  /\ UNCHANGED <<stream, request, pc, pass, len, result, calls>>

\* Mutant: a short read is taken for the end.
ReadShortIsLast(n) ==
  /\ pc = "fill" /\ ~Full
  /\ n \in 1..(cap - len) /\ len + n <= Size
  /\ len' = len + n
  /\ pc' = IF n < cap - len THEN "parse" ELSE pc
  /\ UNCHANGED <<stream, request, pass, cap, result, calls>>

\* The reader fills a part of the buffer, and may tell the end at once.
Read(n) ==
  /\ pc = "fill" /\ ~Full
  /\ n \in 1..(cap - len) /\ len + n <= Size
  /\ len' = len + n
  /\ pc' \in {pc} \cup (IF len + n = Size THEN {"parse"} ELSE {})
  /\ UNCHANGED <<stream, request, pass, cap, result, calls>>

\* No byte is left: io.EOF.
ReadEnd ==
  /\ pc = "fill" /\ ~Full
  /\ len = Size
  /\ pc' = "parse"
  /\ UNCHANGED <<stream, request, pass, len, cap, result, calls>>

\* The seek or io.ReadAll fails, or the reader returns no byte and no error
\* (io.ErrNoProgress), an error, or a count that cannot be; the probe handles them
\* in the same way.
ReadFails ==
  /\ pc = "all" \/ (pc = "fill" /\ (Full => cap = maxBytes))
  /\ Return("failed")
  /\ UNCHANGED <<stream, len, cap>>

\* Mutant: a full buffer is taken for the whole stream.
ProbeNothing ==
  /\ pc = "fill" /\ Full /\ cap = maxBytes
  /\ pc' = "parse"
  /\ UNCHANGED <<stream, request, pass, len, cap, result, calls>>

\* probeRootedJSONLOverflow: one byte more than the limit is too many.
Probe ==
  /\ pc = "fill" /\ Full /\ cap = maxBytes
  /\ IF len < Size
       THEN Return("exceeded")
       ELSE pc' = "parse" /\ UNCHANGED <<request, pass, result, calls>>
  /\ UNCHANGED <<stream, len, cap>>

-----------------------------------------------------------------------------
(* What is done with the content. *)

\* What the content has up to its last newline; the content of a complete read
\* is the stream.
Lines == IF len < committed THEN len ELSE committed

\* recoverJSONLTailWithLimit: malformed lines are reported and stay, the file is
\* truncated behind the last newline of the content, and the second pass begins.
Recover ==
  /\ pc = "parse" /\ pass = "recover"
  /\ IF malformed
       THEN Return("malformed") /\ UNCHANGED <<stream, len, cap>>
       ELSE /\ committed' = Lines /\ tail' = 0
            /\ pass' = "read"
            /\ StartPass(limited, maxBytes)
            /\ UNCHANGED <<malformed, request, result, calls>>

\* The truncation or its sync fails; the file is as it was or cut.
RecoverFails ==
  /\ pc = "parse" /\ pass = "recover" /\ ~malformed /\ len # Lines
  /\ Return("failed")
  /\ \/ UNCHANGED <<committed, tail>>
     \/ committed' = Lines /\ tail' = 0
  /\ len' = 0
  /\ UNCHANGED <<malformed, cap>>

\* readJSONLRecords
Parse ==
  /\ pc = "parse" /\ pass = "read"
  /\ Return(IF len > committed THEN "interrupted"
            ELSE IF malformed THEN "malformed" ELSE "ok")
  /\ UNCHANGED <<stream, len, cap>>

-----------------------------------------------------------------------------
Init ==
  /\ committed \in Sizes /\ tail \in Sizes
  /\ malformed \in (IF committed = 0 THEN {FALSE} ELSE BOOLEAN)
  /\ pc = "idle" /\ pass = "read"
  /\ limited = FALSE /\ maxBytes = MaxInt
  /\ len = 0 /\ cap = 0
  /\ result = "none"
  /\ calls = 0

Step ==
  \/ ReadAll \/ Grow \/ (\E n \in 1..Size : Read(n)) \/ ReadEnd \/ ReadFails \/ Probe
  \/ Recover \/ RecoverFails \/ Parse

Next ==
  \/ \E p \in {"recover", "read"} : \/ \E m \in Limits : ReadJSONLWithLimit(p, m)
                                    \/ ReadJSONL(p)
  \/ Step

Spec == Init /\ [][Next]_vars

\* A read that runs goes on: the code does not wait in it.
FairSpec == Spec /\ WF_vars(Step)

-----------------------------------------------------------------------------
(* Properties. *)

\* A read that succeeds has the whole stream, within its limit and without an
\* unterminated line; it is refused as too long exactly if its stream, the
\* unterminated tail included, is longer than the limit, and as interrupted only
\* if it has such a tail, however the reader cuts the bytes into pieces
\* (readJSONLContent, probeRootedJSONLOverflow, readJSONLRecords).
LimitVerdict ==
  /\ result \in {"ok", "interrupted", "malformed"} =>
       len = Size /\ (limited => Size <= maxBytes)
  /\ result = "ok" => tail = 0 /\ ~malformed
  /\ result = "exceeded" => limited /\ Size > maxBytes
  /\ result = "interrupted" => tail > 0

\* The buffer never has more than the limit, and never more than twice what was
\* read unless it is the first one (growRootedJSONLBuffer: "buffer capacity never
\* exceeds maxBytes, without preallocating").
CapacityBounded ==
  (limited /\ pc # "idle") =>
    /\ cap <= maxBytes
    /\ cap <= InitialCapacity \/ cap <= 2 * len

\* No read takes a committed byte away, also when the one before it failed, was
\* refused or left the file half recovered; a read of the handle itself leaves
\* the tail too (recoverJSONLTailWithLimit).
CommittedBytesStay ==
  [][/\ committed' = committed
     /\ tail' # tail => tail' = 0 /\ pass = "recover" /\ ~malformed]_vars

\* Every read returns, whatever the reader does (readJSONLContent grows its
\* buffer, or reads into it, or ends, in every round).
ReadReturns == pc # "idle" ~> pc = "idle"
=============================================================================
