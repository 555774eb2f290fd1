--------------------------- MODULE JsonlLimitProofs ---------------------------
(***************************************************************************)
(* Proofs about JsonlLimit, for every first capacity, every largest        *)
(* integer, every stream and every limit.                                  *)
(***************************************************************************)
EXTENDS JsonlLimit, TLAPS

\* What holds inside a read: nothing has been decided, the buffer is there only
\* if there is a limit, and content that is parsed is the whole stream and, with
\* a limit, fits the buffer.
Reading ==
  /\ pc # "idle" => result = "none"
  /\ pc = "all" => ~limited
  /\ pc = "parse" => len = Size /\ (limited => len <= cap)

\* The inductive invariant.
LimitInv == TypeOK /\ CapacityBounded /\ LimitVerdict /\ Reading

\* A valid limit gives a first buffer that is within it and not empty
\* (minRootedJSONLReadCapacity).
LEMMA FirstCapacityFits ==
  ASSUME NEW m \in Int, Valid(m)
  PROVE  /\ FirstCapacity(m) \in 1..m
         /\ FirstCapacity(m) <= InitialCapacity
  BY LimitConstantsAssumption DEF Valid, FirstCapacity

\* A buffer below the limit grows, to at most the limit and at most twice its
\* capacity, and no intermediate sum is larger (growRootedJSONLBuffer).
LEMMA GrownFits ==
  ASSUME NEW m \in Nat, cap \in 0..m, cap # m
  PROVE  /\ Grown(m) \in Nat
         /\ Grown(m) >= cap
         /\ Grown(m) <= m
         /\ Grown(m) <= 2 * cap
  BY DEF Grown

\* The initial states satisfy the invariant.
LEMMA InitLimit == Init => LimitInv
  <1> SUFFICES ASSUME Init PROVE LimitInv OBVIOUS
  <1>1. malformed \in BOOLEAN /\ limited \in BOOLEAN BY DEF Init
  <1>2. /\ committed \in Nat /\ tail \in Nat /\ len \in 0..Size
        /\ cap \in 0..MaxInt /\ maxBytes \in 1..MaxInt /\ calls \in 0..MaxCalls
    BY LimitConstantsAssumption DEF Init, Size
  <1>3. TypeOK BY <1>1, <1>2 DEF Init, TypeOK, Results
  <1>4. CapacityBounded /\ LimitVerdict /\ Reading
    BY DEF Init, CapacityBounded, LimitVerdict, Reading
  <1> QED BY <1>3, <1>4 DEF LimitInv

\* A read without a limit begins (ReadJSONL).
LEMMA UnlimitedKeeps ==
  ASSUME LimitInv, NEW p \in {"recover", "read"}, ReadJSONL(p)
  PROVE  LimitInv'
  <1>1. /\ limited' = FALSE /\ pc' = "all" /\ pass' = p /\ result' = "none"
        /\ len' = 0 /\ cap' = 0
        /\ UNCHANGED <<committed, tail, malformed, maxBytes>>
    BY DEF ReadJSONL, Begin, StartPass, stream
  <1>2. calls' \in 0..MaxCalls
    BY LimitConstantsAssumption DEF ReadJSONL, Begin, LimitInv, TypeOK
  <1>3. committed \in Nat /\ tail \in Nat /\ MaxInt \in Nat
    BY LimitConstantsAssumption DEF LimitInv, TypeOK
  <1>4. 0 \in 0..(committed + tail) /\ 0 \in 0..MaxInt BY <1>3
  <1>5. TypeOK' BY <1>1, <1>2, <1>4 DEF LimitInv, TypeOK, Size, Results
  <1>6. (CapacityBounded /\ LimitVerdict /\ Reading)'
    BY <1>1 DEF CapacityBounded, LimitVerdict, Reading
  <1> QED BY <1>5, <1>6 DEF LimitInv

\* A read with a limit begins, or is refused for its limit (ReadJSONLWithLimit).
LEMMA LimitedKeeps ==
  ASSUME LimitInv, NEW p \in {"recover", "read"}, NEW m \in Limits,
         ReadJSONLWithLimit(p, m)
  PROVE  LimitInv'
  <1>0. m \in Int BY LimitConstantsAssumption
  <1>2. CASE ReadJSONLWithLimit(p, m) /\ Valid(m)
    <2>1. /\ FirstCapacity(m) \in 1..m
          /\ FirstCapacity(m) <= InitialCapacity
          /\ m \in 1..MaxInt
      BY <1>0, <1>2, FirstCapacityFits, LimitConstantsAssumption DEF Valid
    <2>2. QED
      BY <1>2, <2>1, LimitConstantsAssumption
         DEF ReadJSONLWithLimit, Begin, StartPass, stream, LimitInv, TypeOK, CapacityBounded,
             LimitVerdict, Reading, Size, Results
  <1>3. CASE ReadJSONLWithLimit(p, m) /\ ~Valid(m)
    BY <1>3, LimitConstantsAssumption
       DEF ReadJSONLWithLimit, Begin, stream, LimitInv, TypeOK, CapacityBounded, LimitVerdict,
           Reading, Size, Results
  <1> QED BY <1>2, <1>3

\* A step of readJSONLContent.
LEMMA ContentKeeps ==
  ASSUME LimitInv, ReadAll \/ Grow \/ (\E n \in 1..Size : Read(n)) \/ ReadEnd \/ ReadFails \/ Probe
  PROVE  LimitInv'
  <1> USE LimitConstantsAssumption
      DEF stream, request, LimitInv, TypeOK, CapacityBounded, LimitVerdict, Reading, Size, Results
  <1>1. CASE ReadAll BY <1>1 DEF ReadAll
  <1>2. CASE Grow
    <2>1. cap \in 0..maxBytes /\ cap # maxBytes /\ maxBytes \in Nat BY <1>2 DEF Grow
    <2>2. /\ Grown(maxBytes) \in Nat /\ Grown(maxBytes) >= cap
          /\ Grown(maxBytes) <= maxBytes /\ Grown(maxBytes) <= 2 * cap
      BY <2>1, GrownFits
    <2>3. QED BY <1>2, <2>2 DEF Grow, Full
  <1>3. CASE \E n \in 1..Size : Read(n)
    <2>1. PICK n \in 1..Size : Read(n) BY <1>3
    <2>2. QED BY <2>1 DEF Read
  <1>4. CASE ReadEnd BY <1>4 DEF ReadEnd
  <1>5. CASE ReadFails BY <1>5 DEF ReadFails, Return
  <1>6. CASE Probe
    <2>1. pc = "fill" /\ limited /\ len = cap /\ cap = maxBytes /\ result = "none"
      BY <1>6 DEF Probe, Full
    <2>2. CASE len < Size
      <3>1. pc' = "idle" /\ result' = "exceeded" /\ UNCHANGED <<stream, request, pass, len, cap, calls>>
        BY <1>6, <2>2 DEF Probe, Return
      <3>2. QED BY <2>1, <2>2, <3>1
    <2>3. CASE ~(len < Size)
      <3>1. pc' = "parse" /\ UNCHANGED <<stream, request, pass, len, cap, result, calls>>
        BY <1>6, <2>3 DEF Probe
      <3>2. QED BY <2>1, <2>3, <3>1
    <2> QED BY <2>2, <2>3
  <1> QED BY <1>1, <1>2, <1>3, <1>4, <1>5, <1>6

\* What is done with complete content keeps the invariant, and cuts the stream at
\* its last newline if at all (recoverJSONLTailWithLimit, readJSONLRecords).
LEMMA ParseKeeps ==
  ASSUME LimitInv, Recover \/ RecoverFails \/ Parse
  PROVE  LimitInv' /\ committed' = committed
  <1> USE LimitConstantsAssumption
      DEF stream, request, LimitInv, TypeOK, CapacityBounded, LimitVerdict, Reading, Size, Results
  <1>1. pc = "parse" => Lines = committed BY DEF Lines
  <1>2. CASE Recover /\ malformed BY <1>2 DEF Recover, Return
  <1>3. CASE Recover /\ ~malformed
    <2>1. Valid(maxBytes) /\ maxBytes \in Int BY DEF Valid
    <2>2. FirstCapacity(maxBytes) \in 1..maxBytes /\ FirstCapacity(maxBytes) <= InitialCapacity
      BY <2>1, FirstCapacityFits
    <2>3. QED BY <1>1, <1>3, <2>2 DEF Recover, StartPass
  <1>4. CASE RecoverFails BY <1>1, <1>4 DEF RecoverFails, Return
  <1>5. CASE Parse BY <1>5 DEF Parse, Return
  <1> QED BY <1>2, <1>3, <1>4, <1>5

\* Every step keeps the invariant.
LEMMA NextLimit == LimitInv /\ [Next]_vars => LimitInv'
  <1> SUFFICES ASSUME LimitInv, [Next]_vars PROVE LimitInv' OBVIOUS
  <1>1. CASE \E p \in {"recover", "read"} : \/ \E m \in Limits : ReadJSONLWithLimit(p, m)
                                            \/ ReadJSONL(p)
    <2>1. CASE \E p \in {"recover", "read"} : \E m \in Limits : ReadJSONLWithLimit(p, m)
      BY <2>1, LimitedKeeps
    <2>2. CASE \E p \in {"recover", "read"} : ReadJSONL(p)
      BY <2>2, UnlimitedKeeps
    <2> QED BY <1>1, <2>1, <2>2
  <1>2. CASE Step BY <1>2, ContentKeeps, ParseKeeps DEF Step
  <1>3. CASE UNCHANGED vars
    BY <1>3 DEF vars, LimitInv, TypeOK, CapacityBounded, LimitVerdict, Reading, Size
  <1> QED BY <1>1, <1>2, <1>3 DEF Next

\* JsonlLimit is type-correct for every limit, stream and reader.
THEOREM TypeCorrect == Spec => []TypeOK
  <1>1. LimitInv => TypeOK BY DEF LimitInv
  <1>2. QED BY <1>1, InitLimit, NextLimit, PTL DEF Spec

\* For every limit and stream, and every way in which a reader returns the bytes,
\* readJSONLContent never has a larger buffer than the limit, nor, after the first,
\* than twice what it has read.
THEOREM BufferStaysBounded == Spec => []CapacityBounded
  <1>1. LimitInv => CapacityBounded BY DEF LimitInv
  <1>2. QED BY <1>1, InitLimit, NextLimit, PTL DEF Spec

\* For every limit and stream, the limited read ends with the verdict that the size
\* of the stream calls for, however the reader cut the bytes up (readJSONLContent
\* and its callers).
THEOREM LimitedReadIsSound == Spec => []LimitVerdict
  <1>1. LimitInv => LimitVerdict BY DEF LimitInv
  <1>2. QED BY <1>1, InitLimit, NextLimit, PTL DEF Spec

\* The steps of readJSONLContent and the refusals leave the stream alone.
LEMMA OthersLeaveStream ==
  ASSUME Next, ~Recover, ~RecoverFails
  PROVE  UNCHANGED <<committed, tail>>
  <1>1. CASE \E p \in {"recover", "read"}, m \in Limits : ReadJSONLWithLimit(p, m)
    BY <1>1 DEF ReadJSONLWithLimit, Begin, stream
  <1>2. CASE \E p \in {"recover", "read"} : ReadJSONL(p)
    BY <1>2 DEF ReadJSONL, Begin, stream
  <1>3. CASE Step
    BY <1>3 DEF Step, ReadAll, Grow, Read, ReadEnd, ReadFails, Probe, Parse, stream
  <1> QED BY <1>1, <1>2, <1>3 DEF Next

\* No read takes a committed byte away, and only a recovering read of a stream
\* whose lines are sound takes the tail (recoverJSONLTailWithLimit).
THEOREM CommittedIsKept == Spec => CommittedBytesStay
  <1> DEFINE Kept == /\ committed' = committed
                     /\ tail' # tail => tail' = 0 /\ pass = "recover" /\ ~malformed
  <1>1. LimitInv /\ [Next]_vars => [Kept]_vars
    <2> SUFFICES ASSUME LimitInv, Next PROVE Kept BY DEF vars
    <2>1. CASE Recover BY <2>1, ParseKeeps DEF Recover, stream
    <2>2. CASE RecoverFails BY <2>2, ParseKeeps DEF RecoverFails
    <2>3. CASE ~Recover /\ ~RecoverFails BY <2>3, OthersLeaveStream
    <2> QED BY <2>1, <2>2, <2>3
  <1>2. QED BY <1>1, InitLimit, NextLimit, PTL DEF Spec, CommittedBytesStay
=============================================================================
