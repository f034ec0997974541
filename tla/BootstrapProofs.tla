--------------------------- MODULE BootstrapProofs ---------------------------
(***************************************************************************)
(* Proofs about EndpointBuilder::connect (Bootstrap): the retry budget of  *)
(* a DNS record holds for every set of records, every socket queue bound   *)
(* and whatever the network delivers.  RecordBudget is not inductive: a    *)
(* send must know that the earlier waits of the record plus the new        *)
(* backoff still fit in the schedule, so BootInv records how far the clock *)
(* and the deadline can be after the attempts made so far.                 *)
(***************************************************************************)
EXTENDS Bootstrap, SequenceTheorems, TLAPS

\* The backoffs and the sums of the schedule, for the four attempts.
LEMMA Powers ==
    /\ MaxAttempts = 4
    /\ Backoff(1) = 2 /\ Backoff(2) = 4 /\ Backoff(3) = 8 /\ Backoff(4) = 16
    /\ Waited(0) = 0 /\ Waited(1) = 2 /\ Waited(2) = 6 /\ Waited(3) = 14
    /\ Waited(4) = 30
    /\ WaitTotal = 30
  BY SMT DEF MaxAttempts, Backoff, Waited, WaitTotal

USE BootstrapAssumption, Powers

\* The wait started by attempt a + 1 ends within the waits of attempts
\* 1..a + 1, and those never exceed the whole schedule.
LEMMA WaitedStep ==
    ASSUME NEW a \in 0..3
    PROVE  /\ Waited(a) \in Nat /\ Waited(a + 1) \in Nat /\ Backoff(a + 1) \in Nat
           /\ Waited(a) + Backoff(a + 1) = Waited(a + 1)
           /\ Waited(a) <= Waited(a + 1)
  <1>1. a = 0 \/ a = 1 \/ a = 2 \/ a = 3
    OBVIOUS
  <1> QED
    BY <1>1, Powers

LEMMA WaitedBound ==
    ASSUME NEW a \in 0..4
    PROVE  Waited(a) \in Nat /\ Waited(a) <= WaitTotal
  <1>1. a = 0 \/ a = 1 \/ a = 2 \/ a = 3 \/ a = 4
    OBVIOUS
  <1> QED
    BY <1>1, Powers

\* The task starts before resolve, with nothing sent and the clock at 0.
LEMMA BootInit == Init => BootInv
  BY Powers DEF Init, BootInv, BootTypeOK, RecordBudget

\* A Fail step from any state of the task keeps the invariant: it only
\* ends the task with an error.
LEMMA FailKeeps ==
    ASSUME BootInv, Fail,
           UNCHANGED <<records, rec, sent, sock, now, deadline>>,
           attempts' \in 0..MaxAttempts + 1, sent <= attempts'
    PROVE  BootInv'
  BY DEF Fail, BootInv, BootTypeOK, RecordBudget

\* One pass of the inner loop: the attempt counter is incremented first,
\* so the send of attempt a + 1 sets a deadline within Waited(a + 1).
LEMMA AttemptKeeps ==
    ASSUME BootInv, Attempt
    PROVE  BootInv'
  <1> USE DEF BootInv
  <1>1. /\ bpc = "try"
        /\ attempts \in 0..MaxAttempts
        /\ now <= Waited(attempts)
        /\ attempts' = attempts + 1
        /\ UNCHANGED <<records, rec, now>>
    BY DEF Attempt, Pass, BootTypeOK
  <1>2. CASE attempts' > MaxAttempts /\ GiveUp
    BY <1>1, <1>2, WaitedBound, Powers DEF GiveUp, BootTypeOK, RecordBudget
  <1>3. CASE attempts' <= MaxAttempts /\ RecvResponse
    <2>1. sock # <<>> /\ sock \in Seq({"resp", "junk"})
          /\ Tail(sock) \in Seq({"resp", "junk"}) /\ Len(Tail(sock)) <= Len(sock)
      BY <1>3, HeadTailProperties DEF RecvResponse, BootTypeOK
    <2>2. CASE bpc' = "done" /\ result' = "ok"
      BY <1>1, <1>3, <2>1, <2>2 DEF RecvResponse, BootTypeOK, RecordBudget
    <2>3. CASE Fail
      BY <1>1, <1>3, <2>1, <2>3 DEF RecvResponse, Fail, BootTypeOK, RecordBudget
    <2> QED
      BY <1>3, <2>2, <2>3 DEF RecvResponse
  <1>4. CASE attempts' <= MaxAttempts /\ RecvJunk
    <2>1. sock # <<>> /\ sock \in Seq({"resp", "junk"})
          /\ Tail(sock) \in Seq({"resp", "junk"}) /\ Len(Tail(sock)) <= Len(sock)
      BY <1>4, HeadTailProperties DEF RecvJunk, BootTypeOK
    <2>2. attempts \in 0..3
      BY <1>1, <1>4, Powers
    <2>3. now <= Waited(attempts')
      <3>1. Waited(attempts) \in Nat /\ Waited(attempts + 1) \in Nat
            /\ Waited(attempts) <= Waited(attempts + 1)
        BY <2>2, WaitedStep
      <3>2. now \in Nat
        BY DEF BootTypeOK
      <3> QED
        BY <1>1, <3>1, <3>2
    <2> QED
      BY <1>1, <1>4, <2>1, <2>3, Powers DEF RecvJunk, BootTypeOK, RecordBudget
  <1>5. CASE attempts' <= MaxAttempts /\ SendHandshake
    <2>1. attempts \in 0..3
      BY <1>1, <1>5, Powers
    <2>2. sent + 1 <= MaxAttempts
      BY <1>1, <2>1, Powers DEF BootTypeOK
    <2>3. CASE /\ sent' = sent + 1
               /\ deadline' = now + Backoff(attempts')
               /\ bpc' = "wait"
               /\ UNCHANGED result
      <3>1. now + Backoff(attempts + 1) <= Waited(attempts + 1)
        <4>1. /\ Waited(attempts) \in Nat /\ Backoff(attempts + 1) \in Nat
              /\ Waited(attempts) + Backoff(attempts + 1) = Waited(attempts + 1)
          BY <2>1, WaitedStep
        <4>2. now \in Nat
          BY DEF BootTypeOK
        <4> QED
          BY <1>1, <4>1, <4>2
      <3>2. Backoff(attempts + 1) \in Nat
        BY <2>1, Powers
      <3> QED
        BY <1>1, <1>5, <2>2, <2>3, <3>1, <3>2, Powers
           DEF SendHandshake, BootTypeOK, RecordBudget
    <2>4. CASE Fail /\ UNCHANGED <<sent, deadline>>
      BY <1>1, <1>5, <2>4, Powers DEF SendHandshake, Fail, BootTypeOK, RecordBudget
    <2> QED
      BY <1>5, <2>3, <2>4 DEF SendHandshake
  <1> QED
    BY <1>2, <1>3, <1>4, <1>5 DEF Attempt, Pass

\* Every step keeps the invariant.
LEMMA BootStep == BootInv /\ [Next]_bvars => BootInv'
  <1> SUFFICES ASSUME BootInv, [Next]_bvars PROVE BootInv'
    OBVIOUS
  <1>1. CASE Resolve
    <2>1. CASE \E rs \in SUBSET Recs : records' = rs /\ bpc' = "pop" /\ UNCHANGED result
      BY <1>1, <2>1 DEF Resolve, BootInv, BootTypeOK, RecordBudget
    <2>2. CASE Fail /\ UNCHANGED records
      BY <1>1, <2>2, FailKeeps DEF Resolve, BootInv, BootTypeOK
    <2> QED
      BY <1>1, <2>1, <2>2 DEF Resolve
  <1>2. CASE Pop
    <2>1. CASE records = {} /\ bpc' = "done" /\ result' = "OutOfOptions"
               /\ UNCHANGED <<records, rec, attempts, sent, sock, now, deadline>>
      BY <1>2, <2>1 DEF BootInv, BootTypeOK, RecordBudget
    <2>2. CASE /\ \E r \in records : rec' = r /\ records' = records \ {r}
               /\ bpc' = "try" /\ attempts' = 0 /\ sent' = 0 /\ sock' = <<>>
               /\ now' = 0 /\ deadline' = 0 /\ UNCHANGED result
      BY <1>2, <2>2, Powers DEF Pop, BootInv, BootTypeOK, RecordBudget
    <2>3. CASE /\ \E r \in records : rec' = r /\ records' = records \ {r}
               /\ Fail /\ UNCHANGED <<attempts, sent, sock, now, deadline>>
      BY <1>2, <2>3 DEF Pop, Fail, BootInv, BootTypeOK, RecordBudget
    <2> QED
      BY <1>2, <2>1, <2>2, <2>3 DEF Pop
  <1>3. CASE Attempt
    BY <1>3, AttemptKeeps
  <1>4. CASE Wake
    BY <1>4 DEF Wake, BootInv, BootTypeOK, RecordBudget
  <1>5. CASE Tick
    <2>1. attempts \in 0..4 /\ now < deadline /\ deadline <= Waited(attempts)
      BY <1>5, Powers DEF Tick, BootInv, BootTypeOK
    <2>2. deadline <= WaitTotal
      <3>1. Waited(attempts) \in Nat /\ Waited(attempts) <= WaitTotal
        BY <2>1, WaitedBound
      <3>2. deadline \in Nat
        BY DEF BootInv, BootTypeOK
      <3> QED
        BY <2>1, <3>1, <3>2, Powers
    <2> QED
      BY <1>5, <2>1, <2>2 DEF Tick, BootInv, BootTypeOK, RecordBudget
  <1>6. ASSUME NEW d \in {"resp", "junk"}, Arrive(d) PROVE BootInv'
    <2>1. sock' \in Seq({"resp", "junk"}) /\ Len(sock') = Len(sock) + 1
      BY <1>6, AppendProperties DEF Arrive, BootInv, BootTypeOK
    <2> QED
      BY <1>6, <2>1 DEF Arrive, BootInv, BootTypeOK, RecordBudget
  <1>7. CASE UNCHANGED bvars
    BY <1>7 DEF bvars, BootInv, BootTypeOK, RecordBudget
  <1> QED
    BY <1>1, <1>2, <1>3, <1>4, <1>5, <1>6, <1>7 DEF Next, Task, Env

\* The inductive invariant holds in every state of EndpointBuilder::connect.
THEOREM BootInvariant == BootSpec => []BootInv
  BY BootInit, BootStep, PTL DEF BootSpec

\* The retry budget (`attempts > 4`, backoff 2^attempts * 200 ms): no DNS
\* record is sent more than four handshakes, and the task never waits on
\* one record longer than the four backoffs together, for every set of
\* records and whatever the network delivers.
THEOREM RecordBudgetHolds == BootSpec => []RecordBudget
  <1>1. BootInv => RecordBudget
    BY DEF BootInv
  <1> QED
    BY BootInvariant, <1>1, PTL

\* Every state of the bootstrap task is well typed; in particular the
\* attempt counter never exceeds 5, the value at which the loop breaks.
THEOREM BootTypeCorrect == BootSpec => []BootTypeOK
  <1>1. BootInv => BootTypeOK
    BY DEF BootInv
  <1> QED
    BY BootInvariant, <1>1, PTL

=============================================================================
