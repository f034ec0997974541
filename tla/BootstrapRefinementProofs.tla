----------------------- MODULE BootstrapRefinementProofs -----------------------
(***************************************************************************)
(* EndpointBuilder::connect implements BootstrapProtocol, for every set of *)
(* records and whatever the network delivers.  Two facts about the state   *)
(* carry the proof: BootInv bounds the handshakes of a record by its       *)
(* attempts, so a send is within the protocol's budget, and RespAfterSend  *)
(* says a response on the socket was provoked by a handshake to the        *)
(* record being tried, so Ok is the protocol's Succeed.  RespAfterSend     *)
(* follows from the fresh socket of each record and a server that answers  *)
(* only handshakes, so it is a step of the proof, not a property.          *)
(***************************************************************************)
EXTENDS BootstrapRefinement, BootstrapProofs

USE BootstrapAssumption, Powers

\* A response can only be on the socket of a record that has been sent a
\* handshake: the socket is bound afresh for every record, and the server
\* answers only handshakes.  The refinement needs it for Succeed.
RespAfterSend ==
    sent = 0 => \A i \in 1..Len(sock) : sock[i] = "junk"

RInv == BootInv /\ RespAfterSend

\* Dropping the oldest datagram keeps a socket of junk all junk.
LEMMA TailJunk ==
    ASSUME NEW s \in Seq({"resp", "junk"}), s # <<>>,
           \A i \in 1..Len(s) : s[i] = "junk"
    PROVE  \A i \in 1..Len(Tail(s)) : Tail(s)[i] = "junk"
  BY HeadTailProperties

\* A response at the head of the socket means a handshake was sent.
LEMMA HeadResp ==
    ASSUME RInv, sock # <<>>, Head(sock) = "resp"
    PROVE  sent >= 1
  <1>1. sock \in Seq({"resp", "junk"}) /\ sent \in Nat
    BY DEF RInv, BootInv, BootTypeOK
  <1>2. Len(sock) >= 1 /\ Head(sock) = sock[1]
    BY <1>1
  <1> QED
    BY <1>1, <1>2 DEF RInv, RespAfterSend

\* RespAfterSend holds initially and after every step: a new record gets an
\* empty socket, and only a record with a handshake may receive a response.
LEMMA RespStep == RInv /\ [Next]_bvars => RespAfterSend'
  <1> SUFFICES ASSUME RInv, [Next]_bvars PROVE RespAfterSend'
    OBVIOUS
  <1>0. sock \in Seq({"resp", "junk"}) /\ sent \in Nat
    BY DEF RInv, BootInv, BootTypeOK
  <1>1. CASE UNCHANGED <<sock, sent>>
    BY <1>1 DEF RInv, RespAfterSend
  <1>2. CASE sock' = <<>>
    BY <1>2 DEF RespAfterSend
  <1>3. CASE sent' = sent + 1
    BY <1>0, <1>3 DEF RespAfterSend
  <1>4. CASE sock # <<>> /\ sock' = Tail(sock) /\ sent' = sent
    BY <1>0, <1>4, TailJunk DEF RInv, RespAfterSend
  <1>5. ASSUME NEW d \in {"resp", "junk"}, Arrive(d) PROVE RespAfterSend'
    <2>1. SUFFICES ASSUME sent = 0 PROVE \A i \in 1..Len(sock') : sock'[i] = "junk"
      BY <1>5 DEF Arrive, RespAfterSend
    <2>2. d = "junk"
      BY <1>5, <2>1 DEF Arrive
    <2> QED
      BY <1>0, <1>5, <2>1, <2>2, AppendProperties DEF Arrive, RInv, RespAfterSend
  <1>6. CASE Attempt
    BY <1>1, <1>3, <1>4, <1>6 DEF Attempt, Pass, GiveUp, RecvResponse, RecvJunk,
                                    SendHandshake, Fail
  <1>7. CASE Pop
    BY <1>1, <1>2, <1>7 DEF Pop, Fail
  <1> QED
    BY <1>1, <1>5, <1>6, <1>7 DEF Next, Task, Env, Resolve, Wake, Tick, bvars

LEMMA RInvariant == BootSpec => []RInv
  <1>1. Init => RInv
    BY BootInit DEF Init, RInv, RespAfterSend
  <1>2. RInv /\ [Next]_bvars => RInv'
    BY BootStep, RespStep DEF RInv
  <1> QED
    BY <1>1, <1>2, PTL DEF BootSpec

-----------------------------------------------------------------------------
(* The step simulation, one lemma per stage of the task.                   *)

\* Resolving is the protocol's Resolved, or an error before any record.
LEMMA ResolveMaps == Resolve => BP!Next
  BY DEF Resolve, Fail, BP!Next, BP!Resolved, BP!Error, StageOf

\* Taking a record is Take, Exhausted, or an error as the record is taken.
LEMMA PopMaps == RInv /\ Pop => BP!Next
  <1> SUFFICES ASSUME RInv, Pop PROVE BP!Next
    OBVIOUS
  <1>1. CASE records = {}
    BY <1>1 DEF Pop, BP!Next, BP!Exhausted, StageOf
  <1>2. CASE records # {} /\ bpc' = "try"
    <2>1. PICK r \in records : rec' = r /\ records' = records \ {r}
      BY <1>2 DEF Pop
    <2>2. bpc = "pop" /\ sent' = 0 /\ UNCHANGED result
      BY <1>2 DEF Pop, Fail
    <2>3. BP!Take(r)
      BY <1>2, <2>1, <2>2 DEF BP!Take, StageOf
    <2>4. r \in Recs
      BY DEF RInv, BootInv, BootTypeOK
    <2> QED
      BY <2>3, <2>4 DEF BP!Next
  <1>3. CASE records # {} /\ bpc' # "try"
    BY <1>3 DEF Pop, Fail, BP!Next, BP!Error, StageOf
  <1> QED
    BY <1>1, <1>2, <1>3

\* One pass of the inner loop: giving up is Abandon, a response Succeed, a
\* send Send, an error Error; a junk datagram changes nothing the protocol
\* sees.
LEMMA AttemptMaps == RInv /\ Attempt => [BP!Next]_BP!bpvars
  <1> SUFFICES ASSUME RInv, Attempt PROVE [BP!Next]_BP!bpvars
    OBVIOUS
  <1>1. bpc = "try" /\ attempts \in 0..MaxAttempts /\ sent <= attempts
        /\ sent \in Nat /\ attempts' = attempts + 1
        /\ UNCHANGED <<records, rec>>
    BY DEF Attempt, Pass, RInv, BootInv, BootTypeOK
  <1>2. CASE attempts' > MaxAttempts /\ GiveUp
    BY <1>1, <1>2 DEF GiveUp, BP!Next, BP!Abandon, StageOf
  <1>3. CASE attempts' <= MaxAttempts /\ RecvResponse
    <2>1. sent >= 1
      BY <1>3, HeadResp DEF RecvResponse
    <2>2. CASE bpc' = "done" /\ result' = "ok"
      BY <1>1, <1>3, <2>1, <2>2 DEF RecvResponse, BP!Next, BP!Succeed, StageOf
    <2>3. CASE Fail
      BY <1>1, <1>3, <2>3 DEF RecvResponse, Fail, BP!Next, BP!Error, StageOf
    <2> QED
      BY <1>3, <2>2, <2>3 DEF RecvResponse
  <1>4. CASE attempts' <= MaxAttempts /\ RecvJunk
    BY <1>1, <1>4 DEF RecvJunk, BP!bpvars, StageOf
  <1>5. CASE attempts' <= MaxAttempts /\ SendHandshake
    <2>1. sent < MaxAttempts
      BY <1>1, <1>5
    <2>2. CASE sent' = sent + 1 /\ bpc' = "wait" /\ UNCHANGED result
      BY <1>1, <2>1, <2>2 DEF BP!Next, BP!Send, StageOf
    <2>3. CASE Fail /\ UNCHANGED <<sent, deadline>>
      BY <1>1, <2>3 DEF Fail, BP!Next, BP!Error, StageOf
    <2> QED
      BY <1>5, <2>2, <2>3 DEF SendHandshake
  <1> QED
    BY <1>1, <1>2, <1>3, <1>4, <1>5 DEF Attempt, Pass

\* Waking up, time and the network only move what the protocol abstracts.
LEMMA EnvMaps == Wake \/ Env \/ UNCHANGED bvars => UNCHANGED BP!bpvars
  BY DEF Wake, Env, Tick, Arrive, bvars, BP!bpvars, StageOf

LEMMA RefStep == RInv /\ [Next]_bvars => [BP!Next]_BP!bpvars
  <1> SUFFICES ASSUME RInv, [Next]_bvars PROVE [BP!Next]_BP!bpvars
    OBVIOUS
  <1>1. CASE Resolve \/ Pop
    BY <1>1, ResolveMaps, PopMaps
  <1>2. CASE Attempt
    BY <1>2, AttemptMaps
  <1>3. CASE Wake \/ Env \/ UNCHANGED bvars
    BY <1>3, EnvMaps
  <1> QED
    BY <1>1, <1>2, <1>3 DEF Next, Task

\* EndpointBuilder::connect implements the bootstrap protocol: whatever the
\* network delivers, every DNS record is tried at most once and sent at most
\* four handshakes, connect returns Ok only on the record it is trying and
\* after sending it a handshake, and OutOfOptions only when no record is
\* left; for every set of records and every socket queue bound.
THEOREM BootRefines == BootSpec => BootRefinement
  <1>1. Init => BP!Init
    BY DEF Init, BP!Init, StageOf
  <1> QED
    BY <1>1, RefStep, RInvariant, PTL DEF BootSpec, BootRefinement, BP!Spec

=============================================================================
