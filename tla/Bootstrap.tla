------------------------------ MODULE Bootstrap ------------------------------
(***************************************************************************)
(* EndpointBuilder::connect (src/src/endpoint.rs): resolve the broker's   *)
(* DNS records, then try them one by one.  For each record a fresh socket  *)
(* is bound and the handshake is sent up to four times with exponential   *)
(* backoff, waiting on the socket (level-triggered) or the timer.          *)
(*                                                                         *)
(* One pass of the inner `loop` (attempts += 1 up to the next `yield`,     *)
(* `break` or `continue`) runs without yielding and is one action.  The    *)
(* network is the environment: the server may answer a sent handshake (or *)
(* lose it), and any sender may put a datagram that is not a valid        *)
(* response on the socket.  Time is counted in units of 200 ms from the   *)
(* start of the current record.                                            *)
(***************************************************************************)
EXTENDS Naturals, Sequences

CONSTANTS
    Recs,        \* the signed TXT records the resolver may return
    MaxQueue,    \* bound on the datagrams queued on the socket at once
    Strays,      \* may datagrams that are not a valid response arrive?
    BootErrors   \* may resolve, initiate, bind, into_transport, send_to fail?

ASSUME BootstrapAssumption ==
    /\ MaxQueue \in Nat
    /\ Strays \in BOOLEAN
    /\ BootErrors \in BOOLEAN

\* `if attempts > 4 { break None; }`
MaxAttempts == 4

\* The wait after the handshake of attempt k: 2^k * 200 ms.
Backoff(k) == 2 ^ k

VARIABLES
    bpc,        \* "resolve", "pop" (outer loop), "try" (inner loop), "wait"
                \* (yielded on poll.again), "done"
    records,    \* records not yet popped
    rec,        \* the record being tried
    attempts,   \* the inner loop's counter
    sent,       \* handshakes sent to rec
    sock,       \* the datagrams queued on the socket, oldest first: "resp"
                \* answers a handshake of rec, "junk" is anything else
    now,        \* time since the socket of rec was bound
    deadline,   \* when the timer of the current wait fires
    result      \* "none", "ok", "OutOfOptions", "err"

bvars == <<bpc, records, rec, attempts, sent, sock, now, deadline, result>>

\* The whole schedule of one record: the waits after attempts 1..4,
\* 2^1 + ... + 2^4 units of 200 ms.
WaitTotal == 2 ^ (MaxAttempts + 1) - 2

Init ==
    /\ bpc = "resolve"
    /\ records = {}
    /\ rec \in Recs
    /\ attempts = 0
    /\ sent = 0
    /\ sock = <<>>
    /\ now = 0
    /\ deadline = 0
    /\ result = "none"

\* A `?` on an I/O or handshake error: connect returns Err.
Fail ==
    /\ BootErrors
    /\ bpc' = "done"
    /\ result' = "err"

-----------------------------------------------------------------------------
(* The bootstrap task.                                                     *)

\* osaka_dns::resolve, then filter_map(from_signed_txt) and shuffle: any
\* subset of the records, popped later in any order.
Resolve ==
    /\ bpc = "resolve"
    /\ \/ /\ \E rs \in SUBSET Recs : records' = rs
          /\ bpc' = "pop"
          /\ UNCHANGED result
       \/ Fail /\ UNCHANGED records
    /\ UNCHANGED <<rec, attempts, sent, sock, now, deadline>>

\* Mutant: the attempt counter is not reset for the next record.
PopNoReset ==
    /\ bpc = "pop"
    /\ \/ /\ records = {}
          /\ bpc' = "done"
          /\ result' = "OutOfOptions"
          /\ UNCHANGED <<records, rec, attempts, sent, sock, now,
                         deadline>>
       \/ /\ records # {}
          /\ \E r \in records :
                /\ rec' = r
                /\ records' = records \ {r}
          /\ \/ /\ bpc' = "try"
                /\ UNCHANGED attempts
                /\ sent' = 0
                /\ sock' = <<>>
                /\ now' = 0
                /\ deadline' = 0
                /\ UNCHANGED result
             \/ Fail /\ UNCHANGED <<attempts, sent, sock, now,
                                    deadline>>

\* Mutant: the popped record stays in the list and may be tried again.
PopKeepRecord ==
    /\ bpc = "pop"
    /\ \/ /\ records = {}
          /\ bpc' = "done"
          /\ result' = "OutOfOptions"
          /\ UNCHANGED <<records, rec, attempts, sent, sock, now,
                         deadline>>
       \/ /\ records # {}
          /\ \E r \in records :
                /\ rec' = r
                /\ records' = records
          /\ \/ /\ bpc' = "try"
                /\ attempts' = 0
                /\ sent' = 0
                /\ sock' = <<>>
                /\ now' = 0
                /\ deadline' = 0
                /\ UNCHANGED result
             \/ Fail /\ UNCHANGED <<attempts, sent, sock, now,
                                    deadline>>

\* records.pop(): none left => OutOfOptions.  Otherwise noise::initiate and
\* UdpSocket::bind for the record (either may fail) and a fresh inner loop
\* on the new, empty socket.
Pop ==
    /\ bpc = "pop"
    /\ \/ /\ records = {}
          /\ bpc' = "done"
          /\ result' = "OutOfOptions"
          /\ UNCHANGED <<records, rec, attempts, sent, sock, now,
                         deadline>>
       \/ /\ records # {}
          /\ \E r \in records :
                /\ rec' = r
                /\ records' = records \ {r}
          /\ \/ /\ bpc' = "try"
                /\ attempts' = 0
                /\ sent' = 0
                /\ sock' = <<>>
                /\ now' = 0
                /\ deadline' = 0
                /\ UNCHANGED result
             \/ Fail /\ UNCHANGED <<attempts, sent, sock, now,
                                    deadline>>

\* attempts > 4: `break None`, then `continue` the outer loop with the
\* next record.  The socket is dropped with whatever is queued on it.
GiveUp ==
    /\ bpc' = "pop"
    /\ UNCHANGED <<sock, sent, deadline, result>>

\* recv_from yields the response: into_transport (may fail), Endpoint::new.
RecvResponse ==
    /\ sock # <<>> /\ Head(sock) = "resp"
    /\ sock' = Tail(sock)
    /\ \/ bpc' = "done" /\ result' = "ok"
       \/ Fail
    /\ UNCHANGED <<sent, deadline>>

\* recv_from yields a datagram that decode or recv_response rejects:
\* `continue`, with no send and no wait.
RecvJunk ==
    /\ sock # <<>> /\ Head(sock) = "junk"
    /\ sock' = Tail(sock)
    /\ UNCHANGED <<bpc, sent, deadline, result>>

\* Mutant: the timeout 2^(attempts + 1) * 200 ms.
SendHandshakeLongWait ==
    /\ sock = <<>>
    /\ \/ /\ sent' = sent + 1
          /\ deadline' = now + Backoff(attempts' + 1)
          /\ bpc' = "wait"
          /\ UNCHANGED result
       \/ Fail /\ UNCHANGED <<sent, deadline>>
    /\ UNCHANGED sock

\* recv_from would block: send_to (may fail), then yield on poll.again with
\* the timeout 2^attempts * 200 ms.
SendHandshake ==
    /\ sock = <<>>
    /\ \/ /\ sent' = sent + 1
          /\ deadline' = now + Backoff(attempts')
          /\ bpc' = "wait"
          /\ UNCHANGED result
       \/ Fail /\ UNCHANGED <<sent, deadline>>
    /\ UNCHANGED sock

\* Mutant: the counter advanced only by the passes that send a handshake.
PassCountSends(n) ==
    /\ bpc = "try"
    /\ \/ attempts' = attempts + 1 /\ attempts' > n /\ GiveUp
       \/ attempts' = attempts + 1 /\ attempts' <= n /\ RecvResponse
       \/ UNCHANGED attempts /\ attempts + 1 <= n /\ RecvJunk
       \/ attempts' = attempts + 1 /\ attempts' <= n /\ SendHandshake
    /\ UNCHANGED <<records, rec, now>>

\* One pass of the inner loop with the bound n, up to its yield, break or
\* continue.
Pass(n) ==
    /\ bpc = "try"
    /\ attempts' = attempts + 1
    /\ \/ attempts' > n /\ GiveUp
       \/ attempts' <= n /\ (RecvResponse \/ RecvJunk \/ SendHandshake)
    /\ UNCHANGED <<records, rec, now>>

\* Mutant: `if attempts > 5`.
AttemptOffByOne == Pass(MaxAttempts + 1)

\* Mutant: `attempts += 1` only on the passes that send.
AttemptCountSends == PassCountSends(MaxAttempts)

Attempt == Pass(MaxAttempts)

\* The yield returns: the socket is readable (the registration is
\* level-triggered) or the timer has fired.
Wake ==
    /\ bpc = "wait"
    /\ sock # <<>> \/ now >= deadline
    /\ bpc' = "try"
    /\ UNCHANGED <<records, rec, attempts, sent, sock, now, deadline, result>>

Task == Resolve \/ Pop \/ Attempt \/ Wake

-----------------------------------------------------------------------------
(* The environment: time and the network.                                  *)

\* Time passes while the task waits on an idle socket.
Tick ==
    /\ bpc = "wait"
    /\ sock = <<>>
    /\ now < deadline
    /\ now' = now + 1
    /\ UNCHANGED <<bpc, records, rec, attempts, sent, sock, deadline, result>>

\* A datagram arrives on the socket of rec: the server's answer to one of
\* the handshakes sent to it, or (recv_from ignores `_from`) anything else.
Arrive(d) ==
    /\ bpc \in {"try", "wait"}
    /\ Len(sock) < MaxQueue
    /\ d = "resp" => sent > 0
    /\ d = "junk" => Strays
    /\ sock' = Append(sock, d)
    /\ UNCHANGED <<bpc, records, rec, attempts, sent, now, deadline, result>>

Env == Tick \/ \E d \in {"resp", "junk"} : Arrive(d)

Next == Task \/ Env

BootSpec == Init /\ [][Next]_bvars

\* The task is run whenever it is woken, and the timer fires: both are
\* weakly fair.  The network is not.
FairBootSpec == BootSpec /\ WF_bvars(Task) /\ WF_bvars(Tick)

-----------------------------------------------------------------------------
(* Properties.                                                             *)

BootTypeOK ==
    /\ bpc \in {"resolve", "pop", "try", "wait", "done"}
    /\ records \subseteq Recs
    /\ rec \in Recs
    /\ attempts \in 0..MaxAttempts + 1
    /\ sent \in Nat
    /\ sock \in Seq({"resp", "junk"})
    /\ Len(sock) <= MaxQueue
    /\ now \in Nat
    /\ deadline \in Nat
    /\ result \in {"none", "ok", "OutOfOptions", "err"}

\* The retry budget of a record (`attempts > 4`, backoff 2^attempts * 200
\* ms): at most four handshakes go to one record, and the task never
\* waits on it longer than the four backoffs together.
RecordBudget ==
    /\ sent <= MaxAttempts
    /\ now <= WaitTotal

\* The waits of attempts 1..a together: 2^1 + ... + 2^a units of 200 ms.
Waited(a) == 2 ^ (a + 1) - 2

\* The inductive invariant behind RecordBudget (BootstrapProofs): a record's
\* handshakes never outnumber its attempts, the inner loop runs with at most
\* four attempts, and the clock of a record has not passed the waits of the
\* attempts made so far, nor the deadline of the wait in progress.
BootInv ==
    /\ BootTypeOK
    /\ RecordBudget
    /\ sent <= attempts
    /\ bpc \in {"try", "wait"} => attempts <= MaxAttempts
    /\ bpc = "try" => now <= Waited(attempts)
    /\ bpc = "wait" => /\ attempts >= 1
                       /\ now <= deadline
                       /\ deadline <= Waited(attempts)

\* Whatever the network does, stray datagrams included, connect ends:
\* every record is given up after a bounded number of passes of the inner
\* loop, counted by `attempts` whether a handshake was sent or not.
BootTerminates == <>(bpc = "done")

\* Giving up a record (`break None`) is the outcome of four failed
\* attempts (spec.md, section 5): a record is never given up while a valid
\* response to one of its handshakes is waiting on its socket.
ResponseNotDiscarded ==
    [][bpc = "try" /\ bpc' = "pop" => \A i \in 1..Len(sock) : sock[i] # "resp"]_bvars

\* Exponential backoff (spec.md, sections 5 and 8): a record is given up
\* only once the waits after its four handshakes have all elapsed.
GivenUpAfterSchedule ==
    [][bpc = "try" /\ bpc' = "pop" => now >= WaitTotal]_bvars

=============================================================================
