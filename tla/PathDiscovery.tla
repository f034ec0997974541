---------------------------- MODULE PathDiscovery ----------------------------
(***************************************************************************)
(* The address mode of one channel (AddressMode in src/src/endpoint.rs)    *)
(* and how Endpoint::poll changes it for every datagram that decodes and  *)
(* carries the channel's route: counting while Discovering, settling on   *)
(* the best candidate once an address has sent 5 datagrams, and migrating *)
(* an Established channel to the sender of a datagram the engine accepts. *)
(*                                                                         *)
(* A candidate map is two functions over Addrs: its category, or NoCat    *)
(* for an address not in the map, and its count.  `recv` is the engine's  *)
(* verdict on the datagram (Ok, or AntiReplay / another error): the       *)
(* engine is not in the source, so any datagram may pass or fail it.      *)
(***************************************************************************)
EXTENDS Integers

CONSTANTS
    Addrs,       \* socket addresses datagrams may come from
    BrokerAddr,  \* the broker channel's established address
    PeerAddr     \* the address the peer's datagrams really come from

ASSUME PathDiscoveryAssumption ==
    /\ BrokerAddr \in Addrs
    /\ PeerAddr \in Addrs

\* proto::path::Category, ordered by cost.
Local == 0
Internet == 1
BrokerOrigin == 2
Cats == {Local, Internet, BrokerOrigin}
NoCat == -1

\* `if count >= 5`
SettleCount == 5

VARIABLES
    mode,     \* "disc" (Discovering) or "est" (Established)
    cat,      \* the Discovering map: category of each address, or NoCat
    cnt,      \* the Discovering map: count of each address
    addr,     \* Established: the chosen address
    prevcat,  \* Established: the map it settled from (`previous`), categories
    prevcnt   \* ... and counts

pvars == <<mode, cat, cnt, addr, prevcat, prevcnt>>

\* `previous.get(a).unwrap_or(&(Internet, 0)).0`
CatOf(p, a) == IF p[a] = NoCat THEN Internet ELSE p[a]

\* Mutant: the comparison reversed.
MigratesWorse(p, from, to) == CatOf(p, from) <= CatOf(p, to)

\* The migration test: `current_cat as i32 >= migrate_cat as i32`.
Migrates(p, from, to) == CatOf(p, from) >= CatOf(p, to)

\* The settle scan: an entry with count >= 1 whose category no other such
\* entry beats.  The HashMap's iteration order decides among ties.
Best(c, n) ==
    {a \in Addrs : n[a] >= 1 /\ \A b \in Addrs : n[b] >= 1 => c[a] <= c[b]}

\* The address Established keeps after a datagram from a: migration needs
\* recv Ok and a sender other than the chosen address.
AfterRecv(p, chosen, a, ok) ==
    IF ok /\ a # chosen /\ Migrates(p, chosen, a) THEN a ELSE chosen

Empty == [x \in Addrs |-> NoCat]
Zero == [x \in Addrs |-> 0]

\* A peer channel (accept_outgoing, accept_incomming) starts Discovering on
\* the relayed paths with count 0, the broker's address inserted last as
\* BrokerOrigin.  The broker channel (Endpoint::new) starts Established on
\* the bootstrap address with an empty `previous`.
Init ==
    \/ /\ mode = "disc"
       /\ cat \in {f \in [Addrs -> Cats \cup {NoCat}] : f[BrokerAddr] = BrokerOrigin}
       /\ cnt = Zero
       /\ addr = BrokerAddr
       /\ prevcat = Empty
       /\ prevcnt = Zero
    \/ /\ mode = "est"
       /\ cat = Empty
       /\ cnt = Zero
       /\ addr = BrokerAddr
       /\ prevcat = Empty
       /\ prevcnt = Zero

-----------------------------------------------------------------------------
(* A datagram from a, routed to this channel, with the engine's verdict ok. *)

\* Discovering: `entry(addr).or_insert((Internet, 0))`, `*count += 1`.
Counted(a) == [cnt EXCEPT ![a] = @ + 1]
Inserted(a) == IF cat[a] = NoCat THEN [cat EXCEPT ![a] = Internet] ELSE cat

\* Mutant: only an address already in the map is counted (`get_mut`).
RecvDiscoveringKnownOnly(a, ok) ==
    /\ mode = "disc"
    /\ cat[a] # NoCat
    /\ Counted(a)[a] < SettleCount
    /\ cnt' = Counted(a)
    /\ UNCHANGED <<mode, cat, addr, prevcat, prevcnt>>

\* Mutant: the settle test is `count > 5`, so a count of 5 is kept.
RecvDiscoveringLate(a, ok) ==
    /\ mode = "disc"
    /\ Counted(a)[a] <= SettleCount
    /\ cat' = Inserted(a)
    /\ cnt' = Counted(a)
    /\ UNCHANGED <<mode, addr, prevcat, prevcnt>>

\* Discovering, the count stays below 5: the map is updated, no migration.
RecvDiscovering(a, ok) ==
    /\ mode = "disc"
    /\ Counted(a)[a] < SettleCount
    /\ cat' = Inserted(a)
    /\ cnt' = Counted(a)
    /\ UNCHANGED <<mode, addr, prevcat, prevcnt>>

\* Discovering, the count reaches 5: settle on a best entry and keep the
\* map as `previous` (mem::replace), then recv and the migration test on
\* the new Established mode.
RecvSettle(a, ok) ==
    /\ mode = "disc"
    /\ Counted(a)[a] >= SettleCount
    /\ \E m \in Best(Inserted(a), Counted(a)) :
          addr' = AfterRecv(Inserted(a), m, a, ok)
    /\ mode' = "est"
    /\ prevcat' = Inserted(a)
    /\ prevcnt' = Counted(a)
    /\ cat' = Empty
    /\ cnt' = Zero

\* Established: recv, then the migration test.
RecvEstablished(a, ok) ==
    /\ mode = "est"
    /\ addr' = AfterRecv(prevcat, addr, a, ok)
    /\ UNCHANGED <<mode, cat, cnt, prevcat, prevcnt>>

Receive(a, ok) ==
    RecvDiscovering(a, ok) \/ RecvSettle(a, ok) \/ RecvEstablished(a, ok)

Next == \E a \in Addrs, ok \in BOOLEAN : Receive(a, ok)

PDSpec == Init /\ [][Next]_pvars

\* The peer's engine keeps sending (it retransmits until acknowledged), so
\* datagrams from the peer's real address keep arriving.
FairPDSpec == PDSpec /\ WF_pvars(\E ok \in BOOLEAN : Receive(PeerAddr, ok))

-----------------------------------------------------------------------------
(* Properties.                                                             *)

\* Every state is well typed, and while Discovering no count reaches 5: the
\* datagram that makes a count 5 settles the channel (`count >= 5`).
PDTypeOK ==
    /\ mode \in {"disc", "est"}
    /\ cat \in [Addrs -> Cats \cup {NoCat}]
    /\ cnt \in [Addrs -> 0..SettleCount - 1]
    /\ addr \in Addrs
    /\ prevcat \in [Addrs -> Cats \cup {NoCat}]
    /\ prevcnt \in [Addrs -> 0..SettleCount]

\* Settling and every later migration keep the channel on a best path: the
\* chosen address is never of a worse category than any candidate that was
\* heard from before settling, whatever the order of datagrams and of the
\* HashMap scan.
EstablishedOnBest ==
    mode = "est" =>
        \A x \in Addrs : prevcat[x] # NoCat /\ prevcnt[x] >= 1 =>
            CatOf(prevcat, addr) <= prevcat[x]

\* The inductive invariant behind EstablishedOnBest (PathDiscoveryProofs):
\* while Discovering, every address with a count is in the map with a
\* category (`entry(addr).or_insert`), so the settle scan compares real
\* categories and the entry it picks is one `previous` holds.
PDInv ==
    /\ PDTypeOK
    /\ EstablishedOnBest
    /\ mode = "disc" => \A x \in Addrs : cnt[x] >= 1 => cat[x] # NoCat

\* A channel stops Discovering once the peer keeps reaching it, even from
\* an address the broker did not relay.
Settles == mode = "disc" ~> mode = "est"

\* spec.md, section 4.2: an Established channel migrates only to "a known
\* prior candidate".
MigrateOnlyToKnown ==
    [][mode = "est" /\ addr' # addr => prevcat[addr'] # NoCat]_pvars

=============================================================================
