------------------------- MODULE PathDiscoveryProofs -------------------------
(***************************************************************************)
(* Proofs about the address mode of a channel (PathDiscovery): settling   *)
(* and migration keep an Established channel on a best path, for every    *)
(* set of addresses and every order of datagrams.  EstablishedOnBest is   *)
(* not inductive alone: the settle step needs to know that each address   *)
(* with a count is in the map with a real category, which is what         *)
(* PDInv adds.                                                            *)
(***************************************************************************)
EXTENDS PathDiscovery, TLAPS

USE PathDiscoveryAssumption

\* The categories as the integers the migration test compares.
LEMMA CatsValues ==
    /\ Cats = {0, 1, 2} /\ NoCat = -1 /\ Internet = 1 /\ SettleCount = 5
  BY DEF Cats, Local, Internet, BrokerOrigin, NoCat, SettleCount

USE CatsValues

\* CatOf reads a category from a candidate map, Internet for an address
\* the map does not hold.
LEMMA CatOfType ==
    ASSUME NEW p \in [Addrs -> Cats \cup {NoCat}], NEW a \in Addrs
    PROVE  /\ CatOf(p, a) \in Cats
           /\ p[a] # NoCat => CatOf(p, a) = p[a]
  BY DEF CatOf

\* A channel starts Discovering with no counts, or Established on the
\* broker address with an empty `previous`.
LEMMA PDInit == Init => PDInv
  BY PathDiscoveryAssumption
     DEF Init, PDInv, PDTypeOK, EstablishedOnBest, Empty, Zero

\* The map after a datagram from a while Discovering: typed, the count of
\* a one more, and a in the map.
LEMMA CountedInserted ==
    ASSUME PDInv, mode = "disc", NEW a \in Addrs
    PROVE  /\ Inserted(a) \in [Addrs -> Cats \cup {NoCat}]
           /\ Counted(a) \in [Addrs -> 0..SettleCount]
           /\ \A x \in Addrs : Counted(a)[x] >= 1 => Inserted(a)[x] # NoCat
           /\ Counted(a)[a] < SettleCount => Counted(a) \in [Addrs -> 0..SettleCount - 1]
  BY DEF PDInv, PDTypeOK, Inserted, Counted

\* Counting below the threshold keeps every counted address in the map.
LEMMA DiscoveringKeeps ==
    ASSUME PDInv, NEW a \in Addrs, NEW ok \in BOOLEAN, RecvDiscovering(a, ok)
    PROVE  PDInv'
  <1>1. mode = "disc"
    BY DEF RecvDiscovering
  <1> QED
    BY <1>1, CountedInserted
       DEF RecvDiscovering, PDInv, PDTypeOK, EstablishedOnBest

\* Settling picks an entry that no counted entry beats, and a migration on
\* the same datagram only moves to an address of no worse category.
LEMMA SettleKeeps ==
    ASSUME PDInv, NEW a \in Addrs, NEW ok \in BOOLEAN, RecvSettle(a, ok)
    PROVE  PDInv'
  <1>1. mode = "disc"
    BY DEF RecvSettle
  <1> DEFINE c == Inserted(a)
             n == Counted(a)
  <1>2. /\ c \in [Addrs -> Cats \cup {NoCat}]
        /\ n \in [Addrs -> 0..SettleCount]
        /\ \A x \in Addrs : n[x] >= 1 => c[x] # NoCat
    BY <1>1, CountedInserted
  <1>3. PICK m \in Best(c, n) : addr' = AfterRecv(c, m, a, ok)
    BY DEF RecvSettle
  <1>4. /\ m \in Addrs /\ n[m] >= 1
        /\ \A b \in Addrs : n[b] >= 1 => c[m] <= c[b]
    BY <1>3 DEF Best
  <1>5. CatOf(c, m) = c[m] /\ CatOf(c, m) \in Cats
    BY <1>2, <1>4, CatOfType
  <1>6. addr' \in Addrs /\ CatOf(c, addr') <= CatOf(c, m)
    <2>1. CASE ok /\ a # m /\ Migrates(c, m, a)
      BY <1>3, <1>4, <2>1 DEF AfterRecv, Migrates
    <2>2. CASE ~(ok /\ a # m /\ Migrates(c, m, a))
      <3>1. addr' = m
        BY <1>3, <2>2 DEF AfterRecv
      <3> QED
        BY <1>4, <1>5, <3>1
    <2> QED
      BY <2>1, <2>2
  <1>7. CatOf(c, addr') \in Cats
    BY <1>2, <1>6, CatOfType
  <1>8. EstablishedOnBest'
    <2> SUFFICES ASSUME NEW x \in Addrs, c[x] # NoCat, n[x] >= 1
                 PROVE  CatOf(c, addr') <= c[x]
      BY DEF RecvSettle, EstablishedOnBest
    <2>1. c[m] <= c[x] /\ c[x] \in Cats
      BY <1>2, <1>4
    <2> QED
      BY <1>5, <1>6, <1>7, <2>1
  <1>9. PDTypeOK'
    BY <1>2, <1>6 DEF RecvSettle, PDTypeOK, Empty, Zero
  <1> QED
    BY <1>8, <1>9 DEF RecvSettle, PDInv

\* While Established, a migration needs the sender to be of no worse
\* category than the chosen address, so the chosen address stays best.
LEMMA EstablishedKeeps ==
    ASSUME PDInv, NEW a \in Addrs, NEW ok \in BOOLEAN, RecvEstablished(a, ok)
    PROVE  PDInv'
  <1>1. mode = "est" /\ prevcat \in [Addrs -> Cats \cup {NoCat}] /\ addr \in Addrs
    BY DEF RecvEstablished, PDInv, PDTypeOK
  <1>2. addr' \in Addrs /\ CatOf(prevcat, addr') <= CatOf(prevcat, addr)
    <2>1. CASE ok /\ a # addr /\ Migrates(prevcat, addr, a)
      BY <1>1, <2>1 DEF RecvEstablished, AfterRecv, Migrates
    <2>2. CASE ~(ok /\ a # addr /\ Migrates(prevcat, addr, a))
      <3>1. addr' = addr
        BY <2>2 DEF RecvEstablished, AfterRecv
      <3>2. CatOf(prevcat, addr) \in Cats
        BY <1>1, CatOfType
      <3> QED
        BY <1>1, <3>1, <3>2
    <2> QED
      BY <2>1, <2>2
  <1>3. CatOf(prevcat, addr') \in Cats /\ CatOf(prevcat, addr) \in Cats
    BY <1>1, <1>2, CatOfType
  <1>4. EstablishedOnBest'
    <2> SUFFICES ASSUME NEW x \in Addrs, prevcat[x] # NoCat, prevcnt[x] >= 1
                 PROVE  CatOf(prevcat, addr') <= prevcat[x]
      BY DEF RecvEstablished, EstablishedOnBest
    <2>1. CatOf(prevcat, addr) <= prevcat[x] /\ prevcat[x] \in Cats
      BY <1>1 DEF PDInv, EstablishedOnBest
    <2> QED
      BY <1>2, <1>3, <2>1
  <1> QED
    BY <1>1, <1>2, <1>4 DEF RecvEstablished, PDInv, PDTypeOK

LEMMA PDStep == PDInv /\ [Next]_pvars => PDInv'
  <1> SUFFICES ASSUME PDInv, [Next]_pvars PROVE PDInv'
    OBVIOUS
  <1>1. ASSUME NEW a \in Addrs, NEW ok \in BOOLEAN, Receive(a, ok) PROVE PDInv'
    BY <1>1, DiscoveringKeeps, SettleKeeps, EstablishedKeeps DEF Receive
  <1>2. CASE UNCHANGED pvars
    BY <1>2 DEF pvars, PDInv, PDTypeOK, EstablishedOnBest, CatOf
  <1> QED
    BY <1>1, <1>2 DEF Next

\* PDInv holds in every state of a channel's address mode.
THEOREM PDInvariant == PDSpec => []PDInv
  BY PDInit, PDStep, PTL DEF PDSpec

\* Settling on the HashMap's best entry and every later migration keep an
\* Established channel on an address of the best category heard from while
\* Discovering, for every set of addresses, order of datagrams and engine
\* verdicts.
THEOREM EstablishedOnBestHolds == PDSpec => []EstablishedOnBest
  <1>1. PDInv => EstablishedOnBest
    BY DEF PDInv
  <1> QED
    BY PDInvariant, <1>1, PTL

\* Every state of the address mode is well typed; in particular no count of
\* the Discovering map ever reaches 5, the value at which the channel
\* settles.
THEOREM PDTypeCorrect == PDSpec => []PDTypeOK
  <1>1. PDInv => PDTypeOK
    BY DEF PDInv
  <1> QED
    BY PDInvariant, <1>1, PTL

=============================================================================
