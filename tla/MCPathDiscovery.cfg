CONSTANTS
    a1 = a1
    a2 = a2
    a3 = a3
    Addrs <- MCAddrs
    BrokerAddr = a1
    PeerAddr = a3
SPECIFICATION FairPDSpec
INVARIANT PDTypeOK
INVARIANT EstablishedOnBest
PROPERTY Settles
