\* One datagram is enough for read to lose it.
CONSTANTS
    Packets <- MCPackets
    MaxPackets = 1
SPECIFICATION Spec
\* The socket may stop delivering datagrams at any point.
CHECK_DEADLOCK FALSE
INVARIANT NoDatagramLost
