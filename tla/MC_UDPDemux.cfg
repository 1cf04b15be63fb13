\* Three datagrams in any order: every first-byte boundary, each against
\* every other, so forwarded and dropped datagrams interleave both ways.
CONSTANTS
    Packets <- MCPackets
    MaxPackets = 3
SPECIFICATION Spec
\* The socket may stop delivering datagrams at any point.
CHECK_DEADLOCK FALSE
PROPERTY ImplementsRfc7983
