----------------------------- MODULE MC_UDPDemux -----------------------------
(* Datagrams built from the first-byte values at both ends of every RFC     *)
(* 7983 range and of the gaps between them, empty and non-empty.          *)
EXTENDS UDPDemux

MCFirstBytes  == {0, 3, 4, 19, 20, 63, 64, 79, 80, 127, 128, 191, 192, 255}
MCLengths     == {0, 1}

MCPackets == [b0 : MCFirstBytes, len : MCLengths]

=============================================================================
