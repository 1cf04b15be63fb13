---------------------------- MODULE Rfc7983Demux ----------------------------
(***************************************************************************)
(* What the inbound demultiplexer promises, from RFC 7983 section 7 (the   *)
(* table quoted above match_dtls in udp_demuxer.rs): every datagram it     *)
(* receives goes to exactly one of two places, in arrival order: the media *)
(* (RTP/RTCP) branch when its first byte is in 128..191, the next handler  *)
(* (STUN, ZRTP, DTLS, TURN and everything unclassified) otherwise.  An     *)
(* empty datagram has no first byte and is never media.                    *)
(***************************************************************************)
EXTENDS Naturals, Sequences

CONSTANT Packets

VARIABLES
    toNext,    \* datagrams handed to the next handler
    toMedia    \* datagrams taken by the media branch

\* The RFC 7983 class of a first byte.
Class(b) ==
    CASE b \in 0..3     -> "stun"
      [] b \in 16..19   -> "zrtp"
      [] b \in 20..63   -> "dtls"
      [] b \in 64..79   -> "turn"
      [] b \in 128..191 -> "rtp"
      [] OTHER          -> "unknown"

IsMedia(p) == p.len > 0 /\ Class(p.b0) = "rtp"

Init == toNext = <<>> /\ toMedia = <<>>

Receive(p) ==
    IF IsMedia(p)
    THEN toMedia' = Append(toMedia, p) /\ UNCHANGED toNext
    ELSE toNext' = Append(toNext, p) /\ UNCHANGED toMedia

Next == \E p \in Packets : Receive(p)

Spec == Init /\ [][Next]_<<toNext, toMedia>>

=============================================================================
