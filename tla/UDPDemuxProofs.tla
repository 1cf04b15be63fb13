--------------------------- MODULE UDPDemuxProofs ---------------------------
(***************************************************************************)
(* UDPDemuxerDecoder::read implements the RFC 7983 demultiplexer, for any  *)
(* set of datagrams: the refinement ImplementsRfc7983 that the run         *)
(* demux_classify checks on the boundary bytes, proved for all of them.    *)
(***************************************************************************)
EXTENDS UDPDemux, TLAPS

\* match_srtp_or_srtcp (match_range(128, 191) on the first byte, false on an
\* empty buffer) takes exactly the datagrams RFC 7983 classes as RTP/RTCP.
LEMMA MatchAgreesWithRfc ==
    ASSUME NEW p \in Packets
    PROVE  MatchSrtpOrSrtcp(p) <=> Rfc!IsMedia(p)
<1>1. p.b0 \in 0..255 /\ p.len \in Nat
  BY PacketsAssumption
<1>2. Rfc!Class(p.b0) = "rtp" <=> p.b0 \in 128..191
  BY <1>1 DEF Rfc!Class
<1>3. QED
  BY <1>1, <1>2 DEF MatchSrtpOrSrtcp, MatchRange, Rfc!IsMedia

\* One read is one step of the RFC demultiplexer on the same datagram.
LEMMA ReadRefinesReceive ==
    ASSUME NEW p \in Packets, Read(p)
    PROVE  Rfc!Receive(p)
<1>1. CASE MatchSrtpOrSrtcp(p)
  <2>1. Rfc!IsMedia(p)
    BY <1>1, MatchAgreesWithRfc
  <2>2. dropped' = Append(dropped, p) /\ forwarded' = forwarded
    BY <1>1 DEF Read
  <2>3. QED
    BY <2>1, <2>2 DEF Rfc!Receive
<1>2. CASE ~MatchSrtpOrSrtcp(p)
  <2>1. ~Rfc!IsMedia(p)
    BY <1>2, MatchAgreesWithRfc
  <2>2. forwarded' = Append(forwarded, p) /\ dropped' = dropped
    BY <1>2 DEF Read
  <2>3. QED
    BY <2>1, <2>2 DEF Rfc!Receive
<1>3. QED
  BY <1>1, <1>2

\* The handler's behaviours are behaviours of the RFC 7983 demultiplexer.
THEOREM Refinement == Spec => ImplementsRfc7983
<1>1. Init => Rfc!Init
  BY DEF Init, Rfc!Init
<1>2. [Next]_vars => [Rfc!Next]_<<forwarded, dropped>>
  <2> SUFFICES ASSUME [Next]_vars
               PROVE  [Rfc!Next]_<<forwarded, dropped>>
    OBVIOUS
  <2>1. CASE Next
    <3>1. PICK p \in Packets : Read(p)
      BY <2>1 DEF Next
    <3>2. Rfc!Receive(p)
      BY <3>1, ReadRefinesReceive
    <3>3. QED
      BY <3>2 DEF Rfc!Next
  <2>2. CASE UNCHANGED vars
    BY <2>2 DEF vars
  <2>3. QED
    BY <2>1, <2>2
<1>3. QED
  BY <1>1, <1>2, PTL DEF Spec, ImplementsRfc7983, Rfc!Spec

=============================================================================
