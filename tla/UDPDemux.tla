------------------------------ MODULE UDPDemux ------------------------------
(***************************************************************************)
(* The inbound half of the UDP demultiplexer, src/src/rtc/server/          *)
(* udp_demuxer.rs: UDPDemuxerDecoder::read classifies every datagram by    *)
(* its first byte (RFC 7983) with match_srtp_or_srtcp; a datagram outside  *)
(* [128..191] is passed to the next handler with ctx.fire_read, one inside *)
(* it is left where the code has its "TODO: dispatch the packet to Media   *)
(* Pipeline", i.e. it goes nowhere.                                        *)
(*                                                                         *)
(* A datagram is abstracted to what the classifier reads of it: its first *)
(* byte and whether it is empty.  (match_dtls, match_srtp, match_srtcp,    *)
(* is_rtcp and match_all are defined beside it but called by nothing.)    *)
(* The history variables arrived, forwarded and dropped record what the    *)
(* handler saw and what it did with it.                                    *)
(***************************************************************************)
EXTENDS Naturals, Sequences

CONSTANTS
    Packets,     \* datagrams the socket may deliver: [b0, len] records
    MaxPackets   \* bound on the number of datagrams read

\* A datagram is read as bytes (u8) with a length.
ASSUME PacketsAssumption == Packets \subseteq [b0 : 0..255, len : Nat]

VARIABLES
    arrived,     \* datagrams handed to read, in order
    forwarded,   \* datagrams passed on by ctx.fire_read, in order
    dropped      \* datagrams read returned without passing on

vars == <<arrived, forwarded, dropped>>

\* Mutation variant: the upper bound made exclusive.
MatchRangeExclusive(lower, upper, p) ==
    p.len > 0 /\ lower <= p.b0 /\ p.b0 < upper

\* match_range(lower, upper)(buf): an empty buffer never matches, otherwise
\* the first byte is in [lower..upper], both ends included.
MatchRange(lower, upper, p) ==
    p.len > 0 /\ lower <= p.b0 /\ p.b0 <= upper

\* match_srtp_or_srtcp: first byte in [128..191]
MatchSrtpOrSrtcp(p) == MatchRange(128, 191, p)

Init ==
    /\ arrived = <<>>
    /\ forwarded = <<>>
    /\ dropped = <<>>

\* UDPDemuxerDecoder::read(ctx, msg)
Read(p) ==
    /\ Len(arrived) < MaxPackets
    /\ arrived' = Append(arrived, p)
    /\ IF MatchSrtpOrSrtcp(p)
         THEN /\ dropped' = Append(dropped, p)
              /\ UNCHANGED forwarded
         ELSE /\ forwarded' = Append(forwarded, p)
              /\ UNCHANGED dropped

Next == \E p \in Packets : Read(p)

Spec == Init /\ [][Next]_vars

(***************************************************************************)
(* The RFC 7983 demultiplexer this handler implements: what read passes on *)
(* is what the RFC sends to the next handler, what it keeps back is what  *)
(* the RFC sends to the media branch.                                      *)
(***************************************************************************)
Rfc == INSTANCE Rfc7983Demux WITH toNext <- forwarded, toMedia <- dropped

\* read splits the datagrams exactly as RFC 7983 does, both ends of the
\* 128..191 range included and an empty datagram never taken for media,
\* and keeps their order on each side.
ImplementsRfc7983 == Rfc!Spec

\* spec.md (External interfaces): the demultiplexer routes the STUN, DTLS
\* and SRTP traffic it receives to a consumer, so no datagram read ever
\* takes is lost; read's SRTP/SRTCP branch is a TODO that drops it.
NoDatagramLost == dropped = <<>>

=============================================================================
