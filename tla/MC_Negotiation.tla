--------------------------- MODULE MC_Negotiation ---------------------------
(***************************************************************************)
(* A small instance of Negotiation: four transceivers covering the three  *)
(* branches of add_transceiver_sdp (codecs; no codecs and no track; no     *)
(* codecs and a track), and every remote description of at most two      *)
(* blocks over mids 0 and 1, the empty mid and a missing mid, with        *)
(* distinct mids: audio and video blocks in every peer direction, one     *)
(* application and one unknown ("text") block.  The empty remote (also   *)
(* what an RTCSessionDescription deserialised without a parse yields) is  *)
(* among them.                                                             *)
(***************************************************************************)
EXTENDS Negotiation

MCTransceivers ==
    << [mid |-> 0, kind |-> "audio", direction |-> Sendonly, hasCodecs |-> TRUE,  hasTrack |-> FALSE],
       [mid |-> 1, kind |-> "video", direction |-> Sendrecv, hasCodecs |-> TRUE,  hasTrack |-> TRUE],
       [mid |-> 2, kind |-> "video", direction |-> Recvonly, hasCodecs |-> FALSE, hasTrack |-> FALSE],
       [mid |-> 3, kind |-> "audio", direction |-> Sendrecv, hasCodecs |-> FALSE, hasTrack |-> TRUE] >>

\* The lists a caller passes: both codec transceivers, one alone, and each
\* codec-less one with a codec transceiver (rejected first, and failing).
MCLocalLists == {<<1, 2>>, <<2>>, <<3, 1>>, <<1, 4>>}

\* The peer direction matters only for audio and video blocks, and neither
\* media type nor direction for a block without a usable mid: those get one
\* representative each.
MCRemoteMedia ==
    [media: {"audio", "video"}, mid: {0, 1}, direction: Directions]
    \cup [media: {Application, "text"}, mid: {0, 1}, direction: {Sendrecv}]
    \cup [media: {"audio"}, mid: {EmptyMid, NoMid}, direction: {Sendrecv}]

\* Remote descriptions whose present, non-empty mids are distinct.
MCRemoteOffers ==
    {r \in UNION {[1..n -> MCRemoteMedia] : n \in 0..2} :
        \A j, k \in DOMAIN r : j # k /\ HasMid(r[j]) /\ HasMid(r[k]) => r[j].mid # r[k].mid}

\* Offers that name a codec-less transceiver: one block per mid 0, 1 and 2,
\* each of its transceiver's kind (mid 2 is the transceiver with neither
\* codecs nor a track), so a rejected block can come first in an answer.
MCAnswerMedia ==
    {[media |-> Transceivers[t].kind, mid |-> Transceivers[t].mid, direction |-> Sendrecv] :
        t \in 1..3}

MCAnswerOffers ==
    {r \in UNION {[1..n -> MCAnswerMedia] : n \in 0..2} :
        \A j, k \in DOMAIN r : j # k => r[j].mid # r[k].mid}

=============================================================================
