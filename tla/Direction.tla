----------------------------- MODULE Direction -----------------------------
(***************************************************************************)
(* The direction algebra of RTCRtpTransceiverDirection: the five values,   *)
(* has_send / has_recv, from_send_recv, reverse and intersect.  The Rust   *)
(* file (rtp_transceiver_direction.rs) is not part of src/, so these       *)
(* operators are written from spec.md section 4.1 and from the unit tests  *)
(* kept in src/src/server/session/description/mod.rs (test_rtp_...).  *)
(* Directions are their SDP attribute strings.                             *)
(***************************************************************************)

Unspecified == "Unspecified"
Sendrecv    == "sendrecv"
Sendonly    == "sendonly"
Recvonly    == "recvonly"
Inactive    == "inactive"

Directions == {Unspecified, Sendrecv, Sendonly, Recvonly, Inactive}

\* has_send: Sendrecv and Sendonly may send.
HasSend(d) == d \in {Sendrecv, Sendonly}

\* has_recv: Sendrecv and Recvonly may receive.
HasRecv(d) == d \in {Sendrecv, Recvonly}

\* from_send_recv(send, recv)
FromSendRecv(send, recv) ==
    IF send THEN (IF recv THEN Sendrecv ELSE Sendonly)
            ELSE (IF recv THEN Recvonly ELSE Inactive)

\* reverse: Sendonly <-> Recvonly, every other value unchanged.
Reverse(d) ==
    CASE d = Sendonly -> Recvonly
      [] d = Recvonly -> Sendonly
      [] OTHER        -> d

\* intersect: the capabilities both directions have.  The spec gives the
\* table by its entries; every entry it and test_rtp_transceiver_intersect
\* list is the value of this closed form, and a pair with Unspecified
\* (no capability) resolves to Inactive, the safe default.
Intersect(a, b) == FromSendRecv(HasSend(a) /\ HasSend(b), HasRecv(a) /\ HasRecv(b))

=============================================================================
