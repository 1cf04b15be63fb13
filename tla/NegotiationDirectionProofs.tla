--------------------- MODULE NegotiationDirectionProofs ---------------------
(***************************************************************************)
(* The direction attribute add_transceiver_sdp writes never grants what    *)
(* the offer or the local transceiver does not: AnswerDirectionAgrees,     *)
(* which the run negotiation checks, for every set of transceivers and     *)
(* every remote description.                                               *)
(*                                                                         *)
(* AnswerDirectionAgrees speaks of media[k] and sections[k] together, so   *)
(* it needs to know that media[k] was rendered from sections[k]: media is  *)
(* empty outside populate_sdp's loop, the loop has rendered exactly the    *)
(* sections before index i, and every answered transceiver block carries   *)
(* the direction AnswerDirection computes for its section.                 *)
(***************************************************************************)
EXTENDS NegotiationProofs

\* No media block exists before populate_sdp starts (and none after a call).
MediaEmptyBeforePopulate == pc # "populate" => media = <<>>

\* populate_sdp has rendered the sections 1 .. i-1, one block each.
PopulateProgress == pc = "populate" => Len(media) = i - 1 /\ i - 1 <= Len(sections)

\* Every block answered for a transceiver section carries AnswerDirection of
\* that section's offered direction and its transceiver's direction.
MediaDirections ==
    \A k \in DOMAIN media :
      ~media[k].rejected /\ ~sections[k].data =>
        /\ sections[k].tr \in TIds
        /\ media[k].direction =
             AnswerDirection(sections[k].offered, Transceivers[sections[k].tr].direction)

DirInv == TypeOK /\ MediaEmptyBeforePopulate /\ PopulateProgress /\ MediaDirections

-----------------------------------------------------------------------------

\* The answer direction sends only if the offerer may receive and the
\* transceiver may send, and receives only if the offerer may send and the
\* transceiver may receive (the match in add_transceiver_sdp, lines 431-468).
LEMMA AnswerDirectionSafe ==
    ASSUME NEW o \in Directions, NEW t \in Directions
    PROVE  /\ HasSend(AnswerDirection(o, t)) => PeerMayRecv(o) /\ HasSend(t)
           /\ HasRecv(AnswerDirection(o, t)) => PeerMaySend(o) /\ HasRecv(t)
BY DEF AnswerDirection, Intersect, FromSendRecv, Reverse, HasSend, HasRecv,
       PeerMayRecv, PeerMaySend, Directions, NoDir, Unspecified, Sendrecv,
       Sendonly, Recvonly, Inactive

\* The strengthening implies the property.
LEMMA DirInvAgrees == DirInv => AnswerDirectionAgrees
<1> SUFFICES ASSUME DirInv,
                    NEW k \in DOMAIN media \cap DOMAIN sections,
                    ~media[k].rejected, ~sections[k].data, sections[k].offered # NoDir
             PROVE  /\ HasSend(media[k].direction) =>
                          PeerMayRecv(sections[k].offered)
                          /\ HasSend(Transceivers[sections[k].tr].direction)
                    /\ HasRecv(media[k].direction) =>
                          PeerMaySend(sections[k].offered)
                          /\ HasRecv(Transceivers[sections[k].tr].direction)
  BY Zenon DEF AnswerDirectionAgrees
<1>1. sections \in Seq(SectionRec)
  BY TypeOKSplit, Zenon DEF DirInv, LoopTypes
<1>2. sections[k] \in SectionRec
  BY <1>1
<1>3. sections[k].offered \in Directions
  BY <1>2 DEF SectionRec
<1>4. /\ sections[k].tr \in TIds
      /\ media[k].direction =
           AnswerDirection(sections[k].offered, Transceivers[sections[k].tr].direction)
  BY Zenon DEF DirInv, MediaDirections
<1>5. Transceivers[sections[k].tr].direction \in Directions
  BY <1>4, TransceiverFacts DEF TransceiverRec
<1>6. QED
  BY <1>3, <1>4, <1>5, AnswerDirectionSafe

-----------------------------------------------------------------------------
(* The three conjuncts, in the states a step can lead to.                  *)

\* A call that has not reached populate_sdp, or has just returned.
LEMMA EmptyMedia ==
    ASSUME media' = <<>>, pc' # "populate"
    PROVE  MediaEmptyBeforePopulate' /\ PopulateProgress' /\ MediaDirections'
<1>1. DOMAIN media' = {}
  OBVIOUS
<1>2. QED
  BY <1>1, Zenon DEF MediaEmptyBeforePopulate, PopulateProgress, MediaDirections

\* populate_sdp starts with no block rendered.
LEMMA PopulateStart ==
    ASSUME media' = <<>>, pc' = "populate", i' = 1, sections' \in Seq(SectionRec)
    PROVE  MediaEmptyBeforePopulate' /\ PopulateProgress' /\ MediaDirections'
<1>1. DOMAIN media' = {}
  OBVIOUS
<1>2. Len(media') = i' - 1 /\ i' - 1 <= Len(sections')
  OBVIOUS
<1>3. QED
  BY <1>1, <1>2, Zenon DEF MediaEmptyBeforePopulate, PopulateProgress, MediaDirections

\* One more block rendered for the section at index Len(media) + 1.
LEMMA MediaAppend ==
    ASSUME media \in Seq(MediaRec), MediaDirections, NEW blk,
           media' = Append(media, blk), sections' = sections,
           ~blk.rejected /\ ~sections[Len(media) + 1].data =>
             /\ sections[Len(media) + 1].tr \in TIds
             /\ blk.direction =
                  AnswerDirection(sections[Len(media) + 1].offered,
                                  Transceivers[sections[Len(media) + 1].tr].direction)
    PROVE  MediaDirections'
<1> SUFFICES ASSUME NEW k \in DOMAIN media', ~media'[k].rejected, ~sections'[k].data
             PROVE  /\ sections'[k].tr \in TIds
                    /\ media'[k].direction =
                         AnswerDirection(sections'[k].offered,
                                         Transceivers[sections'[k].tr].direction)
  BY Zenon DEF MediaDirections
<1>1. k \in DOMAIN media \/ k = Len(media) + 1
  OBVIOUS
<1>2. CASE k \in DOMAIN media
  <2>1. media'[k] = media[k]
    BY <1>2
  <2>2. QED
    BY <1>2, <2>1, Zenon DEF MediaDirections
<1>3. CASE k = Len(media) + 1
  <2>1. media'[k] = blk
    BY <1>3
  <2>2. QED
    BY <1>3, <2>1, Zenon
<1>4. QED
  BY <1>1, <1>2, <1>3

\* A populate_sdp step renders the section at index i and advances i.
LEMMA PopulateAdvance ==
    ASSUME CallTypes, LoopTypes, PopulateProgress, pc = "populate", i <= Len(sections),
           NEW blk, media' = Append(media, blk), i' = i + 1, pc' = pc,
           sections' = sections
    PROVE  /\ Len(media) + 1 = i
           /\ MediaEmptyBeforePopulate' /\ PopulateProgress'
<1>1. i \in Nat /\ media \in Seq(MediaRec) /\ sections \in Seq(SectionRec)
  BY Zenon DEF CallTypes, LoopTypes
<1>2. Len(media) = i - 1
  BY Zenon DEF PopulateProgress
<1>3. Len(media) + 1 = i /\ Len(media') = i' - 1 /\ i' - 1 <= Len(sections')
  BY <1>1, <1>2
<1>4. QED
  BY <1>3, Zenon DEF MediaEmptyBeforePopulate, PopulateProgress

-----------------------------------------------------------------------------

LEMMA DirInvInit == Init => DirInv
<1> SUFFICES ASSUME Init PROVE DirInv
  OBVIOUS
<1>1. TypeOK
  BY TypeOKInit
<1>2. media = <<>> /\ pc = "idle"
  BY Zenon DEF Init
<1>3. DOMAIN media = {}
  BY <1>2
<1>4. QED
  BY <1>1, <1>2, <1>3, Zenon
     DEF DirInv, MediaEmptyBeforePopulate, PopulateProgress, MediaDirections

LEMMA DirInvStep == DirInv /\ [Next]_vars => DirInv'
<1> SUFFICES ASSUME DirInv, [Next]_vars PROVE DirInv'
  OBVIOUS
<1>1. TypeOK'
  BY TypeOKStep, Zenon DEF DirInv
<1>2. CallTypes /\ LoopTypes /\ MediaEmptyBeforePopulate /\ PopulateProgress
      /\ MediaDirections
  BY TypeOKSplit, Zenon DEF DirInv
<1> USE DEF DirInv
\* Steps before populate_sdp keep media empty.
<1>3. CASE Call
  <2>1. media' = <<>> /\ pc' = "match"
    BY <1>3, Zenon DEF Call, GenerateMatchedSdp, CreatePendingAnswer, Begin
  <2>2. QED
    BY <1>1, <2>1, EmptyMedia, Zenon
<1>4. CASE MatchSkip \/ MatchApplication \/ MatchTransceiver \/ MatchDone
           \/ UnmatchedAppend \/ UnmatchedSkip \/ UnmatchedDone
  <2>1. pc # "populate" /\ pc' # "populate" /\ media' = media
    BY <1>4, Zenon DEF MatchSkip, MatchApplication, MatchTransceiver, MatchDone,
                       UnmatchedAppend, UnmatchedSkip, UnmatchedDone
  <2>2. media' = <<>>
    BY <1>2, <2>1, Zenon DEF MediaEmptyBeforePopulate
  <2>3. QED
    BY <1>1, <2>1, <2>2, EmptyMedia, Zenon
\* Steps that end the call drop media.
<1>5. CASE MatchFail \/ NoCertificate \/ PopulateFail \/ GenerateDone
           \/ CreatePendingAnswerDone
  <2>1. PICK res : Return(res)
    BY <1>5, Zenon DEF MatchFail, NoCertificate, PopulateFail, GenerateDone,
                       CreatePendingAnswerDone
  <2>2. media' = <<>> /\ pc' = "idle"
    BY <2>1, Zenon DEF Return
  <2>3. QED
    BY <1>1, <2>2, EmptyMedia, Zenon
<1>6. CASE ResolveFingerprints
  <2>1. pc = "certs" /\ pc' = "populate" /\ i' = 1 /\ media' = media
        /\ sections' = sections
    BY <1>6, Zenon DEF ResolveFingerprints
  <2>2. media' = <<>>
    BY <1>2, <2>1, Zenon DEF MediaEmptyBeforePopulate
  <2>3. sections' \in Seq(SectionRec)
    BY <1>2, <2>1, Zenon DEF LoopTypes
  <2>4. QED
    BY <1>1, <2>1, <2>2, <2>3, PopulateStart, Zenon
\* populate_sdp's steps render section i.
<1>7. CASE PopulateData
  <2> DEFINE blk == [mid |-> sections[i].id, kind |-> Application, rejected |-> FALSE,
                     direction |-> Sendrecv, candidates |-> i = 1]
  <2>1. /\ pc = "populate" /\ i <= Len(sections) /\ sections[i].data
        /\ media' = Append(media, blk) /\ i' = i + 1 /\ pc' = pc
        /\ sections' = sections
    BY <1>7, Zenon DEF PopulateData
  <2>2. Len(media) + 1 = i /\ MediaEmptyBeforePopulate' /\ PopulateProgress'
    BY <1>2, <2>1, PopulateAdvance
  <2>3. ~blk.rejected /\ ~sections[Len(media) + 1].data =>
          /\ sections[Len(media) + 1].tr \in TIds
          /\ blk.direction =
               AnswerDirection(sections[Len(media) + 1].offered,
                               Transceivers[sections[Len(media) + 1].tr].direction)
    BY <2>1, <2>2
  <2>4. media \in Seq(MediaRec)
    BY <1>2, Zenon DEF LoopTypes
  <2>5. MediaDirections'
    BY <1>2, <2>1, <2>3, <2>4, MediaAppend
  <2>6. QED
    BY <1>1, <2>2, <2>5, Zenon
<1>8. CASE PopulateTransceiver
  <2> DEFINE s == sections[i]
             tr == Transceivers[s.tr]
             blk == [mid |-> s.id, kind |-> tr.kind, rejected |-> FALSE,
                     direction |-> AnswerDirection(s.offered, tr.direction),
                     candidates |-> i = 1]
  <2>1. /\ pc = "populate" /\ i <= Len(sections)
        /\ PopulateError(s) = "none" /\ ~s.data
        /\ media' = Append(media, blk) /\ i' = i + 1 /\ pc' = pc
        /\ sections' = sections
    BY <1>8, Zenon DEF PopulateTransceiver
  <2>2. Len(media) + 1 = i /\ MediaEmptyBeforePopulate' /\ PopulateProgress'
    BY <1>2, <2>1, PopulateAdvance
  <2>3. s \in SectionRec
    BY <1>2, <2>1, SectionAt
  <2>4. s.tr \in TIds
    <3>1. s.tr # 0
      BY <2>1, <2>3 DEF PopulateError, SectionRec
    <3>2. QED
      BY <2>3, <3>1 DEF SectionRec
  <2>5. ~blk.rejected /\ ~sections[Len(media) + 1].data =>
          /\ sections[Len(media) + 1].tr \in TIds
          /\ blk.direction =
               AnswerDirection(sections[Len(media) + 1].offered,
                               Transceivers[sections[Len(media) + 1].tr].direction)
    BY <2>2, <2>4
  <2>6. media \in Seq(MediaRec)
    BY <1>2, Zenon DEF LoopTypes
  <2>7. MediaDirections'
    BY <1>2, <2>1, <2>5, <2>6, MediaAppend
  <2>8. QED
    BY <1>1, <2>2, <2>7, Zenon
<1>9. CASE PopulateRejected
  <2> DEFINE blk == [mid |-> NoMid, kind |-> Transceivers[sections[i].tr].kind,
                     rejected |-> TRUE, direction |-> NoDir, candidates |-> FALSE]
  <2>1. /\ pc = "populate" /\ i <= Len(sections)
        /\ media' = Append(media, blk) /\ i' = i + 1 /\ pc' = pc
        /\ sections' = sections
    BY <1>9, Zenon DEF PopulateRejected
  <2>2. Len(media) + 1 = i /\ MediaEmptyBeforePopulate' /\ PopulateProgress'
    BY <1>2, <2>1, PopulateAdvance
  <2>3. ~blk.rejected /\ ~sections[Len(media) + 1].data =>
          /\ sections[Len(media) + 1].tr \in TIds
          /\ blk.direction =
               AnswerDirection(sections[Len(media) + 1].offered,
                               Transceivers[sections[Len(media) + 1].tr].direction)
    OBVIOUS
  <2>4. media \in Seq(MediaRec)
    BY <1>2, Zenon DEF LoopTypes
  <2>5. MediaDirections'
    BY <1>2, <2>1, <2>3, <2>4, MediaAppend
  <2>6. QED
    BY <1>1, <2>2, <2>5, Zenon
<1>10. CASE UNCHANGED vars
  <2>1. media' = media /\ pc' = pc /\ i' = i /\ sections' = sections
    BY <1>10, Zenon DEF vars, loopVars
  <2>2. QED
    BY <1>1, <1>2, <2>1, Zenon
       DEF MediaEmptyBeforePopulate, PopulateProgress, MediaDirections
<1>11. QED
  BY <1>3, <1>4, <1>5, <1>6, <1>7, <1>8, <1>9, <1>10 DEF Next

\* generate_matched_sdp and populate_sdp never answer a transceiver section
\* with a direction that sends what the offer does not let the peer
\* receive, receives what it does not let the peer send, or exceeds the
\* transceiver's configured direction: AnswerDirectionAgrees always holds.
THEOREM DirectionsAgree == Spec => []AnswerDirectionAgrees
<1>1. Init => DirInv
  BY DirInvInit
<1>2. DirInv /\ [Next]_vars => DirInv'
  BY DirInvStep
<1>3. DirInv => AnswerDirectionAgrees
  BY DirInvAgrees
<1>4. QED
  BY <1>1, <1>2, <1>3, PTL DEF Spec

=============================================================================
