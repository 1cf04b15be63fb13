------------------------- MODULE NegotiationProofs -------------------------
(***************************************************************************)
(* Proofs about Negotiation, for every value of its constants that meets   *)
(* the module's assumptions.                                               *)
(***************************************************************************)
EXTENDS Negotiation, TLAPS

-----------------------------------------------------------------------------
(* The direction algebra stays within the five directions.                 *)

LEMMA IntersectType ==
    ASSUME NEW a \in Directions, NEW b \in Directions
    PROVE  Intersect(a, b) \in Directions
BY DEF Intersect, FromSendRecv, Directions

LEMMA AnswerDirectionType ==
    ASSUME NEW o \in Directions \cup {NoDir}, NEW t \in Directions
    PROVE  AnswerDirection(o, t) \in Directions
<1>1. Reverse(o) \in Directions \/ o = NoDir
  BY DEF Reverse, Directions, Sendonly, Recvonly, NoDir
<1>2. o \in {Sendonly, Recvonly} => Intersect(Reverse(o), t) \in Directions
  BY <1>1, IntersectType DEF NoDir, Sendonly, Recvonly
<1>3. QED
  BY <1>2 DEF AnswerDirection, Directions, NoDir

-----------------------------------------------------------------------------
(* Type correctness.                                                       *)

\* A transceiver index names a TransceiverRec; a remote block with a usable
\* mid has a numeric one.
LEMMA TransceiverFacts ==
    /\ \A t \in TIds : Transceivers[t] \in TransceiverRec
    /\ \A m \in RemoteMedia : HasMid(m) => m.mid \in Nat
BY TransceiversAssumption, MidValuesAssumption DEF TIds, HasMid, RemoteMedia

(* TypeOK in three parts: the call's inputs and loop index, the loop's     *)
(* accumulators, and the state that outlives a call.                       *)

CallTypes ==
    /\ pc \in {"idle", "match", "unmatched", "certs", "populate"}
    /\ caller \in {"none", "generate", "answer"}
    /\ offerSdp \in Seq(RemoteMedia)
    /\ remote \in Seq(RemoteMedia)
    /\ local \in Seq(TIds)
    /\ includeUnmatched \in BOOLEAN
    /\ origin \in OriginRec
    /\ i \in Nat /\ (pc # "idle" => i >= 1)

LoopTypes ==
    /\ sections \in Seq(SectionRec)
    /\ matched \subseteq Nat
    /\ haveApp \in BOOLEAN
    /\ media \in Seq(MediaRec)
    /\ bundle \in Seq(Nat)

KeptTypes ==
    /\ hasCert \in BOOLEAN
    /\ negotiated \in [TIds -> BOOLEAN]
    /\ described \subseteq TIds
    /\ prevAnswer \in OriginRec \cup {NoAnswer}
    /\ lastAnswer \in OriginRec \cup {NoAnswer}

\* TypeOK is the conjunction of the three parts, now and in the next state.
LEMMA TypeOKSplit ==
    /\ TypeOK => CallTypes /\ LoopTypes /\ KeptTypes
    /\ CallTypes' /\ LoopTypes' /\ KeptTypes' => TypeOK'
BY Zenon DEF TypeOK, CallTypes, LoopTypes, KeptTypes

\* Each part is kept by a step that leaves its variables alone.
LEMMA CallUnchanged ==
    ASSUME CallTypes, UNCHANGED <<pc, caller, offerSdp, remote, local, includeUnmatched, origin, i>>
    PROVE  CallTypes'
BY Zenon DEF CallTypes

LEMMA LoopUnchanged ==
    ASSUME LoopTypes, UNCHANGED <<sections, matched, haveApp, media, bundle>>
    PROVE  LoopTypes'
BY Zenon DEF LoopTypes

LEMMA KeptUnchanged ==
    ASSUME KeptTypes, UNCHANGED <<hasCert, negotiated, described, prevAnswer, lastAnswer>>
    PROVE  KeptTypes'
BY Zenon DEF KeptTypes

\* A loop step that only advances the index.
LEMMA CallAdvance ==
    ASSUME CallTypes, UNCHANGED <<pc, caller, offerSdp, remote, local, includeUnmatched, origin>>,
           i' = i + 1
    PROVE  CallTypes'
<1>1. i \in Nat
  BY Zenon DEF CallTypes
<1>2. i' \in Nat /\ i' >= 1
  BY <1>1
<1>3. QED
  BY <1>2, Zenon DEF CallTypes

\* A step that sets the loop index to 1 and leaves the call's inputs alone.
LEMMA CallRestart ==
    ASSUME CallTypes, UNCHANGED <<caller, offerSdp, remote, local, includeUnmatched, origin>>,
           pc' \in {"idle", "match", "unmatched", "certs", "populate"}, i' = 1
    PROVE  CallTypes'
<1>1. i' \in Nat /\ i' >= 1
  OBVIOUS
<1>2. QED
  BY <1>1, Zenon DEF CallTypes

\* The empty accumulators a call starts and ends with are well typed.
LEMMA LoopReset ==
    ASSUME sections' = <<>>, matched' = {}, haveApp' = FALSE, media' = <<>>, bundle' = <<>>
    PROVE  LoopTypes'
<1>1. sections' \in Seq(SectionRec)
  OBVIOUS
<1>2. media' \in Seq(MediaRec)
  OBVIOUS
<1>3. bundle' \in Seq(Nat)
  OBVIOUS
<1>4. matched' \subseteq Nat
  OBVIOUS
<1>5. QED
  BY <1>1, <1>2, <1>3, <1>4, Zenon DEF LoopTypes

\* Return leaves the call's variables at their well-typed idle values.
LEMMA ReturnType ==
    ASSUME NEW res, Return(res)
    PROVE  CallTypes' /\ LoopTypes'
<1>1. /\ pc' = "idle" /\ caller' = "none" /\ offerSdp' = <<>> /\ remote' = <<>> /\ local' = <<>>
      /\ includeUnmatched' = FALSE /\ origin' = NoOrigin /\ i' = 0
      /\ sections' = <<>> /\ matched' = {} /\ haveApp' = FALSE
      /\ media' = <<>> /\ bundle' = <<>>
  BY Zenon DEF Return
<1>2. remote' \in Seq(RemoteMedia) /\ offerSdp' \in Seq(RemoteMedia)
  BY <1>1
<1>3. local' \in Seq(TIds)
  BY <1>1
<1>4. origin' \in OriginRec
  BY <1>1 DEF NoOrigin, OriginRec
<1>5. i' \in Nat
  BY <1>1
<1>6. CallTypes'
  BY <1>1, <1>2, <1>3, <1>4, <1>5, Zenon DEF CallTypes
<1>7. QED
  BY <1>1, <1>6, LoopReset, Zenon

\* A step that ends the call keeps TypeOK when what outlives it stays typed.
LEMMA ReturnTypeOK ==
    ASSUME NEW res, Return(res), KeptTypes'
    PROVE  TypeOK'
BY ReturnType, TypeOKSplit, Zenon

\* A call's entry step takes the sdp blocks and the parsed blocks (all or
\* none of them) of a remote description.
LEMMA RemoteDescriptionFacts ==
    ASSUME NEW r \in RemoteDescriptions, NEW l, NEW inc,
           GenerateMatchedSdp(r, l, inc) \/ CreatePendingAnswer(r)
    PROVE  offerSdp' \in Seq(RemoteMedia) /\ remote' \in Seq(RemoteMedia)
<1>1. r.sdp \in Seq(RemoteMedia) /\ r.parsed \in BOOLEAN
  BY RemoteOffersAssumption DEF RemoteDescriptions
<1>2. offerSdp' = r.sdp /\ remote' = IF r.parsed THEN r.sdp ELSE <<>>
  BY Zenon DEF GenerateMatchedSdp, CreatePendingAnswer, Begin
<1>3. QED
  BY <1>1, <1>2

\* The transceivers a well-typed section list names are transceiver indices.
LEMMA SectionTransceiversType ==
    ASSUME sections \in Seq(SectionRec)
    PROVE  SectionTransceivers \subseteq TIds
<1>1. \A k \in DOMAIN sections : sections[k].tr \in TIds \cup {0}
  <2> TAKE k \in DOMAIN sections
  <2>1. sections[k] \in SectionRec
    OBVIOUS
  <2>2. QED
    BY <2>1 DEF SectionRec
<1>2. QED
  BY <1>1 DEF SectionTransceivers

\* Inside a loop the index names an element of the list being walked.
LEMMA RemoteAt ==
    ASSUME CallTypes, pc # "idle", i <= Len(remote)
    PROVE  remote[i] \in RemoteMedia
<1>1. remote \in Seq(RemoteMedia) /\ i \in Nat /\ i >= 1
  BY Zenon DEF CallTypes
<1>2. QED
  BY <1>1

LEMMA LocalAt ==
    ASSUME CallTypes, pc # "idle", i <= Len(local)
    PROVE  local[i] \in TIds
<1>1. local \in Seq(TIds) /\ i \in Nat /\ i >= 1
  BY Zenon DEF CallTypes
<1>2. QED
  BY <1>1

LEMMA SectionAt ==
    ASSUME CallTypes, LoopTypes, pc # "idle", i <= Len(sections)
    PROVE  sections[i] \in SectionRec
<1>1. sections \in Seq(SectionRec) /\ i \in Nat /\ i >= 1
  BY Zenon DEF CallTypes, LoopTypes
<1>2. QED
  BY <1>1

\* The initial state of a Session is well typed.
LEMMA TypeOKInit == Init => TypeOK
<1> SUFFICES ASSUME Init PROVE TypeOK
  OBVIOUS
<1>1. /\ pc = "idle" /\ caller = "none" /\ offerSdp = <<>> /\ remote = <<>> /\ local = <<>>
      /\ includeUnmatched = FALSE /\ origin = NoOrigin /\ i = 0
      /\ sections = <<>> /\ matched = {} /\ haveApp = FALSE
      /\ media = <<>> /\ bundle = <<>>
      /\ hasCert \in BOOLEAN /\ negotiated = [t \in TIds |-> FALSE] /\ described = {}
      /\ prevAnswer = NoAnswer /\ lastAnswer = NoAnswer
  BY Zenon DEF Init
<1>2. remote \in Seq(RemoteMedia) /\ offerSdp \in Seq(RemoteMedia) /\ local \in Seq(TIds) /\ origin \in OriginRec
      /\ i \in Nat
  BY <1>1 DEF NoOrigin, OriginRec
<1>3. CallTypes
  BY <1>1, <1>2, Zenon DEF CallTypes
<1>4. LoopTypes
  <2>1. sections \in Seq(SectionRec) /\ media \in Seq(MediaRec) /\ bundle \in Seq(Nat)
    BY <1>1
  <2>2. QED
    BY <1>1, <2>1, Zenon DEF LoopTypes
<1>5. negotiated \in [TIds -> BOOLEAN]
  BY <1>1
<1>6. KeptTypes
  BY <1>1, <1>5, Zenon DEF KeptTypes
<1>7. QED
  BY <1>3, <1>4, <1>6, Zenon DEF TypeOK, CallTypes, LoopTypes, KeptTypes

\* Every step of a call, and a stutter, keeps TypeOK.
LEMMA TypeOKStep == TypeOK /\ [Next]_vars => TypeOK'
<1> SUFFICES ASSUME TypeOK, [Next]_vars PROVE TypeOK'
  OBVIOUS
<1>1. CallTypes /\ LoopTypes /\ KeptTypes
  BY TypeOKSplit
<1>2. CASE Call
  <2>1. CASE \E r \in RemoteDescriptions, l \in LocalLists, inc \in BOOLEAN :
               GenerateMatchedSdp(r, l, inc)
    <3>1. PICK ro \in RemoteDescriptions, lo \in LocalLists, io \in BOOLEAN :
                 GenerateMatchedSdp(ro, lo, io)
      BY <2>1
    <3>2. offerSdp' \in Seq(RemoteMedia) /\ remote' \in Seq(RemoteMedia)
      BY <3>1, RemoteDescriptionFacts
    <3>3. lo \in Seq(TIds)
      BY LocalListsAssumption DEF TIds
    <3>4. /\ local' = lo /\ includeUnmatched' = io
          /\ pc' = "match" /\ i' = 1 /\ caller' = "generate"
          /\ sections' = <<>> /\ matched' = {} /\ haveApp' = FALSE
          /\ media' = <<>> /\ bundle' = <<>>
          /\ UNCHANGED <<hasCert, negotiated, described, prevAnswer, lastAnswer>>
      BY <3>1, Zenon DEF GenerateMatchedSdp, Begin
    <3>5. origin' \in OriginRec
      BY <3>1, OriginAssumption DEF GenerateMatchedSdp, Begin, OriginRec
    <3>6. i' \in Nat /\ i' >= 1
      BY <3>4
    <3>7. CallTypes'
      BY <3>2, <3>3, <3>4, <3>5, <3>6, Zenon DEF CallTypes
    <3>8. QED
      BY <1>1, <3>4, <3>7, LoopReset, KeptUnchanged, TypeOKSplit, Zenon
  <2>2. CASE \E r \in RemoteDescriptions : CreatePendingAnswer(r)
    <3>1. PICK ro \in RemoteDescriptions : CreatePendingAnswer(ro)
      BY <2>2
    <3>2. offerSdp' \in Seq(RemoteMedia) /\ remote' \in Seq(RemoteMedia)
      BY <3>1, RemoteDescriptionFacts
    <3>3. <<>> \in Seq(TIds)
      OBVIOUS
    <3>4. /\ local' = <<>> /\ includeUnmatched' = FALSE
          /\ pc' = "match" /\ i' = 1 /\ caller' = "answer"
          /\ sections' = <<>> /\ matched' = {} /\ haveApp' = FALSE
          /\ media' = <<>> /\ bundle' = <<>>
          /\ UNCHANGED <<hasCert, negotiated, described, prevAnswer, lastAnswer>>
      BY <3>1, Zenon DEF CreatePendingAnswer, Begin
    <3>5. origin' \in OriginRec
      BY <3>1, OriginAssumption DEF CreatePendingAnswer, Begin, OriginRec
    <3>6. i' \in Nat /\ i' >= 1
      BY <3>4
    <3>7. CallTypes'
      BY <3>2, <3>3, <3>4, <3>5, <3>6, Zenon DEF CallTypes
    <3>8. QED
      BY <1>1, <3>4, <3>7, LoopReset, KeptUnchanged, TypeOKSplit, Zenon
  <2>3. QED
    BY <1>2, <2>1, <2>2 DEF Call
<1>3. CASE MatchSkip
  <2>1. /\ UNCHANGED <<pc, caller, offerSdp, remote, local, includeUnmatched, origin>>
        /\ i' = i + 1
        /\ UNCHANGED <<sections, matched, haveApp, media, bundle>>
        /\ UNCHANGED <<hasCert, negotiated, described, prevAnswer, lastAnswer>>
    BY <1>3 DEF MatchSkip, callVars
  <2>2. QED
    BY <1>1, <2>1, CallAdvance, LoopUnchanged, KeptUnchanged, TypeOKSplit, Zenon
<1>4. CASE MatchFail
  <2>1. PICK res : Return(res)
    BY <1>4, Zenon DEF MatchFail
  <2>2. UNCHANGED <<hasCert, negotiated, described, prevAnswer, lastAnswer>>
    BY <1>4 DEF MatchFail
  <2>3. QED
    BY <1>1, <2>1, <2>2, KeptUnchanged, ReturnTypeOK, Zenon
<1>5. CASE MatchApplication
  <2>1. /\ pc = "match" /\ i <= Len(remote)
        /\ HasMid(remote[i]) /\ remote[i].media = Application
        /\ sections' = Append(sections, [id |-> remote[i].mid, tr |-> 0, data |-> TRUE,
                                         offered |-> NoDir])
        /\ haveApp' = TRUE /\ i' = i + 1
        /\ UNCHANGED <<pc, caller, offerSdp, remote, local, includeUnmatched, origin>>
        /\ UNCHANGED <<matched, media, bundle>>
        /\ UNCHANGED <<hasCert, negotiated, described, prevAnswer, lastAnswer>>
    BY <1>5, Zenon DEF MatchApplication, callVars
  <2>2. remote[i] \in RemoteMedia
    BY <1>1, <2>1, RemoteAt
  <2>3. remote[i].mid \in Nat
    BY <2>1, <2>2, TransceiverFacts
  <2>4. sections' \in Seq(SectionRec)
    <3>1. [id |-> remote[i].mid, tr |-> 0, data |-> TRUE, offered |-> NoDir] \in SectionRec
      BY <2>3 DEF SectionRec
    <3>2. sections \in Seq(SectionRec)
      BY <1>1 DEF LoopTypes
    <3>3. QED
      BY <2>1, <3>1, <3>2
  <2>5. LoopTypes'
    BY <1>1, <2>1, <2>4, Zenon DEF LoopTypes
  <2>6. QED
    BY <1>1, <2>1, <2>5, CallAdvance, KeptUnchanged, TypeOKSplit, Zenon
<1>6. CASE MatchTransceiver
  <2> DEFINE t == local[FindByMid(remote[i].mid)]
             sec == [id |-> remote[i].mid, tr |-> t, data |-> FALSE,
                     offered |-> IF includeUnmatched THEN NoDir ELSE remote[i].direction]
  <2>1. /\ pc = "match" /\ i <= Len(remote)
        /\ IsRtp(remote[i]) /\ LocalWithMid(remote[i].mid) # {}
        /\ negotiated' = [negotiated EXCEPT ![t] = TRUE]
        /\ matched' = matched \cup {Transceivers[t].mid}
        /\ sections' = Append(sections, sec)
        /\ i' = i + 1
        /\ UNCHANGED <<pc, caller, offerSdp, remote, local, includeUnmatched, origin>>
        /\ UNCHANGED <<haveApp, media, bundle>>
        /\ UNCHANGED <<hasCert, described, prevAnswer, lastAnswer>>
    BY <1>6, Zenon DEF MatchTransceiver, callVars
  <2>2. remote[i] \in RemoteMedia
    BY <1>1, <2>1, RemoteAt
  <2>3. remote[i].mid \in Nat /\ remote[i].direction \in Directions
    BY <2>1, <2>2, TransceiverFacts DEF IsRtp, RemoteMedia
  <2>4. FindByMid(remote[i].mid) \in DOMAIN local
    BY <2>1 DEF FindByMid, LocalWithMid
  <2>5. t \in TIds
    <3>1. local \in Seq(TIds)
      BY <1>1, Zenon DEF CallTypes
    <3>2. QED
      BY <2>4, <3>1
  <2>6. Transceivers[t].mid \in Nat
    BY <2>5, TransceiverFacts DEF TransceiverRec
  <2>7. sec \in SectionRec
    BY <2>3, <2>5 DEF SectionRec
  <2>8. sections' \in Seq(SectionRec)
    <3>1. sections \in Seq(SectionRec)
      BY <1>1 DEF LoopTypes
    <3>2. QED
      BY <2>1, <2>7, <3>1
  <2>9. matched' \subseteq Nat
    <3>1. matched \subseteq Nat
      BY <1>1 DEF LoopTypes
    <3>2. QED
      BY <2>1, <2>6, <3>1
  <2>10. negotiated' \in [TIds -> BOOLEAN]
    <3>1. negotiated \in [TIds -> BOOLEAN]
      BY <1>1 DEF KeptTypes
    <3>2. QED
      BY <2>1, <3>1
  <2>11. LoopTypes'
    BY <1>1, <2>1, <2>8, <2>9, Zenon DEF LoopTypes
  <2>12. KeptTypes'
    BY <1>1, <2>1, <2>10, Zenon DEF KeptTypes
  <2>13. QED
    BY <1>1, <2>1, <2>11, <2>12, CallAdvance, TypeOKSplit, Zenon
<1>7. CASE MatchDone
  <2>1. /\ pc' \in {"idle", "match", "unmatched", "certs", "populate"} /\ i' = 1
        /\ UNCHANGED <<caller, offerSdp, remote, local, includeUnmatched, origin>>
        /\ UNCHANGED <<sections, matched, haveApp, media, bundle>>
        /\ UNCHANGED <<hasCert, negotiated, described, prevAnswer, lastAnswer>>
    BY <1>7 DEF MatchDone, callVars
  <2>2. QED
    BY <1>1, <2>1, CallRestart, LoopUnchanged, KeptUnchanged, TypeOKSplit, Zenon
<1>8. CASE UnmatchedAppend
  <2> DEFINE sec == [id |-> Transceivers[local[i]].mid, tr |-> local[i],
                     data |-> FALSE, offered |-> NoDir]
  <2>1. /\ pc = "unmatched" /\ i <= Len(local)
        /\ negotiated' = [negotiated EXCEPT ![local[i]] = TRUE]
        /\ sections' = Append(sections, sec)
        /\ i' = i + 1
        /\ UNCHANGED <<pc, caller, offerSdp, remote, local, includeUnmatched, origin>>
        /\ UNCHANGED <<matched, haveApp, media, bundle>>
        /\ UNCHANGED <<hasCert, described, prevAnswer, lastAnswer>>
    BY <1>8, Zenon DEF UnmatchedAppend, callVars
  <2>2. local[i] \in TIds
    BY <1>1, <2>1, LocalAt
  <2>3. sec \in SectionRec
    BY <2>2, TransceiverFacts DEF SectionRec, TransceiverRec
  <2>4. sections' \in Seq(SectionRec)
    <3>1. sections \in Seq(SectionRec)
      BY <1>1 DEF LoopTypes
    <3>2. QED
      BY <2>1, <2>3, <3>1
  <2>5. negotiated' \in [TIds -> BOOLEAN]
    <3>1. negotiated \in [TIds -> BOOLEAN]
      BY <1>1 DEF KeptTypes
    <3>2. QED
      BY <2>1, <3>1
  <2>6. LoopTypes'
    BY <1>1, <2>1, <2>4, Zenon DEF LoopTypes
  <2>7. KeptTypes'
    BY <1>1, <2>1, <2>5, Zenon DEF KeptTypes
  <2>8. QED
    BY <1>1, <2>1, <2>6, <2>7, CallAdvance, TypeOKSplit, Zenon
<1>9. CASE UnmatchedSkip
  <2>1. /\ UNCHANGED <<pc, caller, offerSdp, remote, local, includeUnmatched, origin>>
        /\ i' = i + 1
        /\ UNCHANGED <<sections, matched, haveApp, media, bundle>>
        /\ UNCHANGED <<hasCert, negotiated, described, prevAnswer, lastAnswer>>
    BY <1>9 DEF UnmatchedSkip, callVars
  <2>2. QED
    BY <1>1, <2>1, CallAdvance, LoopUnchanged, KeptUnchanged, TypeOKSplit, Zenon
<1>10. CASE UnmatchedDone
  <2>1. /\ \/ sections' = sections
           \/ sections' = Append(sections, [id |-> Len(sections), tr |-> 0,
                                            data |-> TRUE, offered |-> NoDir])
        /\ pc' = "certs"
        /\ UNCHANGED <<caller, offerSdp, remote, local, includeUnmatched, origin, i>>
        /\ UNCHANGED <<matched, haveApp, media, bundle>>
        /\ UNCHANGED <<hasCert, negotiated, described, prevAnswer, lastAnswer>>
    BY <1>10, Zenon DEF UnmatchedDone, callVars
  <2>2. sections \in Seq(SectionRec)
    BY <1>1 DEF LoopTypes
  <2>3. [id |-> Len(sections), tr |-> 0, data |-> TRUE, offered |-> NoDir] \in SectionRec
    BY <2>2 DEF SectionRec
  <2>4. sections' \in Seq(SectionRec)
    BY <2>1, <2>2, <2>3
  <2>5. i \in Nat /\ i >= 1
    BY <1>1, <1>10, Zenon DEF CallTypes, UnmatchedDone
  <2>6. CallTypes'
    BY <1>1, <2>1, <2>5, Zenon DEF CallTypes
  <2>7. LoopTypes'
    BY <1>1, <2>1, <2>4, Zenon DEF LoopTypes
  <2>8. QED
    BY <1>1, <2>1, <2>6, <2>7, KeptUnchanged, TypeOKSplit, Zenon
<1>11. CASE ResolveFingerprints
  <2>1. /\ pc' \in {"idle", "match", "unmatched", "certs", "populate"} /\ i' = 1
        /\ UNCHANGED <<caller, offerSdp, remote, local, includeUnmatched, origin>>
        /\ UNCHANGED <<sections, matched, haveApp, media, bundle>>
        /\ UNCHANGED <<hasCert, negotiated, described, prevAnswer, lastAnswer>>
    BY <1>11 DEF ResolveFingerprints, callVars
  <2>2. QED
    BY <1>1, <2>1, CallRestart, LoopUnchanged, KeptUnchanged, TypeOKSplit, Zenon
<1>12. CASE NoCertificate
  <2>1. Return("ErrNonCertificate")
    BY <1>12 DEF NoCertificate
  <2>2. UNCHANGED <<hasCert, negotiated, described, prevAnswer, lastAnswer>>
    BY <1>12 DEF NoCertificate
  <2>3. QED
    BY <1>1, <2>1, <2>2, KeptUnchanged, ReturnTypeOK, Zenon
<1>13. CASE PopulateData
  <2> DEFINE blk == [mid |-> sections[i].id, kind |-> Application, rejected |-> FALSE,
                     direction |-> Sendrecv, candidates |-> i = 1]
  <2>1. /\ pc = "populate" /\ i <= Len(sections)
        /\ media' = Append(media, blk)
        /\ bundle' = Append(bundle, sections[i].id)
        /\ i' = i + 1
        /\ UNCHANGED <<pc, caller, offerSdp, remote, local, includeUnmatched, origin>>
        /\ UNCHANGED <<sections, matched, haveApp>>
        /\ UNCHANGED <<hasCert, negotiated, described, prevAnswer, lastAnswer>>
    BY <1>13, Zenon DEF PopulateData, callVars
  <2>2. sections[i] \in SectionRec
    BY <1>1, <2>1, SectionAt
  <2>3. blk \in MediaRec
    BY <2>2 DEF SectionRec, MediaRec, Directions
  <2>4. media' \in Seq(MediaRec)
    <3>1. media \in Seq(MediaRec)
      BY <1>1 DEF LoopTypes
    <3>2. QED
      BY <2>1, <2>3, <3>1
  <2>5. bundle' \in Seq(Nat)
    <3>1. bundle \in Seq(Nat)
      BY <1>1 DEF LoopTypes
    <3>2. QED
      BY <2>1, <2>2, <3>1 DEF SectionRec
  <2>6. LoopTypes'
    BY <1>1, <2>1, <2>4, <2>5, Zenon DEF LoopTypes
  <2>7. QED
    BY <1>1, <2>1, <2>6, CallAdvance, KeptUnchanged, TypeOKSplit, Zenon
<1>14. CASE PopulateTransceiver
  <2> DEFINE s == sections[i]
             tr == Transceivers[s.tr]
             blk == [mid |-> s.id, kind |-> tr.kind, rejected |-> FALSE,
                     direction |-> AnswerDirection(s.offered, tr.direction),
                     candidates |-> i = 1]
  <2>1. /\ pc = "populate" /\ i <= Len(sections)
        /\ PopulateError(s) = "none" /\ ~s.data
        /\ media' = Append(media, blk)
        /\ bundle' = Append(bundle, s.id)
        /\ i' = i + 1
        /\ UNCHANGED <<pc, caller, offerSdp, remote, local, includeUnmatched, origin>>
        /\ UNCHANGED <<sections, matched, haveApp>>
        /\ UNCHANGED <<hasCert, negotiated, described, prevAnswer, lastAnswer>>
    BY <1>14, Zenon DEF PopulateTransceiver, callVars
  <2>2. s \in SectionRec
    BY <1>1, <2>1, SectionAt
  <2>3. s.tr # 0
    BY <2>1, <2>2 DEF PopulateError, SectionRec
  <2>4. tr \in TransceiverRec
    BY <2>2, <2>3, TransceiverFacts DEF SectionRec
  <2>5. AnswerDirection(s.offered, tr.direction) \in Directions
    BY <2>2, <2>4, AnswerDirectionType DEF SectionRec, TransceiverRec
  <2>6. blk \in MediaRec
    BY <2>2, <2>4, <2>5 DEF SectionRec, MediaRec, TransceiverRec
  <2>7. media' \in Seq(MediaRec)
    <3>1. media \in Seq(MediaRec)
      BY <1>1 DEF LoopTypes
    <3>2. QED
      BY <2>1, <2>6, <3>1
  <2>8. bundle' \in Seq(Nat)
    <3>1. bundle \in Seq(Nat)
      BY <1>1 DEF LoopTypes
    <3>2. QED
      BY <2>1, <2>2, <3>1 DEF SectionRec
  <2>9. LoopTypes'
    BY <1>1, <2>1, <2>7, <2>8, Zenon DEF LoopTypes
  <2>10. QED
    BY <1>1, <2>1, <2>9, CallAdvance, KeptUnchanged, TypeOKSplit, Zenon
<1>15. CASE PopulateRejected
  <2> DEFINE blk == [mid |-> NoMid, kind |-> Transceivers[sections[i].tr].kind,
                     rejected |-> TRUE, direction |-> NoDir, candidates |-> FALSE]
  <2>1. /\ pc = "populate" /\ i <= Len(sections)
        /\ PopulateError(sections[i]) = "none" /\ ~sections[i].data
        /\ media' = Append(media, blk)
        /\ i' = i + 1
        /\ UNCHANGED <<pc, caller, offerSdp, remote, local, includeUnmatched, origin>>
        /\ UNCHANGED <<sections, matched, haveApp, bundle>>
        /\ UNCHANGED <<hasCert, negotiated, described, prevAnswer, lastAnswer>>
    BY <1>15, Zenon DEF PopulateRejected, callVars
  <2>2. sections[i] \in SectionRec
    BY <1>1, <2>1, SectionAt
  <2>3. sections[i].tr # 0
    BY <2>1, <2>2 DEF PopulateError, SectionRec
  <2>4. Transceivers[sections[i].tr] \in TransceiverRec
    BY <2>2, <2>3, TransceiverFacts DEF SectionRec
  <2>5. blk \in MediaRec
    BY <2>4 DEF MediaRec, TransceiverRec
  <2>6. media' \in Seq(MediaRec)
    <3>1. media \in Seq(MediaRec)
      BY <1>1 DEF LoopTypes
    <3>2. QED
      BY <2>1, <2>5, <3>1
  <2>7. LoopTypes'
    BY <1>1, <2>1, <2>6, Zenon DEF LoopTypes
  <2>8. QED
    BY <1>1, <2>1, <2>7, CallAdvance, KeptUnchanged, TypeOKSplit, Zenon
<1>16. CASE PopulateFail
  <2>1. PICK res : Return(res)
    BY <1>16, Zenon DEF PopulateFail
  <2>2. UNCHANGED <<hasCert, negotiated, described, prevAnswer, lastAnswer>>
    BY <1>16 DEF PopulateFail
  <2>3. QED
    BY <1>1, <2>1, <2>2, KeptUnchanged, ReturnTypeOK, Zenon
<1>17. CASE GenerateDone
  <2>1. /\ Return("ok")
        /\ described' = described \cup SectionTransceivers
        /\ UNCHANGED <<hasCert, negotiated, prevAnswer, lastAnswer>>
    BY <1>17, Zenon DEF GenerateDone
  <2>2. SectionTransceivers \subseteq TIds
    BY <1>1, SectionTransceiversType DEF LoopTypes
  <2>3. described' \subseteq TIds
    BY <1>1, <2>1, <2>2 DEF KeptTypes
  <2>4. KeptTypes'
    BY <1>1, <2>1, <2>3, Zenon DEF KeptTypes
  <2>5. QED
    BY <2>1, <2>4, ReturnTypeOK
<1>18. CASE CreatePendingAnswerDone
  <2>1. /\ Return("ok")
        /\ described' = described \cup SectionTransceivers
        /\ prevAnswer' = lastAnswer
        /\ lastAnswer' = SdpOriginUpdate(NoOrigin, origin).desc
        /\ UNCHANGED <<hasCert, negotiated>>
    BY <1>18, Zenon DEF CreatePendingAnswerDone
  <2>2. SectionTransceivers \subseteq TIds
    BY <1>1, SectionTransceiversType DEF LoopTypes
  <2>3. described' \subseteq TIds
    BY <1>1, <2>1, <2>2 DEF KeptTypes
  <2>4. lastAnswer' \in OriginRec
    <3>1. origin \in OriginRec
      BY <1>1, Zenon DEF CallTypes
    <3>2. SdpOriginUpdate(NoOrigin, origin).desc = origin
      BY DEF SdpOriginUpdate, NoOrigin
    <3>3. QED
      BY <2>1, <3>1, <3>2
  <2>5. KeptTypes'
    BY <1>1, <2>1, <2>3, <2>4, Zenon DEF KeptTypes
  <2>6. QED
    BY <2>1, <2>5, ReturnTypeOK
<1>19. CASE UNCHANGED vars
  <2>1. /\ UNCHANGED <<pc, caller, offerSdp, remote, local, includeUnmatched, origin, i>>
        /\ UNCHANGED <<sections, matched, haveApp, media, bundle>>
        /\ UNCHANGED <<hasCert, negotiated, described, prevAnswer, lastAnswer>>
    BY <1>19 DEF vars, callVars, loopVars
  <2>2. QED
    BY <1>1, <2>1, CallUnchanged, LoopUnchanged, KeptUnchanged, TypeOKSplit, Zenon
<1>20. QED
  BY <1>2, <1>3, <1>4, <1>5, <1>6, <1>7, <1>8, <1>9, <1>10, <1>11, <1>12,
     <1>13, <1>14, <1>15, <1>16, <1>17, <1>18, <1>19 DEF Next

\* Type correctness of generate_matched_sdp, create_pending_answer and the
\* state they leave behind: TypeOK holds in every reachable state.
THEOREM TypeCorrect == Spec => []TypeOK
BY TypeOKInit, TypeOKStep, PTL DEF Spec

=============================================================================
