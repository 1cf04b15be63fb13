---------------------------- MODULE Negotiation ----------------------------
(***************************************************************************)
(* The SDP negotiation engine of a Session (src/src/server/session):       *)
(* Session::generate_matched_sdp, which matches the remote media sections  *)
(* against the local transceivers, and populate_sdp with                  *)
(* add_data_media_section / add_transceiver_sdp, which render the matched  *)
(* sections; Session::create_pending_answer calls both and then            *)
(* update_sdp_origin.                                                      *)
(*                                                                         *)
(* A call is synchronous and the Session is single-threaded (Rc/RefCell),  *)
(* so nothing interleaves with a call: it starts from pc = "idle", runs    *)
(* one step per iteration of each loop of the code, in the code's order,   *)
(* and returns to "idle" with its locals dropped.  What outlives a call is *)
(* the sender's negotiated flag (set_negotiated) and, as history, the      *)
(* descriptions it returned.                                               *)
(*                                                                         *)
(* Data is abstracted: a mid is a number (format!("{}", n) makes mids of   *)
(* this shape) or the empty string; a codec list is whether it is empty;   *)
(* an outbound track is whether there is one; an SDP media block keeps its *)
(* mid, kind, rejection, direction attribute and candidate lines.  rid,    *)
(* msid, fingerprint text, ICE credentials and the setup role are left     *)
(* out: no property tells them apart.                                      *)
(***************************************************************************)
EXTENDS Naturals, Sequences, FiniteSets, Direction

CONSTANTS
    Transceivers,   \* the transceivers the signalling layer has created
    LocalLists,     \* the local_transceivers lists a caller may pass, as
                    \* indices into Transceivers
    RemoteOffers,   \* parsed remote descriptions a call may receive
    SessionIds,     \* o= session ids new_jsep_session_description may draw
    Versions,       \* o= session versions it may stamp
    NoMid,          \* get_mid_value returned None; a block with no a=mid
    EmptyMid,       \* an a=mid attribute with an empty value
    NoAnswer        \* no answer returned yet

NoDir    == "none"   \* MediaSection.offered_direction = None
Application == "application"   \* MEDIA_SECTION_APPLICATION

MediaTypes == {"audio", "video", Application, "text"}

\* RTPCodecType::from(media): audio, video, everything else Unspecified.
CodecKind(m) == IF m \in {"audio", "video"} THEN m ELSE Unspecified

TransceiverRec ==
    [mid: Nat, kind: {"audio", "video"}, direction: Directions,
     hasCodecs: BOOLEAN, hasTrack: BOOLEAN]

\* A remote media block: m= media type, a=mid value, and what
\* get_peer_direction finds among its attributes.
RemoteMedia == [media: MediaTypes, mid: Nat \cup {EmptyMid, NoMid}, direction: Directions]

ASSUME TransceiversAssumption ==
    /\ Transceivers \in Seq(TransceiverRec)
    /\ \A j, k \in DOMAIN Transceivers :
          Transceivers[j].mid = Transceivers[k].mid => j = k
ASSUME LocalListsAssumption ==
    \A l \in LocalLists : l \in Seq(DOMAIN Transceivers) /\
        \A j, k \in DOMAIN l : l[j] = l[k] => j = k
ASSUME RemoteOffersAssumption == RemoteOffers \subseteq Seq(RemoteMedia)
ASSUME MidValuesAssumption ==
    NoMid \notin Nat /\ EmptyMid \notin Nat /\ NoMid # EmptyMid
ASSUME OriginAssumption ==
    /\ SessionIds \subseteq Nat /\ SessionIds # {}
    /\ Versions \subseteq Nat /\ Versions # {}
    /\ NoAnswer \notin [id: Nat, version: Nat]

TIds == DOMAIN Transceivers

\* The RTCSessionDescriptions a caller can hold: the sdp text (as its media
\* blocks) and whether parsed is Some.  offer/answer/pranswer unmarshal the
\* text and store the parse, or fail and yield no description; one that was
\* deserialised (parsed is #[serde(skip)]) or defaulted has parsed = None.
RemoteDescriptions == [sdp: RemoteOffers, parsed: BOOLEAN]

\* A MediaSection: id, transceiver (0 = None), data flag, offered_direction.
SectionRec == [id: Nat, tr: TIds \cup {0}, data: BOOLEAN, offered: Directions \cup {NoDir}]

\* An emitted m= block.  A rejected block carries no attributes, so no mid
\* and no direction.
MediaRec ==
    [mid: Nat \cup {NoMid}, kind: {"audio", "video", Application},
     rejected: BOOLEAN, direction: Directions \cup {NoDir}, candidates: BOOLEAN]

OriginRec == [id: Nat, version: Nat]
NoOrigin == [id |-> 0, version |-> 0]     \* Origin::default()

VARIABLES
    hasCert,          \* Session.certificates is non-empty (fixed at Session::new)
    negotiated,       \* negotiated flag of each transceiver's sender
    pc,               \* "idle" between calls, else the loop the call is in
    caller,           \* "generate" or "answer" (create_pending_answer)
    offerSdp,         \* the media blocks of remote_description.sdp
    remote,           \* remote_description.parsed media descriptions
    local,            \* local_transceivers, as indices into Transceivers
    includeUnmatched, \* include_unmatched
    origin,           \* d.origin as new_jsep_session_description set it
    i,                \* index of the running loop
    sections,         \* media_sections
    matched,          \* matched
    haveApp,          \* already_have_application_media_section
    media,            \* media blocks populate_sdp has added to d
    bundle,           \* mids appended to bundle_value
    described,        \* history: transceivers in a description a call returned
    prevAnswer,       \* history: origin of the answer before the last one
    lastAnswer        \* history: origin of the last answer returned

callVars == <<caller, offerSdp, remote, local, includeUnmatched, origin>>
loopVars == <<i, sections, matched, haveApp, media, bundle>>
vars == <<hasCert, negotiated, pc, callVars, loopVars, described,
          prevAnswer, lastAnswer>>

-----------------------------------------------------------------------------
(* Helpers translated from mod.rs.                                         *)

\* get_mid_value returned Some non-empty value.
HasMid(m) == m.mid \notin {NoMid, EmptyMid}

\* A block generate_matched_sdp matches against a transceiver: it has a mid,
\* is not application, and neither kind nor peer direction is Unspecified.
IsRtp(m) ==
    /\ HasMid(m) /\ m.media # Application
    /\ CodecKind(m.media) # Unspecified /\ m.direction # Unspecified

\* Positions in local_transceivers of a transceiver with the given mid.
LocalWithMid(mid) == {k \in DOMAIN local : Transceivers[local[k]].mid = mid}

\* local_transceivers.iter().find(..).  Transceiver mids are distinct and a
\* list holds a transceiver once, so there is at most one.
FindByMid(mid) == CHOOSE k \in LocalWithMid(mid) : TRUE

\* The direction attribute add_transceiver_sdp writes for a transceiver
\* section, from the offered direction (NoDir on the offer path).
\* Mutation variant: the offered Sendonly/Recvonly direction is intersected
\* without being reversed first.
AnswerDirectionNoReverse(offered, tdir) ==
    CASE offered = NoDir                    -> tdir
      [] offered \in {Sendonly, Recvonly}   -> Intersect(offered, tdir)
      [] offered \in {Sendrecv, Unspecified} -> tdir
      [] offered = Inactive                 -> Inactive

AnswerDirection(offered, tdir) ==
    CASE offered = NoDir                    -> tdir
      [] offered \in {Sendonly, Recvonly}   -> Intersect(Reverse(offered), tdir)
      [] offered \in {Sendrecv, Unspecified} -> tdir
      [] offered = Inactive                 -> Inactive

\* The error populate_sdp / add_transceiver_sdp return for a section, if any.
PopulateError(s) ==
    CASE s.data /\ s.tr # 0  -> "ErrSDPMediaSectionMediaDataChanInvalid"
      [] ~s.data /\ s.tr = 0 -> "ErrSDPZeroTransceivers"
      [] ~s.data /\ s.tr # 0 /\ ~Transceivers[s.tr].hasCodecs
                             /\ Transceivers[s.tr].hasTrack
                             -> "ErrSenderWithNoCodecs"
      [] OTHER               -> "none"

\* update_sdp_origin(origin, d): the stored origin and d's origin after it.
SdpOriginUpdate(stored, d) ==
    IF stored.version = 0
    THEN [stored |-> d, desc |-> d]
    ELSE [stored |-> [id |-> stored.id, version |-> stored.version + 1],
          desc   |-> [id |-> stored.id, version |-> d.version + 1]]

-----------------------------------------------------------------------------

TypeOK ==
    /\ hasCert \in BOOLEAN
    /\ negotiated \in [TIds -> BOOLEAN]
    /\ pc \in {"idle", "match", "unmatched", "certs", "populate"}
    /\ caller \in {"none", "generate", "answer"}
    /\ offerSdp \in Seq(RemoteMedia)
    /\ remote \in Seq(RemoteMedia)
    /\ local \in Seq(TIds)
    /\ includeUnmatched \in BOOLEAN
    /\ origin \in OriginRec
    /\ i \in Nat /\ (pc # "idle" => i >= 1)
    /\ sections \in Seq(SectionRec)
    /\ matched \subseteq Nat
    /\ haveApp \in BOOLEAN
    /\ media \in Seq(MediaRec)
    /\ bundle \in Seq(Nat)
    /\ described \subseteq TIds
    /\ prevAnswer \in OriginRec \cup {NoAnswer}
    /\ lastAnswer \in OriginRec \cup {NoAnswer}

Init ==
    /\ hasCert \in BOOLEAN
    /\ negotiated = [t \in TIds |-> FALSE]
    /\ pc = "idle"
    /\ caller = "none" /\ offerSdp = <<>> /\ remote = <<>> /\ local = <<>>
    /\ includeUnmatched = FALSE /\ origin = NoOrigin
    /\ i = 0 /\ sections = <<>> /\ matched = {} /\ haveApp = FALSE
    /\ media = <<>> /\ bundle = <<>>
    /\ described = {}
    /\ prevAnswer = NoAnswer /\ lastAnswer = NoAnswer

\* The call returns res (a description or one of Errors); its locals are
\* dropped.
Return(res) ==
    /\ pc' = "idle"
    /\ caller' = "none" /\ offerSdp' = <<>> /\ remote' = <<>> /\ local' = <<>>
    /\ includeUnmatched' = FALSE /\ origin' = NoOrigin
    /\ i' = 0 /\ sections' = <<>> /\ matched' = {} /\ haveApp' = FALSE
    /\ media' = <<>> /\ bundle' = <<>>

\* Entry of generate_matched_sdp: new_jsep_session_description stamps a
\* fresh origin, the locals start empty, the first loop begins over the
\* parsed blocks; `if let Some(parsed)` walks none when parsed is None.
Begin(r) ==
    /\ offerSdp' = r.sdp
    /\ remote' = IF r.parsed THEN r.sdp ELSE <<>>
    /\ origin' \in [id: SessionIds, version: Versions]
    /\ pc' = "match" /\ i' = 1
    /\ sections' = <<>> /\ matched' = {} /\ haveApp' = FALSE
    /\ media' = <<>> /\ bundle' = <<>>
    /\ UNCHANGED <<hasCert, negotiated, described, prevAnswer, lastAnswer>>

\* generate_matched_sdp called with a list of local transceivers.
GenerateMatchedSdp(r, l, inc) ==
    /\ pc = "idle"
    /\ caller' = "generate"
    /\ local' = l
    /\ includeUnmatched' = inc
    /\ Begin(r)

\* create_pending_answer: local_transceivers = vec![], include_unmatched false.
CreatePendingAnswer(r) ==
    /\ pc = "idle"
    /\ caller' = "answer"
    /\ local' = <<>>
    /\ includeUnmatched' = FALSE
    /\ Begin(r)

(* The loop over the remote media descriptions, one step per block.        *)

\* A block with no a=mid, or an audio/video block whose kind or peer
\* direction is Unspecified: left out of the answer.
MatchSkip ==
    /\ pc = "match" /\ i <= Len(remote)
    /\ \/ remote[i].mid = NoMid
       \/ HasMid(remote[i]) /\ remote[i].media # Application /\ ~IsRtp(remote[i])
    /\ i' = i + 1
    /\ UNCHANGED <<hasCert, negotiated, pc, callVars, sections, matched, haveApp,
                   media, bundle, described, prevAnswer, lastAnswer>>

\* An empty mid, or a matchable block with no local transceiver of its mid.
MatchFail ==
    /\ pc = "match" /\ i <= Len(remote)
    /\ \/ /\ remote[i].mid = EmptyMid
          /\ Return("ErrPeerConnRemoteDescriptionWithoutMidValue")
       \/ /\ IsRtp(remote[i]) /\ LocalWithMid(remote[i].mid) = {}
          /\ Return("ErrPeerConnTransceiverMidNil")
    /\ UNCHANGED <<hasCert, negotiated, described, prevAnswer, lastAnswer>>

\* Mutation variant: the application block is recorded (already_have_...)
\* but its MediaSection is never pushed.
MatchApplicationNoPush ==
    /\ pc = "match" /\ i <= Len(remote)
    /\ HasMid(remote[i]) /\ remote[i].media = Application
    /\ haveApp' = TRUE
    /\ i' = i + 1
    /\ UNCHANGED <<hasCert, negotiated, pc, callVars, sections, matched, media, bundle,
                   described, prevAnswer, lastAnswer>>

\* An application block becomes a data MediaSection.
MatchApplication ==
    /\ pc = "match" /\ i <= Len(remote)
    /\ HasMid(remote[i]) /\ remote[i].media = Application
    /\ sections' = Append(sections, [id |-> remote[i].mid, tr |-> 0, data |-> TRUE,
                                     offered |-> NoDir])
    /\ haveApp' = TRUE
    /\ i' = i + 1
    /\ UNCHANGED <<hasCert, negotiated, pc, callVars, matched, media, bundle,
                   described, prevAnswer, lastAnswer>>

\* A matchable block with a local transceiver of its mid: set_negotiated,
\* record the mid, push a section (offered direction only when answering).
MatchTransceiver ==
    /\ pc = "match" /\ i <= Len(remote)
    /\ IsRtp(remote[i]) /\ LocalWithMid(remote[i].mid) # {}
    /\ LET t == local[FindByMid(remote[i].mid)]
       IN  /\ negotiated' = [negotiated EXCEPT ![t] = TRUE]
           /\ matched' = matched \cup {Transceivers[t].mid}
           /\ sections' = Append(sections,
                 [id |-> remote[i].mid, tr |-> t, data |-> FALSE,
                  offered |-> IF includeUnmatched THEN NoDir ELSE remote[i].direction])
    /\ i' = i + 1
    /\ UNCHANGED <<hasCert, pc, callVars, haveApp, media, bundle,
                   described, prevAnswer, lastAnswer>>

\* Mutation variant: the next loop starts from index 0.
MatchDoneFromZero ==
    /\ pc = "match" /\ i > Len(remote)
    /\ pc' = IF includeUnmatched THEN "unmatched" ELSE "certs"
    /\ i' = 0
    /\ UNCHANGED <<hasCert, negotiated, callVars, sections, matched, haveApp,
                   media, bundle, described, prevAnswer, lastAnswer>>

\* End of the remote blocks.
MatchDone ==
    /\ pc = "match" /\ i > Len(remote)
    /\ pc' = IF includeUnmatched THEN "unmatched" ELSE "certs"
    /\ i' = 1
    /\ UNCHANGED <<hasCert, negotiated, callVars, sections, matched, haveApp,
                   media, bundle, described, prevAnswer, lastAnswer>>

(* include_unmatched: the loop over local_transceivers, then the data      *)
(* section when the remote had none.                                       *)

UnmatchedAppend ==
    /\ pc = "unmatched" /\ i <= Len(local)
    /\ Transceivers[local[i]].mid \notin matched
    /\ negotiated' = [negotiated EXCEPT ![local[i]] = TRUE]
    /\ sections' = Append(sections, [id |-> Transceivers[local[i]].mid, tr |-> local[i],
                                     data |-> FALSE, offered |-> NoDir])
    /\ i' = i + 1
    /\ UNCHANGED <<hasCert, pc, callVars, matched, haveApp, media, bundle,
                   described, prevAnswer, lastAnswer>>

UnmatchedSkip ==
    /\ pc = "unmatched" /\ i <= Len(local)
    /\ Transceivers[local[i]].mid \in matched
    /\ i' = i + 1
    /\ UNCHANGED <<hasCert, negotiated, pc, callVars, sections, matched, haveApp,
                   media, bundle, described, prevAnswer, lastAnswer>>

\* The synthetic data section takes id = media_sections.len().
UnmatchedDone ==
    /\ pc = "unmatched" /\ i > Len(local)
    /\ \/ haveApp /\ UNCHANGED sections
       \/ ~haveApp /\ sections' = Append(sections, [id |-> Len(sections), tr |-> 0,
                                                   data |-> TRUE, offered |-> NoDir])
    /\ pc' = "certs"
    /\ UNCHANGED <<hasCert, negotiated, callVars, i, matched, haveApp, media,
                   bundle, described, prevAnswer, lastAnswer>>

\* self.certificates.first(): fingerprints, or ErrNonCertificate.
ResolveFingerprints ==
    /\ pc = "certs" /\ hasCert
    /\ pc' = "populate" /\ i' = 1
    /\ UNCHANGED <<hasCert, negotiated, callVars, sections, matched, haveApp,
                   media, bundle, described, prevAnswer, lastAnswer>>

NoCertificate ==
    /\ pc = "certs" /\ ~hasCert
    /\ Return("ErrNonCertificate")
    /\ UNCHANGED <<hasCert, negotiated, described, prevAnswer, lastAnswer>>

(* populate_sdp: one step per media section; candidates only for index 0. *)

PopulateData ==
    /\ pc = "populate" /\ i <= Len(sections)
    /\ sections[i].data /\ sections[i].tr = 0
    /\ media' = Append(media, [mid |-> sections[i].id, kind |-> Application,
                               rejected |-> FALSE, direction |-> Sendrecv,
                               candidates |-> i = 1])
    /\ bundle' = Append(bundle, sections[i].id)
    /\ i' = i + 1
    /\ UNCHANGED <<hasCert, negotiated, pc, callVars, sections, matched, haveApp,
                   described, prevAnswer, lastAnswer>>

PopulateTransceiver ==
    /\ pc = "populate" /\ i <= Len(sections)
    /\ PopulateError(sections[i]) = "none" /\ ~sections[i].data
    /\ Transceivers[sections[i].tr].hasCodecs
    /\ LET t == Transceivers[sections[i].tr]
       IN  media' = Append(media, [mid |-> sections[i].id, kind |-> t.kind,
                             rejected |-> FALSE,
                             direction |-> AnswerDirection(sections[i].offered, t.direction),
                             candidates |-> i = 1])
    /\ bundle' = Append(bundle, sections[i].id)
    /\ i' = i + 1
    /\ UNCHANGED <<hasCert, negotiated, pc, callVars, sections, matched, haveApp,
                   described, prevAnswer, lastAnswer>>

\* Mutation variant: a rejected block's mid is appended to the BUNDLE value
\* as if add_transceiver_sdp had answered true.
PopulateRejectedBundled ==
    /\ pc = "populate" /\ i <= Len(sections)
    /\ PopulateError(sections[i]) = "none" /\ ~sections[i].data
    /\ ~Transceivers[sections[i].tr].hasCodecs
    /\ media' = Append(media, [mid |-> NoMid, kind |-> Transceivers[sections[i].tr].kind,
                               rejected |-> TRUE, direction |-> NoDir,
                               candidates |-> FALSE])
    /\ bundle' = Append(bundle, sections[i].id)
    /\ i' = i + 1
    /\ UNCHANGED <<hasCert, negotiated, pc, callVars, sections, matched, haveApp,
                   described, prevAnswer, lastAnswer>>

\* No codecs and no track: a port-0 block with no attributes, not bundled.
PopulateRejected ==
    /\ pc = "populate" /\ i <= Len(sections)
    /\ PopulateError(sections[i]) = "none" /\ ~sections[i].data
    /\ ~Transceivers[sections[i].tr].hasCodecs
    /\ media' = Append(media, [mid |-> NoMid, kind |-> Transceivers[sections[i].tr].kind,
                               rejected |-> TRUE, direction |-> NoDir,
                               candidates |-> FALSE])
    /\ i' = i + 1
    /\ UNCHANGED <<hasCert, negotiated, pc, callVars, sections, matched, haveApp,
                   bundle, described, prevAnswer, lastAnswer>>

PopulateFail ==
    /\ pc = "populate" /\ i <= Len(sections)
    /\ PopulateError(sections[i]) # "none"
    /\ Return(PopulateError(sections[i]))
    /\ UNCHANGED <<hasCert, negotiated, described, prevAnswer, lastAnswer>>

\* Every section rendered: the description is complete (ice-lite and the
\* group:BUNDLE attribute are added), and the call is about to return it.
Populated == pc = "populate" /\ i > Len(sections)

\* TransceiversIn(sections): the transceivers the returned description names.
SectionTransceivers == {sections[k].tr : k \in DOMAIN sections} \ {0}

\* generate_matched_sdp returns the description.
GenerateDone ==
    /\ Populated /\ caller = "generate"
    /\ described' = described \cup SectionTransceivers
    /\ Return("ok")
    /\ UNCHANGED <<hasCert, negotiated, prevAnswer, lastAnswer>>

\* create_pending_answer: update_sdp_origin against a fresh Origin::default(),
\* marshal, and return the answer.
CreatePendingAnswerDone ==
    /\ Populated /\ caller = "answer"
    /\ described' = described \cup SectionTransceivers
    /\ prevAnswer' = lastAnswer
    /\ lastAnswer' = SdpOriginUpdate(NoOrigin, origin).desc
    /\ Return("ok")
    /\ UNCHANGED <<hasCert, negotiated>>

\* A new call, from the caller's inputs; only between calls.
Call ==
    /\ pc = "idle"
    /\ \/ \E r \in RemoteDescriptions, l \in LocalLists, inc \in BOOLEAN :
            GenerateMatchedSdp(r, l, inc)
       \/ \E r \in RemoteDescriptions : CreatePendingAnswer(r)

Next ==
    \/ Call
    \/ MatchSkip \/ MatchFail \/ MatchApplication \/ MatchTransceiver \/ MatchDone
    \/ UnmatchedAppend \/ UnmatchedSkip \/ UnmatchedDone
    \/ ResolveFingerprints \/ NoCertificate
    \/ PopulateData \/ PopulateTransceiver \/ PopulateRejected \/ PopulateFail
    \/ GenerateDone \/ CreatePendingAnswerDone

Spec == Init /\ [][Next]_vars

-----------------------------------------------------------------------------
(* Properties of a description the engine is about to return.              *)

\* A remote block the match loop keeps: one with a non-empty mid that is
\* application or matchable; every other block is skipped or fails the call.
Kept(m) == HasMid(m) /\ (m.media = Application \/ IsRtp(m))

\* KeptUpTo[n][r]: the blocks among r[1..n] the loop keeps, in r's order,
\* i.e. SelectSeq(SubSeq(r, 1, n), Kept) as a recursive function on n.
KeptUpTo[n \in Nat] ==
    IF n = 0 THEN [r \in Seq(RemoteMedia) |-> <<>>]
    ELSE [r \in Seq(RemoteMedia) |->
            IF Kept(r[n]) THEN Append(KeptUpTo[n - 1][r], r[n]) ELSE KeptUpTo[n - 1][r]]

\* The remote blocks generate_matched_sdp keeps, in the remote's order.
KeptBlocks(r) == KeptUpTo[Len(r)][r]
KeptRemote == KeptBlocks(remote)

\* The a=mid of each emitted block, NoMid for a rejected one.
MediaMids == [k \in DOMAIN media |-> media[k].mid]

\* The peer of an offered direction may receive / may send (no direction
\* attribute means sendrecv).
PeerMayRecv(o) == HasRecv(o) \/ o = Unspecified
PeerMaySend(o) == HasSend(o) \/ o = Unspecified

\* Mid order (RFC 8829 5.3.1): the j-th block of the returned description
\* answers the j-th remote block generate_matched_sdp kept: it carries that
\* block's mid or is rejected, and is data exactly when that block is
\* application; when answering (include_unmatched false) there are no
\* other blocks.
OfferOrderEchoed ==
    Populated =>
      /\ Len(KeptRemote) <= Len(media)
      /\ ~includeUnmatched => Len(media) = Len(KeptRemote)
      /\ \A j \in 1..Len(KeptRemote) :
            /\ media[j].mid \in {KeptRemote[j].mid, NoMid}
            /\ (media[j].kind = Application) <=> (KeptRemote[j].media = Application)

\* MidsUpTo[n][s]: the mids among s[1..n] that are not NoMid, in order,
\* i.e. SelectSeq(SubSeq(s, 1, n), LAMBDA x : x # NoMid).
MidsUpTo[n \in Nat] ==
    IF n = 0 THEN [s \in Seq(Nat \cup {NoMid}) |-> <<>>]
    ELSE [s \in Seq(Nat \cup {NoMid}) |->
            IF s[n] # NoMid THEN Append(MidsUpTo[n - 1][s], s[n]) ELSE MidsUpTo[n - 1][s]]

\* BUNDLE (RFC 8843): the group:BUNDLE value lists, in block order, the mid
\* of every block that is not rejected and of no other block; populate_sdp
\* builds it from the should_add_id answers of the section builders.
BundleMatchesMedia ==
    Populated => bundle = MidsUpTo[Len(media)][MediaMids]

\* Offer/answer direction (RFC 3264 6.1, the comments in add_transceiver_sdp):
\* an answered block never sends unless the offer lets the peer receive,
\* never receives unless the offer lets the peer send, and never grants a
\* capability the local transceiver is not configured with.
AnswerDirectionAgrees ==
    \A k \in DOMAIN media \cap DOMAIN sections :
      LET s == sections[k]  d == media[k].direction
      IN  (~media[k].rejected /\ ~s.data /\ s.offered # NoDir) =>
            /\ HasSend(d) => PeerMayRecv(s.offered) /\ HasSend(Transceivers[s.tr].direction)
            /\ HasRecv(d) => PeerMaySend(s.offered) /\ HasRecv(Transceivers[s.tr].direction)

\* No partial success (spec 7): a sender is marked negotiated only when its
\* transceiver is in a description some call actually returned.
NegotiatedOnlyIfDescribed ==
    pc = "idle" => \A t \in TIds : negotiated[t] => t \in described

\* update_sdp_origin (spec 4.5, 8): successive answers of one session keep
\* the session id and increase the session version by exactly one.
AnswerVersionIncrements ==
    prevAnswer # NoAnswer =>
      /\ lastAnswer.id = prevAnswer.id
      /\ lastAnswer.version = prevAnswer.version + 1

\* No mid is listed twice in the BUNDLE group (mids identify blocks).
BundleMidsUnique ==
    Populated => \A j, k \in DOMAIN bundle : j # k => bundle[j] # bundle[k]

\* An ICE-lite answer (generate_matched_sdp without include_unmatched, so
\* every section answers a remote block) that bundles media advertises its
\* host candidate in some block, or the peer has no address to check.
CandidateAdvertised ==
    Populated /\ ~includeUnmatched /\ bundle # <<>> =>
      \E k \in DOMAIN media : media[k].candidates

\* Each answered block has the media type of the remote block it answers
\* (RFC 3264 6: the answer's m= line keeps the offered media type).
AnswerKindMatchesOffer ==
    Populated =>
      \A j \in 1..Len(KeptRemote) : j <= Len(media) => media[j].kind = KeptRemote[j].media

\* spec.md 4.3: the remote description must already be parsed, its absence
\* a precondition violation; so a description the call returns answers
\* every block of the remote sdp text that the matcher keeps.
AnswerCoversOffer ==
    Populated => Len(KeptBlocks(offerSdp)) <= Len(media)

=============================================================================
