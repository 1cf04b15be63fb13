----------------------- MODULE NegotiationOrderProofs -----------------------
(***************************************************************************)
(* The returned description keeps the offer's order (OfferOrderEchoed) and *)
(* its BUNDLE group lists exactly its unrejected mids (BundleMatchesMedia), *)
(* for every set of transceivers and every remote description.             *)
(*                                                                         *)
(* Both properties compare the blocks of the answer with a filter of a     *)
(* sequence, so they need to know what each loop of the call has built so  *)
(* far: the match loop has one section per kept remote block before index *)
(* i, in order; the unmatched loop only adds sections after those;         *)
(* populate_sdp renders section j as block j; and the BUNDLE value is the  *)
(* filter of the mids rendered so far.  The filters KeptUpTo and MidsUpTo  *)
(* are primitive recursive functions of the prefix length, so one loop     *)
(* step is one unfolding of their definition, with no induction.           *)
(***************************************************************************)
EXTENDS NegotiationDirectionProofs, NaturalsInduction

\* The first Len(k) sections answer the blocks of k: the same mid, and a
\* data section exactly for an application block.
SectionsEcho(secs, k) ==
    \A j \in 1 .. Len(k) :
      /\ secs[j].id = k[j].mid
      /\ secs[j].data <=> k[j].media = Application

\* Inside the match loop the sections are the kept blocks of remote[1..i-1].
MatchProgress ==
    pc = "match" =>
      /\ i - 1 <= Len(remote)
      /\ KeptUpTo[i - 1][remote] \in Seq(RemoteMedia)
      /\ Len(sections) = Len(KeptUpTo[i - 1][remote])
      /\ SectionsEcho(sections, KeptUpTo[i - 1][remote])

\* After the match loop the kept blocks head the section list; the
\* unmatched loop runs only under include_unmatched, and is the only one
\* that adds sections after them.
SectionsAfterMatch ==
    pc \in {"unmatched", "certs", "populate"} =>
      /\ pc = "unmatched" => includeUnmatched
      /\ KeptRemote \in Seq(RemoteMedia)
      /\ Len(KeptRemote) <= Len(sections)
      /\ ~includeUnmatched => Len(sections) = Len(KeptRemote)
      /\ SectionsEcho(sections, KeptRemote)

\* The mid the block rendered from section s carries: none when the
\* transceiver has no codecs (a rejected block), the section's id otherwise.
AnswerMid(s) == IF ~s.data /\ ~Transceivers[s.tr].hasCodecs THEN NoMid ELSE s.id

\* The mids of the blocks populate_sdp renders from the sections, in order.
AnswerMids == [k \in DOMAIN sections |-> AnswerMid(sections[k])]

\* Block j was rendered from section j.
MediaFromSections ==
    \A j \in DOMAIN media :
      /\ media[j].mid = AnswerMid(sections[j])
      /\ media[j].kind = Application <=> sections[j].data

\* The BUNDLE value is empty before populate_sdp, and inside it is the
\* filter of the mids of the sections rendered so far.
BundleProgress ==
    /\ pc # "populate" => bundle = <<>>
    /\ pc = "populate" => bundle = MidsUpTo[i - 1][AnswerMids]

OrderInv ==
    /\ DirInv
    /\ MatchProgress
    /\ SectionsAfterMatch
    /\ MediaFromSections
    /\ BundleProgress

-----------------------------------------------------------------------------
(* The two filters unfold one element at a time.                           *)

KeptStep(v, n) ==
    [r \in Seq(RemoteMedia) |-> IF Kept(r[n]) THEN Append(v[r], r[n]) ELSE v[r]]

MidsStep(v, n) ==
    [s \in Seq(Nat \cup {NoMid}) |-> IF s[n] # NoMid THEN Append(v[s], s[n]) ELSE v[s]]

LEMMA KeptUpToDef ==
    NatInductiveDefConclusion(KeptUpTo, [r \in Seq(RemoteMedia) |-> <<>>], KeptStep)
<1>1. NatInductiveDefHypothesis(KeptUpTo, [r \in Seq(RemoteMedia) |-> <<>>], KeptStep)
  BY DEF NatInductiveDefHypothesis, KeptUpTo, KeptStep
<1>2. QED
  BY <1>1, NatInductiveDef

LEMMA MidsUpToDef ==
    NatInductiveDefConclusion(MidsUpTo, [s \in Seq(Nat \cup {NoMid}) |-> <<>>], MidsStep)
<1>1. NatInductiveDefHypothesis(MidsUpTo, [s \in Seq(Nat \cup {NoMid}) |-> <<>>], MidsStep)
  BY DEF NatInductiveDefHypothesis, MidsUpTo, MidsStep
<1>2. QED
  BY <1>1, NatInductiveDef

\* No block of an empty prefix is kept, and the (n+1)-th block is kept
\* after the first n exactly when the match loop keeps it.
LEMMA KeptUpToUnfold ==
    ASSUME NEW r \in Seq(RemoteMedia)
    PROVE  /\ KeptUpTo[0][r] = <<>>
           /\ \A n \in Nat :
                KeptUpTo[n + 1][r] =
                  IF Kept(r[n + 1]) THEN Append(KeptUpTo[n][r], r[n + 1])
                  ELSE KeptUpTo[n][r]
<1>1. KeptUpTo[0] = [q \in Seq(RemoteMedia) |-> <<>>]
  BY KeptUpToDef DEF NatInductiveDefConclusion
<1>2. ASSUME NEW n \in Nat PROVE KeptUpTo[n + 1] = KeptStep(KeptUpTo[n], n + 1)
  BY KeptUpToDef DEF NatInductiveDefConclusion
<1>3. ASSUME NEW n \in Nat
      PROVE  KeptUpTo[n + 1][r] =
                  IF Kept(r[n + 1]) THEN Append(KeptUpTo[n][r], r[n + 1])
                  ELSE KeptUpTo[n][r]
  BY <1>2, Zenon DEF KeptStep
<1>4. QED
  BY <1>1, <1>3

LEMMA MidsUpToUnfold ==
    ASSUME NEW s \in Seq(Nat \cup {NoMid})
    PROVE  /\ MidsUpTo[0][s] = <<>>
           /\ \A n \in Nat :
                MidsUpTo[n + 1][s] =
                  IF s[n + 1] # NoMid THEN Append(MidsUpTo[n][s], s[n + 1])
                  ELSE MidsUpTo[n][s]
<1>1. MidsUpTo[0] = [q \in Seq(Nat \cup {NoMid}) |-> <<>>]
  BY MidsUpToDef DEF NatInductiveDefConclusion
<1>2. ASSUME NEW n \in Nat PROVE MidsUpTo[n + 1] = MidsStep(MidsUpTo[n], n + 1)
  BY MidsUpToDef DEF NatInductiveDefConclusion
<1>3. ASSUME NEW n \in Nat
      PROVE  MidsUpTo[n + 1][s] =
                  IF s[n + 1] # NoMid THEN Append(MidsUpTo[n][s], s[n + 1])
                  ELSE MidsUpTo[n][s]
  BY <1>2, Zenon DEF MidsStep
<1>4. QED
  BY <1>1, <1>3

\* The mids of a well-typed section list are numbers or NoMid.
LEMMA AnswerMidsType ==
    ASSUME sections \in Seq(SectionRec)
    PROVE  AnswerMids \in Seq(Nat \cup {NoMid})
<1>1. \A k \in DOMAIN sections : AnswerMid(sections[k]) \in Nat \cup {NoMid}
  <2> TAKE k \in DOMAIN sections
  <2>1. sections[k] \in SectionRec
    OBVIOUS
  <2>2. QED
    BY <2>1 DEF AnswerMid, SectionRec
<1>2. QED
  BY <1>1 DEF AnswerMids

-----------------------------------------------------------------------------
(* The strengthening implies both properties.                              *)

\* When the description is complete, one block was rendered per section.
LEMMA PopulatedLengths ==
    ASSUME DirInv, Populated
    PROVE  Len(media) = Len(sections) /\ i - 1 = Len(media)
<1>1. i \in Nat /\ media \in Seq(MediaRec) /\ sections \in Seq(SectionRec)
  BY TypeOKSplit, Zenon DEF DirInv, CallTypes, LoopTypes
<1>2. Len(media) = i - 1 /\ i - 1 <= Len(sections) /\ i > Len(sections)
  BY Zenon DEF DirInv, PopulateProgress, Populated
<1>3. QED
  BY <1>1, <1>2

LEMMA OrderInvEchoed == OrderInv => OfferOrderEchoed
<1> SUFFICES ASSUME OrderInv, Populated
             PROVE  /\ Len(KeptRemote) <= Len(media)
                    /\ ~includeUnmatched => Len(media) = Len(KeptRemote)
                    /\ \A j \in 1 .. Len(KeptRemote) :
                          /\ media[j].mid \in {KeptRemote[j].mid, NoMid}
                          /\ (media[j].kind = Application) <=>
                               (KeptRemote[j].media = Application)
  BY Zenon DEF OfferOrderEchoed
<1>1. Len(media) = Len(sections)
  BY PopulatedLengths, Zenon DEF OrderInv
<1>2. /\ KeptRemote \in Seq(RemoteMedia)
      /\ Len(KeptRemote) <= Len(sections)
      /\ ~includeUnmatched => Len(sections) = Len(KeptRemote)
      /\ SectionsEcho(sections, KeptRemote)
  BY Zenon DEF OrderInv, SectionsAfterMatch, Populated
<1>3. media \in Seq(MediaRec)
  BY TypeOKSplit, Zenon DEF OrderInv, DirInv, LoopTypes
<1>4. ASSUME NEW j \in 1 .. Len(KeptRemote)
      PROVE  /\ media[j].mid \in {KeptRemote[j].mid, NoMid}
             /\ (media[j].kind = Application) <=> (KeptRemote[j].media = Application)
  <2>1. j \in DOMAIN media
    BY <1>1, <1>2, <1>3
  <2>2. /\ media[j].mid = AnswerMid(sections[j])
        /\ media[j].kind = Application <=> sections[j].data
    BY <2>1, Zenon DEF OrderInv, MediaFromSections
  <2>3. sections[j].id = KeptRemote[j].mid /\ (sections[j].data <=> KeptRemote[j].media = Application)
    BY <1>2, Zenon DEF SectionsEcho
  <2>4. AnswerMid(sections[j]) \in {sections[j].id, NoMid}
    BY DEF AnswerMid
  <2>5. QED
    BY <2>2, <2>3, <2>4, Zenon
<1>5. QED
  BY <1>1, <1>2, <1>4

LEMMA OrderInvBundle == OrderInv => BundleMatchesMedia
<1> SUFFICES ASSUME OrderInv, Populated
             PROVE  bundle = MidsUpTo[Len(media)][MediaMids]
  BY Zenon DEF BundleMatchesMedia
<1>1. Len(media) = Len(sections) /\ i - 1 = Len(media)
  BY PopulatedLengths, Zenon DEF OrderInv
<1>2. bundle = MidsUpTo[i - 1][AnswerMids]
  BY Zenon DEF OrderInv, BundleProgress, Populated
<1>3. media \in Seq(MediaRec) /\ sections \in Seq(SectionRec)
  BY TypeOKSplit, Zenon DEF OrderInv, DirInv, LoopTypes
<1>4. \A j \in DOMAIN media : media[j].mid = AnswerMid(sections[j])
  BY Zenon DEF OrderInv, MediaFromSections
<1>5. MediaMids = AnswerMids
  BY <1>1, <1>3, <1>4 DEF MediaMids, AnswerMids
<1>6. QED
  BY <1>1, <1>2, <1>5

-----------------------------------------------------------------------------
(* What one step of each loop does to the strengthening.                   *)

\* A section added after the echoed prefix, or none, keeps the echo.
LEMMA EchoKeep ==
    ASSUME NEW k \in Seq(RemoteMedia), sections \in Seq(SectionRec),
           Len(k) <= Len(sections), SectionsEcho(sections, k), NEW x,
           sections' = Append(sections, x) \/ sections' = sections
    PROVE  SectionsEcho(sections', k)
<1> SUFFICES ASSUME NEW j \in 1 .. Len(k)
             PROVE  /\ sections'[j].id = k[j].mid
                    /\ sections'[j].data <=> k[j].media = Application
  BY Zenon DEF SectionsEcho
<1>1. sections'[j] = sections[j]
  OBVIOUS
<1>2. QED
  BY <1>1, Zenon DEF SectionsEcho

\* The match loop's section for a kept block extends the echo by that block.
LEMMA EchoExtend ==
    ASSUME NEW k \in Seq(RemoteMedia), NEW b \in RemoteMedia, sections \in Seq(SectionRec),
           Len(sections) = Len(k), SectionsEcho(sections, k), NEW x,
           sections' = Append(sections, x), x.id = b.mid,
           x.data <=> b.media = Application
    PROVE  /\ Len(sections') = Len(Append(k, b))
           /\ SectionsEcho(sections', Append(k, b))
<1>1. Len(sections') = Len(Append(k, b))
  OBVIOUS
<1>2. ASSUME NEW j \in 1 .. Len(Append(k, b))
      PROVE  /\ sections'[j].id = Append(k, b)[j].mid
             /\ sections'[j].data <=> Append(k, b)[j].media = Application
  <2>1. CASE j <= Len(k)
    <3>1. sections'[j] = sections[j] /\ Append(k, b)[j] = k[j] /\ j \in 1 .. Len(k)
      BY <2>1
    <3>2. QED
      BY <3>1, Zenon DEF SectionsEcho
  <2>2. CASE j = Len(k) + 1
    <3>1. sections'[j] = x /\ Append(k, b)[j] = b
      BY <2>2
    <3>2. QED
      BY <3>1, Zenon
  <2>3. QED
    BY <2>1, <2>2
<1>3. QED
  BY <1>1, <1>2, Zenon DEF SectionsEcho

\* One iteration of the match loop that does not return: the block at i is
\* skipped, or it is kept and its section pushed.
LEMMA MatchStep ==
    ASSUME CallTypes, MatchProgress, sections \in Seq(SectionRec),
           pc = "match", i <= Len(remote), pc' = "match", i' = i + 1, remote' = remote,
           \/ ~Kept(remote[i]) /\ sections' = sections
           \/ /\ Kept(remote[i])
              /\ \E x : /\ sections' = Append(sections, x)
                        /\ x.id = remote[i].mid
                        /\ x.data <=> remote[i].media = Application
    PROVE  MatchProgress'
<1>1. remote \in Seq(RemoteMedia) /\ i \in Nat /\ i >= 1
  BY Zenon DEF CallTypes
<1>2. remote[i] \in RemoteMedia
  BY RemoteAt
<1> DEFINE K == KeptUpTo[i - 1][remote]
<1>3. /\ i - 1 <= Len(remote) /\ K \in Seq(RemoteMedia)
      /\ Len(sections) = Len(K) /\ SectionsEcho(sections, K)
  BY Zenon DEF MatchProgress
<1>4. KeptUpTo[i' - 1][remote'] = IF Kept(remote[i]) THEN Append(K, remote[i]) ELSE K
  <2>1. i - 1 \in Nat /\ (i - 1) + 1 = i /\ i' - 1 = i
    BY <1>1
  <2>2. KeptUpTo[(i - 1) + 1][remote] =
          IF Kept(remote[(i - 1) + 1]) THEN Append(K, remote[(i - 1) + 1]) ELSE K
    BY <1>1, <2>1, KeptUpToUnfold
  <2>3. QED
    BY <2>1, <2>2
<1>5. i' - 1 <= Len(remote')
  BY <1>1
<1>6. CASE ~Kept(remote[i]) /\ sections' = sections
  <2>1. KeptUpTo[i' - 1][remote'] = K
    BY <1>4, <1>6
  <2>2. SectionsEcho(sections', K)
    BY <1>3, <1>6, EchoKeep
  <2>3. QED
    BY <1>3, <1>5, <1>6, <2>1, <2>2, Zenon DEF MatchProgress
<1>7. CASE Kept(remote[i])
  <2>1. PICK x : /\ sections' = Append(sections, x)
                 /\ x.id = remote[i].mid
                 /\ x.data <=> remote[i].media = Application
    BY <1>6, <1>7
  <2>2. KeptUpTo[i' - 1][remote'] = Append(K, remote[i])
    BY <1>4, <1>7
  <2>3. Append(K, remote[i]) \in Seq(RemoteMedia)
    BY <1>2, <1>3
  <2>4. /\ Len(sections') = Len(Append(K, remote[i]))
        /\ SectionsEcho(sections', Append(K, remote[i]))
    BY <1>2, <1>3, <2>1, EchoExtend
  <2>5. QED
    BY <1>5, <2>2, <2>3, <2>4, Zenon DEF MatchProgress
<1>8. QED
  BY <1>6, <1>7

\* One more block rendered from the section at index Len(media) + 1.
LEMMA MediaFromSectionsAppend ==
    ASSUME media \in Seq(MediaRec), MediaFromSections, NEW blk,
           media' = Append(media, blk), sections' = sections,
           blk.mid = AnswerMid(sections[Len(media) + 1]),
           blk.kind = Application <=> sections[Len(media) + 1].data
    PROVE  MediaFromSections'
<1> SUFFICES ASSUME NEW j \in DOMAIN media'
             PROVE  /\ media'[j].mid = AnswerMid(sections'[j])
                    /\ media'[j].kind = Application <=> sections'[j].data
  BY Zenon DEF MediaFromSections
<1>1. j \in DOMAIN media \/ j = Len(media) + 1
  OBVIOUS
<1>2. CASE j \in DOMAIN media
  <2>1. media'[j] = media[j]
    BY <1>2
  <2>2. QED
    BY <1>2, <2>1, Zenon DEF MediaFromSections
<1>3. CASE j = Len(media) + 1
  <2>1. media'[j] = blk
    BY <1>3
  <2>2. QED
    BY <1>3, <2>1, Zenon
<1>4. QED
  BY <1>1, <1>2, <1>3

\* A populate_sdp step adds the mid of section i to the BUNDLE value
\* exactly when that mid is not NoMid.
LEMMA BundleAdvance ==
    ASSUME sections \in Seq(SectionRec), NEW n \in Nat, n + 1 <= Len(sections),
           bundle = MidsUpTo[n][AnswerMids], sections' = sections,
           bundle' = IF AnswerMids[n + 1] # NoMid THEN Append(bundle, AnswerMids[n + 1])
                     ELSE bundle
    PROVE  bundle' = MidsUpTo[n + 1][AnswerMids']
<1>1. AnswerMids' = AnswerMids
  BY DEF AnswerMids, AnswerMid
<1>2. AnswerMids \in Seq(Nat \cup {NoMid})
  BY AnswerMidsType
<1>3. QED
  BY <1>1, <1>2, MidsUpToUnfold

-----------------------------------------------------------------------------
(* The strengthening holds initially and is kept by every step.            *)

\* The conjuncts of OrderInv beyond DirInv.
OrderRest == MatchProgress /\ SectionsAfterMatch /\ MediaFromSections /\ BundleProgress

LEMMA OrderInvInit == Init => OrderInv
<1> SUFFICES ASSUME Init PROVE OrderInv
  OBVIOUS
<1>1. DirInv
  BY DirInvInit
<1>2. pc = "idle" /\ media = <<>> /\ bundle = <<>>
  BY Zenon DEF Init
<1>3. DOMAIN media = {}
  BY <1>2
<1>4. QED
  BY <1>1, <1>2, <1>3, Zenon
     DEF OrderInv, MatchProgress, SectionsAfterMatch, MediaFromSections, BundleProgress

\* Outside the phases after the match loop, with nothing rendered or
\* bundled, only MatchProgress has content.
LEMMA BeforeAfterMatch ==
    ASSUME pc' \in {"idle", "match"}, media' = <<>>, bundle' = <<>>
    PROVE  SectionsAfterMatch' /\ MediaFromSections' /\ BundleProgress'
<1>1. DOMAIN media' = {}
  OBVIOUS
<1>2. QED
  BY <1>1, Zenon DEF SectionsAfterMatch, MediaFromSections, BundleProgress

\* A step that ends the call.
LEMMA OrderReturn ==
    ASSUME NEW res, Return(res)
    PROVE  OrderRest'
<1>1. pc' = "idle" /\ media' = <<>> /\ bundle' = <<>>
  BY Zenon DEF Return
<1>2. QED
  BY <1>1, BeforeAfterMatch, Zenon DEF OrderRest, MatchProgress

\* A call starts the match loop with no section.
LEMMA OrderCall ==
    ASSUME DirInv', Call
    PROVE  OrderRest'
<1>1. pc' = "match" /\ i' = 1 /\ sections' = <<>> /\ media' = <<>> /\ bundle' = <<>>
  BY Zenon DEF Call, GenerateMatchedSdp, CreatePendingAnswer, Begin
<1>2. remote' \in Seq(RemoteMedia)
  BY Zenon DEF DirInv, TypeOK
<1>3. KeptUpTo[i' - 1][remote'] = <<>>
  BY <1>1, <1>2, KeptUpToUnfold
<1>4. /\ i' - 1 <= Len(remote')
      /\ KeptUpTo[i' - 1][remote'] \in Seq(RemoteMedia)
      /\ Len(sections') = Len(KeptUpTo[i' - 1][remote'])
      /\ SectionsEcho(sections', KeptUpTo[i' - 1][remote'])
  BY <1>1, <1>2, <1>3 DEF SectionsEcho
<1>5. QED
  BY <1>1, <1>4, BeforeAfterMatch, Zenon DEF OrderRest, MatchProgress

\* The iterations of the match loop that do not return.
LEMMA OrderMatchLoop ==
    ASSUME OrderInv, MatchSkip \/ MatchApplication \/ MatchTransceiver
    PROVE  OrderRest'
<1>1. CallTypes /\ LoopTypes /\ MatchProgress /\ MediaEmptyBeforePopulate /\ BundleProgress
  BY TypeOKSplit, Zenon DEF OrderInv, DirInv
<1>2. /\ pc = "match" /\ i <= Len(remote) /\ pc' = "match" /\ i' = i + 1
      /\ remote' = remote /\ media' = media /\ bundle' = bundle
  BY Zenon DEF MatchSkip, MatchApplication, MatchTransceiver, callVars
<1>3. media' = <<>> /\ bundle' = <<>>
  BY <1>1, <1>2, Zenon DEF MediaEmptyBeforePopulate, BundleProgress
<1>4. sections \in Seq(SectionRec)
  BY <1>1, Zenon DEF LoopTypes
<1>5. remote[i] \in RemoteMedia
  BY <1>1, <1>2, RemoteAt
<1>6. \/ ~Kept(remote[i]) /\ sections' = sections
      \/ /\ Kept(remote[i])
         /\ \E x : /\ sections' = Append(sections, x)
                   /\ x.id = remote[i].mid
                   /\ x.data <=> remote[i].media = Application
  <2>1. CASE MatchSkip
    <3>1. ~Kept(remote[i]) /\ sections' = sections
      BY <2>1, <1>5, MidValuesAssumption DEF MatchSkip, Kept, HasMid
    <3>2. QED
      BY <3>1
  <2>2. CASE MatchApplication
    <3> DEFINE x == [id |-> remote[i].mid, tr |-> 0, data |-> TRUE, offered |-> NoDir]
    <3>1. Kept(remote[i]) /\ sections' = Append(sections, x)
      BY <2>2, Zenon DEF MatchApplication, Kept
    <3>2. remote[i].media = Application
      BY <2>2, Zenon DEF MatchApplication
    <3>3. x.id = remote[i].mid /\ (x.data <=> remote[i].media = Application)
      BY <3>2
    <3>4. QED
      BY <3>1, <3>3
  <2>3. CASE MatchTransceiver
    <3> DEFINE x == [id |-> remote[i].mid, tr |-> local[FindByMid(remote[i].mid)],
                     data |-> FALSE,
                     offered |-> IF includeUnmatched THEN NoDir ELSE remote[i].direction]
    <3>1. IsRtp(remote[i]) /\ sections' = Append(sections, x)
      BY <2>3, Zenon DEF MatchTransceiver
    <3>2. Kept(remote[i]) /\ remote[i].media # Application
      BY <3>1, Zenon DEF Kept, IsRtp
    <3>3. x.id = remote[i].mid /\ (x.data <=> remote[i].media = Application)
      BY <3>2
    <3>4. QED
      BY <3>1, <3>2, <3>3
  <2>4. QED
    BY <2>1, <2>2, <2>3
<1>7. MatchProgress'
  BY <1>1, <1>2, <1>4, <1>6, MatchStep
<1>8. QED
  BY <1>2, <1>3, <1>7, BeforeAfterMatch, Zenon DEF OrderRest

\* Outside populate_sdp, with nothing rendered or bundled.
LEMMA NothingRendered ==
    ASSUME pc' # "populate", media' = <<>>, bundle' = <<>>
    PROVE  MediaFromSections' /\ BundleProgress'
<1>1. DOMAIN media' = {}
  OBVIOUS
<1>2. QED
  BY <1>1, Zenon DEF MediaFromSections, BundleProgress

\* The end of the match loop: the kept blocks of the whole remote are the
\* sections so far.
LEMMA OrderMatchDone ==
    ASSUME OrderInv, MatchDone
    PROVE  OrderRest'
<1>1. CallTypes /\ MatchProgress /\ MediaEmptyBeforePopulate /\ BundleProgress
  BY TypeOKSplit, Zenon DEF OrderInv, DirInv
<1>2. /\ pc = "match" /\ i > Len(remote)
      /\ pc' = IF includeUnmatched THEN "unmatched" ELSE "certs"
      /\ remote' = remote /\ includeUnmatched' = includeUnmatched
      /\ sections' = sections /\ media' = media /\ bundle' = bundle
  BY Zenon DEF MatchDone, callVars
<1>3. media' = <<>> /\ bundle' = <<>>
  BY <1>1, <1>2, Zenon DEF MediaEmptyBeforePopulate, BundleProgress
<1>4. /\ i - 1 <= Len(remote) /\ KeptUpTo[i - 1][remote] \in Seq(RemoteMedia)
      /\ Len(sections) = Len(KeptUpTo[i - 1][remote])
      /\ SectionsEcho(sections, KeptUpTo[i - 1][remote])
  BY <1>1, <1>2, Zenon DEF MatchProgress
<1>5. i - 1 = Len(remote)
  <2>1. i \in Nat /\ remote \in Seq(RemoteMedia)
    BY <1>1, Zenon DEF CallTypes
  <2>2. QED
    BY <1>2, <1>4, <2>1
<1>6. KeptRemote' = KeptUpTo[i - 1][remote]
  BY <1>2, <1>5 DEF KeptRemote, KeptBlocks
<1>7. SectionsAfterMatch'
  <2>1. /\ KeptRemote' \in Seq(RemoteMedia)
        /\ Len(KeptRemote') <= Len(sections')
        /\ Len(sections') = Len(KeptRemote')
        /\ SectionsEcho(sections', KeptRemote')
    BY <1>2, <1>4, <1>6
  <2>2. pc' = "unmatched" => includeUnmatched'
    BY <1>2
  <2>3. QED
    BY <2>1, <2>2, Zenon DEF SectionsAfterMatch
<1>8. MatchProgress'
  BY <1>2, Zenon DEF MatchProgress
<1>9. QED
  BY <1>2, <1>3, <1>7, <1>8, NothingRendered, Zenon DEF OrderRest

\* The unmatched loop and the data section after it only add sections
\* after the kept ones, and run only under include_unmatched.
LEMMA OrderUnmatched ==
    ASSUME OrderInv, UnmatchedAppend \/ UnmatchedSkip \/ UnmatchedDone
    PROVE  OrderRest'
<1>1. /\ CallTypes /\ LoopTypes /\ MediaEmptyBeforePopulate /\ BundleProgress
      /\ SectionsAfterMatch
  BY TypeOKSplit, Zenon DEF OrderInv, DirInv
<1>2. /\ pc = "unmatched" /\ pc' \in {"unmatched", "certs"}
      /\ remote' = remote /\ includeUnmatched' = includeUnmatched
      /\ media' = media /\ bundle' = bundle
  BY Zenon DEF UnmatchedAppend, UnmatchedSkip, UnmatchedDone, callVars
<1>3. \E x : sections' = Append(sections, x) \/ sections' = sections
  <2>1. CASE UnmatchedAppend
    BY <2>1, Zenon DEF UnmatchedAppend
  <2>2. CASE UnmatchedSkip
    BY <2>2, Zenon DEF UnmatchedSkip
  <2>3. CASE UnmatchedDone
    BY <2>3, Zenon DEF UnmatchedDone
  <2>4. QED
    BY <2>1, <2>2, <2>3
<1>4. PICK x : sections' = Append(sections, x) \/ sections' = sections
  BY <1>3
<1>5. media' = <<>> /\ bundle' = <<>>
  BY <1>1, <1>2, Zenon DEF MediaEmptyBeforePopulate, BundleProgress
<1>6. /\ includeUnmatched /\ KeptRemote \in Seq(RemoteMedia)
      /\ Len(KeptRemote) <= Len(sections) /\ SectionsEcho(sections, KeptRemote)
  BY <1>1, <1>2, Zenon DEF SectionsAfterMatch
<1>7. KeptRemote' = KeptRemote
  BY <1>2 DEF KeptRemote, KeptBlocks
<1>8. sections \in Seq(SectionRec)
  BY <1>1, Zenon DEF LoopTypes
<1>9. SectionsEcho(sections', KeptRemote)
  BY <1>4, <1>6, <1>8, EchoKeep
<1>10. Len(KeptRemote) <= Len(sections')
  BY <1>4, <1>6, <1>8
<1>11. SectionsAfterMatch'
  BY <1>2, <1>6, <1>7, <1>9, <1>10, Zenon DEF SectionsAfterMatch
<1>12. MatchProgress'
  BY <1>2, Zenon DEF MatchProgress
<1>13. QED
  BY <1>2, <1>5, <1>11, <1>12, NothingRendered, Zenon DEF OrderRest

\* populate_sdp starts with nothing rendered and an empty BUNDLE value.
LEMMA OrderResolve ==
    ASSUME OrderInv, ResolveFingerprints
    PROVE  OrderRest'
<1>1. /\ LoopTypes /\ MediaEmptyBeforePopulate /\ BundleProgress /\ SectionsAfterMatch
  BY TypeOKSplit, Zenon DEF OrderInv, DirInv
<1>2. /\ pc = "certs" /\ pc' = "populate" /\ i' = 1
      /\ remote' = remote /\ includeUnmatched' = includeUnmatched
      /\ sections' = sections /\ media' = media /\ bundle' = bundle
  BY Zenon DEF ResolveFingerprints, callVars
<1>3. media' = <<>> /\ bundle' = <<>>
  BY <1>1, <1>2, Zenon DEF MediaEmptyBeforePopulate, BundleProgress
<1>4. KeptRemote' = KeptRemote
  BY <1>2 DEF KeptRemote, KeptBlocks
<1>5. SectionsAfterMatch'
  BY <1>1, <1>2, <1>4, Zenon DEF SectionsAfterMatch
<1>6. AnswerMids' = AnswerMids /\ AnswerMids \in Seq(Nat \cup {NoMid})
  <2>1. sections \in Seq(SectionRec)
    BY <1>1, Zenon DEF LoopTypes
  <2>2. QED
    BY <1>2, <2>1, AnswerMidsType DEF AnswerMids, AnswerMid
<1>7. bundle' = MidsUpTo[i' - 1][AnswerMids']
  BY <1>2, <1>3, <1>6, MidsUpToUnfold
<1>8. DOMAIN media' = {}
  BY <1>3
<1>9. QED
  BY <1>2, <1>5, <1>7, <1>8, Zenon
     DEF OrderRest, MatchProgress, MediaFromSections, BundleProgress

\* A populate_sdp step renders block i from section i, and bundles its mid
\* exactly when the block is not rejected.
LEMMA OrderPopulate ==
    ASSUME OrderInv, PopulateData \/ PopulateTransceiver \/ PopulateRejected
    PROVE  OrderRest'
<1>1. /\ CallTypes /\ LoopTypes /\ PopulateProgress /\ SectionsAfterMatch
      /\ MediaFromSections /\ BundleProgress
  BY TypeOKSplit, Zenon DEF OrderInv, DirInv
<1>2. /\ pc = "populate" /\ i <= Len(sections) /\ pc' = pc /\ i' = i + 1
      /\ remote' = remote /\ includeUnmatched' = includeUnmatched
      /\ sections' = sections
  BY Zenon DEF PopulateData, PopulateTransceiver, PopulateRejected, callVars
<1>3. /\ i \in Nat /\ i >= 1 /\ media \in Seq(MediaRec) /\ sections \in Seq(SectionRec)
      /\ Len(media) + 1 = i
  <2>1. i \in Nat /\ i >= 1 /\ media \in Seq(MediaRec) /\ sections \in Seq(SectionRec)
    BY <1>1, <1>2, Zenon DEF CallTypes, LoopTypes
  <2>2. Len(media) = i - 1
    BY <1>1, <1>2, Zenon DEF PopulateProgress
  <2>3. QED
    BY <2>1, <2>2
<1> DEFINE sec == sections[i]
<1>4. sec \in SectionRec /\ AnswerMids[i] = AnswerMid(sec)
  BY <1>2, <1>3 DEF AnswerMids
\* What every rendering step does, as MediaFromSectionsAppend and
\* BundleAdvance need it.
<1>5. \E blk : /\ media' = Append(media, blk)
               /\ blk.mid = AnswerMid(sec)
               /\ blk.kind = Application <=> sec.data
               /\ bundle' = IF AnswerMid(sec) # NoMid THEN Append(bundle, AnswerMid(sec))
                            ELSE bundle
  <2>1. CASE PopulateData
    <3> DEFINE blk == [mid |-> sec.id, kind |-> Application, rejected |-> FALSE,
                       direction |-> Sendrecv, candidates |-> i = 1]
    <3>1. sec.data /\ media' = Append(media, blk) /\ bundle' = Append(bundle, sec.id)
      BY <2>1, Zenon DEF PopulateData
    <3>2. AnswerMid(sec) = sec.id /\ sec.id # NoMid
      BY <1>4, <3>1, MidValuesAssumption DEF AnswerMid, SectionRec
    <3>3. QED
      BY <3>1, <3>2
  <2>2. CASE PopulateTransceiver
    <3> DEFINE t == Transceivers[sec.tr]
               blk == [mid |-> sec.id, kind |-> t.kind, rejected |-> FALSE,
                       direction |-> AnswerDirection(sec.offered, t.direction),
                       candidates |-> i = 1]
    <3>1. /\ PopulateError(sec) = "none" /\ ~sec.data /\ t.hasCodecs
          /\ media' = Append(media, blk) /\ bundle' = Append(bundle, sec.id)
      BY <2>2, Zenon DEF PopulateTransceiver
    <3>2. sec.tr \in TIds
      BY <1>4, <3>1 DEF PopulateError, SectionRec
    <3>3. t.kind \in {"audio", "video"}
      BY <3>2, TransceiverFacts DEF TransceiverRec
    <3>4. AnswerMid(sec) = sec.id /\ sec.id # NoMid
      BY <1>4, <3>1, MidValuesAssumption DEF AnswerMid, SectionRec
    <3>5. blk.kind # Application
      BY <3>3 DEF Application
    <3>6. QED
      BY <3>1, <3>4, <3>5
  <2>3. CASE PopulateRejected
    <3> DEFINE blk == [mid |-> NoMid, kind |-> Transceivers[sec.tr].kind,
                       rejected |-> TRUE, direction |-> NoDir, candidates |-> FALSE]
    <3>1. /\ PopulateError(sec) = "none" /\ ~sec.data
          /\ ~Transceivers[sec.tr].hasCodecs
          /\ media' = Append(media, blk) /\ bundle' = bundle
      BY <2>3, Zenon DEF PopulateRejected
    <3>2. sec.tr \in TIds
      BY <1>4, <3>1 DEF PopulateError, SectionRec
    <3>3. Transceivers[sec.tr].kind \in {"audio", "video"}
      BY <3>2, TransceiverFacts DEF TransceiverRec
    <3>4. AnswerMid(sec) = NoMid
      BY <3>1 DEF AnswerMid
    <3>5. blk.kind # Application
      BY <3>3 DEF Application
    <3>6. QED
      BY <3>1, <3>4, <3>5
  <2>4. QED
    BY <2>1, <2>2, <2>3
<1>6. PICK blk : /\ media' = Append(media, blk)
                 /\ blk.mid = AnswerMid(sec)
                 /\ blk.kind = Application <=> sec.data
                 /\ bundle' = IF AnswerMid(sec) # NoMid THEN Append(bundle, AnswerMid(sec))
                              ELSE bundle
  BY <1>5
<1>7. MediaFromSections'
  BY <1>1, <1>2, <1>3, <1>6, MediaFromSectionsAppend
<1>8. BundleProgress'
  <2>1. bundle = MidsUpTo[i - 1][AnswerMids]
    BY <1>1, <1>2, Zenon DEF BundleProgress
  <2>2. i - 1 \in Nat /\ (i - 1) + 1 = i /\ (i - 1) + 1 <= Len(sections) /\ i' - 1 = i
    BY <1>2, <1>3
  <2>3. bundle' = MidsUpTo[(i - 1) + 1][AnswerMids']
    BY <1>2, <1>3, <1>4, <1>6, <2>1, <2>2, BundleAdvance
  <2>4. QED
    BY <1>2, <2>2, <2>3, Zenon DEF BundleProgress
<1>9. SectionsAfterMatch'
  <2>1. KeptRemote' = KeptRemote
    BY <1>2 DEF KeptRemote, KeptBlocks
  <2>2. QED
    BY <1>1, <1>2, <2>1, Zenon DEF SectionsAfterMatch
<1>10. MatchProgress'
  BY <1>2, Zenon DEF MatchProgress
<1>11. QED
  BY <1>7, <1>8, <1>9, <1>10, Zenon DEF OrderRest

\* A stuttering step.
LEMMA OrderStutter ==
    ASSUME OrderRest, UNCHANGED vars
    PROVE  OrderRest'
<1>1. /\ pc' = pc /\ i' = i /\ remote' = remote /\ includeUnmatched' = includeUnmatched
      /\ sections' = sections /\ media' = media /\ bundle' = bundle
  BY Zenon DEF vars, callVars, loopVars
<1>2. KeptRemote' = KeptRemote /\ AnswerMids' = AnswerMids
  BY <1>1 DEF KeptRemote, KeptBlocks, AnswerMids, AnswerMid
<1>3. QED
  BY <1>1, <1>2, Zenon
     DEF OrderRest, MatchProgress, SectionsAfterMatch, MediaFromSections, BundleProgress

LEMMA OrderInvStep == OrderInv /\ [Next]_vars => OrderInv'
<1> SUFFICES ASSUME OrderInv, [Next]_vars PROVE OrderInv'
  OBVIOUS
<1>1. DirInv'
  BY DirInvStep, Zenon DEF OrderInv
<1> SUFFICES OrderRest'
  BY <1>1, Zenon DEF OrderInv, OrderRest
<1>2. CASE Call
  BY <1>1, <1>2, OrderCall
<1>3. CASE MatchSkip \/ MatchApplication \/ MatchTransceiver
  BY <1>3, OrderMatchLoop
<1>4. CASE MatchDone
  BY <1>4, OrderMatchDone
<1>5. CASE UnmatchedAppend \/ UnmatchedSkip \/ UnmatchedDone
  BY <1>5, OrderUnmatched
<1>6. CASE ResolveFingerprints
  BY <1>6, OrderResolve
<1>7. CASE PopulateData \/ PopulateTransceiver \/ PopulateRejected
  BY <1>7, OrderPopulate
<1>8. CASE MatchFail \/ NoCertificate \/ PopulateFail \/ GenerateDone
           \/ CreatePendingAnswerDone
  <2>1. PICK res : Return(res)
    BY <1>8, Zenon DEF MatchFail, NoCertificate, PopulateFail, GenerateDone,
                       CreatePendingAnswerDone
  <2>2. QED
    BY <2>1, OrderReturn
<1>9. CASE UNCHANGED vars
  BY <1>9, OrderStutter, Zenon DEF OrderInv, OrderRest
<1>10. QED
  BY <1>2, <1>3, <1>4, <1>5, <1>6, <1>7, <1>8, <1>9 DEF Next

-----------------------------------------------------------------------------

\* generate_matched_sdp and populate_sdp answer the kept remote blocks in
\* the remote's order, one block each, each with that block's mid (or
\* rejected) and a data block exactly for an application block, and add
\* no other block when answering: OfferOrderEchoed always holds.
THEOREM OrderEchoed == Spec => []OfferOrderEchoed
<1>1. Init => OrderInv
  BY OrderInvInit
<1>2. OrderInv /\ [Next]_vars => OrderInv'
  BY OrderInvStep
<1>3. OrderInv => OfferOrderEchoed
  BY OrderInvEchoed
<1>4. QED
  BY <1>1, <1>2, <1>3, PTL DEF Spec

\* populate_sdp's BUNDLE value lists, in block order, the mid of every
\* block add_data_media_section or add_transceiver_sdp did not reject, and
\* nothing else: BundleMatchesMedia always holds.
THEOREM BundleMatches == Spec => []BundleMatchesMedia
<1>1. Init => OrderInv
  BY OrderInvInit
<1>2. OrderInv /\ [Next]_vars => OrderInv'
  BY OrderInvStep
<1>3. OrderInv => BundleMatchesMedia
  BY OrderInvBundle
<1>4. QED
  BY <1>1, <1>2, <1>3, PTL DEF Spec

=============================================================================
