# TLA+ models of the SFU signalling core

This directory holds TLA+ specifications of the Rust code under `src/src`,
together with the TLC configurations that model-check them and the TLAPS proofs of their properties.
`PROJECT.json` lists the components, the runs, the mutants, the map from every
modelled definition to its source lines, the findings and the hazards.

## The system and how its parts interact

| Part | Source | What it does |
|---|---|---|
| Direction algebra | `rtp_transceiver_direction.rs` (not under `src/`) | `has_send`, `has_recv`, `from_send_recv`, `reverse` and `intersect` over the five transceiver directions |
| Media-section matcher | `server/session/mod.rs` 90-220 | `generate_matched_sdp` walks the parsed remote description, pairs each block with a local transceiver by mid, and marks its sender negotiated. `create_pending_answer` calls it and then `update_sdp_origin` |
| Section builder and assembler | `server/session/description/mod.rs` 165-593 | `populate_sdp` renders the sections in order. It calls `add_data_media_section` or `add_transceiver_sdp` for each one, adds candidates to section 0 only, and collects the BUNDLE group. `update_sdp_origin` stamps the o= line |
| Identity and topology | `server/session/mod.rs` 54-88 | `add_endpoint` and `get_endpoint` map an ICE ufrag to an Endpoint, and a four-tuple to a Transport |
| Interceptor registry | `interceptor/mod.rs` | `Registry::add` and `Registry::build` chain the interceptors around NoOp |
| UDP demultiplexer | `rtc/server/udp_demuxer.rs` | `read` classifies each datagram by its first byte (RFC 7983). Non-media datagrams go to the next handler; SRTP/SRTCP datagrams go nowhere, because their branch is a TODO |
| Description constructors | `description/mod.rs` 33-99 | `offer`/`answer`/`pranswer` parse the text and store the parse in `parsed`. A description that was deserialised has `parsed = None` (`#[serde(skip)]`) |
| Messages, handler | `messages.rs`, `handler/mod.rs` | Type declarations only. Not modelled |

A negotiation is a single synchronous call on a single-threaded `Session`
(`Rc`/`RefCell`, spec.md 5). Nothing interleaves inside one call. What
matters is the order of the steps within a call, what survives a failed
call, and what one call leaves behind for the next.

## Modules

- **`Direction`** holds the direction algebra as pure operators. It is
  written from spec.md 4.1 and the unit tests at `description/mod.rs`
  689-786, because the Rust file is not under `src/`. Every map entry for
  it is `spec_modelled`.
- **`Negotiation`** covers `create_pending_answer`, `generate_matched_sdp`,
  `populate_sdp` and its builders, and `update_sdp_origin`.
  - `pc` is the position inside a call: `idle`, `match`, `unmatched`,
    `certs` or `populate`.
  - Each loop iteration of the code is one action: `MatchSkip`, `MatchFail`,
    `MatchApplication`, `MatchTransceiver`, `UnmatchedAppend`/`Skip`,
    `PopulateData`, `PopulateTransceiver`, `PopulateRejected` and
    `PopulateFail`.
  - Each loop exit is one action: `MatchDone`, `UnmatchedDone`,
    `ResolveFingerprints`/`NoCertificate`, `GenerateDone` and
    `CreatePendingAnswerDone`.
  - Every early return is `Return(err)`. It drops the call's locals exactly
    as the Rust function drops them.
  - `negotiated` is `RTCRtpSender::set_negotiated`, which outlives the call.
  - A call receives an element of `RemoteDescriptions`: the SDP text's
    blocks (`offerSdp`) and whether `parsed` is Some. `remote` holds what the
    matcher walks, which is all of the text's blocks or, under `parsed = None`,
    none of them.
  - `described`, `prevAnswer` and `lastAnswer` are history variables, kept
    for the properties.
  - Data is abstracted:
    - a mid is a small number, the empty string or absent;
    - a codec list is reduced to whether it is empty, and a track to whether
      there is one;
    - a media block keeps its mid, kind, rejection, direction and whether it
      carries candidates.
- **`SessionEndpoints`** models `add_endpoint` with its three branches and
  `get_endpoint`. Endpoint's transport map is written from spec.md 4.2,
  because `endpoint/` is not under `src/`.
- **`InterceptorRegistry`** models `Registry::add` and `Registry::build`.
  - `BuildChain` is the loop over `.rev()` as a recursive function over the
    iteration count.
  - A chain is the list of stages a message passes through, outermost first.
  - `NoOp::chain` drops `next`, exactly as the code does.
  - `InterceptorChain` is the abstract chain of spec.md 9: an ordered list
    of stages, where building yields the stages in registration order.
    `ImplementsChain` states that the registry refines it, with
    `registered <- builders` and `chain <- built`.
- **`UDPDemux`** models `UDPDemuxerDecoder::read` and the `match_range`
  classifier it calls. `Rfc7983Demux` is the abstract demultiplexer of
  RFC 7983: each datagram goes to the next handler or to the media branch,
  by the class of its first byte. `UDPDemux` instantiates it with
  `toNext <- forwarded`, `toMedia <- dropped`, and `ImplementsRfc7983`
  states the refinement.
  - A datagram is its first byte and whether it is empty.
  - `match_dtls`, `match_srtp`, `match_srtcp`, `is_rtcp` and `match_all` are
    not modelled, because nothing calls them.
- **`MC_*`** modules give each specification a small instance.
- **`NegotiationProofs`**, **`NegotiationDirectionProofs`**,
  **`NegotiationOrderProofs`**, **`InterceptorRegistryProofs`** and
  **`UDPDemuxProofs`** hold the TLAPS proofs.
- In `Negotiation`, the two filters of the answer are written as
  prefix-recursive functions: `KeptUpTo[n][r]` keeps, of `r[1..n]`, the
  blocks `generate_matched_sdp` answers (a mid, and application or an RTP
  kind), and `MidsUpTo[n][s]` keeps the non-empty mids of `s[1..n]`. One
  iteration of the loop is then one unfolding. TLC checked on every
  reachable state of the main run that they equal the `SelectSeq` filters.

## Runs

Passing runs:

| Run | Properties | What it shows |
|---|---|---|
| `negotiation` (`MC_Negotiation.cfg`) | `TypeOK`, `OfferOrderEchoed`, `BundleMatchesMedia`, `AnswerDirectionAgrees` | Every answer keeps the offer's block order, with rejected blocks in place and no extra blocks. The BUNDLE group is exactly the unrejected mids, in order. No answered direction grants a capability that the offer or the transceiver lacks |
| `interceptor_order` | `ImplementsChain` | The registry refines the abstract chain: every `build` yields the registered interceptors in registration order |
| `demux_classify` | `ImplementsRfc7983` | `read` refines the RFC 7983 demultiplexer. It forwards exactly the datagrams that the RFC table does not class as RTP/RTCP, in arrival order, at every range boundary |

Violation runs. Each records a disagreement found while modelling; see
"findings" in `PROJECT.json`:

| Run | Property | The code does |
|---|---|---|
| `negotiation_partial` | `NegotiatedOnlyIfDescribed` | It marks a sender negotiated (mod.rs 165, 187) before a later error, and the mark survives the `Err`. spec.md 7 says there is no partial success |
| `negotiation_origin` | `AnswerVersionIncrements` | `create_pending_answer` builds a fresh `Origin::default()` on every call (mod.rs 107), so answers never share an id and an incremented version (spec.md 4.5, 8). The load branch of `update_sdp_origin` also sets the description's version to its own value + 1, not to the stored value + 1. A fresh origin masks that |
| `negotiation_dupmid` | `BundleMidsUnique` | It names the synthetic data section `media_sections.len()` (mod.rs 198). That name can repeat a mid already in use, giving `BUNDLE 1 1` |
| `negotiation_candidates` | `CandidateAdvertised` | Only section 0 gets candidates, and a rejected section returns (description/mod.rs 365) before adding them. An answer (`include_unmatched` false) whose first offered block names a transceiver with neither codecs nor a track therefore bundles the second block and advertises no candidate. `create_pending_answer` reaches this once its TODO at mod.rs 97 passes the session's transceivers |
| `negotiation_unparsed` | `AnswerCoversOffer` | It walks the remote media only under `if let Some(parsed)` (mod.rs 137). A description with `parsed = None`, which is what serde deserialisation yields, is answered with no m= blocks. spec.md 4.3 calls a missing parse a precondition violation |
| `negotiation_kind` | `AnswerKindMatchesOffer` | It finds a transceiver by mid only (mod.rs 164), so an audio block can be answered with a video m= line |
| `endpoints_remember` | `AddEndpointRemembers` | `add_endpoint` never inserts the Endpoint it creates (mod.rs 75). The second call for a peer returns "new" again (spec.md 4.2, 8) |
| `demux_lost` | `NoDatagramLost` | `read` drops SRTP/SRTCP datagrams (udp_demuxer.rs 99), whereas spec.md 6 says they are routed to the Transport |

Each property of a passing run has a mutant in `PROJECT.json`: a plausible
bug in the mapped definition, under which TLC finds the property violated.

## Bounds and why they suffice

- **`MC_Negotiation`:** four transceivers and every remote description of
  at most two blocks.
  - The four transceivers cover all three branches of `add_transceiver_sdp`:
    codecs; no codecs and no track (rejected); no codecs and a track (error).
  - The remote blocks cover audio and video in all five directions,
    application, an unknown kind, an empty mid and a missing mid.
  - Four local lists put the rejected and the failing transceiver first and
    second.
  - `include_unmatched` is either value, and `parsed` is Some or None.
  - Two blocks are enough for every pairwise ordering, for a rejected block
    before an accepted one, and for the mid collision. About 2M states.
  - The origin run uses two session ids and two versions, so that a kept id
    and a bumped version can be told from a fresh draw.
- **`negotiation_candidates`** replaces the remote descriptions by
  `MCAnswerOffers`: up to two blocks, each naming transceiver mid 0, 1 or 2
  with that transceiver's kind. Mid 2 has neither codecs nor a track, so an
  answer can start with a rejected block; the main input set, with mids 0
  and 1 only, reaches rejected blocks only through the unmatched loop.
- **`MC_InterceptorRegistry`:** three builders, up to four registrations,
  repeats included.
- **`MC_UDPDemux`:** three datagrams, each with a first byte at either end of
  every RFC 7983 range or gap, empty or not.
  - `CHECK_DEADLOCK FALSE` because a socket may stop delivering at any point.

## Fairness and liveness

There is none. Every modelled operation is a synchronous function call that
returns. The code has no waiting, retry or background task whose progress a
liveness property could state. The properties are safety properties.

## What is proved

`NegotiationProofs` proves `THEOREM TypeCorrect == Spec => []TypeOK` for every
value of the constants. TLAPS checks it to the last leaf.

- `TypeOK` as stated is inductive, but a single obligation holding all of it
  is too large for the provers. The proof therefore splits it into three
  groups, one lemma each:
  - `CallTypes`: the call's inputs, `pc` and the counter `i`;
  - `LoopTypes`: the sequences built during a call;
  - `KeptTypes`: the state that outlives a call.
- Lemmas state what each group is when an action leaves it unchanged,
  advances the counter, restarts a loop, or returns.
- The step proof has one case per action. Each case proves the types of the
  variables the action changes, from the elements it reads
  (`RemoteAt`, `LocalAt`, `SectionAt`) and the direction lemmas.
- The conjunct `pc # "idle" => i >= 1` is what makes `remote[i]` and
  `sections[i]` meaningful in every step.

`NegotiationDirectionProofs` proves `THEOREM DirectionsAgree == Spec =>
[]AnswerDirectionAgrees`. `AnswerDirectionAgrees` relates `media[k]` to
`sections[k]`, so on its own it is not inductive. The proof strengthens it
to `DirInv`, which is `TypeOK` and three further facts:
- `MediaEmptyBeforePopulate`: `media` is empty outside the `populate_sdp`
  loop;
- `PopulateProgress`: inside that loop, `media` holds exactly one block for
  each of the sections `1 .. i-1`;
- `MediaDirections`: every answered transceiver block carries
  `AnswerDirection` of its section's offered direction and of its
  transceiver's direction.

TLC checked `DirInv` as an invariant on the main instance before it was
proved. The proof then goes as follows:
- `Init => DirInv`;
- each action keeps `DirInv`. The steps before `populate_sdp` keep `media`
  empty, a returning step drops it, and each `populate_sdp` step appends the
  block for `sections[i]` (`MediaAppend`, `PopulateAdvance`);
- `DirInv => AnswerDirectionAgrees`, using `AnswerDirectionSafe`: the
  answer direction never grants a capability that the offered direction or
  the transceiver lacks.

`UDPDemuxProofs` proves `THEOREM Refinement == Spec => ImplementsRfc7983`
for every set of datagrams whose first byte is a `u8` (`PacketsAssumption`).
Each `read` is a `Receive` step of the abstract demultiplexer. This rests on
`MatchAgreesWithRfc`: `match_range(128, 191)` on a non-empty buffer holds
exactly when the RFC class is RTP.

`NegotiationOrderProofs` proves `THEOREM OrderEchoed == Spec =>
[]OfferOrderEchoed` and `THEOREM BundleMatches == Spec =>
[]BundleMatchesMedia`. Both properties speak of the finished answer only, so
neither is inductive. The proof strengthens them to `OrderInv`, which is
`DirInv` and four facts about the call in progress:
- `MatchProgress`: in the matching loop, the sections built so far echo, in
  order, the kept blocks among `remote[1..i-1]`;
- `SectionsAfterMatch`: after the loop, the sections echo all kept blocks,
  with unmatched data appended only when `include_unmatched` is set;
- `MediaFromSections`: every populated block carries the mid of its
  section (none for a rejected one) and its kind;
- `BundleProgress`: the BUNDLE list is empty before `populate_sdp` and is
  the non-empty mids of the first `i-1` blocks during it.

TLC checked `OrderInv` as an invariant on the main instance before it was
proved. Each loop step is one unfolding of `KeptUpTo` or `MidsUpTo`; that
these recursive functions exist at all is shown with `NatInductiveDef`.

`InterceptorRegistryProofs` proves `THEOREM ChainRefinement == Spec =>
ImplementsChain` for every set of builders. It rests on `BuildChainInOrder`:
for every list `bs`, `BuildChain(bs) = bs`. The loop over `.rev()` is a
recursive function on `0 .. Len(bs)`. The list of suffixes of `bs` satisfies
the same recursion, and `FiniteNatInductiveUnique` says the recursion has
only one solution. Each `add` is then a `Register` step and each `build` a
`Build` step of the abstract chain.

Only model-checked:
- the violation runs, which show what the code does, not a property of it;
- facts whose proof needs induction over data with an arbitrary predicate:
  the library's `NatInduction` cannot be instantiated by the installed
  provers. The proofs above avoid it by stating each recursion as a
  recursive function and using the uniqueness theorems instead;
- the model has no fairness, so there is no liveness property to prove.

## Not modelled

- SDP text, marshalling and parsing, which are done by the `sdp` crate. The
  constructors are represented only by the descriptions they can produce;
- codec, feedback, rid/simulcast and msid lines, and fingerprint and ICE
  attribute values (no property distinguishes them);
- the interceptors themselves, and the DTLS/SRTP/SCTP layers;
- `messages.rs` and `handler/mod.rs`, which hold only declarations.
