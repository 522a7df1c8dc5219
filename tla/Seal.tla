--------------------------------- MODULE Seal ---------------------------------
(***************************************************************************)
(* Sealing and opening (packages/tlock) and the gate a sealed bid passes    *)
(* before it is committed (packages/sdk/src/encrypted-blob.ts).             *)
(*                                                                         *)
(* SHA-256 is taken as injective: a digest is the record of what it hashes. *)
(* A nonce is "n1", "n2" or "short" (not 32 bytes); sizes are "empty",      *)
(* "fits" and "over" the limit of the place they are used in.  The  *)
(* widths and limits of numbers are constants.                             *)
(*                                                                         *)
(* sealBid calls assertSealRoundWindow on a revealRound (seal.ts:67) that   *)
(* the file neither imports nor destructures; both are read here as         *)
(* window.ts and the parameter of that name, the way seal.test.ts does.     *)
(***************************************************************************)
EXTENDS Sample, Sequences, FiniteSets, SequencesExt

CONSTANTS TWO_128,      \* 2^128
          MAX_SAFE,     \* Number.MAX_SAFE_INTEGER
          MAX_U32,      \* the largest 32-bit round of an identity bound to its bid
          MAX_PAYLOAD   \* MAX_APPLICATION_PAYLOAD_BYTES

ASSUME SealAssumption ==
    /\ TWO_128 \in Nat \ {0} /\ TWO_128 % 2 = 0
    /\ MAX_SAFE \in Nat /\ MAX_U32 \in Nat /\ MAX_PAYLOAD \in Nat

QUICKNET == "quicknet"        \* QUICKNET_HASH
Failed == [ok |-> FALSE]      \* the call threw
-----------------------------------------------------------------------------
(***************************************************************************)
(* The commitment preimage.                                                *)
(***************************************************************************)
FitsI128(value) == value \in -(TWO_128 \div 2) .. TWO_128 \div 2 - 1

\* i128ToBeBytes and beBytesToI128: two's complement.
I128ToBytes(value) == value % TWO_128
BytesToI128(u) == IF u >= TWO_128 \div 2 THEN u - TWO_128 ELSE u

EncodeBidPreimage(value, nonce) == [kind |-> "bid", value |-> I128ToBytes(value), nonce |-> nonce]

\* decodeBidPreimage looks at nothing but the 48 bytes.
DecodeBidPreimage(plain) ==
    IF plain.kind # "bid" THEN Failed
    ELSE [ok |-> TRUE, value |-> BytesToI128(plain.value), nonce |-> plain.nonce]

Digest(bytes) == [sha256 |-> bytes]

\* A value outside the 128 bits has no encoding: i128ToBeBytes throws.
CommitmentMatches(value, nonce, expected) ==
    nonce # "short" /\ FitsI128(value) /\ expected = Digest(EncodeBidPreimage(value, nonce))
-----------------------------------------------------------------------------
(***************************************************************************)
(* The envelope of structured payloads.  amount and payload are small       *)
(* numbers, a payload its own length; the amount of an envelope may be None. *)
(***************************************************************************)
EnvelopeAccepted(e) ==
    e.nonce # "short" /\ e.payload <= MAX_PAYLOAD /\ (e.amount = None \/ FitsI128(e.amount))

EncodeEnvelope(e) ==
    [kind |-> "envelope", magic |-> TRUE, version |-> 1,
     flags |-> IF e.amount = None THEN 0 ELSE 1, reserved |-> 0,
     amount |-> IF e.amount = None THEN 0 ELSE I128ToBytes(e.amount),
     nonce |-> e.nonce, declared |-> e.payload, payload |-> e.payload]

\* Seeded fault: the amount field is not looked at when the flag is clear.
DecodeEnvelope_AnyAmount(b) ==
    IF b.kind # "envelope" \/ ~b.magic \/ b.version # 1 \/ b.flags > 1 \/ b.reserved # 0
       \/ b.declared > MAX_PAYLOAD \/ b.payload # b.declared
    THEN Failed
    ELSE [ok |-> TRUE, amount |-> IF b.flags = 1 THEN BytesToI128(b.amount) ELSE None,
          nonce |-> b.nonce, payload |-> b.payload]

DecodeEnvelope(b) ==
    IF \/ b.kind # "envelope" \/ ~b.magic \/ b.version # 1 \/ b.flags > 1 \/ b.reserved # 0
       \/ b.declared > MAX_PAYLOAD \/ b.payload # b.declared
       \/ b.flags = 0 /\ b.amount # 0
    THEN Failed
    ELSE [ok |-> TRUE, amount |-> IF b.flags = 1 THEN BytesToI128(b.amount) ELSE None,
          nonce |-> b.nonce, payload |-> b.payload]
-----------------------------------------------------------------------------
(***************************************************************************)
(* Drand: the window of a seal's round, beacons and their age.              *)
(***************************************************************************)
IsMalformedRound(round) == round < 1 \/ round > MAX_SAFE

SealRoundInWindow(round, reveal) ==
    ~IsMalformedRound(round) /\ ~IsMalformedRound(reveal) /\ round = reveal

\* One flaw at a time of what a replica may answer.
ChainInfoFlaw == {"public_key", "period", "genesis_time", "hash", "groupHash", "schemeID", "beaconID"}
ChainInfoAccepted(info) == info.flaw \notin ChainInfoFlaw

BeaconAccepted(b) == ~IsMalformedRound(b.round) /\ b.flaw \notin {"randomness", "signature"}

\* verifyDrandSignature: a signature is the round it signs and whose key did.
VerifyDrandSignature(sig, round, key) == sig.round = round /\ sig.key = key

FetchRoundBeacon(round, beacon, info) ==
    IF /\ BeaconAccepted(beacon)
       /\ beacon.round = round
       /\ ChainInfoAccepted(info)
       /\ VerifyDrandSignature(beacon.signature, round, info.key)
    THEN [ok |-> TRUE, signature |-> beacon.signature]
    ELSE Failed

\* computePublishAtMs: one period later than Drand's genesis + (round - 1) * period.
PublishAt(info, round) == info.genesis + info.period * round
PublishedAt(info, round) == info.genesis + info.period * (round - 1)

ClassifyDrandRound(round, info, now, threshold) ==
    CASE IsMalformedRound(round) \/ info.period < 1 \/ info.genesis < 0 \/ now < 0 -> "unknown"
      [] OTHER -> LET publish == PublishAt(info, round)
                  IN  IF now < publish THEN "future"
                      ELSE IF now - publish > threshold THEN "stale" ELSE "fresh"
-----------------------------------------------------------------------------
(***************************************************************************)
(* Timelock encryption (tlock-js, external): an armored age file whose       *)
(* header names a Drand round and a chain and whose body, locked to a round, *)
(* opens with that round's signature.  flaw is what was broken in it; the    *)
(* flaw "body" is in the encrypted bytes, which no parser can read.          *)
(***************************************************************************)
TimelockEncrypt(plain, round) ==
    [flaw |-> "none", round |-> round, chain |-> QUICKNET, locked |-> round, plain |-> plain,
     size |-> "fits"]

TimelockDecrypt(c, signatures) ==
    IF c.flaw = "none" /\ c.chain = QUICKNET /\ c.round \in signatures /\ c.locked = c.round
    THEN [ok |-> TRUE, plain |-> c.plain] ELSE Failed

ArmorFlaw == {"not_utf8", "excessive_padding", "missing_header", "missing_footer",
              "line_too_long", "invalid_base64"}
AgeFlaw == {"missing_version", "missing_recipient", "not_tlock", "malformed_recipient",
            "missing_mac"}

ParseAgePayload(c) ==
    IF c.flaw \in AgeFlaw \/ IsMalformedRound(c.round) THEN Failed
    ELSE [ok |-> TRUE, round |-> c.round, chain |-> c.chain,
          isBid |-> c.flaw # "truncated" /\ c.plain.kind = "bid"]

ParseSealedPayload(c) == IF c.flaw \in ArmorFlaw THEN Failed ELSE ParseAgePayload(c)
-----------------------------------------------------------------------------
(***************************************************************************)
(* The auditor's blob: a box sealed to one key around an identity, bare     *)
(* (the legacy format) or bound to a Drand round and a commitment.          *)
(***************************************************************************)
\* decodeIdentityBlob: ephemeral key, nonce and tag are all there.
DecodeIdentityBlob(blob) == blob.frame = "whole"

SealIdentity(plain, key) == [frame |-> "whole", key |-> key, plain |-> plain]
OpenIdentity(blob, key) ==
    IF DecodeIdentityBlob(blob) /\ blob.key = key THEN [ok |-> TRUE, plain |-> blob.plain] ELSE Failed

Bare(identity) == [bound |-> FALSE, identity |-> identity]
EncodeBound(identity, round, commitment) ==
    [bound |-> TRUE, version |-> 1, round |-> round, commitment |-> commitment,
     identity |-> identity, declared |-> "exact"]

\* decodeBoundPayload: magic, version, a 32-bit round and the exact length.
DecodeBound(plain) ==
    IF ~plain.bound \/ plain.version # 1 \/ plain.round > MAX_U32 \/ plain.declared # "exact"
    THEN Failed
    ELSE [ok |-> TRUE, identity |-> plain.identity, round |-> plain.round,
          commitment |-> plain.commitment]

SealIdentityForBidder(identity, round, commitment, key) ==
    IF round > MAX_U32 \/ identity = "" THEN Failed
    ELSE [ok |-> TRUE, blob |-> SealIdentity(EncodeBound(identity, round, commitment), key)]

OpenIdentityForBidder(blob, key, expected) ==
    LET box    == IF expected.round > MAX_U32 THEN Failed ELSE OpenIdentity(blob, key)
        opened == IF box.ok THEN DecodeBound(box.plain) ELSE Failed
    IN  IF opened.ok /\ opened.round = expected.round /\ opened.commitment = expected.commitment
        THEN opened ELSE Failed

\* Seeded fault: a bound blob is taken for a bare one.
IsIdentityBound_Never(blob, key) == FALSE

IsIdentityBound(blob, key) ==
    LET box == OpenIdentity(blob, key) IN box.ok /\ DecodeBound(box.plain).ok

(***************************************************************************)
(* The recovery tool (auditor-recovery-cli.ts).                             *)
(***************************************************************************)
\* parseArgs: a round without its commitment, or the reverse, is refused.
ArgsAccepted(args) ==
    args.secret /\ args.input # "none" /\ (args.round # None) = args.commitmentGiven

\* extractBlobsFromJson: blobs by label, the trace's bidders against the blobs
\* of their label, or each bidder's own.
ExtractBlobs(doc) ==
    CASE doc.shape = "blobs" -> [label \in DOMAIN doc.blobs |-> doc.blobs[label]]
      [] doc.shape = "bidders" -> [label \in DOMAIN doc.own |-> doc.own[label]]
      [] doc.shape = "auditor" ->
           [label \in DOMAIN doc.own |->
              IF label \in DOMAIN doc.blobs THEN doc.blobs[label] ELSE [frame |-> "missing"]]

\* recoverRows: what is printed of an entry, an identity or an error.
RecoverRow(blob, key, expected) ==
    IF blob.frame = "missing" THEN Failed
    ELSE IF expected # Failed THEN OpenIdentityForBidder(blob, key, expected)
    ELSE LET box == OpenIdentity(blob, key)
         IN  IF IsIdentityBound(blob, key) \/ ~box.ok THEN Failed
             ELSE [ok |-> TRUE, identity |-> box.plain.identity]

\* The round and the commitment a bound blob has to name, if any were given.
Expected(args) ==
    IF args.round = None THEN Failed
    ELSE [ok |-> TRUE, round |-> args.round, commitment |-> args.commitment]

RunAuditorRecoveryCli(args, doc) ==
    IF ~ArgsAccepted(args) THEN [label \in {} |-> Failed]
    ELSE LET entries == ExtractBlobs(doc)
         IN  [label \in DOMAIN entries |-> RecoverRow(entries[label], args.key, Expected(args))]
-----------------------------------------------------------------------------
(***************************************************************************)
(* sealBid, sealPayload and their inverses.                                 *)
(***************************************************************************)
\* assertContractId and assertBidderId.
IdsAccepted(p) == p.ids

\* Identity and auditor key come together or not at all.
AuditorBlob(p, commitment) ==
    IF p.identity = "" /\ p.auditor = "" THEN [ok |-> TRUE, blob |-> [frame |-> "empty"]]
    ELSE IF p.identity = "" \/ p.auditor = "" THEN Failed
    ELSE SealIdentityForBidder(p.identity, p.round, commitment, p.auditor)

SealBid(p) ==
    LET preimage == EncodeBidPreimage(p.value, p.nonce)
        box == AuditorBlob(p, Digest(preimage))
    IN  IF /\ p.ids /\ p.nonce # "short" /\ FitsI128(p.value)
           /\ SealRoundInWindow(p.round, p.reveal)
           /\ box.ok
        THEN [ok |-> TRUE, commitment |-> Digest(preimage), sealRound |-> p.round,
              ciphertext |-> TimelockEncrypt(preimage, p.round), auditorBlob |-> box.blob]
        ELSE Failed

\* sealPayload takes a revealRound too, and does not look at it.
SealPayload(p, e) ==
    LET bytes == EncodeEnvelope(e)
        box == AuditorBlob(p, Digest(bytes))
    IN  IF IdsAccepted(p) /\ EnvelopeAccepted(e) /\ box.ok
        THEN [ok |-> TRUE, commitment |-> Digest(bytes), sealRound |-> p.round,
              ciphertext |-> TimelockEncrypt(bytes, p.round), auditorBlob |-> box.blob]
        ELSE Failed

OpenBid(c, signatures) ==
    LET opened == IF c.size = "empty" THEN Failed ELSE TimelockDecrypt(c, signatures)
    IN  IF opened.ok THEN DecodeBidPreimage(opened.plain) ELSE Failed

OpenPayload(c, signatures) ==
    LET opened == TimelockDecrypt(c, signatures)
    IN  IF opened.ok THEN DecodeEnvelope(opened.plain) ELSE Failed
-----------------------------------------------------------------------------
(***************************************************************************)
(* The gate.                                                               *)
(***************************************************************************)
\* tryDecodeHex, then tryDecodeBase64: a string is read as what is asked for.
Decodes(form, encoding) ==
    CASE form = "bytes" -> TRUE
      [] form = "hex" -> encoding \in {"hex", "any"}
      [] form = "base64" -> encoding \in {"base64", "any"}
      [] OTHER -> FALSE

\* validateEncryptedBlob, by the limit of its content type.
ValidateEncryptedBlob(blob, contentType, encoding) ==
    /\ contentType \in {"ciphertext", "auditor_blob", "evidence_ciphertext", "evidence_auditor_blob"}
    /\ Decodes(blob.form, encoding)
    /\ blob.size = "fits"

\* Seeded fault: the chain a seal is bound to is not compared.
SealBoundTo_AnyChain(header, sealed, binding) ==
    header.round = binding.round /\ CommitmentMatches(binding.value, binding.nonce, sealed.commitment)

SealBoundTo(header, sealed, binding) ==
    /\ header.round = binding.round
    /\ header.chain = QUICKNET
    /\ CommitmentMatches(binding.value, binding.nonce, sealed.commitment)

\* validateSealedBid; bindings holds the binding, if the caller gives one.
ValidateSealedBid(sealed, bindings) ==
    LET header == ParseSealedPayload(sealed.ciphertext)
    IN  /\ ValidateEncryptedBlob([form |-> "bytes", size |-> sealed.ciphertext.size], "ciphertext", "any")
        /\ sealed.auditorBlob.frame # "over"
        /\ header.ok /\ header.isBid
        /\ \A binding \in bindings : SealBoundTo(header, sealed, binding)

\* client.commit up to the call: what the contract is asked to store.  The
\* bidder agent (bidder.ts:239) and mainnet-micro.ts (188) give no binding.
AssertSealedBid(sealed, bindings) == IF ValidateSealedBid(sealed, bindings) THEN sealed ELSE Failed

\* commit's checks of the seal itself (lib.rs, drand.rs).
ContractCommits(sealed, reveal) ==
    sealed.sealRound = reveal /\ sealed.ciphertext.size # "over" /\ sealed.auditorBlob.frame # "over"
-----------------------------------------------------------------------------
(***************************************************************************)
(* Properties.                                                             *)
(***************************************************************************)
\* The ciphertext after what may happen to it between the sealer and the gate:
\* another bid's in its place, its own sealed for a later round, a header that
\* names another round or chain than the body is locked to, broken bytes.
Damaged(c, damage, other) ==
    CASE damage = "none" -> c
      [] damage = "swapped" -> TimelockEncrypt(EncodeBidPreimage(other.value, other.nonce), c.round)
      [] damage = "later" -> TimelockEncrypt(c.plain, c.round + 1)
      [] damage = "round" -> [c EXCEPT !.round = @ + 1]
      [] damage = "chain" -> [c EXCEPT !.chain = "other"]
      [] damage \in {"empty", "over"} -> [c EXCEPT !.size = damage]
      [] OTHER -> [c EXCEPT !.flaw = damage]

\* What only the beacon brings to light, and what only a binding does.
Hidden == {"none", "swapped", "body"}
Misnamed == {"later", "round"}

\* Whatever a replica answers, what is handed on as a round's signature is that
\* round's, and no round counts as out before it is.
BeaconIsOfItsRound ==
    sample.kind = "beacon" =>
        LET fetched == FetchRoundBeacon(sample.round, sample.beacon, sample.info)
            age == ClassifyDrandRound(sample.round, sample.info, sample.now, 1)
        IN  /\ fetched.ok => fetched.signature = [round |-> sample.round, key |-> sample.info.key]
            /\ age \in {"fresh", "stale"} => sample.now >= PublishedAt(sample.info, sample.round)

\* A seal nobody touched passes the gate, the contract takes it, and it opens to
\* its bid.  With a binding the gate lets through no other commitment, round or
\* chain than the one bound to, but a body no parser can read may hold another
\* bid or nothing; without one any well-formed seal of a bid passes.  Whatever
\* was let through opens with no other signature than the one of the round its
\* header names, and what opens and matches the commitment, as a reveal has to,
\* is the value that was committed to.  A beacon that is fetched to open a seal
\* is the one of its round.
SealOpensToTheBid ==
    /\ BeaconIsOfItsRound
    /\ sample.kind = "seal" =>
        LET p == sample.params
            sealed == SealBid(p)
            damage == sample.damage
            damaged == [sealed EXCEPT !.ciphertext = Damaged(@, damage, sample.other)]
            c == damaged.ciphertext
            bid == OpenBid(c, {c.round})
            matches == bid.ok /\ CommitmentMatches(bid.value, bid.nonce, damaged.commitment)
            named == [value |-> p.value, nonce |-> p.nonce, round |-> c.round]
        IN  sealed.ok =>
              /\ FitsI128(p.value) /\ p.round = p.reveal
              /\ AssertSealedBid(damaged, {sample.binding}).ok <=>
                   damage \in Hidden \cup Misnamed /\ sample.binding = named
              /\ AssertSealedBid(damaged, {}).ok <=>
                   damage \in Hidden \cup Misnamed \cup {"chain"}
              /\ \A out \in {{}, {p.reveal}, {p.reveal + 1}} :
                   OpenBid(c, out).ok => c.round \in out /\ damage \notin {"body", "round", "chain"}
              /\ matches => bid.value = p.value
              /\ damage = "none" => matches /\ ContractCommits(damaged, p.reveal)

\* A structured payload that opens is encoded in one way only, the one its
\* commitment was taken of, so no two byte strings open to the same payload and
\* nothing an application reads is outside the commitment; a bid is no payload.
PayloadIsCommitted ==
    sample.kind = "payload" =>
        LET opened == DecodeEnvelope(sample.bytes)
            sealed == SealPayload(sample.params, sample.envelope)
        IN  /\ opened.ok => EncodeEnvelope([amount |-> opened.amount, nonce |-> opened.nonce,
                                             payload |-> opened.payload]) = sample.bytes
            /\ EnvelopeAccepted(sample.envelope) /\ sealed.ok =>
                 /\ OpenPayload(sealed.ciphertext, {sealed.sealRound}) =
                      [ok |-> TRUE, amount |-> sample.envelope.amount,
                       nonce |-> sample.envelope.nonce, payload |-> sample.envelope.payload]
                 /\ ~OpenBid(sealed.ciphertext, {sealed.sealRound}).ok

\* The recovery tool prints the identity in a bound blob only to an auditor who
\* names the round and the bid it was sealed for, whatever label it is filed
\* under; one entry that fails takes no other with it.
IdentityOnlyToItsBid ==
    sample.kind = "auditor" =>
        LET rows == RunAuditorRecoveryCli(sample.args, sample.doc)
            entries == ExtractBlobs(sample.doc)
            Mine(blob) == blob.frame = "whole" /\ blob.key = sample.args.key
            Wanted(blob) ==
              IF sample.args.round = None THEN ~blob.plain.bound
              ELSE /\ blob.plain.bound
                   /\ blob.plain.round = sample.args.round
                   /\ blob.plain.commitment = sample.args.commitment
        IN  ArgsAccepted(sample.args) =>
              \A label \in DOMAIN entries :
                 rows[label].ok <=> Mine(entries[label]) /\ Wanted(entries[label])

=============================================================================
