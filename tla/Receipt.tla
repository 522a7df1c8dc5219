------------------------------- MODULE Receipt -------------------------------
(***************************************************************************)
(* Round receipts: the export (packages/sdk/src/client.ts), the offline     *)
(* verifier (verify.ts, receipt-events.ts) over the lifecycle of the event  *)
(* snapshot (round-bindings/src/event-snapshot.ts), the redaction           *)
(* (redact.ts) and the commands of services/receipt-cli.                   *)
(*                                                                         *)
(* A sample of kind "receipt" is a round of the contract, one change made   *)
(* to the receipt exported for it, and the options of the verify command.  *)
(* The hash of a bid is the pair that is hashed.                           *)
(***************************************************************************)
EXTENDS SettlementGuard, Functions

CONSTANTS Address,    \* the bidders' addresses, in the order of the index
          Sorted,     \* the same, in the order of the keys of a receipt
          Label       \* the labels of a redacted receipt, by position

ASSUME ReceiptAssumption ==
    /\ Address \in Seq(ToSet(Address)) /\ IsInjective(Address) /\ None \notin ToSet(Address)
    /\ ToSet(Sorted) = ToSet(Address) /\ Len(Sorted) = Len(Address)
    /\ Len(Label) = Len(Address) /\ ToSet(Label) \cap ToSet(Address) = {}

Decimal == {"1", "2"}

\* ROUND_EVENT_LIFECYCLE_ORDER: voided is an alternative, not a stage.
Lifecycle == <<"created", "commit", "revealing", "reveal", "cleared", "settled">>
EventNames == ToSet(Lifecycle) \cup {"voided"}
Phase(name) == IF name = "voided" THEN "settled" ELSE name
Rank(name) == CHOOSE i \in DOMAIN Lifecycle : Lifecycle[i] = Phase(name)
-----------------------------------------------------------------------------
(***************************************************************************)
(* The export.                                                             *)
(***************************************************************************)
Hash(value, nonce) == <<value, nonce>>

\* #roundEventLog: the whole lifecycle, whatever the round has been through.
RoundEventLog(id) ==
    [k \in DOMAIN Lifecycle |-> [name |-> Lifecycle[k], round |-> id, shape |-> "ok",
                                 phase |-> Phase(Lifecycle[k])]]

\* What a bidder that never revealed had sealed is its escrow.
BidEntry(bid, i) ==
    LET revealed == bid.value # None
    IN  [commitment |-> Hash(IF revealed THEN bid.value ELSE bid.escrow, i),
         escrow |-> bid.escrow, value |-> bid.value,
         nonce |-> IF revealed THEN i ELSE None,
         valid |-> Valid(bid), settled |-> bid.settled, evidence |-> "hex"]

ExportReceipt(round, id) ==
    [version |-> 1, network |-> "testnet", fingerprint |-> "testnet", contract |-> "C",
     round |-> id, rule |-> round.rule, status |-> round.status,
     bidders |-> [i \in DOMAIN round.bids |-> Address[i]],
     bids |-> [a \in {Address[i] : i \in DOMAIN round.bids} |->
                 LET i == CHOOSE k \in DOMAIN round.bids : Address[k] = a
                 IN  BidEntry(round.bids[i], i)],
     winner |-> IF round.winner = None THEN None ELSE Address[round.winner], value |-> round.bid, events |-> RoundEventLog(id),
     checksum |-> None]
-----------------------------------------------------------------------------
(***************************************************************************)
(* The verifier: the codes of the errors it reports.                       *)
(***************************************************************************)
Error(code, wrong) == IF wrong THEN {code} ELSE {}

SchemaErrors(receipt) ==
    Error("missing_network", receipt.network = "")
    \cup Error("network_mismatch", receipt.network # "" /\ receipt.fingerprint # receipt.network)
    \cup Error("invalid_contract_id", receipt.contract # "C")
    \cup Error("invalid_round_id", receipt.round \notin Decimal)
    \cup Error("invalid_clearing_rule", receipt.rule \notin {"HighestBid", "LowestBid"})

EventErrors(receipt, event) ==
    Error("unknown_event_name", event.name \notin EventNames)
    \cup Error("invalid_event_topics", event.shape = "topics")
    \cup Error("invalid_event_entry", event.shape = "ledger")
    \cup Error("event_phase_mismatch",
               event.name \notin EventNames \/ event.phase # Phase(event.name))
    \cup Error("event_round_id_mismatch", event.round # receipt.round)

\* Unknown names do not take part in the order.
InLedgerOrder(events) ==
    \A i \in 2 .. Len(events) :
        {events[i - 1].name, events[i].name} \subseteq EventNames
            => Rank(events[i - 1].name) <= Rank(events[i].name)

\* What the status requires of the log; a status that is not final, nothing.
RequiredEvents(receipt) ==
    LET present == {receipt.events[i].name : i \in DOMAIN receipt.events}
    IN  CASE receipt.status = "Settled" ->
               Error("missing_events_required", ~(ToSet(Lifecycle) \subseteq present))
               \cup Error("event_phase_mismatch", "voided" \in present)
          [] receipt.status = "Voided" ->
               Error("missing_events_required", ~({"created", "voided"} \subseteq present))
               \cup Error("event_phase_mismatch", "settled" \in present)
          [] OTHER -> {}

VerifyReceiptEvents(receipt, expected) ==
    LET events == receipt.events
        finals == {i \in DOMAIN events : events[i].name \in {"settled", "voided"}}
    IN  Error("event_contract_mismatch", expected.contract \notin {None, receipt.contract})
        \cup Error("event_network_mismatch", expected.network \notin {None, receipt.network})
        \cup IF events = <<>> THEN {"missing_events"}
             ELSE (UNION {EventErrors(receipt, events[i]) : i \in DOMAIN events})
                  \cup Error("event_not_in_ledger_order", ~InLedgerOrder(events))
                  \cup Error("duplicate_settle_event", \E i, j \in finals : i # j)
                  \cup RequiredEvents(receipt)

BidderErrors(receipt) ==
    Error("invalid_bidder", ~(ToSet(receipt.bidders) \subseteq ToSet(Address)))
    \cup Error("duplicate_bidder", ~IsInjective(receipt.bidders))
    \cup Error("orphan_bid_entry", ~(DOMAIN receipt.bids \subseteq ToSet(receipt.bidders)))
    \cup Error("missing_bid_entry", ~(ToSet(receipt.bidders) \subseteq DOMAIN receipt.bids))

\* Seeded fault: the hash of a revealed bid is taken from the receipt.
BindingErrors_TrustContract(entry) ==
    Error("partial_reveal", entry.value = None /\ entry.nonce # None)

\* Without a nonce the contract's own check of the hash is trusted.
BindingErrors(entry) ==
    Error("commitment_mismatch",
          entry.value # None /\ entry.nonce # None
              /\ Hash(entry.value, entry.nonce) # entry.commitment)
    \cup Error("partial_reveal", entry.value = None /\ entry.nonce # None)

EntryErrors(entry) ==
    BindingErrors(entry)
    \cup Error("invalid_escrow", entry.escrow < 0)
    \cup Error("invalid_evidence_hex", entry.evidence = "garbled")

\* The walk that replaces its best bid by a strictly better valid one.
ComputedWinner(receipt) ==
    LET Bid(b) == receipt.bids[b]
        Replaces(b, best) ==
            /\ b \in DOMAIN receipt.bids /\ Bid(b).value # None /\ Bid(b).valid
            /\ \/ best = None
               \/ receipt.rule = "HighestBid" /\ Bid(b).value > Bid(best).value
               \/ receipt.rule # "HighestBid" /\ Bid(b).value < Bid(best).value
        best[i \in 0 .. Len(receipt.bidders)] ==
            IF i = 0 THEN None
            ELSE IF Replaces(receipt.bidders[i], best[i - 1]) THEN receipt.bidders[i]
            ELSE best[i - 1]
    IN  best[Len(receipt.bidders)]

\* A winner that is not declared, or cannot be computed, is only a warning.
WinnerErrors(receipt) ==
    Error("winner_mismatch", /\ None \notin {ComputedWinner(receipt), receipt.winner}
                             /\ ComputedWinner(receipt) # receipt.winner)

NoExpectation == [contract |-> None, network |-> None]

VerifyReceipt(receipt, expected) ==
    IF receipt.version # 1 THEN {"unsupported_version"}
    ELSE SchemaErrors(receipt)
         \cup VerifyReceiptEvents(receipt, expected)
         \cup BidderErrors(receipt)
         \cup (UNION {EntryErrors(receipt.bids[b]) :
                         b \in ToSet(receipt.bidders) \cap DOMAIN receipt.bids})
         \cup WinnerErrors(receipt)
-----------------------------------------------------------------------------
(***************************************************************************)
(* Redaction with nothing kept: the list of bidders is labelled by its      *)
(* position, the bids by the position of their key.                        *)
(***************************************************************************)
RedactReceipt(receipt) ==
    [receipt EXCEPT !.contract = "redacted", !.round = "redacted", !.winner = "redacted",
        !.bidders = [i \in DOMAIN @ |-> Label[i]],
        !.bids = LET keys == SelectSeq(Sorted, LAMBDA a : a \in DOMAIN receipt.bids)
                 IN  [label \in {Label[k] : k \in DOMAIN keys} |->
                        LET entry == receipt.bids[keys[CHOOSE k \in DOMAIN keys : Label[k] = label]]
                        IN  [entry EXCEPT !.evidence = IF @ = "null" THEN "null" ELSE "garbled"]],
        !.events = [k \in DOMAIN @ |-> [@[k] EXCEPT !.round = "redacted"]]]
-----------------------------------------------------------------------------
(***************************************************************************)
(* receipt-cli verify: the exit code, and the output a script reads.       *)
(***************************************************************************)
\* The file beside the receipt is not asked for, cannot be read, or has a hash.
ArtifactErrors(receipt, artifact) ==
    IF artifact = "none" THEN {}
    ELSE IF artifact = "unreadable" THEN {"missing_artifact_file"}
    ELSE IF receipt.checksum = None THEN {"missing_checksum_metadata"}
    ELSE Error("checksum_mismatch", receipt.checksum # artifact)

\* Fail closed: no receipt identity without a verified receipt.
BuildJsonOutput(receipt, errors) ==
    [valid |-> errors = {}, errors |-> errors,
     round |-> IF errors = {} THEN receipt.round ELSE None]

CmdVerify(file, receipt, artifact) ==
    LET unread == {"parse_error"}
        errors == VerifyReceipt(receipt, NoExpectation) \cup ArtifactErrors(receipt, artifact)
        found  == IF file # "parsed" \/ receipt.version # 1 THEN unread ELSE errors
    IN  [exit |-> IF found = {} THEN 0 ELSE 1, json |-> BuildJsonOutput(receipt, found)]

\* export writes the receipt of a configured contract, redact a receipt it parsed.
CmdExport(configured, round, id) ==
    IF configured THEN ExportReceipt(round, id) ELSE None

CmdRedact(file, receipt) ==
    IF file = "parsed" /\ receipt.version = 1 THEN RedactReceipt(receipt) ELSE None
-----------------------------------------------------------------------------
\* A receipt of a round that was not voided verifies as exported, and one that
\* was changed in a single place verifies only if it still tells every revealed
\* bid and, when the contract chose a winner, declares none or that one
\* (docs/RECEIPTS.md:69-84: the verifier detects a changed commitment, value,
\* winner and bidder list).  The command reports nothing else, and
\* no redacted receipt passes for a verified one.
ReceiptTellsOutcome ==
    sample.kind = "receipt" =>
        LET round == sample.round
            receipt == sample.receipt
            told == CmdVerify("parsed", receipt, sample.artifact)
        IN  /\ round.status # "Voided"
               => VerifyReceipt(CmdExport(TRUE, round, "1"), NoExpectation) = {}
            /\ told.json.valid =>
                 /\ ToSet(receipt.bidders) = {Address[i] : i \in DOMAIN round.bids}
                 /\ \A i \in DOMAIN round.bids :
                      round.bids[i].value \in {None, receipt.bids[Address[i]].value}
                 /\ round.winner # None => receipt.winner \in {None, Address[round.winner]}
                 /\ sample.artifact \in {"none", receipt.checksum}
                 /\ told.json.round = receipt.round
            /\ told.exit = 0 <=> told.json.valid
            /\ round.bids # <<>> /\ receipt.version = 1
               => ~CmdVerify("parsed", CmdRedact("parsed", receipt), "none").json.valid

\* "A round receipt ... captures the final state of a Sub Rosa auction round" and
\* can be "verified offline" (docs/RECEIPTS.md:4), Voided among its statuses
\* (docs/RECEIPTS.md:27): what is exported of a round that is over verifies.
EveryExportVerifies ==
    sample.kind = "receipt" /\ sample.round.status \in {"Settled", "Voided"} =>
        VerifyReceipt(ExportReceipt(sample.round, "1"), NoExpectation) = {}
=============================================================================
