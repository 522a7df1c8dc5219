------------------------------- MODULE MCRules -------------------------------
(***************************************************************************)
(* The inputs on which the rules of the off-chain code are checked.        *)
(***************************************************************************)
EXTENDS KeeperStatus, Seal, Conservation, Receipt, Readiness, Bidder, Client, TLC

SmallBids ==
    {b \in [escrow : 1 .. 2, value : {None} \cup 0 .. 2, settled : {FALSE}] :
        b.value = None \/ b.value <= b.escrow}

\* Rounds of up to three bids, read in full or in part, at every clock.
GuardSample ==
    \E bids \in BoundedSeq(SmallBids, 3), rule \in {"HighestBid", "LowestBid"},
       status \in {"Open", "Revealing", "Cleared", "Settled", "Voided"} :
       LET round == ContractRound(status, rule, bids)
       IN  /\ status \in {"Cleared", "Settled"} => round.winner # None
           /\ status = "Open" => \A i \in DOMAIN bids : bids[i].value = None
           /\ \E read \in {Len(bids), Len(bids) - 1} \cap Nat, now \in 0 .. 2 :
              \E unread \in {{}, {read}} \cap SUBSET (1 .. read) :
                 sample = [kind |-> "guard", round |-> round, read |-> read,
                           unread |-> unread, now |-> now]

\* Cursors of up to three recorded steps, some perhaps twice; None is a round that
\* cannot be read.
CursorSample ==
    \E history \in BoundedSeq([step : {"reveal", "clear", "settle"}, hash : {NoHash, "a", "b"}], 3),
       file \in {"own", "missing", "otherNetwork"},
       status \in {None, "Open", "Revealing", "Cleared", "Settled"},
       verify \in {Nobody} \cup [{"a", "b"} -> {"confirmed", "missing", "unreachable"}] :
         sample = [kind |-> "cursor", history |-> history, file |-> file,
                   status |-> status, verify |-> verify]

\* Rounds of up to two bidders read in part, around every deadline.
StatusSample ==
    \E status \in {"Open", "Revealing", "Cleared", "Settled", "Voided"},
       revealed \in BoundedSeq(BOOLEAN, 2), now \in 0 .. 6,
       history \in BoundedSeq([step : {"open-reveal", "clear"}, hash : {NoHash, "a"}], 1),
       file \in {"own", "missing", "otherNetwork", "otherContract", "otherVersion"},
       read \in {"ok", "RoundNotFound", "unavailable"}, tracked \in 0 .. 2, drand \in BOOLEAN :
       \E other \in IF tracked = 2 THEN {"Open", "Voided"} ELSE {"Voided"}, unread \in SUBSET DOMAIN revealed :
         /\ drand \/ file = "own"
         /\ sample = [kind |-> "status", now |-> now, unread |-> unread, history |-> history,
                      round |-> [status |-> status, commit |-> 1, publish |-> 2, deadline |-> 4,
                                 revealed |-> revealed],
                      file |-> file, read |-> read, tracked |-> tracked, other |-> other,
                      drand |-> drand]

SealBidding ==
    [ids : BOOLEAN, value : -9 .. 8, nonce : {"n1", "short"}, round : 0 .. 4, reveal : {2, 4},
     identity : {"", "ann"}, auditor : {"", "key"}]

\* Every damage one seal can take, and claims that are off by one field, follow
\* the header to another round or are those of the other bid.
SealSample ==
    \E params \in SealBidding,
       damage \in Hidden \cup Misnamed \cup {"empty", "over", "chain", "truncated"}
                    \cup ArmorFlaw \cup AgeFlaw,
       off \in {"nothing", "value", "wrap", "nonce", "round", "other"} :
       /\ damage # "none" => params.value \in {-8, 7} /\ params.round = 2
       /\ sample = [kind |-> "seal", params |-> params, damage |-> damage,
                    other |-> [value |-> 3, nonce |-> "n2"],
                    binding |-> [value |-> CASE off = "value" -> params.value - 1
                                             [] off = "wrap"  -> params.value - TWO_128
                                             [] off = "other" -> 3
                                             [] OTHER         -> params.value,
                                 nonce |-> IF off \in {"nonce", "other"} THEN "n2" ELSE params.nonce,
                                 round |-> IF off = "round" THEN params.round + 1 ELSE params.round]]

BeaconSample ==
    \E round, answered, signed \in 0 .. 2, flaw \in {"none", "randomness", "signature"},
       key \in {"drand", "other"}, infoFlaw \in {"none"} \cup ChainInfoFlaw, now \in -1 .. 6 :
       sample = [kind |-> "beacon", round |-> round, now |-> now,
                 beacon |-> [round |-> answered, flaw |-> flaw,
                             signature |-> [round |-> signed, key |-> key]],
                 info |-> [flaw |-> infoFlaw, key |-> "drand", genesis |-> 1, period |-> 2]]

PayloadSample ==
    \E amount \in {-9, -8, 0, 7, 8, None}, payload \in 0 .. 3, nonce \in {"n1", "short"},
       magic \in BOOLEAN, version \in 1 .. 2, flags \in 0 .. 2, reserved \in 0 .. 1,
       field \in {0, 8, 15}, declared \in 0 .. 3 :
       sample = [kind |-> "payload",
                 params |-> [ids |-> TRUE, identity |-> "", auditor |-> "", round |-> 2],
                 envelope |-> [amount |-> amount, nonce |-> nonce, payload |-> payload],
                 bytes |-> [kind |-> "envelope", magic |-> magic, version |-> version,
                            flags |-> flags, reserved |-> reserved, amount |-> field,
                            nonce |-> "n1", declared |-> declared, payload |-> payload]]

\* Two bidders' blobs, filed in any of the shapes the tool reads, and swapped.
AuditorSample ==
    LET Of(bidder) == Digest(bidder)
        Blobs == {[frame |-> "missing"], [frame |-> "short"]}
                 \cup {SealIdentity(plain, key) : key \in {"key", "other"},
                       plain \in {Bare("ann")}
                         \cup {EncodeBound("ann", r, Of(b)) : r \in 0 .. 1, b \in {"ann", "bob"}}}
    IN  \E shape \in {"blobs", "bidders", "auditor"}, ann, bob \in Blobs, secret \in BOOLEAN,
           input \in {"none", "json"}, round \in {None, 0, 1, 4}, given \in BOOLEAN, b \in {"ann", "bob"} :
           sample = [kind |-> "auditor",
                     args |-> [secret |-> secret, input |-> input, round |-> round,
                               commitmentGiven |-> given, commitment |-> Of(b), key |-> "key"],
                     doc |-> [shape |-> shape,
                              blobs |-> [label \in {"ann"} |-> ann],
                              own |-> [label \in {"ann", "bob"} |-> IF label = "ann" THEN ann ELSE bob]]]

\* Pages of an index of that many bidders with one thing wrong.
Faulty(pages, total, fault) ==
    LET n == Len(pages)
        Set(field, value) == [pages EXCEPT ![n] = [@ EXCEPT ![field] = value]]
    IN  CASE fault = "drop" /\ pages[n].data # <<>> -> Set("data", Front(pages[n].data))
          [] fault = "repeat"  -> Set("data", Append(pages[n].data, 1))
          [] fault = "foreign" /\ pages[n].data # <<>> ->
               Set("data", Append(Front(pages[n].data), total + 1))
          [] fault = "drift"   -> Set("total", total + 1)
          [] fault = "stall" /\ n > 1 -> Set("next", pages[n - 1].next)
          [] fault = "short"   -> <<[pages[1] EXCEPT !.next = 0]>>
          [] fault = "endless" -> [p \in 1 .. ESCROW_MAX_BIDDERS + 1 |->
                                     [total |-> total, data |-> <<>>, next |-> p]]
          [] fault = "past" -> Set("next", ESCROW_MAX_BIDDERS + 1)
          [] fault = "more" -> Set("data", pages[n].data \o <<total + 1, total + 2>>)
          [] OTHER -> pages

ConservationSample ==
    \E bids \in BoundedSeq(SmallBids, 3), status \in {"Revealing", "Cleared", "Settled"},
       size \in 1 .. 4, unread \in {{}, {1}},
       fault \in {"none", "drop", "repeat", "foreign", "drift", "stall", "short", "endless",
                 "past", "more"},
       outcome \in {"answer", "transport", "missing", "restore"} :
       LET round == ContractRound(status, "HighestBid", bids)
           answer == IF ContractAccepts("settle", round, 0) THEN "accepted" ELSE "rejected"
       IN  /\ status # "Revealing" => round.winner # None
           /\ fault # "none" \/ unread # {} => outcome = "answer" /\ status = "Cleared"
           /\ sample = [kind |-> "conservation", round |-> round, unread |-> unread, size |-> size,
                        pages |-> Faulty(HonestPages(Len(bids), size), Len(bids), fault),
                        simulated |-> IF outcome = "answer" THEN answer ELSE outcome]

MCAddress == <<"G2", "G1", "G3", "G4">>
MCSorted == <<"G1", "G2", "G3", "G4">>
MCLabel == <<"redacted 1", "redacted 2", "redacted 3", "redacted 4">>

\* One change in one place of a receipt.
Changes(receipt) ==
    LET Bid(a, field, value) == [receipt EXCEPT !.bids[a] = [@ EXCEPT ![field] = value]]
        Event(k, field, value) == [receipt EXCEPT !.events[k] = [@ EXCEPT ![field] = value]]
        E == DOMAIN receipt.events
    IN  {receipt}
        \cup {[receipt EXCEPT !.version = 2], [receipt EXCEPT !.network = "public"],
              [receipt EXCEPT !.network = ""], [receipt EXCEPT !.contract = "G"],
              [receipt EXCEPT !.round = "2"], [receipt EXCEPT !.round = "x"],
              [receipt EXCEPT !.events = <<>>], [receipt EXCEPT !.checksum = "file"]}
        \cup {[receipt EXCEPT !.rule = r] : r \in {"HighestBid", "LowestBid", "Vickrey"}}
        \cup {[receipt EXCEPT !.status = s] : s \in {"Open", "Cleared", "Settled", "Voided"}}
        \cup {[receipt EXCEPT !.winner = w] : w \in {None} \cup ToSet(Address)}
        \cup {[receipt EXCEPT !.bidders = Append(@, a)] : a \in ToSet(Address)}
        \cup {[receipt EXCEPT !.bidders = Reverse(@)], [receipt EXCEPT !.bidders = <<>>]}
        \cup {[receipt EXCEPT !.bids = Restrict(@, DOMAIN @ \ {a})] : a \in DOMAIN receipt.bids}
        \cup UNION {{Bid(a, "commitment", Hash(1, 9)), Bid(a, "value", None), Bid(a, "value", 1),
                     Bid(a, "value", 2), Bid(a, "nonce", None), Bid(a, "nonce", 9),
                     Bid(a, "valid", FALSE), Bid(a, "valid", TRUE), Bid(a, "escrow", -1),
                     Bid(a, "evidence", "null"), Bid(a, "evidence", "garbled")} :
                       a \in DOMAIN receipt.bids}
        \cup {[receipt EXCEPT !.events = RemoveAt(@, k)] : k \in E}
        \cup {[receipt EXCEPT !.events = Append(@, @[k])] : k \in E}
        \cup UNION {{Event(k, "name", "voided"), Event(k, "name", "refund"), Event(k, "round", "2"),
                     Event(k, "phase", "created"), Event(k, "shape", "topics"),
                     Event(k, "shape", "ledger")} : k \in E}

ReceiptSample ==
    \E bids \in BoundedSeq(SmallBids, 2), rule \in {"HighestBid", "LowestBid"},
       status \in {"Open", "Revealing", "Cleared", "Settled", "Voided"},
       artifact \in {"none", "file"} :
       LET round == ContractRound(status, rule, bids)
       IN  /\ status \in {"Cleared", "Settled"} => round.winner # None
           /\ status = "Open" => \A i \in DOMAIN bids : bids[i].value = None
           /\ \E receipt \in Changes(ExportReceipt(round, "1")) :
                /\ artifact # "none" => receipt.checksum # None \/ receipt.version = 2
                /\ sample = [kind |-> "receipt", round |-> round, receipt |-> receipt,
                             artifact |-> artifact]

\* One group of inputs varies at a time, the rest is the deployment as committed.
ReadinessSample ==
    LET Right == [f \in DEPLOYMENT_FIELDS |-> Text(f)]
        Values(f) == {Text(f), [text |-> f, recased |-> TRUE], Text("other")}
        Round == [id |-> 1, status |-> "Settled", bidders |-> 1, revealRound |-> 9, value |-> 1,
                  escrow |-> 2, valid |-> TRUE, settled |-> TRUE]
        Rounds == {None} \cup
            [id : {1}, status : {"Settled", "Voided"}, bidders : 0 .. 2, revealRound : 8 .. 9,
             value : 0 .. 2, escrow : 1 .. 2, valid : BOOLEAN, settled : BOOLEAN]
        Doc == Right @@ [keys |-> "known", rpc |-> "https", status |-> "Settled", bid |-> 1,
                         escrow |-> 2, revealRound |-> 9, round |-> 1]
        Good == [kind |-> "readiness", command |-> "ready", execute |-> TRUE, confirmed |-> TRUE,
                 secrets |-> TRUE, dryRun |-> FALSE, replay |-> FALSE, withBalances |-> FALSE,
                 accounts |-> {}, bid |-> None, escrow |-> None, tx |-> "ok", embedded |-> Doc,
                 manifest |-> [readable |-> TRUE, doc |-> Doc],
                 fixture |-> [readable |-> TRUE, doc |-> Right @@ [round |-> Round, balance |-> 0]],
                 env |-> [rpc |-> "https"] @@ Right,
                 chain |-> Right @@ [healthy |-> TRUE, proof |-> Round, escrow |-> 0, locked |-> 2,
                                     balances |-> 2]]
        Commands == {"ready", "verify", "micro", "settle"}
    IN  \/ \E c \in Commands, execute \in BOOLEAN,
              env \in Values("contractId") \X Values("networkPassphrase"),
              net \in {None, Text("")} \cup Values("networkPassphrase"),
              hash \in {None, Text("")} \cup Values("wasmHash"),
              token \in {None, Text("")} \cup Values("tokenContract") :
           sample = [Good EXCEPT !.command = c, !.execute = execute,
                        !.env.contractId = env[1], !.env.networkPassphrase = env[2],
                        !.chain.networkPassphrase = net, !.chain.wasmHash = hash,
                        !.chain.tokenContract = token]
        \/ \E c \in Commands, round \in Rounds :
           sample = [Good EXCEPT !.command = c, !.chain.proof = round]
        \/ \E c \in {"ready", "verify"}, round \in Rounds \ {None}, id \in 1 .. 2,
              f \in DEPLOYMENT_FIELDS, value \in {"", "other", "same"} :
           sample = [Good EXCEPT !.command = c, !.replay = TRUE,
                        !.fixture.doc.round = [round EXCEPT !.id = id],
                        !.fixture.doc[f] = IF value = "same" THEN @ ELSE Text(value)]
        \/ \E c \in {"micro", "settle"}, bid, escrow \in {None} \cup -1 .. 4, locked \in 0 .. 4,
              execute, confirmed, secrets \in BOOLEAN, tx \in {"ok", "create", "commit"} :
           sample = [Good EXCEPT !.command = c, !.bid = bid, !.escrow = escrow,
                        !.chain.locked = locked, !.execute = execute, !.confirmed = confirmed,
                        !.secrets = secrets, !.tx = tx]
        \/ \E dryRun, balances, replay, healthy \in BOOLEAN, rpc \in {"https", "http", "ftp"},
              accounts \in SUBSET {"operator", "keeper", "bidder"}, have \in {None} \cup 0 .. 2,
              escrow \in {None, 0, 1}, recorded \in {None} \cup -1 .. 1 :
           sample = [Good EXCEPT !.dryRun = dryRun, !.withBalances = balances, !.replay = replay,
                        !.accounts = accounts, !.env.rpc = rpc, !.chain.healthy = healthy,
                        !.chain.balances = have, !.chain.escrow = escrow,
                        !.fixture.doc.balance = recorded]
        \/ \E c \in {"ready", "verify"}, file, recording, replay, dryRun \in BOOLEAN,
              keys \in {"known", "unknown", "missing"}, rpc \in {"https", "http"},
              status \in {"Settled", "Cleared"}, bid \in -1 .. 3, f \in DEPLOYMENT_FIELDS,
              blank \in BOOLEAN :
           sample = [Good EXCEPT !.command = c, !.manifest.readable = file,
                        !.fixture.readable = recording, !.replay = replay, !.dryRun = dryRun,
                        !.manifest.doc = [Doc EXCEPT !.keys = keys, !.rpc = rpc,
                            !.status = status, !.bid = bid, ![f] = IF blank THEN Text("") ELSE @]]

Bodies == [text : BOOLEAN, len : 0 .. 3, parses : {"object", "scalar", "broken", "blank"}, credentials : BOOLEAN,
           fields : {"valid", "outside"}]

ValueSample ==
    \E quality, demand, scarcity, risk \in {None, 0, 3, 10}, base \in {1, 7, 20},
       category \in DOMAIN CATEGORY_MULTIPLIERS :
       sample = [kind |-> "value",
                 req |-> [base |-> base, category |-> category, quality |-> quality,
                          demand |-> demand, scarcity |-> scarcity, risk |-> risk]]

ServeSample ==
    LET env == [secret |-> "valid", payTo |-> "valid", network |-> None, passphrase |-> None,
                asset |-> None, price |-> None, port |-> None, rpc |-> None]
    IN  \/ \E body \in {b \in Bodies : b.text}, declared \in {None, -1, 2, 3}, price \in {None, 0, 1, 4},
              payment \in {"none", "verifies", "fails"},
              settlement \in {"ok", "refused", "lost", "failed"},
              route \in {"GET /healthz", "GET /", "POST /appraise", "POST /other"}, now \in -1 .. 0 :
           sample = [kind |-> "serve", now |-> now, env |-> [env EXCEPT !.price = price],
                     req |-> [route |-> route, declared |-> declared, body |-> body,
                              payment |-> payment, settlement |-> settlement]]
        \/ \E secret, payTo \in {"valid", "other"}, network \in {None, "testnet", "pubnet", "other"},
              passphrase \in {None, "testnet", "pubnet"}, asset \in {None, "valid", "other"},
              port \in {None, 0, 80}, rpc \in {None, "http", "ftp", "credentials"} :
           sample = [kind |-> "serve", now |-> 0,
                     env |-> [secret |-> secret, payTo |-> payTo, network |-> network, asset |-> asset,
                              passphrase |-> passphrase, price |-> 4, port |-> port, rpc |-> rpc],
                     req |-> [route |-> "POST /appraise", declared |-> None, payment |-> "verifies",
                              body |-> [text |-> TRUE, len |-> 2, parses |-> "object", credentials |-> FALSE,
                                        fields |-> "valid"], settlement |-> "ok"]]

\* Challenges of up to two offers against a quote, limits, or neither.
PaidSample ==
    LET Amounts == [text : {"digits", "decimal"}, n : 0 .. 2]
        Offers == [asset : {"", "A", "B"}, payTo : {"G"}, amount : Amounts, network : {"stellar"},
                   expiresAt : {None, 1, 3}, extra : {None, 1}, timeout : {None, 0, 1}]
                  \cup [asset : {"A"}, payTo : {"", "H"}, amount : Amounts, network : {"other"},
                        expiresAt : {3}, extra : {None}, timeout : {None}]
        second == [asset |-> "B", payTo |-> "H", amount |-> [text |-> "digits", n |-> 2],
                   network |-> "stellar", expiresAt |-> 3, extra |-> None, timeout |-> None]
        Limits == {None} \cup [asset : {None, "A"}, destination : {None, "G"}, max : 1 .. 2,
                               expiresAt : {None, 1}, now : {0, 2}]
        quote == [asset |-> "A", destination |-> "G", amount |-> 1, expiresAt |-> 2]
        good == [text |-> TRUE, len |-> 1, parses |-> "object", credentials |-> FALSE, fields |-> "valid"]
    IN  \/ \E offer \in Offers, more \in BOOLEAN, limits \in Limits, given \in BOOLEAN, now \in 0 .. 2 :
           sample = [kind |-> "paid", now |-> now,
                     call |-> [accepts |-> IF more THEN <<offer, second>> ELSE <<offer>>,
                               limits |-> limits, quote |-> IF given THEN quote ELSE None,
                               body |-> good, rpc |-> "plain", first |-> 402, second |-> 200,
                               json |-> TRUE]]
        \/ \E body \in Bodies, accepts \in {None, <<>>, <<[second EXCEPT !.asset = "A", !.payTo = "G",
                                                          !.amount.n = 1]>>},
              limits \in Limits, rpc \in {"plain", "credentials"}, first \in {200, 402, 500},
              then \in {200, 402}, json \in BOOLEAN :
           sample = [kind |-> "paid", now |-> 0,
                     call |-> [accepts |-> accepts, limits |-> limits, quote |-> quote, body |-> body,
                               rpc |-> rpc, first |-> first, second |-> then, json |-> json]]

\* Mandates around their caps, clocks and rounds around the deadlines.
BidSample ==
    LET base == [version |-> 1, signed |-> FALSE, sessionKey |-> "S", roundId |-> 1, item |-> "lot",
                 maxBid |-> 2, maxEscrow |-> 2, maxSpend |-> 2, price |-> 1, asset |-> None,
                 payTo |-> None, commitDeadline |-> 3, issuedAt |-> 0, expiresAt |-> 0]
        open == [status |-> "Open", commitDeadline |-> 3, revealRound |-> 9, auditor |-> "key"]
        config == [session |-> "S", mandate |-> CreateSessionMandate(base, 0, 4), revealRound |-> 9,
                   auditor |-> "key", asset |-> None, payTo |-> None, bodyLen |-> 1,
                   credentials |-> FALSE]
        offer == [asset |-> "A", payTo |-> "G", amount |-> [text |-> "digits", n |-> 1],
                  network |-> "stellar", expiresAt |-> 9, extra |-> None, timeout |-> None]
        quote == [asset |-> "A", destination |-> "G", amount |-> 1, expiresAt |-> 3]
        Good == [kind |-> "bid", config |-> config,
                 world |-> [clock |-> <<1, 1, 1, 1, 1>>, rounds |-> <<open, open, open>>,
                            injected |-> TRUE, charged |-> TRUE, accepts |-> <<offer>>,
                            first |-> 402, suggested |-> 2, item |-> "lot", quote |-> quote,
                            commit |-> "ok"]]
        Clocks == {c \in [1 .. 5 -> 0 .. 5] : \A i \in 1 .. 4 : c[i] <= c[i + 1]}
    IN  \/ \E clock \in Clocks, ttl \in 2 .. 4, deadline \in 2 .. 4, last \in {"Open", "Revealing"},
              commit \in {"ok", "failed"} :
           /\ CreateSessionMandate(base, 0, ttl) # None
           /\ sample = [Good EXCEPT !.config.mandate = CreateSessionMandate(base, 0, ttl),
                  !.world.clock = clock, !.world.commit = commit,
                  !.world.rounds = <<open, [open EXCEPT !.commitDeadline = deadline],
                                     [open EXCEPT !.commitDeadline = deadline, !.status = last]>>]
        \/ \E bid, escrow, price, spend \in 0 .. 3, suggested \in 0 .. 4, round \in 0 .. 1,
              cost \in 0 .. 3 :
           LET m == CreateSessionMandate([base EXCEPT !.maxBid = bid, !.maxEscrow = escrow,
                        !.maxSpend = spend, !.price = price, !.roundId = round], 0, 4)
           IN  /\ m # None
               /\ sample = [Good EXCEPT !.config.mandate = m, !.world.suggested = suggested,
                                !.world.quote.amount = cost]
        \/ \E session \in {"S", "other"}, signed, injected, charged, credentials \in BOOLEAN,
              reveal \in 8 .. 9, auditor \in {"key", "other"}, item \in {"lot", "other"},
              first \in {200, 402, 500}, len \in 0 .. 3 :
           sample = [Good EXCEPT !.config.session = session, !.config.mandate.signed = signed,
                        !.config.revealRound = reveal, !.config.bodyLen = len,
                        !.config.credentials = credentials, !.world.injected = injected,
                        !.world.charged = charged, !.world.rounds[1].auditor = auditor,
                        !.world.item = item, !.world.first = first]
        \/ \E own, set, asked \in {None, "A", "B"}, ownTo, setTo \in {None, "G", "H"},
              to \in {"", "G"}, expiresAt \in {-1, 0, 2}, given \in BOOLEAN :
           sample = [Good EXCEPT !.config.mandate.asset = own, !.config.asset = set,
                        !.config.mandate.payTo = ownTo, !.config.payTo = setTo,
                        !.world.quote = IF ~given THEN None
                            ELSE [quote EXCEPT !.asset = IF asked = None THEN "" ELSE asked,
                                      !.destination = to, !.expiresAt = expiresAt]]

\* Every check that can fail, then every end of a submission around the deadline.
SubmitSample ==
    LET config == [rpc |-> "https", allowHttp |-> FALSE, confirmTimeout |-> 10, pollInterval |-> 3,
                   contractId |-> "own", source |-> "secret", relayed |-> TRUE, asset |-> None,
                   session |-> None]
        params == [op |-> "commit", account |-> None, sealed |-> TRUE, sealRound |-> TRUE,
                   roundId |-> 1]
        world == [validated |-> FALSE, network |-> "own", deployed |-> TRUE,
                  simulated |-> "accepted", relay |-> "accepts", lands |-> 0, late |-> 0,
                  rpcFails |-> None, status |-> "SUCCESS", value |-> TRUE]
        Sessions == {None} \cup [network : {"own", "other"}, contractId : {"recased", "other"},
                                account : {None, "G", "H"}]
    IN  \/ \E op \in {"create_round", "commit", "settle"}, source \in {None, "public", "secret"},
              account \in {None, "G"}, session \in Sessions, relayed, sealed, round \in BOOLEAN,
              id \in 0 .. 1, net \in {"own", "other", "unreachable"}, validated \in BOOLEAN,
              simulated \in {"accepted", "rejected", "transport", "restore"} :
           /\ id = 0 /\ op # "create_round" => simulated # "accepted"
           /\ sample = [kind |-> "submit",
                 config |-> [config EXCEPT !.source = source, !.session = session,
                               !.relayed = relayed],
                 params |-> [params EXCEPT !.op = op, !.account = account, !.sealed = sealed,
                               !.sealRound = round, !.roundId = id],
                 world |-> [world EXCEPT !.network = net, !.validated = validated,
                              !.simulated = simulated]]
        \/ \E timeout \in 9 .. 12, interval \in {0, 1, 4, 13}, late \in 0 .. 1, relayed, value \in BOOLEAN,
              relay \in {"accepts", "forwards", "refuses"}, lands \in {None} \cup 0 .. 13,
              fails \in {None, 0, 5, 8}, status \in {"SUCCESS", "FAILED"} :
           /\ relay = "refuses" => lands = None
           /\ sample = [kind |-> "submit", params |-> params,
                 config |-> [config EXCEPT !.confirmTimeout = timeout, !.pollInterval = interval,
                               !.relayed = relayed],
                 world |-> [world EXCEPT !.relay = relay, !.lands = lands, !.late = late,
                              !.rpcFails = fails, !.status = status, !.value = value]]
        \/ \E rpc \in {"https", "http", "ftp", "credentials", ""}, allowHttp, deployed \in BOOLEAN,
              id \in {"own", "recased", "malformed"},
              asset \in {None} \cup [type : {"native", "sac"}, contractId : {None, "C"},
                                     decimals : {None, 7}] :
           sample = [kind |-> "submit", params |-> params,
                 config |-> [config EXCEPT !.rpc = rpc, !.allowHttp = allowHttp,
                               !.contractId = id, !.asset = asset],
                 world |-> [world EXCEPT !.deployed = deployed]]

Init == \/ SealSample
        \/ SubmitSample
        \/ BidSample
        \/ ValueSample
        \/ ServeSample
        \/ PaidSample
        \/ ReadinessSample
        \/ ReceiptSample
        \/ ConservationSample
        \/ BeaconSample
        \/ PayloadSample
        \/ AuditorSample
        \/ GuardSample
        \/ CursorSample
        \/ StatusSample

Next == Keep

Spec == Init /\ [][Next]_sample
=============================================================================
