------------------------------ MODULE Appraisal ------------------------------
(***************************************************************************)
(* The paid appraisal: the valuation and the checks of a request            *)
(* (services/appraisal-api/src/appraisal.ts, body-limit.ts), the server     *)
(* behind x402 (server.ts, config.ts) and the client that pays (client.ts). *)
(*                                                                         *)
(* A body is its length, what it parses to, whether a key looks like a      *)
(* credential, and whether its fields are in their ranges; the client hands *)
(* one over as text or not.  An offer of a challenge may name two ends, its *)
(* own (expiresAt) and one in its extra field.  An amount is a number with   *)
(* the form of its text.  Sample kinds "value", "serve" and "paid".         *)
(***************************************************************************)
EXTENDS Sample, Sequences, FiniteSets

CONSTANTS MAX_APPRAISAL_BODY_BYTES,       \* 8192
          APPRAISAL_QUOTE_TTL_SECONDS,    \* 60
          StroopsPerToken                 \* 1e7

ASSUME AppraisalAssumption ==
    /\ MAX_APPRAISAL_BODY_BYTES \in Nat \ {0} /\ StroopsPerToken \in Nat \ {0}
    /\ APPRAISAL_QUOTE_TTL_SECONDS \in Nat \ {0}
-----------------------------------------------------------------------------
(***************************************************************************)
(* The valuation in cents, attributes in tens or absent; a binary fraction  *)
(* that falls on a tie is taken as its decimal.                             *)
(***************************************************************************)
CATEGORY_MULTIPLIERS ==             \* in twentieths
    [grant |-> 20, rfp |-> 21, bounty |-> 19, spectrum |-> 25, procurement |-> 22,
     collectible |-> 28, none |-> 20]

Rounded(n, d) == (2 * n + d) \div (2 * d)

Appraise(req) ==
    LET At(key) == IF req[key] = None THEN 5 ELSE req[key]
        scaled == req.base * (5 + At("quality")) * (30 + 4 * At("demand"))
                           * (35 + 3 * At("scarcity")) * (25 - At("risk"))
        fair == Rounded(scaled * CATEGORY_MULTIPLIERS[req.category], 12500000)
        provided == {key \in {"quality", "demand", "scarcity", "risk"} : req[key] # None}
        confidence == <<50, 63, 75, 88, 100>>[Cardinality(provided) + 1]
    IN  [fair |-> fair,
         low  |-> Rounded(fair * (100 + confidence), 200),
         high |-> Rounded(fair * (300 - confidence), 200),
         bid  |-> Rounded(fair * (8000 + 15 * confidence), 10000)]
-----------------------------------------------------------------------------
(***************************************************************************)
(* The checks of a body, and the server.                                   *)
(***************************************************************************)
\* What a client refuses to pay for; the scan sees only what parses.
AssertAppraisalBodyBytes(body) ==
    IF body.len = 0 \/ body.parses = "blank" THEN "QUOTE_BODY_EMPTY"
    ELSE IF body.len > MAX_APPRAISAL_BODY_BYTES THEN "QUOTE_BODY_OVERSIZED"
    ELSE IF body.parses = "object" /\ body.credentials THEN "QUOTE_BODY_CREDENTIALS"
    ELSE "allowed"

\* A declared length over the limit, or a chunk that crosses it.
ReadCappedBody(req) ==
    /\ req.declared = None \/ req.declared \in 0 .. MAX_APPRAISAL_BODY_BYTES
    /\ req.body.len <= MAX_APPRAISAL_BODY_BYTES

ParseAppraisalRequest(body) ==
    body.parses = "object" /\ ~body.credentials /\ body.fields = "valid"

\* No quote for a price that rounds to no stroop.
BuildAppraisalQuote(config, now) ==
    IF now < 0 \/ config.price <= 0 THEN None
    ELSE [asset |-> config.asset, amount |-> config.price, destination |-> config.payTo,
          expiresAt |-> now + APPRAISAL_QUOTE_TTL_SECONDS]

\* The x402 resource server: an offer until a payment verifies.
ProcessHTTPRequest(req) ==
    IF req.route # "POST /appraise" THEN "no-payment-required"
    ELSE IF req.payment = "verifies" THEN "payment-verified" ELSE "payment-error"

Respond(status, settled) == [status |-> status, settled |-> settled]

\* Seeded fault: the payment is settled before the request is read.
Serve_SettleFirst(config, req, now) ==
    IF ProcessHTTPRequest(req) # "payment-verified" THEN Respond(402, FALSE)
    ELSE Respond(IF ParseAppraisalRequest(req.body) /\ req.settlement = "ok" THEN 200 ELSE 400,
                 req.settlement # "refused")

\* The handler: size, JSON, an empty body, payment, and only then the request;
\* an error of the settlement that was not an answer is a 500.
Serve(config, req, now) ==
    IF req.route \in {"GET /healthz", "GET /"} THEN Respond(200, FALSE)
    ELSE IF ~ReadCappedBody(req) THEN Respond(413, FALSE)
    ELSE IF req.body.len > 0 /\ req.body.parses \in {"broken", "blank"} THEN Respond(400, FALSE)
    ELSE IF req.body.len = 0 /\ req.route = "POST /appraise" THEN Respond(400, FALSE)
    ELSE IF ProcessHTTPRequest(req) = "no-payment-required" THEN Respond(404, FALSE)
    ELSE IF ProcessHTTPRequest(req) = "payment-error" THEN Respond(402, FALSE)
    ELSE IF ~ParseAppraisalRequest(req.body) \/ BuildAppraisalQuote(config, now) = None
    THEN Respond(400, FALSE)
    ELSE CASE req.settlement = "ok"      -> Respond(200, TRUE)
           [] req.settlement = "refused" -> Respond(402, FALSE)
           [] req.settlement = "lost"    -> Respond(500, TRUE)
           [] OTHER                      -> Respond(500, FALSE)

\* The configuration: every value valid, a URL without credentials, the price
\* in quarters of a stroop; None when the server does not start.
ConfigFromEnv(env) ==
    IF /\ env.secret = "valid" /\ env.payTo = "valid"
       /\ env.network \in {None, "testnet", "pubnet"}
       /\ env.passphrase \in {None, IF env.network = None THEN "testnet" ELSE env.network}
       /\ env.asset \in {None, "valid"}
       /\ env.price = None \/ env.price > 0
       /\ env.port = None \/ env.port \in 1 .. 65535
       /\ IF env.rpc = None THEN env.network # "pubnet" ELSE env.rpc \in {"http", "https"}
    THEN [asset |-> IF env.asset = None THEN "USDC" ELSE "asset", payTo |-> "payTo",
          price |-> IF env.price = None THEN 1 ELSE Rounded(env.price, 4)]
    ELSE None
-----------------------------------------------------------------------------
(***************************************************************************)
(* The paying client.  accepts is the list of offers of a 402.             *)
(***************************************************************************)
NormalizeQuoteAmount(amount) == IF amount.text = "digits" THEN amount.n ELSE None

\* Read as tokens, whole ones when there is no point in the text.
PaymentRequiredAmountToStroops(amount) ==
    IF amount.text = "digits" THEN amount.n * StroopsPerToken ELSE amount.n

\* The quote of this call, against the first offer.
AssertChallengeMatchesQuote(accepts, expected, now) ==
    /\ accepts # <<>>
    /\ expected.expiresAt > now
    /\ LET entry == accepts[1]
       IN  /\ entry.expiresAt # None /\ entry.expiresAt > now
           /\ entry.asset = expected.asset
           /\ NormalizeQuoteAmount(entry.amount) = expected.amount
           /\ entry.payTo = expected.destination

\* The caller's limits, against the first offer; now is when they were set.
AssertPaymentQuoteAllowed(accepts, limits) ==
    /\ accepts # <<>>
    /\ LET entry == accepts[1]
           stroops == PaymentRequiredAmountToStroops(entry.amount)
       IN  /\ entry.asset # "" /\ entry.payTo # ""
           /\ limits.asset \in {None, entry.asset}
           /\ limits.destination \in {None, entry.payTo}
           /\ 0 < stroops /\ stroops <= limits.max
           /\ limits.expiresAt = None \/ limits.now <= limits.expiresAt
           /\ entry.timeout # None =>
                entry.timeout > 0 /\ (entry.extra # None => limits.now <= entry.extra)

\* The x402 client pays the first offer it has a scheme for.
PaidOffer(accepts) ==
    LET can == {i \in DOMAIN accepts : accepts[i].network = "stellar"}
    IN  IF can = {} THEN None ELSE accepts[CHOOSE i \in can : \A j \in can : i <= j]

\* An empty body, or one that is no text, is refused where a payment needs one;
\* where it does not, one that is no text is not looked at.
AssertPaidRequestBodyAllowed(body, requireBody) ==
    LET code == IF body.text THEN AssertAppraisalBodyBytes(body) ELSE "QUOTE_BODY_EMPTY"
    IN  code = "allowed" \/ (code = "QUOTE_BODY_EMPTY" /\ ~requireBody)

\* Seeded fault: a call without a quote pays what is asked.
MayPay_Unquoted(call, now) ==
    \/ call.quote = None
    \/ AssertChallengeMatchesQuote(call.accepts, call.quote, now)

\* Between the 402 and the signature.
MayPay(call, now) ==
    /\ call.accepts # None
    /\ call.quote # None /\ AssertChallengeMatchesQuote(call.accepts, call.quote, now)
    /\ call.limits # None => AssertPaymentQuoteAllowed(call.accepts, call.limits)
    /\ AssertPaidRequestBodyAllowed(call.body, call.limits # None)

\* At most two requests, the second with the payment; answers hold the status.
PaidFetch(call, now) ==
    IF ~AssertPaidRequestBodyAllowed(call.body, FALSE) \/ call.rpc = "credentials"
    THEN [result |-> "refused", sent |-> 0, paid |-> None]
    ELSE IF call.first # 402
    THEN [result |-> IF call.json THEN "answer" ELSE "refused", sent |-> 1, paid |-> None]
    ELSE IF ~MayPay(call, now) \/ PaidOffer(call.accepts) = None
    THEN [result |-> "refused", sent |-> 1, paid |-> None]
    ELSE [result |-> IF call.json /\ call.second = 200 THEN "answer" ELSE "refused",
          sent |-> 2, paid |-> PaidOffer(call.accepts)]
-----------------------------------------------------------------------------
\* "only settle on a valid request so a malformed body never costs the caller"
\* (server.ts:234-236): a payment is captured only for a request that is
\* valid, one that is answered 200 was captured, and the only other end is a
\* settlement whose answer was lost.  The valuation that is sold suggests no
\* bid above the value, which lies in its band.
ChargedOnlyForAppraisals ==
    /\ sample.kind = "value" =>
         LET value == Appraise(sample.req)
         IN  value.bid <= value.fair /\ value.fair \in value.low .. value.high
    /\ sample.kind = "serve" /\ ConfigFromEnv(sample.env) # None =>
         LET config == ConfigFromEnv(sample.env)
             answer == Serve(config, sample.req, sample.now)
         IN  /\ answer.settled =>
                  /\ ParseAppraisalRequest(sample.req.body)
                  /\ BuildAppraisalQuote(config, sample.now) # None
                  /\ answer.status = 200 \/ sample.req.settlement = "lost"
             /\ answer.status = 200 /\ sample.req.route = "POST /appraise" => answer.settled

\* What the client signs is the quote its caller gave, while that still held:
\* the asset, the amount and the destination, before the expiry, within the
\* limits, for a body that may be sent (client.ts:546-560); one call pays once.
\* Text that may not be sent is not sent.
\* The offers are for the client's network: the checks read the first one,
\* and the one that is paid is the first the client can pay.
PaysTheQuoteItChecked ==
    sample.kind = "paid" =>
        LET call == sample.call
            done == PaidFetch(call, sample.now)
        IN  /\ done.paid # None /\ (\A i \in DOMAIN call.accepts : call.accepts[i].network = "stellar") =>
                 /\ call.quote # None
                 /\ <<done.paid.asset, done.paid.payTo>> = <<call.quote.asset, call.quote.destination>>
                 /\ done.paid.amount = [text |-> "digits", n |-> call.quote.amount]
                 /\ sample.now < call.quote.expiresAt /\ sample.now < done.paid.expiresAt
                 /\ call.limits # None =>
                      /\ PaymentRequiredAmountToStroops(done.paid.amount) <= call.limits.max
                      /\ call.body.text /\ AssertAppraisalBodyBytes(call.body) = "allowed"
            /\ /\ call.body.text
               /\ AssertAppraisalBodyBytes(call.body) \in {"QUOTE_BODY_OVERSIZED", "QUOTE_BODY_CREDENTIALS"}
               => done.sent = 0
            /\ done.sent = 2 <=> done.paid # None
=============================================================================
