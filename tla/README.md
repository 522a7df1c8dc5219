# Sub Rosa: formal models

Sub Rosa runs sealed-bid rounds on Stellar: bidders escrow tokens and commit
timelock-encrypted bids, Drand's beacon makes the bids decryptable at a known
time, anybody reveals them, and a Soroban contract picks the winner, pays the
operator and refunds the rest. A keeper service drives rounds forward, a bidder
agent buys an appraisal over x402 and bids within a signed mandate, an SDK and a
web page let people do the same.

This directory holds TLA+ models of that system, the TLC configurations that
check them on small instances and TLAPS proofs for every instance.

    tlc -config RoundSingle.cfg MCRoundContract.tla
    tlapm RoundContractProofs.tla

The models are of two sorts. Where several actors interleave (the contract,
storage lifetimes, keepers, watchers with one store file, the web page) a module
is a state machine. Where the code decides from one input (guards, checks,
encodings, receipts, gates) a module is a set of operators translated from the
functions, and a property relates several of them, or relates them to what the
contract does, on every input of a small set.

## 1. Inventory

| Component | State | Operations | Interacts with | Module |
|---|---|---|---|---|
| Round contract `contracts/round/src/lib.rs`, `types.rs` | round records, ordered bidder index, bid states, escrow ledger per round | create_round, commit, open_reveal, reveal, clear, settle, void, views | token contract (transfers), Drand signatures, ledger clock | `RoundContract` |
| Storage `storage.rs` | TTL of instance, persistent and temporary entries | every read and write, `extend_ttl` | Soroban host | `StorageTtl` |
| Drand binding `drand.rs` | none | round to time, verification, seal binding | create_round, open_reveal, commit | `RoundContract` |
| Keeper passes `services/keeper/src/keeper.ts` | none of its own; reads the round, the checkpoint and the guard | keepRound, closeRound, voidIfStale, watchRound | contract through the SDK, Drand API | `Keeper` |
| Watch loop `watch-loop.ts` | queue, guard, shutdown flag | resumeCheckpoint, runWatchLoop | all keeper parts | `WatchLoop`, `Keeper` |
| Checkpoint `checkpoint.ts` | per-round cursor file with transaction hashes | markComplete, verifyHashes, reconcile | RPC, watch loop | `Checkpoint`, `Keeper` |
| Store and leases `store.ts` | JSON file of rounds and leases | addRound, updateRound, claimRound, releaseLease | other keeper processes, queue CLI | `WatchLoop` |
| Queue `queue.ts` | queued and in-flight ids | enqueue, claim, complete, release, syncWithStore | store | `WatchLoop` |
| Settlement guard `settlement-guard.ts` | pending, submitted or terminal per round | checkSettle, checkVoid, mark* | keeper passes | `SettlementGuard` |
| Dry run and status API `dry-run.ts`, `status*.ts` | none | summary, proposed cursor, routes | cursor file, RPC, SDK status client | `KeeperStatus` |
| SDK client `packages/sdk/src/client.ts` | transaction in flight | one method per entry point, preflights, bidder walk, receipt export | RPC, relayer | `Client`, `Conservation`, `Receipt` |
| SDK conservation and receipts `conservation.ts`, `verify.ts`, `receipt*.ts`, `redact.ts` | none | off-chain proof of a round's books; export, verify, redact | contract views, receipt CLI | `Conservation`, `Receipt` |
| SDK mainnet readiness `mainnet-*.ts` and the scripts on it | manifest and fixture files | readiness report, gates before a transaction | RPC, environment | `Readiness` |
| Timelock sealing `packages/tlock/src`, `encrypted-blob.ts` | none | seal, open, window, payload, auditor blob, beacon rules | keeper, agent, web, SDK | `Seal` |
| Appraisal API and paid fetch `services/appraisal-api/src` | quotes, payments | 402 challenge, charge, paid retry | bidder agent, x402 facilitator | `Appraisal` |
| Bidder agent `services/agent/src` | mandate caps, what was spent | runBidderAgent, mandate checks | appraisal API, SDK | `Bidder` |
| Web page `apps/web/src/hooks`, `pages/DemoPage.tsx` | session, live round, observer | connect, create, join, commit, reveal, refresh, poll | SDK, wallet | `WebSession` |
| Receipt CLI `services/receipt-cli/src` | none | verify, redact | SDK receipts | `Receipt` |
| Event lifecycle `packages/round-bindings/src` | none | order of phases | receipts | `Receipt` |
| Time, logging, generated bindings, Drand vectors, template, repository scripts | none | formatting, generation, test clocks, CI checks | | not modelled |

What makes each of them correct, and what is hard about it:

* **Contract.** Conservation of escrow for each round and over all rounds; each
  account paid exactly once; the best sealed bid wins; bids frozen before they
  can be read; every round ends. Hard: overwrites that refund and re-lock, ties,
  off-by-one at four deadlines, permissionless calls racing each other, all
  rounds in one token balance.
* **Storage.** A seal must outlive the wait for Drand and the reveal window.
  Hard: TTLs count ledgers, deadlines count seconds; extensions are conditional.
* **Keeper.** Every opened round is revealed, cleared and settled although
  several keepers run, reads are stale, confirmations are lost and processes
  crash. Hard: the cursor, the guard, the queue and the store each remember
  something about the chain that may no longer be true.
* **Store, queue and leases.** Nothing locks the file: two processes read,
  change and write all of it. A round must be ticked until it is over whatever
  overlaps, fails or restarts.
* **SDK.** A timeout is not a failure: the transaction may still land. What a
  caller is told must say what became of the call.
* **Sealing and receipts.** What passes the gate is on chain for good; what a
  receipt claims is believed offline.
* **Agent, appraisal, mainnet scripts.** Never pay, spend, bid or broadcast
  beyond what was checked, although prices, clocks and rounds change between
  checks; a payment without an answer is still a payment.
* **Web page.** Handlers, refreshes and polls overlap; what is shown is the
  session's round and never older than what was shown before.

Reading the source at this commit. Several files use names they neither import
nor define: `types.rs` lacks four error variants that `lib.rs` and `drand.rs`
use, `storage::bidders_page` does not exist, `keeper.ts` and `watch-loop.ts`
use exports of other modules without importing them and the loop also `owner`,
`claim` and `shouldStop`, `seal.ts:67` calls `assertSealRoundWindow` on a
`revealRound` it does not destructure, `client.ts` throws a
`SubRosaPaginationError` it does not import, `mainnet-micro.ts` calls
`assertMainnetConfirmed` without importing it, a template literal in
`bidder.ts` (near line 171) is not closed. The models read such a name as the
export of the module that declares it, or the way the tests inject it, and
leave out what cannot be resolved (`get_bidders_page`).

## 2. Modules

| Module | Models | Role |
|---|---|---|
| `Sums` | - | sums over an index set and over a sequence, by recursive functions |
| `RoundContract` | lib.rs, types.rs, drand.rs | the contract, its token balances, clock and beacon |
| `SealedAuction` | what lib.rs promises | the abstract specification of a round |
| `RoundRefinement` | types.rs | the refinement mapping from `RoundContract` to `SealedAuction` |
| `MCRoundContract` | - | instances for TLC |
| `SumsProofs` | - | lemmas on sums |
| `RoundContractProofs` | - | the inductive invariant and the theorems on states |
| `RoundOutcomeProofs` | - | theorems on steps, payouts that are never refused, every account's books, and that `RoundContract` implements `SealedAuction` |
| `StorageTtl`, `MCStorageTtl` | storage.rs and its callers | lifetimes of seals and of the instance entry |
| `StorageTtlProofs` | - | seals outlive the need for them |
| `Keeper`, `MCKeeper` | keeper.ts, checkpoint.ts, resume and retry of watch-loop.ts | keepers driving one round |
| `KeeperProofs` | - | the cursor is honest, a pass reveals all it can |
| `WatchLoop`, `MCWatchLoop` | watch-loop.ts, queue.ts, store.ts | watchers and the queue CLI on one store file |
| `WatchLoopProofs` | - | queues, recorded ends and leases |
| `WebSession`, `MCWebSession` | useRoundSession.ts, useLiveRound.ts, DemoPage.tsx | the live page |
| `WebSessionProofs` | - | what the page shows never goes back |
| `Sample` | - | one input of a rule |
| `SettlementGuard` | settlement-guard.ts | rules: view, decision, plan, entries |
| `Checkpoint` | checkpoint.ts | rules: record, load, verify, reconcile |
| `KeeperStatus` | dry-run.ts, status.ts, status-server.ts, status-client.ts | rules: what a keeper announces |
| `Seal` | packages/tlock, encrypted-blob.ts | rules: seal, gate, open, payload, auditor, beacon |
| `Conservation` | conservation.ts, preflights, the bidder walk | rules: off-chain proof of a payout |
| `Receipt` | export, verify.ts, receipt-events.ts, redact.ts, receipt CLI | rules: receipts |
| `Readiness` | mainnet-*.ts and the four scripts | rules: gates before a broadcast |
| `Appraisal` | appraisal-api | rules: valuation, server, paying client |
| `Bidder` | services/agent | rules: mandate and one run |
| `Client` | client.ts | rules: one state-changing call |
| `MCRules` | - | the inputs of all rules |
| `RuleProofs` | - | every rule, on inputs of any size |

### RoundContract

Each entry point is one action: the host runs a call atomically and rolls back
one that errs or traps, so an error return is a guard that is false. The
transfers, the ledger update, the bid states and the status all change in that
one step. Variables follow storage: `status`, `bidders`, `winner`,
`winning_bid` and `terms` are the fields of `Round`, `bid` is
`State(round, bidder)`, `ledger` is `Escrow(round)`, `counter` is
`RoundCounter`; `balance` and `held` are the token's balances of the accounts
and of the contract. `ensure_ledger` seeds a missing ledger from the index, as
the code does.

Abstractions: a commitment is the value it opens to (`None` when nobody can open
it), which assumes SHA-256 is collision free; a Drand signature verifies exactly
when the round has been published, which assumes BLS is unforgeable. Ciphertexts,
auditor blobs, item references, size limits and events are left out. i128
amounts do not overflow: they are bounded by the token's supply. The u64
additions that can leave their range (Drand time, void grace) are guarded by
`U64_MAX`. The token is external and always able to pay an account; a frozen
trustline would revert a whole settle, and is listed as a hazard without a
property.

Environment: `Tick` advances the ledger clock by one, `Publish` publishes a Drand
round at or after its time, or never.

### SealedAuction and RoundRefinement

`SealedAuction` is what a participant may rely on, in eight actions and no
bookkeeping: offers are sealed until their key is public and frozen afterwards,
an award goes to a best standing offer (or to nobody when none stands), and
settling or cancelling returns every locked token except the price. It has no
ledger, index, deadlines, held balance or settled flags; ties may be broken any
way. `RoundRefinement` maps the contract to it: the key of a round is public once
its Drand round is published, an offer is the commitment and escrow of a bid, an
offer is shown when its value is revealed. `clear` is Award or Cancel, `void` is
Cancel, ledger closes are invisible.

### StorageTtl

One round and its seals, with both of the host's clocks: `seq` counts ledgers,
`now` seconds, and each `CloseLedger` takes as long as `Pace` allows. An entry
is the last ledger in which it is live. The cast to u32 in `seal_ttl` wraps before
the cap applies, at `U32_RANGE`. The host is external: `extend_ttl` acts
only when an entry has no more than `threshold` ledgers to live, writing a live
entry leaves its TTL alone, an expired Temporary entry is gone. `EndRound`
stands for clear and void, after which no seal is needed. The variables
`bid_at`, `open_at` and `kept` are history, read by properties only.

### Keeper

One round whose bids are committed, and any number of keepers, each with its own
checkpoint file. `pc` is the place in `watchRound`; every `await` of the code is
a place of its own, so the other keepers, the ledger and the clock move between
a read and the call that follows from it. A call is sent when `pc` enters
`Waiting`, lands at any later time (`Land`) and is answered after that. `pos`
and `skipped` are the loop over the bidders in `keepRound`, `mem` and `disk` the
steps of the cursor in memory and in the file.

The contract is reduced to what its callers see: the status, the revealed
bidders, and for each call the error in the order in which `lib.rs` checks. It
is the round of `RoundContract` after its commit deadline; money is left out.
The kinds of seals are what `openBid` and `reveal` make of them: good, zero,
absent, not decryptable, not the committed value, above escrow.

Faults, at most `MaxFaults` of any kind: the confirmation of a call is lost (the
call may still land, from `pool`), a read fails, a bid's state or its decryption
fails, a save fails and leaves the old or an unreadable file, a process crashes.
Not counted as faults: replicas that lag behind in status reads, clocks that
are ahead, Drand or its API refusing the signature.

Abstractions: calls and bid states are judged by the current ledger, not by a
replica; `CommitNotClosed` cannot occur, the commit window being over; the
settlement guard is absent, as it is in production, where the watch loop builds
`deps` without one (`watch-loop.ts:151`) - its branches are in `SettlementGuard`;
queue and leases are in `WatchLoop`, so here a failed tick is simply polled
again; no step has a transaction hash, as no caller of `recordStep` passes one -
what becomes of hashes is in `Checkpoint`.

### WatchLoop

Any number of watchers and queue CLIs that share one store file. `mem` is each
process's copy (`KeeperStore.data`), `queue` and `inFlight` are the sets of
`KeeperQueue`, `pc`, `todo` and `batch` the place in `runWatchLoop`. A store call
reloads the file, changes its copy and writes all of it back. With
`setup.overlap` the reload is a step of its own (`Reload`), so that another
process writes in between and what it wrote is lost; without it a call is one
step. A crash loses queue, flight and memory; a restart reads the file. A tick
is one step of `watchRound`: it reports a status, moves the chain or fails,
definitively or not; `Keeper` models its inside. A `Poison` round fails every
time. `Advance` moves a round on chain without a watcher: anybody may.

What goes wrong is bounded by `setup.faults` (crashes, failed ticks, failed
discoveries and, with `setup.saves`, failed saves), time by `setup.time`, the
CLI by `setup.calls`. `removed` is history.

The loop at this commit uses names it does not define or import (`queue`,
`owner`, `claim`, `shouldStop`); they are modelled as its tests inject them. The
loop releases leases and never claims one (`store.ts:26-28` says a watcher
holds one); claims and releases come from the CLI, in its own name or in that of
a watcher (`KEEPER_OWNER`, `queue.ts:170` and `:238`).

### WebSession

The live page of one tab. A handler (join, create, connect, commit, reveal) or a
refresh in flight is a record in `ops`, with the wallet and the round of the
render it was clicked in; each `await` is a step, and rounds, wallet, network and
the other handlers move in between. A refresh reads the bidders and then the state of
one bidder after the other, carries the generation and the
request number it started with and is dropped when either is no longer current.
`watch` is `useLiveRound`: effects, polls that may overlap when the options
change, and the sequence number that lets only the newest answer through. The
contract is external and reduced to what a snapshot shows. `Offered` is the
button the guide enables. Wording and feedback are left out. Reads are answered by
the chain as it is when they are answered: an RPC replica that lags behind another
one is not modelled, and with two of them a later read may show an older round.

### The rules: Sample and MCRules

Code that decides from one input needs no interleaving but many inputs. `Sample`
has one variable, the input; the initial states are all inputs, `Next` keeps it,
and a property quantifies over nothing: it holds of each sample of its kind.
`MCRules` enumerates 1,304,756 of them. Samples are states the program can be in, or
such a state with one or two things wrong, so that each refusal is reached alone.
Where a rule has time inside it (a transaction that lands late, a clock that
moves between an agent's checks, a history of recorded steps), the sample holds
the whole history.

* `SettlementGuard`: reading a round page by page with bids that cannot be read;
  the decisions and predicted payouts of `checkSettle` and `checkVoid`; pending,
  submitted and terminal entries and the reset on retry. `ContractPays` and
  `ContractAccepts` are the contract's rule for the same round.
* `Checkpoint`: histories of recorded steps with and without hash, files of this
  deployment, of another or unreadable, what an RPC says of each hash, a status that
  can or cannot be read, and whether the keeper starts at all (`Restart`).
* `KeeperStatus`: the dry run's predicted step and proposed cursor, the status of
  one and all rounds (a second round of any status beside the first), the routes
  with their error answers, a 500 where Drand's information cannot be read included,
  and the SDK client that judges readiness, whatever answer reaches it.
* `Seal`: bids and payloads in and out of a ciphertext that opens with its
  round's beacon only; the gate before commit, with a binding and without one, as
  the client's `commit`, the agent and the micro runner call it; ciphertexts whose
  body was exchanged or corrupted, moved to another round or renamed, besides the
  damage a parser sees; auditor blobs bound to a round and a bid; beacons and their
  freshness. A digest is the record it hashes, an i128 has four bits.
* `Conservation`: the report over any pages, the preflights that rest on it (with
  the client's own pages they never get that far, see Observations), and the walk of
  the bidder index with tokens that repeat, end early or disagree.
* `Receipt`: export, verification offline, redaction and the three commands, with
  one change made anywhere in the receipt.
* `Readiness`: flags, environment, files and network answers of the mainnet
  scripts, up to the point of the first signature.
* `Appraisal`: the valuation with its band, the server from body limit to charge,
  the challenge, and the client's checks before and after it signs a payment.
* `Bidder`: the mandate and a run in which the clock is read five times and the
  round three times, each with an answer of its own.
* `Client`: configuration, checks, simulation, relayer or RPC, polls until the
  deadline, and the error that results.

## 3. Runs

| Run | Instance | Shows |
|---|---|---|
| `round_single` | one round, 3 accounts, room for 2 bidders, bids 0-3, escrows -1 to 2, both rules, every refused argument of create_round | all safety properties of a round, and that it implements `SealedAuction` |
| `round_pair` | two overlapping rounds, 2 accounts who operate one each and bid in both, fairness | escrow across rounds; every round ends |
| `seal_ttl` | one bidder, eight pairs of deadlines (two whose TTL wraps the u32), ledgers on time or half as long again (4,725,656 states) | seals stay readable |
| `seal_long_commit` | a commit window longer than the cap | violated: see Findings |
| `keeper_faults` | one keeper with a fast clock, two bidders, three pairs of seals, two faults, fairness | an honest cursor, complete passes, a round that ends |
| `keeper_pair` | two keepers with different clocks, two bidders, one fault | complete passes when keepers race |
| `keeper_over_bid` | a bid above its escrow first in the index | violated: see Findings |
| `watch_shared` | five setups, fairness: one watcher and a poisoned round, two watchers beside each other, two whose calls overlap, one beside the CLI, one with a bad disk (431,774 states) | queues and recorded ends in all of them; leases and every round recorded where calls do not overlap and saves do not fail |
| `watch_bad_disk` | one watcher, saves may fail | violated: see Findings |
| `rules` | the inputs of `MCRules` | the fourteen properties of the rules |
| `receipt_voided` | the same inputs | violated: see Findings |
| `web_session` | two rounds, two wallets, 4 clicks, 2 steps of others, 3 reads (2,572,957 states) | nothing stale is shown |

Properties of the contract and its storage:

* `EscrowBacked`: each ledger is conserved and equals the escrow its unsettled
  indexed bids hold; the contract holds exactly the sum over all rounds.
* `BooksBalance`: an account's tokens are its initial funds, less live escrow,
  less bids won, plus bids received as operator. This is payment exactly once,
  stated without the ledger, so it would catch a ledger that is wrong in the
  same way as the transfers.
* `PayoutNeverRefused`: the checks of settle and refund_all never stop a due
  payout. Conservation checks that fail safe would otherwise lock funds.
* `WinnerIsBest`, `RevealedIsSealed`, `VoidedIsHarmless`: the outcome is right.
* `FrozenOncePublished`, `TerminalIsFinal`: what no step may do.
* `KeepsPromise`: every step is a step of `SealedAuction` or invisible.
* `EveryRoundResolves`: liveness.
* `SealReadable`, `SealKeptOnceOpened`: seals outlive the need for them, as far
  as the 60-day cap allows.

Properties of keepers:

* `CursorHonest`: a step in the cursor, in memory or in the file, holds on chain:
  every bid is revealed, the round is cleared, settled, voided. Skipping it can
  therefore never strand the round.
* `PassRevealsAll`: a pass that no fault and no deadline cuts short leaves every
  good bid revealed or known to be skipped.
* `RoundCompletes`: liveness of the keeper, whatever it remembers.
* `QueueSeparation`: a round is queued or in flight, never both.
* `TerminalIsTrue`: what the store says to be over is over on chain, in that way,
  however late it was written.
* `LeaseExclusive`, `LeaseKept`: one live owner, and only time or a release in the
  owner's name ends it - as long as store calls do not overlap, which nothing in the
  code prevents.
* `RoundsFinish`: liveness; beside a round that always fails, another watcher or the
  CLI, after any crash, every other round is ticked until it is recorded as over,
  unless the CLI removes it or leaves a round of another deployment in the store,
  with which no watcher starts. Stated where store calls do not overlap and saves do
  not fail; it is false otherwise (Findings, Observations).

Properties of rules:

* `GuardMatchesContract`, `FailedWorkIsRetried`: a guard whose clock is not ahead
  submits exactly what the contract accepts and predicts what it pays; a lost
  answer never suppresses the retry.
* `ResumeKeepsProof`: after a restart the cursor holds exactly the steps whose last
  mark has evidence: a hash that is confirmed, that cannot be looked up or that
  nobody verifies, and without a hash a status the step must have led to, or a
  status that cannot be read. A hash that failed or that is unknown takes its step
  with it even where the status proves it; the step is then sent again and refused.
* `StatusTellsTruth`: the step announced is the one the contract would accept, the
  proposed cursor is one a restart keeps, and the client that finds a keeper ready
  has found the one of its own contract and round.
* `SealOpensToTheBid`: exactly which seals pass the gate, with a binding and without
  one; an exchanged or corrupted body passes both. Whatever passed opens with the
  beacon its header names and no other, and what opens and matches the commitment,
  as a reveal must, is the value that was committed. A seal nobody touched passes,
  is accepted by the contract and opens to its bid.
* `PayloadIsCommitted`, `IdentityOnlyToItsBid`: a payload has one encoding; an
  auditor recovers an identity for its own round and bid only.
* `ConservedMeansPaid`: a settle proved off chain by `proveEscrowConservationFromPages`,
  over any source of pages, is accepted and pays as proved. The preflight of the
  client, which never proves any, is not what this says something about.
* `ReceiptTellsOutcome`: a receipt changed in one place verifies only when it
  still tells the reveals and the winner.
* `BroadcastOnlyWhenReady`: nothing is signed for mainnet unless every
  precondition holds.
* `ChargedOnlyForAppraisals`, `PaysTheQuoteItChecked`: money moves only for what was
  checked.
* `AgentKeepsItsMandate`: a commit is sent only while mandate and round allow it at
  the last check, for a bid within every cap. A payment is made only when the
  mandate held at the first check and the round took bids at the second; the mandate
  may run out between them. The cap on spending is that of one run.
* `SubmitTellsFate`: the error of a call says what became of the transaction.

Properties of the page: `LiveFollowsTheRound` and `ObserverFollowsTheRound`: what
replaces a snapshot is of the current round and was not read earlier.

Bounds. `MaxRounds`, `MaxTime` and `MaxCommitted` (the cumulative escrow of a
round, which limits how often a bid is overwritten) bound the contract;
`MaxSeq` bounds the ledgers of `StorageTtl`. Two bidders and a refused third,
two overwrites, two rounds and times past the void grace are enough for every
branch of the code, ties and races included; properties that sum over accounts
or rounds are proved for any number. For `Keeper`, two bidders give a bid that
fails before one that does not and a loop that another keeper overtakes; two
faults are a crash while another fault's call is still on its way; time passes
both deadlines on both clocks. `seal_ttl` scales a day to two ledgers of
two seconds, the cap to six days, keeping the source's relations: buffer of one
day, threshold one day under the bump, floor of two days; a u32 has 32 values. In
`WatchLoop` a setup combines the few dimensions that interact: two rounds and two
faults for one watcher (a crash while the other round waits), two rounds for two
watchers that do not overlap (each takes what the other left), one round and one
fault for two watchers that do (a lost update between any two calls), a lease that
expires once and two calls for the CLI. `MaxClicks` of 4 lets a join, a commit,
a refresh and another join overlap; `MaxWorld` of 2 lets a round move twice
between two reads; three reads of the observer are one shown, one late and one
newer.

Deadlock. Its check is off in the runs of the contract, storage, watchers and
page, because there the system really stops: when time or the clicks have run out
and every round is over nothing remains to be done. The runs of `Keeper` check
it: a keeper never stops polling.

Fairness. In `round_pair`, ledgers keep closing, and clear, settle and void are
retried while they are enabled. All three are permissionless and the keeper's
watch loop tries them on every poll (`keeper.ts`, closeRound and voidIfStale), so
weak fairness is what one live keeper gives. Commit, open_reveal, reveal and
Drand get none. In `keeper_faults`, ledgers close, a replica catches up
in the end, a keeper's next step is taken (its loop runs for ever and catches
the errors of a tick, `watch-loop.ts:229`), a call lands or is given up, and a
keeper that is down is started again by whoever operates it. Lost calls, Drand
and the other parties get none. In `watch_shared`, a watcher's next step is
taken, its restart included, and each round of the setup, which anybody may move, is
moved in the end (what `EveryRoundResolves` shows of the contract). Crashes, faults, the CLI
and time get none.

Each property has a seeded fault (operators named `X_Fault` beside `X`) that the
run detects.

### Findings

* `seal_long_commit`: the TTL is capped at 60 days (`storage.rs:21`) while the
  commit window has no limit, so a seal committed early in a long window is
  deleted before Drand round R. `docs/TECH_DESIGN.md:72` says it is not lost.
* `keeper_over_bid`: the loop of `keepRound` rethrows `BidExceedsEscrow`
  (`keeper.ts:275`), so one bid sealed above its escrow keeps the keeper from
  every bid after it until the window closes. `keeper.ts:5` says it reveals
  every bid without the bidder's cooperation.
* `watch_bad_disk`: a save that fails is only logged (`store.ts:249-251`); the
  round enqueue could not write is queued, `claim` does not find it in the file it
  reads again and leaves it in flight (`queue.ts:71`), where no poll queues it
  again. `queue.ts:20-22` promises reliable persistence.
* `receipt_voided`: `exportReceipt` writes the events of a settled round for
  every round (`client.ts:1063`), so the receipt of a voided one fails the SDK's
  own verification; `docs/RECEIPTS.md:4` and `:27` name it as verifiable.

### Observations

What reading and modelling showed and no run is spent on.

* Storage: only the constructor and `create_round` renew the instance entry;
  `docs/TECH_DESIGN.md:63` says every mutating call does.
* Keeper: of two keepers whose calls cross, the later is told `RoundVoided` or
  `AlreadySettled`, its tick fails and is retried harmlessly (`keeper.ts:14` says
  such states are tolerated). A keeper that dies between sending a settle and
  recording it restarts without it (`checkpoint.ts:7-11`); the contract refuses
  the second.
* Guard: with a clock ahead of the ledger's, `NotVoidable` marks an Open round
  terminal (`keeper.ts:538-540`); `FailedWorkIsRetried` therefore assumes a clock
  that is not.
* Queue and store: a claim of a round the CLI removed starves it; `enqueue` sets
  a settled round back to queued; a second watcher's late `complete` may
  overwrite a terminal status; `watch-loop.ts:231` marks terminal entries
  retryable again; a scope that `enqueue` leaves out erases the recorded one
  (`queue.ts:179-182`, `store.ts:275-279`).
* Overlapping store calls: of two watchers on one file, one may write back a copy
  from before the other's `complete`, again and again, so that a settled or voided
  round is ticked and reopened for ever, with a single round and no fault; with two
  rounds a lost `enqueue` leaves a round in flight that `claim` does not find. TLC
  finds both as counterexamples to `RoundsFinish` without its two premises.
* Status: the health probe asks for round 0, which `ids.ts` refuses, so
  `/healthz` always reports RPC as down (`status.ts:322-323`); two overlapping
  `readiness()` calls may leave the older answer. A cursor file of another version
  stops a live keeper, and the dry run gives no `checkpoint.mismatch` for it
  (`services/keeper/README.md:170` says that it does for any that would block). The
  round's status reads Drand's information outside the `try` (`status.ts:180`), so
  an unreachable Drand makes a 500 of it (`status-server.ts:236-239`).
* Client: `commit` ignores `params.session`, which only `preflightCommit` checks;
  it compares the client's asset configuration with itself; preflights skip the
  seal gate and the id check; a `createRound` repeated after a timeout may create
  two rounds.
* Conservation: `proveEscrowConservation` passes a numeric cursor
  (`client.ts:781-782`) where the page call takes a token and throws
  (`client.ts:899-912`), so with a `SubRosaClient` nothing is ever proved:
  `preflightSettleConservation` always refuses and `preflightVoidConservation`
  throws; the latter would in any case ask for a Revealing round while `void` takes
  Open ones. The guard's `readSettlementView` passes a number too
  (`settlement-guard.ts:443`) and catches the error: with that client it has read
  no bidder of a round and refuses one that has any.
* Receipts: a Cleared receipt relabelled Settled verifies; `winningValue` is never
  checked; an undeclared winner is a warning only; an unrevealed bid with a value
  and no nonce is accepted.
* Sealing: a ciphertext exchanged for another bidder's of the same round passes the
  gate whatever the binding (`encrypted-blob.test.ts:557-590` documents it), and
  callers without a binding (`client.ts:165-180`, `bidder.ts:239`,
  `mainnet-micro.ts:188`) also pass another round or chain; `computePublishAtMs` is
  one period late; `fetchRoundBeacon` trusts the
  chain information of the replica that answers.
* Mainnet: `mainnet-micro.ts` calls `assertMainnetConfirmed` without importing it
  after its transactions; `--dry-run --strict` passes offline and `--strict`
  alone changes nothing; the last guardrail of `mainnet-settle` wants a balance
  of zero.
* Appraisal and agent: a paying client without an expected quote throws on every
  402; challenges without `expiresAt` count as expired; a settlement that throws
  may have charged; `createSessionMandate` issues mandates its verification
  refuses; the mandate is checked before the round is read and not again before the
  payment (`bidder.ts:131-180`), so a run may pay under one that has just run out;
  the cap on appraisals is a total for the session (`mandate.ts:35`), but a run
  counts from zero (`bidder.ts:161`), so that several runs may exceed it.
* Page: Reconnect stays enabled while a handler runs, so a create can overlap a
  join and a commit (`useRoundSession.ts:391-395`); a refresh that fails after a
  commit landed shows "Commit failed"; the first connect never detects a
  mismatch; `useLiveRound` shows the old round until the first answer for the new
  one arrives.

## 4. Proofs

Every safety invariant and every action property of the passing runs is stated by
a theorem below, for every value of the constants.

### What is assumed

The theorems on rounds are about `Spec` of `RoundContract`, for every value of
the constants that satisfies its three named assumptions: the inputs have their
types, the parameters are naturals, and `None` is neither an account nor a
number. Those on keepers are about `Spec` of `Keeper`, for any set of keepers,
any clocks, any number of faults and any seals; its assumptions give the
constants their types and say that the bidder index lists every bidder. Those on
watchers hold for any watchers, CLIs and setups; rounds are a finite set of
naturals. Those on the page need no assumption. `PassesRevealAll` has one
hypothesis, `Coverable`: no bid is sealed above its escrow. Without it the property is false (`keeper_over_bid`).

Those on storage are about `Spec` of `StorageTtl`. `TtlAssumption` gives types and
the order of the code's constants, which fit in a u32. `PaceAssumption` says that a ledger takes at
least the seconds `storage.rs:19` counts on, and that a day of ledgers fits in the
buffer after the reveal deadline (`storage.rs` has both as one day). The rest is
left open: any round times, any caps, thresholds and ledgers.

The rules have no steps, so their theorems are about one input of any size. For
each kind of sample an `...Input` in `RuleProofs` says what the program can give
the rule - sequences of any length, integers without a bound, any set of hashes,
nonces or keys - and the theorem says that the property holds of every such
sample. The samples of `MCRules` are instances. What an `...Input` does exclude:

* a stored bid is revealed within its escrow, and a Cleared or Settled round has a
  winner (`GuardInput`, `ConservationInput`, `ReceiptInput`): both are invariants
  of the contract, proved in `RoundContractProofs`;
* a round commits before its beacon (`StatusInput`), which `create_round` enforces;
* a sealed round is below `Number.MAX_SAFE_INTEGER`, so that there is a later one to
  move its ciphertext to (`SealInput`);
* a sleep is never shorter than asked (`SubmitInput`), and amounts, times and
  lengths are numbers.

The modules of the rules assume of their constants: `None` is no number, no step
and no address (`NoneAssumption`, `StatusAssumption`, `ReceiptAssumption`, which
also says that addresses differ and labels are not addresses); void grace is a
natural (`GuardAssumption`); page sizes, quote lifetimes, fees and caps are naturals
(`ConservationAssumption`, `AppraisalAssumption`, `ReadinessAssumption`); 2^128 is
even (`SealAssumption`). TLC evaluates all of them in the run `rules`.

### What is proved

| Theorem | Property |
|---|---|
| `InvariantHolds` | the inductive invariant `IInv` of `RoundContract` |
| `TypesHold` | `TypeOK` (no balance is negative) |
| `EscrowIsBacked` | `EscrowBacked` |
| `BooksAlwaysBalance` | `BooksBalance` |
| `BestBidWins` | `WinnerIsBest` |
| `RevealsAreSealed` | `RevealedIsSealed` |
| `VoidsAreHarmless` | `VoidedIsHarmless` |
| `TerminalRoundsAreFinal` | `TerminalIsFinal` |
| `BidsFreezeAtTheBeacon` | `FrozenOncePublished` |
| `PayoutsAreNeverRefused` | `PayoutNeverRefused` |
| `ContractKeepsPromise` | `KeepsPromise` |
| `KeeperInvariant`, `KeeperTypes` | `IInv` and `TypeOK` of `Keeper` |
| `CursorIsHonest` | `CursorHonest` |
| `PassesRevealAll` | `PassRevealsAll` |
| `WatchersInvariant`, `WatcherTypes` | `IInv` and `TypeOK` of `WatchLoop` |
| `QueuesAreSeparate` | `QueueSeparation` |
| `RecordedEndsAreTrue` | `TerminalIsTrue` |
| `LeasesExclude`, `LeasesLast` | `LeaseExclusive`, `LeaseKept` |
| `SessionInvariant` | `IInv` of `WebSession` |
| `LiveFollows`, `ObserverFollows` | `LiveFollowsTheRound`, `ObserverFollowsTheRound` |
| `TtlInvariant`, `StorageTypes` | `IInv` and `TypeOK` of `StorageTtl` |
| `SealsStayReadable` | `SealReadable` |
| `SealsAreKeptOnceOpened` | `SealKeptOnceOpened` |
| `GuardAgrees`, `FailedWorkIsSentAgain` | `GuardMatchesContract`, `FailedWorkIsRetried` |
| `ResumeKeepsEvidence` | `ResumeKeepsProof` |
| `StatusIsTrue` | `StatusTellsTruth` |
| `ConservedIsPaid` | `ConservedMeansPaid` |
| `VerifiedTellsOutcome` | `ReceiptTellsOutcome` |
| `SealsOpenToTheirBids` | `SealOpensToTheBid` |
| `PayloadsHaveOneEncoding` | `PayloadIsCommitted` |
| `IdentitiesStayWithTheirBids` | `IdentityOnlyToItsBid` |
| `NothingIsSentUnready` | `BroadcastOnlyWhenReady` |
| `AppraisalsAreWhatIsCharged`, `QuoteIsWhatIsPaid` | `ChargedOnlyForAppraisals`, `PaysTheQuoteItChecked` |
| `AgentStaysInMandate` | `AgentKeepsItsMandate` |
| `ErrorsTellTheFate` | `SubmitTellsFate` |

### Arguments

`EscrowBacked` is not inductive: that a refund leaves the ledger exact needs the
bidder index to list every bidder once and only bidders with a positive escrow
(`IndexInv`), and bids to be settled all together at the end; that `settle`
passes its own checks needs the winner to be indexed, within its escrow and
unpaid (`OutcomeInv`). `FrozenOncePublished` needs the beacon never to be early
(`BeaconInv`) and every stored round to have passed `create_round`'s checks
(`CreatedInv`). `IInv` is the conjunction of those parts for every round, the
types, and `HeldInv`, the contract's balance as a sum over rounds. One lemma per
action proves it is preserved; `OneRoundStep` reduces each to the round the call
is about, since a call touches one round and the balance by the change of that
round's locked escrow. `SumChangeOne` and `SumOverChangeOne` do the arithmetic.

`BooksAlwaysBalance` adds up what each round is worth to an account: its live
escrow, the bid it won, the bid it was paid as operator. A call changes the worth
of one round and the account's tokens by the same amount, so the sum stays; the
payouts along the index are the escrows of the bids, because the index lists
each once.

`ContractKeepsPromise` maps every action under `IInv`. What it needs of the
invariant is worth naming: that a bid is valid exactly when its revealed value is
positive (`RevealInv`), so that the offers standing in the auction are the
eligible bids of clear's loop; that the recorded value is the sealed one; that
accounts outside the index have nothing locked, so that paying along the index
pays everybody; and that no round is created whose beacon is already public.

`CursorHonest` is not inductive either: a step is recorded because of a reply, or
because of where the loop ended. `IInv` of `Keeper` adds that a reply that proves a
step is true of the chain (`Replied`), that the loop runs on an opened round and
has left every bidder before `pos` revealed or in `skipped` (`Looping`), and that a
replica shows no opened round before there is one. All of it survives the moves
of others because a round only moves forward (`Forward`, `KnowledgeKeeps`).

`TerminalIsTrue` speaks of the file, but every process writes back what it read
before, at any time; so its invariant demands the same of every process's copy and
of the status a finished tick carries. It is kept because a settled or voided
round stays so. `LeaseExclusive` and `LeaseKept` are shown only while calls do not
overlap: then a copy that is about to be written is the file itself.
`Sorted`, the order in which the queue takes the store's rounds, is the member of
a set of ascending sequences with one element, so that no proof rests on a choice.

`LiveFollows`: rounds only move forward, so a read made after the shown snapshot's
is not older. Its invariant says that a refresh whose request is current is the
last that was started, that what it has read is between what is shown and
the chain, and that each reveal on show has been read again or is still to be read.
`ObserverFollows` says the same of polls: one of the current effect
reads at a time, and it reads the observer's round.

Sums are defined by recursive functions. `SumsProofs` first shows, by a set of
naturals closed under successor, that the function with the recursive equations
exists, and derives the equations from that; the clearing loop `BestBidder` is
treated in the same way (`BestTableExists`), so that `BestBidderIsBest` is about
the loop and not about a definition of "best".

`PassesRevealAll`: nobody can end a round before its reveal deadline (`OpenInTime`),
so in an open window the contract answers a reveal with one of the errors the loop
goes on after (`Answerable`), unless the bid is above its escrow. A pass then ends by
a fault, by the deadline, or at the end of the index, and `Looping` says what is
behind a keeper that got there.

`SealReadable`: a seal's life is asked for in ledgers but needed in seconds. The
invariant (`SealsLast`, `KeptLast`) says that the ledgers an entry has left, at their
nominal length, reach past the reveal deadline; a ledger that closes uses up one of
them and at least as many seconds of the wait. `extend_ttl` acts only below its threshold and may
leave an entry up to a day short of what `open_reveal` asks for; the buffer that
`seal_ttl` adds is what pays for that day, which is why `PaceAssumption` is needed.

Loops of the rules are recursive functions over 1 .. n. `LoopTableExists` shows once
that the table of such a loop exists, by a set of naturals closed under successor,
and each loop (clear's, a rollback of the cursor, the walks over pages and bidders)
takes its equations from it; what holds of the loop then follows by the same induction.

* Guard: `ClearedIsFirstBest` says what clear's loop computes, and a view that was
  read whole has the same leader; a view with a gap leads to a refusal.
* Checkpoint: the cursor of a history tells its last marks, hash or none
  (`PlanStepTells`, `RecordedCursor`), a file parses to what was recorded
  (`ParseCursor`), and each of the two rollbacks drops the steps it is told to and
  nothing else (`WithoutKeeps`, `RollbackCursor`).
* Status: case analysis of the round's phase; the count of revealed bids as a
  cardinality says when closing is next; the cursor part uses the lemmas on
  checkpoints, and the two views of the rounds are compared under any sort order.
* Conservation: whatever hands out the pages, each adds what the books account for
  (`Accounted`), and a walk that ends with the right total has met every bidder once; an honest index
  read page by page ends, by bounds on quotients of its length.
* Receipt: over the bids it lists, the verifier's walk is clear's walk renamed by
  the addresses (`ComputedIsCleared`), so the winner is checked against the
  contract's rule; the export has the lifecycle in ledger order. One changed place
  is then found by the hash of the bid, by the two lists of bidders, or by that walk.
* Seals: two's complement makes the encoding of a value invertible; each damage is
  one that the gate reads (`ParsedIs`) or one that it cannot; a cipher opens only
  for the round its header names and is locked to (`OpensInItsRound`); and what
  matches a commitment is its one value (`OneCommitment`).
* Readiness: a report without a block satisfies each precondition, and each script
  sends only after such a report.
* Client: among the polls before the deadline the first that answers decides the
  fate; when none does the error is the one that admits not to know.

### Only model-checked

The liveness properties `EveryRoundResolves`, `RoundCompletes` and `RoundsFinish`:
fairness is outside the prover's reach. `StatusIsTrue` is for at most two tracked
rounds, as the samples are: that a sort of n rounds exists is an induction over
data. Sequences of any length are covered wherever a loop over 1 .. n computes, not
where a definition recurs over the data itself.

### Not modelled

* `packages/time`, `packages/logging`: clocks of tests and the format of logs.
* Drand tools, the auction template and the repository's scripts: test vectors,
  a starter, checks of the repository itself.
* The generated contract bindings and their decoders, the table of contract
  errors, and the SDK's plain reads.
* HTTP serving, text output, validation of asset configuration files; the
  dashboard, the recorded demo and the other pages, which render data.
* Cryptography: hashes, signatures, ciphers and x402 are facts of the environment.
* `get_bidders_page`, which calls a storage function that does not exist here.

## 5. Plan

1. `WatchLoop` and `Keeper` composed: a tick as the passes it stands for, and two
   watchers on one round on chain; `RoundsFinish` from `RoundCompletes`.
2. `Keeper`'s round as a refinement of `RoundContract` after the commit deadline, so
   that the contract its callers see is proved to be the one modelled.
3. The rules of the agent as a state machine with several appraisals in a row,
   so that spending adds up over runs.
4. Overlapping fetches of the dashboard and the status client.
5. Properties for the hazards that have none: the instance entry's lifetime, a
   reveal window that is over before the round is opened.
