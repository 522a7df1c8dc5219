----------------------------- MODULE StorageTtl -----------------------------
(***************************************************************************)
(* How long the contract's storage entries live (contracts/round/src:      *)
(* storage.rs and the entry points of lib.rs that call it).  A seal is a    *)
(* Temporary entry: the host deletes it for good at the end of its TTL,     *)
(* which counts ledgers, while the deadlines of a round count seconds.      *)
(* One round; persistent entries are not modelled (the host restores them). *)
(***************************************************************************)
EXTENDS Integers, FiniteSetsExt

CONSTANTS
    Bidder,
    RoundTimes,     \* [commit_deadline, publish, reveal_deadline] of rounds
    LEDGER_CLOSE_SECS,
    LEDGERS_PER_DAY,
    POST_REVEAL_SEAL_BUFFER_SECS,
    PERSISTENT_BUMP,
    PERSISTENT_THRESHOLD,
    TEMP_THRESHOLD,
    U32_RANGE,      \* how many numbers a u32 has
    MIN_TEMP_TTL,   \* the network's TTL of a new Temporary entry
    Pace,           \* seconds a ledger may take to close
    MaxSeq          \* bound: ledgers closed

ASSUME TtlAssumption ==
    /\ RoundTimes \subseteq [commit_deadline : Nat, publish : Nat, reveal_deadline : Nat]
    /\ LEDGER_CLOSE_SECS \in Nat \ {0} /\ LEDGERS_PER_DAY \in Nat
    /\ POST_REVEAL_SEAL_BUFFER_SECS \in Nat /\ U32_RANGE \in Nat
    /\ TEMP_THRESHOLD \in 0 .. U32_RANGE - 1 /\ PERSISTENT_BUMP < U32_RANGE
    /\ PERSISTENT_BUMP \in Nat /\ PERSISTENT_THRESHOLD \in 0 .. PERSISTENT_BUMP
    /\ MIN_TEMP_TTL \in 1 .. PERSISTENT_BUMP /\ Pace \subseteq Nat \ {0} /\ MaxSeq \in Nat

\* storage.rs counts on ledgers that take five seconds or longer, and sets its
\* buffer to a day of them: as much as an extension may fall short by.
ASSUME PaceAssumption ==
    /\ \A p \in Pace : p >= LEDGER_CLOSE_SECS
    /\ LEDGERS_PER_DAY * LEDGER_CLOSE_SECS <= POST_REVEAL_SEAL_BUFFER_SECS

VARIABLES
    seq,            \* env.ledger().sequence()
    now,            \* env.ledger().timestamp()
    times,          \* the round's deadlines; publish is when Drand is due
    status,         \* "None", "Open", "Revealing" or "Over"
    seal,           \* last ledger in which a bidder's seal is live, or Never
    instance,       \* last ledger in which the instance entry is live
    bid_at,         \* history: time of a bidder's last commit, or Never
    open_at,        \* history: time of open_reveal, or Never
    kept            \* history: bidders whose seal was live at open_reveal

vars == <<seq, now, times, status, seal, instance, bid_at, open_at, kept>>
ledgers == <<seq, now>>

Never == -1

Live(b) == seal[b] >= seq
-----------------------------------------------------------------------------
\* The host's extend_ttl: an entry with no more than threshold ledgers to live
\* lives on for bump ledgers.
ExtendTtl(until, threshold, bump) ==
    IF until - seq <= threshold /\ seq + bump > until THEN seq + bump ELSE until

\* Seeded fault: the observer buffer after the reveal deadline is forgotten.
Ttl_NoBuffer(deadline) ==
    Min({PERSISTENT_BUMP,
         Max({TEMP_THRESHOLD, Max({deadline - now, 0}) \div LEDGER_CLOSE_SECS})})

\* Seeded fault: the cap is missing.
Ttl_Uncapped(deadline) ==
    LET secs == Max({deadline - now, 0}) + POST_REVEAL_SEAL_BUFFER_SECS
    IN  Max({TEMP_THRESHOLD, secs \div LEDGER_CLOSE_SECS})

\* seal_ttl_for_reveal_deadline: the cast to u32 wraps, before the cap.
Ttl(deadline) ==
    LET secs == Max({deadline - now, 0}) + POST_REVEAL_SEAL_BUFFER_SECS
    IN  Min({PERSISTENT_BUMP,
             Max({TEMP_THRESHOLD, secs \div LEDGER_CLOSE_SECS}) % U32_RANGE})

\* extend_seal_ttl
ExtendSealTtl(until, deadline) ==
    ExtendTtl(until, Max({Ttl(deadline) - LEDGERS_PER_DAY, 0}), Ttl(deadline))

\* The seal after set_seal: writing a live entry leaves its TTL as it is.
SealAfterSet(b, deadline) ==
    ExtendSealTtl(IF Live(b) THEN seal[b] ELSE seq + MIN_TEMP_TTL - 1, deadline)

\* Seeded fault: open_reveal leaves the seals alone.
ExtendRoundSeals_Nothing(deadline) == seal

\* extend_round_seals: only entries still in storage are extended.
ExtendRoundSeals(deadline) ==
    [b \in Bidder |-> IF Live(b) THEN ExtendSealTtl(seal[b], deadline) ELSE seal[b]]
-----------------------------------------------------------------------------
\* The deployment's constructor bumps the instance entry.
Init ==
    /\ seq = 0 /\ now = 0
    /\ times \in RoundTimes
    /\ status = "None"
    /\ seal = [b \in Bidder |-> Never]
    /\ instance = PERSISTENT_BUMP
    /\ bid_at = [b \in Bidder |-> Never]
    /\ open_at = Never
    /\ kept = {}

CloseLedger(p) ==
    /\ seq < MaxSeq
    /\ seq' = seq + 1
    /\ now' = now + p
    /\ UNCHANGED <<times, status, seal, instance, bid_at, open_at, kept>>

CreateRound ==
    /\ status = "None"
    /\ times.commit_deadline > now
    /\ status' = "Open"
    /\ instance' = ExtendTtl(instance, PERSISTENT_THRESHOLD, PERSISTENT_BUMP)
    /\ UNCHANGED <<ledgers, times, seal, bid_at, open_at, kept>>

Commit(b) ==
    /\ status = "Open"
    /\ now <= times.commit_deadline
    /\ seal' = [seal EXCEPT ![b] = SealAfterSet(b, times.reveal_deadline)]
    /\ bid_at' = [bid_at EXCEPT ![b] = now]
    /\ UNCHANGED <<ledgers, times, status, instance, open_at, kept>>

OpenReveal ==
    /\ status = "Open"
    /\ now > times.commit_deadline
    /\ now >= times.publish
    /\ status' = "Revealing"
    /\ seal' = ExtendRoundSeals(times.reveal_deadline)
    /\ open_at' = now
    /\ kept' = {b \in Bidder : Live(b)}
    /\ UNCHANGED <<ledgers, times, instance, bid_at>>

\* get_seal called in a transaction.
GetSeal(b) ==
    /\ status # "None"
    /\ Live(b)
    /\ seal' = [seal EXCEPT ![b] = ExtendSealTtl(seal[b], times.reveal_deadline)]
    /\ UNCHANGED <<ledgers, times, status, instance, bid_at, open_at, kept>>

\* clear, or void after its grace: no seal is needed from here on.
EndRound ==
    /\ status \in {"Open", "Revealing"}
    /\ now > times.reveal_deadline
    /\ status' = "Over"
    /\ UNCHANGED <<ledgers, times, seal, instance, bid_at, open_at, kept>>

Next ==
    \/ \E p \in Pace : CloseLedger(p)
    \/ CreateRound
    \/ \E b \in Bidder : Commit(b)
    \/ OpenReveal
    \/ \E b \in Bidder : GetSeal(b)
    \/ EndRound

Spec == Init /\ [][Next]_vars
-----------------------------------------------------------------------------
\* The last live ledger of an entry is a ledger of the chain's bounded future:
\* no write or extension reaches beyond the 60-day cap, and the seals that the
\* reveal window was opened with belong to bidders of the round.
TypeOK ==
    /\ seq \in 0 .. MaxSeq
    /\ now \in Nat
    /\ times \in RoundTimes
    /\ status \in {"None", "Open", "Revealing", "Over"}
    /\ seal \in [Bidder -> Nat \cup {Never}]
    /\ \A b \in Bidder : seal[b] <= seq + PERSISTENT_BUMP
    /\ instance \in 0 .. seq + PERSISTENT_BUMP
    /\ bid_at \in [Bidder -> Nat \cup {Never}]
    /\ open_at \in Nat \cup {Never}
    /\ kept \subseteq {b \in Bidder : bid_at[b] # Never}

\* The TTL cap does not cut the lifetime a bid committed at this time needs.
WithinCap(at) ==
    times.reveal_deadline - at + POST_REVEAL_SEAL_BUFFER_SECS
        <= PERSISTENT_BUMP * LEDGER_CLOSE_SECS

\* Forced reveal rests on the ciphertext: the seal of a bid committed within
\* 60 days of the reveal deadline stays readable until that deadline, however
\* often it was overwritten or read and however slowly ledgers close
\* (storage.rs, seal_ttl_for_reveal_deadline and extend_seal_ttl).
SealReadable ==
    \A b \in Bidder :
        (bid_at[b] # Never /\ WithinCap(bid_at[b]) /\ now <= times.reveal_deadline)
            => Live(b)

\* A seal still in storage when the reveal window opens can be read until the
\* window closes, however long before it was committed (extend_round_seals).
SealKeptOnceOpened ==
    (open_at # Never /\ WithinCap(open_at) /\ now <= times.reveal_deadline)
        => \A b \in kept : Live(b)

\* docs/TECH_DESIGN.md, Storage: "long pre-reveal commit windows do not lose
\* ciphertext before Drand round R".
SealSurvivesCommitWindow ==
    \A b \in Bidder : (bid_at[b] # Never /\ now <= times.publish) => Live(b)
=============================================================================
