\* A seal is set, overwritten and read; ledgers close on time or late.
SPECIFICATION Spec
CONSTANTS
    Bidder = {ann}
    RoundTimes <- MCTimes
    LEDGER_CLOSE_SECS = 2
    LEDGERS_PER_DAY = 2
    POST_REVEAL_SEAL_BUFFER_SECS = 4
    PERSISTENT_BUMP = 12
    PERSISTENT_THRESHOLD = 10
    TEMP_THRESHOLD = 4
    U32_RANGE = 32
    MIN_TEMP_TTL = 1
    Pace = {2, 3}
    MaxSeq = 16
INVARIANTS SealReadable SealKeptOnceOpened
CHECK_DEADLOCK FALSE
