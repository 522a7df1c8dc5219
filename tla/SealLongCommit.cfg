\* A commit window longer than the TTL cap.
SPECIFICATION Spec
CONSTANTS
    Bidder = {ann}
    RoundTimes <- LongTimes
    LEDGER_CLOSE_SECS = 2
    LEDGERS_PER_DAY = 2
    POST_REVEAL_SEAL_BUFFER_SECS = 4
    PERSISTENT_BUMP = 12
    PERSISTENT_THRESHOLD = 10
    TEMP_THRESHOLD = 4
    U32_RANGE = 32
    MIN_TEMP_TTL = 1
    Pace = {2, 3}
    MaxSeq = 16
INVARIANTS SealSurvivesCommitWindow
CHECK_DEADLOCK FALSE
