SPECIFICATION Spec
CONSTANTS
  None = None
  Unread = Unread
  NoHash = NoHash
  Nobody = Nobody
  VOID_GRACE_SECONDS = 1
  TWO_128 = 16
  MAX_SAFE = 3
  MAX_U32 = 3
  ESCROW_PAGE_SIZE = 3
  ESCROW_MAX_BIDDERS = 4
  MAX_PAYLOAD = 2
  MAX_APPRAISAL_BODY_BYTES = 2
  APPRAISAL_QUOTE_TTL_SECONDS = 2
  StroopsPerToken = 2
  MAINNET_MICRO_MAX_ESCROW = 3
  DEFAULT_BID = 1
  DEFAULT_ESCROW = 2
  Address <- MCAddress
  Sorted <- MCSorted
  Label <- MCLabel
  DEPLOY_MIN = 2
  FEE_RESERVE = 1
INVARIANTS StatusTellsTruth GuardMatchesContract FailedWorkIsRetried ResumeKeepsProof
  SealOpensToTheBid PayloadIsCommitted IdentityOnlyToItsBid
  ConservedMeansPaid ReceiptTellsOutcome BroadcastOnlyWhenReady
  ChargedOnlyForAppraisals PaysTheQuoteItChecked AgentKeepsItsMandate SubmitTellsFate
