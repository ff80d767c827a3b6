\* A small folio with a user and a distribution, under fairness.
SPECIFICATION LiveSpec
CONSTANTS
  D9 = 3
  MaxU64 = 5
  MaxU128 = 18
  MaxU256 = 100000
  YEAR = 3
  DAY = 2
  MaxTvlFee = 3
  MaxMintFee = 2
  MaxDaoFee = 4
  MaxFeeFloor = 3
  NUsers = 1
  m1 = m1
  m2 = m2
  Mints = {m1, m2}
  FeeMints = {m2}
  Actors = {owner}
  FolioOwner = owner
  Admin = owner
  NRecipients = 2
  MaxBasketTokens = 2
  MaxPendingTokens = 2
  MaxRecipients = 2
  MinAuctionLength = 1
  MaxAuctionLength = 2
  Batches <- UnitAndLargeBatch
  ShareAmounts = {4}
  AnnualFees = {3}
  MintFees = {2}
  FeeDetailInputs <- NoDaoFees
  Updates <- TwoRecipients
  Donations = {}
  AuctionLengths = {1}
  Grants = {}
  Revocations = {{"Owner"}}
  Issued = {"kill_folio"}
  MaxAllowedPending = {10}
  MaxTime = 2
  MaxDistributions = 1
CHECK_DEADLOCK FALSE
PROPERTIES
  ClaimsCollected
  DistributionsPaid
