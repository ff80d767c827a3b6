\* A user mints and burns while the basket is traded in an auction, and deposits a
\* mint that takes a fee too.
SPECIFICATION AuctionSpec
CONSTANTS
  D9 = 2
  MaxU64 = 5
  MaxU128 = 20
  MaxU256 = 100000
  YEAR = 2
  DAY = 1
  MaxTvlFee = 2
  MaxMintFee = 2
  MaxDaoFee = 2
  MaxFeeFloor = 2
  NUsers = 1
  m1 = m1
  m2 = m2
  Mints = {m1, m2, m3}
  FeeMints = {m3}
  Actors = {owner}
  FolioOwner = owner
  Admin = owner
  NRecipients = 0
  MaxBasketTokens = 3
  MaxPendingTokens = 3
  MaxRecipients = 2
  MinAuctionLength = 1
  MaxAuctionLength = 2
  Batches <- StartAndDeposits
  ShareAmounts = {2}
  AnnualFees = {2}
  MintFees = {0}
  FeeDetailInputs <- NoDaoFees
  Updates = {}
  Donations = {}
  AuctionLengths = {2}
  Grants = {"RebalanceManager", "AuctionLauncher"}
  Revocations = {}
  Issued = {}
  MaxAllowedPending = {}
  MaxTime = 1
  MaxDistributions = 0
  m3 = m3
  MaxRate = 8
  MaxTokenPrice = 8
  MaxTokenPriceRange = 2
  MaxTTL = 3
  MaxDetails = 3
  DetailBatches <- TwoTokens
  RebalanceTimes <- Windows
  Configs <- LauncherConfigs
  Bids <- OneTokenBids
  ForeignAuctions = {}
  MaxNonce = 1
  MaxAuctions = 1
CHECK_DEADLOCK FALSE
INVARIANTS
  Custody
PROPERTIES
  SurplusNeverSpent
