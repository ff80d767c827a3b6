\* Two rebalances of three tokens, several auctions of the same pair, and bids in
\* another folio's auction of it.
SPECIFICATION AuctionSpec
CONSTANTS
  D9 = 2
  MaxU64 = 7
  MaxU128 = 20
  MaxU256 = 100000
  YEAR = 2
  DAY = 2
  MaxTvlFee = 2
  MaxMintFee = 2
  MaxDaoFee = 2
  MaxFeeFloor = 2
  NUsers = 0
  m1 = m1
  m2 = m2
  Mints = {m1, m2, m3}
  FeeMints = {}
  Actors = {owner}
  FolioOwner = owner
  Admin = owner
  NRecipients = 0
  MaxBasketTokens = 3
  MaxPendingTokens = 3
  MaxRecipients = 2
  MinAuctionLength = 1
  MaxAuctionLength = 2
  Batches <- StartBasket
  ShareAmounts = {2}
  AnnualFees = {2}
  MintFees = {0}
  FeeDetailInputs <- NoDaoFees
  Updates = {}
  Donations = {}
  AuctionLengths = {1, 2}
  Grants = {"RebalanceManager", "AuctionLauncher"}
  Revocations = {}
  Issued = {}
  MaxAllowedPending = {}
  MaxTime = 2
  MaxDistributions = 0
  m3 = m3
  MaxRate = 8
  MaxTokenPrice = 8
  MaxTokenPriceRange = 2
  MaxTTL = 3
  MaxDetails = 2
  DetailBatches <- ThreeTokens
  RebalanceTimes <- Windows
  Configs <- LauncherConfigs
  Bids <- ExactBids
  ForeignAuctions <- OtherFolios
  MaxNonce = 2
  MaxAuctions = 2
CHECK_DEADLOCK FALSE
INVARIANTS
  AuctionTypeOK
  OneAuctionPerPair
  EndsAgree
  NoDoubleTrading
PROPERTIES
  EndedForGood
  TradesWithinLimits
