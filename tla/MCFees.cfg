\* Accrual, distribution and cranks of fees, with changes of the fees, of the
\* recipients and of the DAO's configuration in between.
SPECIFICATION Spec
CONSTANTS
  D9 = 3
  MaxU64 = 9
  MaxU128 = 60
  MaxU256 = 100000
  YEAR = 3
  DAY = 2
  MaxTvlFee = 3
  MaxMintFee = 2
  MaxDaoFee = 4
  MaxFeeFloor = 3
  NUsers = 0
  m1 = m1
  m2 = m2
  Mints = {m1}
  FeeMints = {}
  Actors = {owner}
  FolioOwner = owner
  Admin = admin
  NRecipients = 2
  MaxBasketTokens = 2
  MaxPendingTokens = 2
  MaxRecipients = 2
  MinAuctionLength = 1
  MaxAuctionLength = 2
  Batches <- OneBatch
  ShareAmounts = {4}
  AnnualFees = {3}
  MintFees = {2}
  FeeDetailInputs <- DaoFees
  Updates <- FeeUpdates
  Donations = {}
  AuctionLengths = {1}
  Grants = {}
  Revocations = {}
  Issued = {"kill_folio", "poke_folio"}
  MaxAllowedPending = {}
  MaxTime = 4
  MaxDistributions = 2
CHECK_DEADLOCK FALSE
INVARIANTS
  TypeOK
  DistributionsCovered
PROPERTIES
  NoDilution
