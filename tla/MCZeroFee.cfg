\* A folio without a TVL fee under a DAO without a floor.
SPECIFICATION Spec
CONSTANTS
  D9 = 3
  MaxU64 = 9
  MaxU128 = 60
  MaxU256 = 100000
  YEAR = 3
  DAY = 2
  MaxTvlFee = 3
  MaxMintFee = 2
  MaxDaoFee = 4
  MaxFeeFloor = 3
  NUsers = 0
  m1 = m1
  m2 = m2
  Mints = {m1}
  FeeMints = {}
  Actors = {owner}
  FolioOwner = owner
  Admin = owner
  NRecipients = 2
  MaxBasketTokens = 2
  MaxPendingTokens = 2
  MaxRecipients = 2
  MinAuctionLength = 1
  MaxAuctionLength = 2
  Batches <- OneBatch
  ShareAmounts = {4}
  AnnualFees = {0}
  MintFees = {2}
  FeeDetailInputs <- NoDaoFees
  Updates = {}
  Donations = {}
  AuctionLengths = {1}
  Grants = {}
  Revocations = {}
  Issued = {"kill_folio", "remove_from_basket", "poke_folio"}
  MaxAllowedPending = {}
  MaxTime = 4
  MaxDistributions = 2
CHECK_DEADLOCK FALSE
INVARIANTS
  PokeAvailable
