\* Two users and two mints in shared token accounts: deposits, mints, burns,
\* redemptions, donations, basket changes, a kill and a migration in every order,
\* with vectors that name some of the slots.
SPECIFICATION Spec
CONSTANTS
  D9 = 2
  MaxU64 = 3
  MaxU128 = 100
  MaxU256 = 100000
  YEAR = 2
  DAY = 1
  MaxTvlFee = 2
  MaxMintFee = 2
  MaxDaoFee = 2
  MaxFeeFloor = 2
  NUsers = 2
  m1 = m1
  m2 = m2
  Mints = {m1, m2}
  FeeMints = {}
  Actors = {owner}
  FolioOwner = owner
  Admin = owner
  NRecipients = 0
  MaxBasketTokens = 2
  MaxPendingTokens = 2
  MaxRecipients = 2
  MinAuctionLength = 1
  MaxAuctionLength = 2
  Batches <- SlotBatches
  ShareAmounts = {1}
  AnnualFees = {2}
  MintFees = {0, 2}
  FeeDetailInputs <- NoDaoFees
  Updates = {}
  Donations <- UnitBatch
  AuctionLengths = {1}
  Grants = {}
  Revocations = {}
  Issued = {"kill_folio", "remove_from_basket", "poke_folio"}
  MaxAllowedPending = {1}
  MaxTime = 0
  MaxDistributions = 0
CHECK_DEADLOCK FALSE
INVARIANTS
  Custody
  ClaimsReachable
  BackingInSlots
PROPERTIES
  ClaimsHonoured
  SurplusNeverSpent
  WindDown
  MigrationMovesBacking
  NoDilution
