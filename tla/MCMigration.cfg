\* A folio with two tokens and a user is migrated while the registrar changes and
\* others send tokens to the successor, under fairness of the migration.
SPECIFICATION MigLiveSpec
CONSTANTS
  D9 = 3
  MaxU64 = 3
  MaxU128 = 100
  MaxU256 = 100000
  YEAR = 2
  DAY = 1
  MaxTvlFee = 8
  MaxMintFee = 2
  MaxDaoFee = 2
  MaxFeeFloor = 2
  NUsers = 1
  m1 = m1
  m2 = m2
  Mints = {m1, m2}
  FeeMints = {}
  Actors = {owner}
  FolioOwner = owner
  Admin = owner
  NRecipients = 0
  MaxBasketTokens = 2
  MaxPendingTokens = 2
  MaxRecipients = 2
  MinAuctionLength = 1
  MaxAuctionLength = 2
  Batches <- BasketBatches
  ShareAmounts = {1}
  AnnualFees = {8}
  MintFees = {0}
  FeeDetailInputs <- NoDaoFees
  Updates = {}
  Donations = {}
  AuctionLengths = {1}
  Grants = {}
  Revocations = {}
  Issued = {"kill_folio"}
  MaxAllowedPending = {}
  MaxTime = 1
  MaxDistributions = 0
  NPrograms = 2
  MaxAcceptedPrograms = 3
  RegistrarUpdates <- Names
  MaxLosses = {1, 100}
  SuccessorDonations <- UnitBatch
CHECK_DEADLOCK FALSE
INVARIANTS
  OpensComplete
PROPERTIES
  BackingConserved
  MigrationEnds
