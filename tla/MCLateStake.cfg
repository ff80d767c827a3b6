\* Deposits may leave a reward token out: stakes are credited with earlier growth.
SPECIFICATION Spec
CONSTANTS
  NOwners = 2
  Delegates = {}
  None = None
  RealmAuthority = creator
  NewAuthorities = {}
  GovernanceAccount = gov
  MintAuthority = minter
  LockAuthorities = {}
  LockIds = {}
  LockTerms = {}
  Amounts = {1}
  MaxSupply = 2
  MaxU64 = 1000
  SUPPLY_FRACTION_BASE = 2
  InitialRealms <- EitherRealm
  InitialDeposits <- OneStake
  RealmConfigs = {}
  MaxTime = 3
  D9 = 10
  MaxU128 = 10000000
  MaxU256 = 100000000
  YEAR = 3
  GovUnit = 10
  LN_2 = 69
  MinHalfLife = 1
  MaxHalfLife = 2
  MaxRewardTokens = 1
  r1 = r1
  RewardTokens = {r1}
  HalfLives = {1, 2}
  Donations = {3}
  Revocable = {2}
  MaxPot = 3
  OtherBalances = {}
CHECK_DEADLOCK FALSE
INVARIANTS
  AllRewardsEarned
