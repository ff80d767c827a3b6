\* A community and a council that may veto each other, with tokens that move between owners.
SPECIFICATION Spec
CONSTANTS
  NOwners = 2
  Delegates = {}
  None = None
  RealmAuthority = creator
  NewAuthorities = {}
  GovernanceAccount = gov
  MintAuthority = minter
  LockAuthorities = {}
  LockIds = {}
  LockTerms = {}
  Amounts = {1}
  MaxSupply = 2
  MaxU64 = 1000
  SUPPLY_FRACTION_BASE = 2
  InitialRealms <- CouncilRealm
  InitialDeposits <- TwoChambers
  RealmConfigs = {}
  MaxTime = 1
  NProposals = 1
  Signatories = {}
  GovernanceConfigs <- Paid
  ProposalArgs <- BothYesNo
  Votes <- VetoVotes
  Instructions = {}
  MaxTransactions = 1
  LastStart = 0
CHECK_DEADLOCK FALSE
INVARIANTS
  NoDoubleVoting
  TipsStand
