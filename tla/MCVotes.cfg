\* Yes/no and multiple-choice votes of a community of two, with a transaction to execute, under fairness.
SPECIFICATION LiveSpec
CONSTANTS
  NOwners = 2
  Delegates = {}
  None = None
  RealmAuthority = creator
  NewAuthorities = {}
  GovernanceAccount = gov
  MintAuthority = minter
  LockAuthorities = {}
  LockIds = {}
  LockTerms = {}
  Amounts = {}
  MaxSupply = 3
  MaxU64 = 1000
  SUPPLY_FRACTION_BASE = 2
  InitialRealms <- CommunityRealm
  InitialDeposits <- TwoCommunity
  RealmConfigs = {}
  MaxTime = 2
  NProposals = 1
  Signatories = {}
  GovernanceConfigs <- Third
  ProposalArgs <- CommunityProposals
  Votes <- MultiVotes
  Instructions <- VoteInstructions
  MaxTransactions = 1
  LastStart = 0
CHECK_DEADLOCK FALSE
INVARIANTS
  TallyAgrees
  ExecutionComplete
PROPERTIES
  ImplementsReferendum
  VotesEnd
  VotesReleased
