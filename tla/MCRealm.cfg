\* The administration of a realm: records, locks, delegates, signatories, configuration and authority.
SPECIFICATION Spec
CONSTANTS
  NOwners = 1
  Delegates = {d}
  None = None
  RealmAuthority = creator
  NewAuthorities = {gov}
  GovernanceAccount = gov
  MintAuthority = minter
  LockAuthorities = {locker}
  LockIds = {lock}
  LockTerms = {0}
  Amounts = {1}
  MaxSupply = 1
  MaxU64 = 1000
  SUPPLY_FRACTION_BASE = 2
  InitialRealms <- MemberRealm
  InitialDeposits <- OneMember
  RealmConfigs <- PluggedConfig
  MaxTime = 1
  NProposals = 1
  Signatories = {s1}
  GovernanceConfigs <- Paid
  ProposalArgs <- CommunityYesNo
  Votes <- YesVotes
  Instructions <- AdminInstructions
  MaxTransactions = 2
  LastStart = 0
CHECK_DEADLOCK FALSE
INVARIANTS
  GovernanceTypeOK
  HoldingBacked
  CountersAgree
PROPERTIES
  DepositsHeld
