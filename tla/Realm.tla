------------------------------- MODULE Realm -------------------------------
(***************************************************************************)
(* A realm of the governance program: its configuration, the records of    *)
(* the owners of governing tokens and the tokens that it holds for them.   *)
(*                                                                         *)
(* Deposits and withdrawals here pass no reward tokens to the accrual that *)
(* they call, so that the accrual changes nothing; module Rewards composes *)
(* the two programs.                                                       *)
(***************************************************************************)
EXTENDS Integers, FiniteSets, Sums

CONSTANTS
  NOwners,              \* number of owners of governing tokens
  Delegates,            \* accounts that owners make their delegates
  None,                 \* stands for the option None
  RealmAuthority,       \* the authority that creates the realm
  NewAuthorities,       \* accounts that may be made its authority
  GovernanceAccount,    \* the address of the realm's governance
  MintAuthority,        \* the authority of both governing mints
  LockAuthorities,      \* programs that may lock deposits
  LockIds,
  LockTerms,            \* durations of locks
  Amounts,              \* amounts of a deposit or a revocation
  MaxSupply,            \* bound of a governing mint's supply
  MaxU64,
  SUPPLY_FRACTION_BASE,
  InitialRealms,        \* configurations a realm is created with
  InitialDeposits,      \* deposits made before: functions from records to amounts
  RealmConfigs,         \* arguments of SetRealmConfig
  MaxTime

ASSUME RealmAssumption ==
  /\ MaxSupply \in Nat /\ MaxU64 \in Nat /\ MaxTime \in Nat
  /\ MaxSupply <= MaxU64
  /\ SUPPLY_FRACTION_BASE \in Nat \ {0}
  /\ Amounts \subseteq 1..MaxU64
  /\ LockTerms \subseteq Nat
  /\ NOwners \in Nat
  /\ None \notin 1..NOwners

VARIABLES
  now,        \* the clock
  realm,      \* RealmV2 with its configuration
  tokens,     \* GoverningTokenConfig of each governing mint
  tor,        \* token owner records
  holding,    \* balance of each governing token holding account
  wallet,     \* governing tokens outside of the realm
  govs        \* governances that exist in the realm

realmVars == <<now, realm, tokens, tor, holding, wallet, govs>>

-----------------------------------------------------------------------------
(* Types *)

Community == "community"
Council == "council"
GoverningMints == {Community, Council}
TokenTypes == {"Liquid", "Membership", "Dormant"}

Owners == 1..NOwners

NeverExpires == -1

\* Proposals that an owner may have in preparation or under a vote.
MaxOutstanding == 10

\* Sources of the maximum voter weight of the community mint.
Sources == [kind : {"fraction"}, value : 1..SUPPLY_FRACTION_BASE]
             \cup [kind : {"absolute"}, value : 1..MaxU64]

Locks == [id : LockIds, authority : LockAuthorities,
          expiry : Nat \cup {NeverExpires}]

TokenOwnerRecord ==
  [exists : BOOLEAN, deposit : 0..MaxU64, unrelinquished : Nat,
   outstanding : 0..MaxOutstanding, delegate : Delegates \cup {None}, locks : SUBSET Locks]

\* The address of a record is derived from the mint and the owner.
Records == GoverningMints \X Owners

\* Arguments of CreateRealm and SetRealmConfig, before they are validated.
SourceArgs == [kind : {"fraction", "absolute"}, value : Nat]
TokenConfigArgs ==
  [token_type : TokenTypes, voter_weight_addin : BOOLEAN, max_voter_weight_addin : BOOLEAN]
RealmConfigArgs ==
  [use_council_mint : BOOLEAN, source : SourceArgs,
   min_weight_to_create_governance : Nat, tokens : [GoverningMints -> TokenConfigArgs]]

\* Deposits made before fit into the supply of their mint.
ASSUME RealmArgsAssumption ==
  /\ InitialRealms \cup RealmConfigs \subseteq RealmConfigArgs
  /\ \A deposits \in InitialDeposits :
       /\ DOMAIN deposits \subseteq Records
       /\ \A k \in DOMAIN deposits : deposits[k] \in 0..MaxU64
       /\ \A m \in GoverningMints :
            Total([o \in Owners |-> IF <<m, o>> \in DOMAIN deposits
                                    THEN deposits[<<m, o>>] ELSE 0], NOwners) <= MaxSupply

NoRecord ==
  [exists |-> FALSE, deposit |-> 0, unrelinquished |-> 0, outstanding |-> 0,
   delegate |-> None, locks |-> {}]

NewRecord == [NoRecord EXCEPT !.exists = TRUE]

-----------------------------------------------------------------------------
(* The configuration of a realm *)

ValidMint(m) == m = Community \/ (m = Council /\ realm.council)

\* The mint of the proposals that tokens of mint m vote on: a veto is cast by
\* the opposite population.
MintForVote(m, kind) ==
  IF kind = "electorate" THEN m
  ELSE IF m = Community THEN Council ELSE Community

CanDeposit(m) == ValidMint(m) /\ tokens[m].token_type # "Dormant"
CanWithdraw(m) == ValidMint(m) /\ tokens[m].token_type # "Membership"
CanRevoke(m) == ValidMint(m) /\ tokens[m].token_type = "Membership"

ValidConfigArgs(args) ==
  /\ args.source.kind = "fraction" => args.source.value \in 1..SUPPLY_FRACTION_BASE
  /\ args.source.kind = "absolute" => args.source.value # 0

\* A community token that is not a membership token never becomes one.
CanChangeConfig(args) ==
  \/ tokens[Community].token_type = "Membership"
  \/ args.tokens[Community].token_type # "Membership"

\* The plugins and the type come from the arguments, the lock authorities stay.
ResolveTokenConfig(args, m, lockAuthorities) ==
  [token_type |-> args.tokens[m].token_type,
   voter_weight_addin |-> args.tokens[m].voter_weight_addin,
   max_voter_weight_addin |-> args.tokens[m].max_voter_weight_addin,
   lock_authorities |-> lockAuthorities]

SignedByRealmAuthority(s) == realm.authority # None /\ s = realm.authority

CreateRealm(args) ==
  /\ ValidConfigArgs(args)
  /\ realm = [authority |-> RealmAuthority, council |-> args.use_council_mint,
              source |-> args.source,
              min_weight_to_create_governance |-> args.min_weight_to_create_governance]
  /\ tokens = [m \in GoverningMints |-> ResolveTokenConfig(args, m, {})]
  /\ govs = {}

\* The realm is created and some owners have made their deposits.
RealmInit ==
  /\ now = 0
  /\ \E args \in InitialRealms : CreateRealm(args)
  /\ \E deposits \in InitialDeposits :
       /\ tor = [k \in Records |->
            IF k \in DOMAIN deposits THEN [NewRecord EXCEPT !.deposit = deposits[k]]
                                     ELSE NoRecord]
       /\ holding = [m \in GoverningMints |->
            Total([o \in Owners |-> tor[m, o].deposit], NOwners)]
  /\ wallet = [m \in GoverningMints |-> 0]

\* The council mint stays as it is or is removed for good.
SetRealmConfig(s, args) ==
  /\ SignedByRealmAuthority(s)
  /\ ValidConfigArgs(args)
  /\ args.use_council_mint => realm.council
  /\ CanChangeConfig(args)
  /\ realm' = [realm EXCEPT !.council = args.use_council_mint, !.source = args.source,
                 !.min_weight_to_create_governance = args.min_weight_to_create_governance]
  /\ tokens' = [m \in GoverningMints |->
                  ResolveTokenConfig(args, m, tokens[m].lock_authorities)]
  /\ UNCHANGED <<now, tor, holding, wallet, govs>>

AddLockAuthority(s, m, a) ==
  /\ SignedByRealmAuthority(s) /\ ValidMint(m)
  /\ a \notin tokens[m].lock_authorities
  /\ tokens' = [tokens EXCEPT ![m].lock_authorities = @ \cup {a}]
  /\ UNCHANGED <<now, realm, tor, holding, wallet, govs>>

RemoveLockAuthority(s, m, a) ==
  /\ SignedByRealmAuthority(s) /\ ValidMint(m)
  /\ a \in tokens[m].lock_authorities
  /\ tokens' = [tokens EXCEPT ![m].lock_authorities = @ \ {a}]
  /\ UNCHANGED <<now, realm, tor, holding, wallet, govs>>

\* SetChecked asks that the new authority is a governance of the realm.
SetRealmAuthority(s, action, new) ==
  /\ SignedByRealmAuthority(s)
  /\ action = "Remove" <=> new = None
  /\ action = "SetChecked" => new \in govs
  /\ realm' = [realm EXCEPT !.authority = new]
  /\ UNCHANGED <<now, tokens, tor, holding, wallet, govs>>

-----------------------------------------------------------------------------
(* Token owner records *)

IsExpired(lock) == lock.expiry # NeverExpires /\ now > lock.expiry

OwnerOrDelegateSigns(k, s) == tor[k].exists /\ (s = k[2] \/ s = tor[k].delegate)

\* Without a plugin a voter's weight is the deposit; with one it is whatever
\* the plugin's record says.
VoterWeights(k) ==
  IF tokens[k[1]].voter_weight_addin THEN 0..MaxSupply ELSE {tor[k].deposit}

CanCreateGovernance(k, weight) ==
  /\ ValidMint(k[1])
  /\ k[1] = Community => /\ realm.min_weight_to_create_governance # MaxU64
                         /\ weight >= realm.min_weight_to_create_governance
  /\ k[1] = Council => weight >= 1

\* Mutants: withdrawals that forget the locks, or the votes.
CanWithdrawLocked(k) == tor[k].unrelinquished = 0 /\ tor[k].outstanding = 0
CanWithdrawVoted(k) == tor[k].outstanding = 0 /\ \A lock \in tor[k].locks : IsExpired(lock)

CanWithdrawTokens(k) ==
  /\ tor[k].unrelinquished = 0
  /\ tor[k].outstanding = 0
  /\ \A lock \in tor[k].locks : IsExpired(lock)

\* Mutant: the counter is never decreased.
DecreaseNever(r) == r

DecreaseOutstanding(r) ==
  [r EXCEPT !.outstanding = IF @ = 0 THEN 0 ELSE @ - 1]

WithoutExpiredLocks(r) == [r EXCEPT !.locks = {l \in @ : ~IsExpired(l)}]

UpsertLock(r, lock) ==
  [r EXCEPT !.locks =
     {l \in @ : l.id # lock.id \/ l.authority # lock.authority} \cup {lock}]

WithoutLocks(r, a, ids) ==
  [r EXCEPT !.locks = {l \in @ : l.id \notin ids \/ l.authority # a}]

CreateTokenOwnerRecord(k) ==
  /\ ValidMint(k[1])
  /\ ~tor[k].exists
  /\ tor' = [tor EXCEPT ![k] = NewRecord]
  /\ UNCHANGED <<now, realm, tokens, holding, wallet, govs>>

\* The accrual that both instructions call asks for the owner's signature.  The
\* tokens come from an account of the owner or are minted into the holding.
DepositGoverningTokens(k, amount, minted) ==
  /\ CanDeposit(k[1])
  /\ tor[k].deposit + amount <= MaxU64
  /\ IF minted THEN /\ holding[k[1]] + wallet[k[1]] + amount <= MaxSupply
                    /\ UNCHANGED wallet
               ELSE /\ wallet[k[1]] >= amount
                    /\ wallet' = [wallet EXCEPT ![k[1]] = @ - amount]
  /\ tor' = [tor EXCEPT ![k].exists = TRUE, ![k].deposit = @ + amount]
  /\ holding' = [holding EXCEPT ![k[1]] = @ + amount]
  /\ UNCHANGED <<now, realm, tokens, govs>>

WithdrawGoverningTokens(k) ==
  /\ CanWithdraw(k[1])
  /\ tor[k].exists
  /\ CanWithdrawTokens(k)
  /\ holding[k[1]] >= tor[k].deposit
  /\ holding' = [holding EXCEPT ![k[1]] = @ - tor[k].deposit]
  /\ wallet' = [wallet EXCEPT ![k[1]] = @ + tor[k].deposit]
  /\ tor' = [tor EXCEPT ![k].deposit = 0]
  /\ UNCHANGED <<now, realm, tokens, govs>>

\* Mutant: the tokens are burned and the record is left as it was.
KeptRecord(r, amount) == r

RevokedRecord(r, amount) == [r EXCEPT !.deposit = @ - amount]

RevokeGoverningTokens(k, s, amount) ==
  /\ CanRevoke(k[1])
  /\ tor[k].exists
  /\ s \in {k[2], MintAuthority}
  /\ tor[k].deposit >= amount
  /\ holding[k[1]] >= amount
  /\ tor' = [tor EXCEPT ![k] = RevokedRecord(@, amount)]
  /\ holding' = [holding EXCEPT ![k[1]] = @ - amount]
  /\ UNCHANGED <<now, realm, tokens, wallet, govs>>

SetGovernanceDelegate(k, s, d) ==
  /\ OwnerOrDelegateSigns(k, s)
  /\ tor' = [tor EXCEPT ![k].delegate = d]
  /\ UNCHANGED <<now, realm, tokens, holding, wallet, govs>>

SetTokenOwnerRecordLock(k, lock) ==
  /\ ~IsExpired(lock)
  /\ ValidMint(k[1])
  /\ tor[k].exists
  /\ lock.authority \in tokens[k[1]].lock_authorities
  /\ tor' = [tor EXCEPT ![k] = UpsertLock(WithoutExpiredLocks(@), lock)]
  /\ UNCHANGED <<now, realm, tokens, holding, wallet, govs>>

\* A configured lock authority has to sign for its own locks.
RelinquishTokenOwnerRecordLocks(k, a, s, ids) ==
  /\ tor[k].exists
  /\ ids # {} => /\ ValidMint(k[1])
                 /\ a \in tokens[k[1]].lock_authorities => s = a
                 /\ \A i \in ids : \E l \in tor[k].locks : l.id = i /\ l.authority = a
  /\ tor' = [tor EXCEPT ![k] = WithoutExpiredLocks(WithoutLocks(@, a, ids))]
  /\ UNCHANGED <<now, realm, tokens, holding, wallet, govs>>

\* The realm's authority creates a governance, or an owner of enough tokens.
CreateGovernanceAllowed(s, k) ==
  \/ SignedByRealmAuthority(s)
  \/ /\ OwnerOrDelegateSigns(k, s)
     /\ \E weight \in VoterWeights(k) : CanCreateGovernance(k, weight)

AddGovernance(s, k) ==
  /\ GovernanceAccount \notin govs
  /\ CreateGovernanceAllowed(s, k)
  /\ govs' = govs \cup {GovernanceAccount}
  /\ UNCHANGED <<now, realm, tokens, tor, holding, wallet>>

\* Anyone may transfer governing tokens to the holding account.
TransferToHolding(m, amount) ==
  /\ wallet[m] >= amount
  /\ wallet' = [wallet EXCEPT ![m] = @ - amount]
  /\ holding' = [holding EXCEPT ![m] = @ + amount]
  /\ UNCHANGED <<now, realm, tokens, tor, govs>>

Tick ==
  /\ now < MaxTime
  /\ now' = now + 1
  /\ UNCHANGED <<realm, tokens, tor, holding, wallet, govs>>

=============================================================================
