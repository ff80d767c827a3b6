------------------------------ MODULE Rewards ------------------------------
(***************************************************************************)
(* The rewards program, composed with the realm whose community stakes it  *)
(* rewards.  A reward token's index grows by what is handed out per staked *)
(* token; a user is credited with the growth since the user's last accrual *)
(* times the user's stake.  Deposits and withdrawals of governing tokens   *)
(* therefore accrue first, for the reward tokens that the caller passes:   *)
(* any of them, or none.                                                   *)
(*                                                                         *)
(* Errors of the checked arithmetic are guards; no quantity here comes     *)
(* near the width of its type.                                             *)
(***************************************************************************)
EXTENDS Realm

CONSTANTS
  D9, MaxU128, MaxU256, YEAR,
  GovUnit,            \* 10^decimals of the community mint
  LN_2,               \* scaled by D18
  MinHalfLife, MaxHalfLife,
  MaxRewardTokens,
  RewardTokens,       \* mints of reward tokens
  HalfLives,          \* arguments of init_or_set_reward_ratio
  Donations,          \* amounts sent to the account of a reward token
  Revocable,          \* owners whose membership tokens may be revoked
  OtherBalances,      \* balances of other accounts of a reward token that
                      \* the PDA reward_tokens owns
  MaxPot              \* bound of what is ever sent to the account of one

INSTANCE Decimal

ASSUME RewardsAssumption ==
  /\ D9 \in Nat \ {0} /\ GovUnit \in Nat \ {0}
  /\ MaxU128 \in Nat /\ MaxU64 * D9 <= MaxU128
  /\ MinHalfLife \in Nat \ {0} /\ MaxHalfLife \in Nat /\ LN_2 \in Nat
  /\ MaxRewardTokens \in Nat /\ MaxPot \in 0..MaxU64
  /\ HalfLives \subseteq Nat /\ Donations \subseteq Nat
  /\ OtherBalances \subseteq 0..MaxU64
  /\ Revocable \subseteq Owners

VARIABLES
  rt,         \* RewardTokens: exists, admin, ratio, list
  info,       \* RewardInfo of each reward token
  uinfo,      \* UserRewardInfo of each owner and reward token
  balance,    \* token account of each reward token
  \* History, that no handler reads: what stakes earned as the index grew (in
  \* units of 1 / D18), and what users were paid.
  earned, paid,
  \* History: the users and tokens with growth of the index that the user was
  \* not credited with when the user's stake rose; and the tokens whose
  \* RewardInfo began with more than the account that accruals read.
  backdated, misread

exceptions == <<backdated, misread>>
rewardVars == <<rt, info, uinfo, balance, earned, paid, exceptions>>
vars == <<realmVars, rewardVars>>

-----------------------------------------------------------------------------
(* Types *)

NoInfo == [exists |-> FALSE, last_paid |-> 0, index |-> 0, accounted |-> 0,
           last_known |-> 0, claimed |-> 0, disallowed |-> FALSE]
NoUserInfo == [exists |-> FALSE, last_index |-> 0, accrued |-> 0]

Known == {t \in RewardTokens : info[t].exists}
Staked == holding[Community]
Stake(u) == tor[Community, u].deposit
HasRecord(u) == tor[Community, u].exists

-----------------------------------------------------------------------------
(* Accrual *)

\* A removed token's index is fixed, and an index grows once per second.
Accrues(r) == ~r.disallowed /\ now > r.last_paid

Decayed(r) == Pow(D18 - rt.ratio, now - r.last_paid)
HandoutPercentage(r) == D18 - Decayed(r) - 1

\* The handout is a part of the balance known at the last accrual.
Handout(r) == ((r.last_known - r.accounted) * HandoutPercentage(r)) \div D18

CanAccrue(r) ==
  Accrues(r) => /\ r.last_known >= r.accounted
                /\ rt.ratio <= D18
                /\ Decayed(r) \in 0..(D18 - 1)

\* Mutant: the handout is not divided by the stake.
DeltaIndexUndivided(handout, staked) == ToScaledCeil(handout * GovUnit)

DeltaIndex(handout, staked) ==
  ToScaledCeil(((D18 * handout * GovUnit) \div staked) \div D18)

\* Mutant: what was claimed is forgotten.
BalanceAlone(r, amount) == ToScaledCeil(FromTokenAmount(amount))

KnownBalance(r, amount) == ToScaledCeil(FromTokenAmount(amount) + r.claimed)

AccruedInfo(r, amount) ==
  IF ~Accrues(r) THEN r
  ELSE [r EXCEPT
          !.last_known = KnownBalance(r, amount),
          !.index = IF Staked > 0 THEN @ + DeltaIndex(Handout(r), Staked) ELSE @,
          !.accounted = IF Staked > 0 THEN @ + ToScaledCeil(Handout(r)) ELSE @,
          !.last_paid = now]

\* Mutant: the user's index is not moved.
AccruedAgain(e, index, stake) ==
  IF index <= e.last_index THEN [e EXCEPT !.exists = TRUE]
  ELSE [e EXCEPT !.exists = TRUE, !.accrued = @
          + ToScaledFloor((FromTokenAmount(stake) * (index - e.last_index)) \div D18)]

\* A user without an account starts at index zero.
AccruedUser(e, index, stake) ==
  IF index <= e.last_index THEN [e EXCEPT !.exists = TRUE]
  ELSE [exists |-> TRUE, last_index |-> index,
        accrued |-> e.accrued
          + ToScaledFloor((FromTokenAmount(stake) * (index - e.last_index)) \div D18)]

InfoAfter(t) == AccruedInfo(info[t], balance[t])
UserAfter(u, t) == AccruedUser(uinfo[u][t], InfoAfter(t).index, Stake(u))

\* History: the stakes of all owners earn what the index grows.
GrowIndex(T) ==
  earned' = [u \in Owners |-> [t \in RewardTokens |->
    IF t \in T
    THEN earned[u][t] + FromTokenAmount(Stake(u)) * (InfoAfter(t).index - info[t].index)
    ELSE earned[u][t]]]

\* accrue_rewards for the tokens T and the users us.
Accrue(us, T) ==
  /\ rt.exists
  /\ T \subseteq Known
  /\ \A t \in T : CanAccrue(info[t])
  /\ info' = [t \in RewardTokens |-> IF t \in T THEN InfoAfter(t) ELSE info[t]]
  /\ uinfo' = [u \in Owners |-> [t \in RewardTokens |->
       IF u \in us /\ t \in T THEN UserAfter(u, t) ELSE uinfo[u][t]]]
  /\ GrowIndex(T)

-----------------------------------------------------------------------------
(* Instructions of users *)

\* Anyone with a record accrues for themselves or for another user too.
AccrueRewards(caller, u, T) ==
  /\ T # {} /\ HasRecord(caller) /\ HasRecord(u)
  /\ Accrue({caller, u}, T)
  /\ UNCHANGED <<realmVars, rt, balance, paid, exceptions>>

\* Mutant: rounded up.
ClaimableCeil(u, t) == (UserAfter(u, t).accrued + D9 - 1) \div D9

\* What whole units of an accrued amount pay.
Claimable(u, t) == ToTokenFloor(UserAfter(u, t).accrued)

ClaimRewards(u, T) ==
  /\ rt.exists /\ T # {} /\ T \subseteq Known /\ HasRecord(u)
  /\ \A t \in T : /\ CanAccrue(info[t])
                  /\ Claimable(u, t) > 0
                  /\ Claimable(u, t) <= balance[t]
  /\ info' = [t \in RewardTokens |-> IF t \in T
       THEN [InfoAfter(t) EXCEPT !.claimed = @ + Claimable(u, t) * D9] ELSE info[t]]
  /\ uinfo' = [uinfo EXCEPT ![u] = [t \in RewardTokens |-> IF t \in T
       THEN [UserAfter(u, t) EXCEPT !.accrued = @ - Claimable(u, t) * D9] ELSE @[t]]]
  /\ balance' = [t \in RewardTokens |->
       IF t \in T THEN balance[t] - Claimable(u, t) ELSE balance[t]]
  /\ paid' = [paid EXCEPT ![u] = [t \in RewardTokens |->
       IF t \in T THEN @[t] + Claimable(u, t) * D9 ELSE @[t]]]
  /\ GrowIndex(T)
  /\ UNCHANGED <<realmVars, rt, exceptions>>

\* The tokens whose index grew since the user's last accrual of them.
Uncredited(u) == {t \in RewardTokens : uinfo[u][t].last_index < info[t].index}

\* Both accrue on the stakes before the tokens move, for the tokens T that are
\* passed: nothing compares them with the registered ones.
DepositAndAccrue(u, amount, minted, T) ==
  /\ Accrue({u}, T)
  /\ DepositGoverningTokens(<<Community, u>>, amount, minted)
  /\ backdated' = backdated \cup ({u} \X (Uncredited(u) \ T))
  /\ UNCHANGED <<rt, balance, paid, misread>>

WithdrawAndAccrue(u, T) ==
  /\ Accrue({u}, T)
  /\ WithdrawGoverningTokens(<<Community, u>>)
  /\ UNCHANGED <<rt, balance, paid, exceptions>>

-----------------------------------------------------------------------------
(* Instructions of the administrator *)

\* Signed by a governance of the realm, which becomes the administrator.
SetRewardsAdmin(s) ==
  /\ s \in govs
  /\ rt' = [rt EXCEPT !.exists = TRUE, !.admin = s]
  /\ UNCHANGED <<realmVars, info, uinfo, balance, earned, paid, exceptions>>

SignedByAdmin(s) == rt.exists /\ s = rt.admin

\* Parts of RewardTokens and RewardInfo that the instructions below set.
CanList(t) ==
  ~info[t].disallowed /\ t \notin rt.list /\ Cardinality(rt.list) < MaxRewardTokens
Unlisted(t) == [rt EXCEPT !.list = @ \ {t}]
RatioOf(halfLife) == LN_2 \div halfLife

\* The balance is stored as it is, unlike the scaled one of an accrual.
NewInfo(amount) == [NoInfo EXCEPT !.exists = TRUE, !.last_paid = now, !.last_known = amount]

\* The account passed is any of the PDA's, not only the associated one that
\* accruals read.
AddRewardToken(s, t, amount) ==
  /\ SignedByAdmin(s)
  /\ CanList(t)
  /\ rt' = [rt EXCEPT !.list = @ \cup {t}]
  /\ info' = [info EXCEPT ![t] = IF @.exists THEN @ ELSE NewInfo(amount)]
  /\ misread' = IF ~info[t].exists /\ amount > balance[t] THEN misread \cup {t} ELSE misread
  /\ UNCHANGED <<realmVars, uinfo, balance, earned, paid, backdated>>

\* The index grows for the last time.
RemoveRewardToken(s, t) ==
  /\ SignedByAdmin(s)
  /\ info[t].exists /\ CanAccrue(info[t])
  /\ t \in rt.list
  /\ rt' = Unlisted(t)
  /\ info' = [info EXCEPT ![t] = [InfoAfter(t) EXCEPT !.disallowed = TRUE]]
  /\ GrowIndex({t})
  /\ UNCHANGED <<realmVars, uinfo, balance, paid, exceptions>>

\* An executor accrues the tokens passed at the old ratio.
InitOrSetRewardRatio(s, executor, T, halfLife) ==
  /\ SignedByAdmin(s)
  /\ T # {} => HasRecord(executor)
  /\ Accrue({executor}, T)
  /\ halfLife \in MinHalfLife..MaxHalfLife
  /\ rt' = [rt EXCEPT !.ratio = RatioOf(halfLife)]
  /\ UNCHANGED <<realmVars, balance, paid, exceptions>>

\* Folio fees and others send tokens to the account of a reward token.
SendRewards(t, amount) ==
  /\ balance[t] + info[t].claimed \div D9 + amount <= MaxPot
  /\ balance' = [balance EXCEPT ![t] = @ + amount]
  /\ UNCHANGED <<realmVars, rt, info, uinfo, earned, paid, exceptions>>

-----------------------------------------------------------------------------
(* The specification *)

Init ==
  /\ RealmInit
  /\ rt = [exists |-> FALSE, admin |-> None, ratio |-> 0, list |-> {}]
  /\ info = [t \in RewardTokens |-> NoInfo]
  /\ uinfo = [u \in Owners |-> [t \in RewardTokens |-> NoUserInfo]]
  /\ balance = [t \in RewardTokens |-> 0]
  /\ earned = [u \in Owners |-> [t \in RewardTokens |-> 0]]
  /\ paid = [u \in Owners |-> [t \in RewardTokens |-> 0]]
  /\ backdated = {}
  /\ misread = {}

RealmStep ==
  \/ Tick
  \/ AddGovernance(RealmAuthority, <<Community, 1>>)
  \/ \E u \in Revocable, amount \in Amounts :
       RevokeGoverningTokens(<<Community, u>>, MintAuthority, amount)

Next ==
  \/ RealmStep /\ UNCHANGED rewardVars
  \/ \E u \in Owners :
       \E T \in SUBSET RewardTokens :
            \/ \E amount \in Amounts : \/ DepositAndAccrue(u, amount, TRUE, T)
                                       \/ DepositAndAccrue(u, amount, FALSE, T)
            \/ WithdrawAndAccrue(u, T)
            \/ ClaimRewards(u, T)
            \/ \E caller \in Owners : AccrueRewards(caller, u, T)
            \/ \E halfLife \in HalfLives :
                 InitOrSetRewardRatio(GovernanceAccount, u, T, halfLife)
  \/ SetRewardsAdmin(GovernanceAccount)
  \/ \E t \in RewardTokens :
       \/ \E amount \in {balance[t]} \cup OtherBalances :
            AddRewardToken(GovernanceAccount, t, amount)
       \/ RemoveRewardToken(GovernanceAccount, t)
       \/ \E amount \in Donations : SendRewards(t, amount)

Spec == Init /\ [][Next]_vars

-----------------------------------------------------------------------------
(* Properties *)

RewardsTypeOK ==
  /\ rt.exists \in BOOLEAN /\ rt.list \subseteq Known
  /\ Cardinality(rt.list) <= MaxRewardTokens
  /\ \A t \in RewardTokens :
       /\ info[t].last_paid \in 0..now /\ info[t].index \in Nat
       /\ info[t].accounted \in Nat /\ info[t].claimed \in Nat
       /\ balance[t] \in 0..MaxPot
       /\ \A u \in Owners :
            /\ uinfo[u][t].last_index \in 0..info[t].index
            /\ uinfo[u][t].accrued \in Nat
  /\ backdated \subseteq Owners \X RewardTokens /\ misread \subseteq Known

\* What a user would be credited with now at the user's present stake.
Pending(u, t) == FromTokenAmount(Stake(u)) * (info[t].index - uinfo[u][t].last_index)

\* All that a user was or could be credited with now, in units of 1 / D18.
Promised(u, t) == D18 * (uinfo[u][t].accrued + paid[u][t]) + Pending(u, t)

\* Users are credited with no more than their stakes earned while the index grew, no
\* matter when they, or others for them, accrued, claimed, deposited or withdrew, and
\* for which tokens: a stake made later earns nothing for earlier growth.  The
\* exception is a deposit that does not accrue a token whose index has grown: its
\* depositor is credited for that token as if the stake had been there all along.
RewardsEarned ==
  \A u \in Owners, t \in RewardTokens :
    <<u, t>> \notin backdated => Promised(u, t) <= earned[u][t]

\* The same without an exception, as the comment on removed reward tokens in
\* RewardInfo::accrue_rewards has it: refuted by a deposit that passes no token.
AllRewardsEarned ==
  \A u \in Owners, t \in RewardTokens : Promised(u, t) <= earned[u][t]

\* The balance accounted for never passes the balance last known, which in turn never
\* passes what was ever received: the checked subtraction of accrue_rewards cannot
\* fail, so no deposit, withdrawal or claim is blocked by it.  The exception is a token
\* that add_reward_token was shown an account with a larger balance of.
AccrualPossible ==
  \A t \in Known \ misread :
    /\ info[t].accounted <= info[t].last_known
    /\ info[t].last_known <= KnownBalance(info[t], balance[t])

\* What users are credited with and could be credited with now is covered by the
\* balance accounted for, up to the rounding of the index: the index grows at most
\* once per second, each time rounded up by at most one per staked base unit.  Only
\* what a backdated stake is promised comes on top.
PromisesCovered ==
  GovUnit = D9 =>
    \A t \in RewardTokens :
      Total([u \in Owners |-> IF <<u, t>> \in backdated THEN 0 ELSE Promised(u, t)], NOwners)
        <= D18 * info[t].accounted + now * MaxSupply * D9

=============================================================================
