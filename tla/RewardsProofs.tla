--------------------------- MODULE RewardsProofs ---------------------------
(***************************************************************************)
(* Theorems about module Rewards for every number of owners and reward     *)
(* tokens, every stake, ratio and amount sent, and every choice of the     *)
(* tokens that callers pass: the accounts keep their types, the checked    *)
(* subtraction of an accrual does not fail, users are credited with what   *)
(* their stakes earned, and the balance accounted for covers it.  What is  *)
(* excepted is in the history variables backdated and misread.             *)
(***************************************************************************)
EXTENDS Rewards, RealmProofs, FiniteSetTheorems

-----------------------------------------------------------------------------
(* Arithmetic *)

LEMMA Scales ==
  /\ D9 \in Nat /\ D9 > 0 /\ D18 \in Nat /\ D18 > 0 /\ D18 = D9 * D9
  /\ GovUnit \in Nat /\ GovUnit > 0
  /\ MaxU64 \in Nat /\ MaxU128 \in Nat /\ MaxPot \in Nat /\ MaxPot <= MaxU64
  /\ MaxU64 <= MaxU128
<1>1. D9 \in Nat /\ D9 > 0 /\ GovUnit \in Nat /\ GovUnit > 0
  BY RewardsAssumption
<1>2. \A a \in Nat : a > 0 => a * a > 0 /\ a * a \in Nat
  OBVIOUS
<1>3. MaxU64 \in Nat /\ MaxU128 \in Nat /\ MaxU64 * D9 <= MaxU128
  BY RewardsAssumption, RealmAssumption
<1>4. \A a, b \in Nat : b > 0 => a <= a * b /\ a * b \in Nat
  OBVIOUS
<1>5. MaxU64 <= MaxU64 * D9 /\ MaxU64 * D9 \in Nat
  BY <1>1, <1>3, <1>4
<1>6. MaxU64 <= MaxU128
  BY <1>3, <1>5
<1>7. MaxPot \in Nat /\ MaxPot <= MaxU64
  BY <1>3, RewardsAssumption
<1> QED BY <1>1, <1>2, <1>3, <1>6, <1>7 DEF D18

\* Products and quotients of naturals are naturals, and truncation loses nothing but
\* the remainder.
LEMMA Quotients ==
  /\ \A a, b \in Nat : a * b \in Nat
  /\ \A a, b \in Nat : b > 0 => a \div b \in Nat /\ (a \div b) * b <= a
OBVIOUS

\* to_scaled, with either rounding, on naturals.
LEMMA Roundings ==
  /\ \A x \in Nat : /\ ToScaledCeil(x) \in Nat /\ ToScaledCeil(x) <= MaxU128
                    /\ ToScaledCeil(x) <= x + 1
                    /\ x <= MaxU128 => x <= ToScaledCeil(x)
  /\ ToScaledCeil(0) = 0
  /\ \A x, y \in Nat : x <= y => ToScaledCeil(x) <= ToScaledCeil(y)
  /\ \A x \in Nat : ToScaledFloor(x) \in Nat /\ ToScaledFloor(x) <= x
  /\ \A x \in Nat : ToTokenFloor(x) \in Nat /\ ToTokenFloor(x) * D9 <= x
<1>1. /\ \A x \in Nat : x % D18 \in Nat
      /\ 0 % D18 = 0
  BY Scales
<1>2. ASSUME NEW x \in Nat
      PROVE  /\ ToScaledCeil(x) \in Nat /\ ToScaledCeil(x) <= MaxU128
             /\ ToScaledCeil(x) <= x + 1
             /\ x <= MaxU128 => x <= ToScaledCeil(x)
             /\ ToScaledFloor(x) \in Nat /\ ToScaledFloor(x) <= x
  BY Scales DEF ToScaledCeil, ToScaledFloor, SatU128
<1>3. ToScaledCeil(0) = 0
  BY <1>1, Scales DEF ToScaledCeil, SatU128
<1>4. ASSUME NEW x \in Nat, NEW y \in Nat, x <= y
      PROVE  ToScaledCeil(x) <= ToScaledCeil(y)
  BY <1>4, Scales DEF ToScaledCeil, SatU128
<1>5. ASSUME NEW x \in Nat PROVE ToTokenFloor(x) \in Nat /\ ToTokenFloor(x) * D9 <= x
  <2> DEFINE q == x \div D9
             p == ToTokenFloor(x)
  <2>1. q \in Nat /\ q * D9 <= x
    BY Quotients, Scales
  <2>2. p \in Nat /\ p <= q
    BY <2>1, Scales DEF ToTokenFloor, SatU64
  <2> HIDE DEF p, q
  <2>3. \A a, b, c \in Nat : a <= b => a * c <= b * c /\ a * c \in Nat /\ b * c \in Nat
    OBVIOUS
  <2>4. p * D9 <= q * D9 /\ p * D9 \in Nat /\ q * D9 \in Nat
    BY <2>1, <2>2, <2>3, Scales
  <2>5. p \in Nat /\ p * D9 <= x
    BY <2>1, <2>2, <2>4
  <2> QED BY <2>5 DEF p
<1> QED BY <1>2, <1>3, <1>4, <1>5

\* The handout is less than the balance not yet accounted for, by so much that its
\* rounding up still fits.
LEMMA HandoutFits ==
  ASSUME NEW unaccounted \in Nat, NEW decayed \in 0..(D18 - 1)
  PROVE  LET handout == (unaccounted * (D18 - decayed - 1)) \div D18
         IN  handout \in Nat /\ handout <= unaccounted /\ ToScaledCeil(handout) <= unaccounted
<1> DEFINE part == D18 - decayed - 1
           handout == (unaccounted * part) \div D18
<1>1. part \in Nat /\ part < D18
  BY Scales
<1>2. unaccounted * part \in Nat
  BY <1>1, Quotients
<1>3. handout \in Nat /\ handout * D18 <= unaccounted * part
  BY <1>2, Scales, Quotients
<1> HIDE DEF part, handout
<1>4. CASE unaccounted = 0
  <2>1. \A a, b \in Nat : b > 0 /\ a * b <= 0 => a = 0
    OBVIOUS
  <2>2. unaccounted * part = 0
    BY <1>1, <1>4
  <2>3. handout = 0
    BY <1>3, <2>1, <2>2, Scales
  <2> QED BY <1>4, <2>3, Roundings DEF handout, part
<1>5. CASE unaccounted > 0
  <2>1. \A a, b, c \in Nat : a > 0 /\ b < c => a * b < a * c
    OBVIOUS
  <2>2. unaccounted * part < unaccounted * D18 /\ unaccounted * D18 \in Nat
    BY <1>1, <1>5, <2>1, Scales, Quotients
  <2>3. handout * D18 < unaccounted * D18 /\ handout * D18 \in Nat
    BY <1>2, <1>3, <2>2, Scales, Quotients
  <2>4. \A a, b, c \in Nat : a * c < b * c => a < b
    OBVIOUS
  <2>5. handout < unaccounted
    BY <1>3, <2>3, <2>4, Scales
  <2>6. ToScaledCeil(handout) \in Nat /\ ToScaledCeil(handout) <= handout + 1
    BY <1>3, Roundings
  <2>7. handout \in Nat /\ handout <= unaccounted /\ ToScaledCeil(handout) <= unaccounted
    BY <1>3, <2>5, <2>6
  <2> QED BY <2>7 DEF handout, part
<1> QED BY <1>4, <1>5

\* What the index grows, times the stakes, is what is handed out and at most one unit
\* per staked token.
LEMMA DeltaIndexBound ==
  ASSUME NEW handout \in Nat, NEW staked \in Nat, staked > 0
  PROVE  /\ DeltaIndex(handout, staked) \in Nat
         /\ staked * DeltaIndex(handout, staked) <= handout * GovUnit + staked
<1> DEFINE n == D18 * handout * GovUnit
           q == n \div staked
           p == q \div D18
           d == DeltaIndex(handout, staked)
<1>1. D18 * handout \in Nat /\ n \in Nat
  <2>1. D18 * handout \in Nat
    BY Scales, Quotients
  <2> QED BY <2>1, Scales, Quotients
<1>2. staked # 0 /\ q \in Nat /\ q * staked <= n
  <2> HIDE DEF n
  <2>1. staked > 0
    OBVIOUS
  <2> QED BY <1>1, <2>1, Quotients
<1>3. p \in Nat /\ p * D18 <= q
  <2> HIDE DEF q
  <2> QED BY <1>2, Scales, Quotients
<1>4. d \in Nat /\ d <= p + 1
  <2>1. d = ToScaledCeil(p)
    BY DEF DeltaIndex
  <2> HIDE DEF d, p
  <2> QED BY <1>3, <2>1, Roundings
<1>5. n = (handout * GovUnit) * D18
  BY Scales
<1> HIDE DEF n, q, p, d
<1>6. \A a, b, c \in Nat : a <= b => a * c <= b * c
  OBVIOUS
<1>7. (p * D18) * staked <= q * staked
  BY <1>2, <1>3, <1>6, Scales, Quotients
<1>8. (p * staked) * D18 <= (handout * GovUnit) * D18
  <2>1. (p * D18) * staked = (p * staked) * D18
    BY <1>3, Scales
  <2>2. (p * D18) * staked \in Nat /\ q * staked \in Nat
    BY <1>2, <1>3, Scales, Quotients
  <2> QED BY <1>1, <1>2, <1>5, <1>7, <2>1, <2>2
<1>9. p * staked <= handout * GovUnit
  <2>1. \A a, b, c \in Nat : c > 0 /\ a * c <= b * c => a <= b
    OBVIOUS
  <2>2. p * staked \in Nat /\ handout * GovUnit \in Nat
    BY <1>3, Scales, Quotients
  <2> QED BY <1>8, <2>1, <2>2, Scales
<1>10. d * staked <= (p + 1) * staked /\ (p + 1) * staked = p * staked + staked
  BY <1>3, <1>4, <1>6
<1>11. d * staked \in Nat /\ p * staked \in Nat /\ handout * GovUnit \in Nat
  BY <1>3, <1>4, Scales, Quotients
<1>12. d * staked <= handout * GovUnit + staked
  BY <1>9, <1>10, <1>11
<1>13. staked * d = d * staked
  BY <1>4
<1> QED BY <1>4, <1>12, <1>13 DEF d

-----------------------------------------------------------------------------
(* Types *)

InfoRecord ==
  [exists : BOOLEAN, last_paid : Nat, index : Nat, accounted : Nat,
   last_known : 0..MaxU128, claimed : Nat, disallowed : BOOLEAN]

UserRecord == [exists : BOOLEAN, last_index : Nat, accrued : Nat]

TokensRecord ==
  [exists : BOOLEAN, admin : {GovernanceAccount, None}, ratio : Nat,
   list : SUBSET RewardTokens]

AccountTypes ==
  /\ rt \in TokensRecord
  /\ info \in [RewardTokens -> InfoRecord]
  /\ uinfo \in [Owners -> [RewardTokens -> UserRecord]]
  /\ balance \in [RewardTokens -> 0..MaxPot]
  /\ earned \in [Owners -> [RewardTokens -> Nat]]
  /\ paid \in [Owners -> [RewardTokens -> Nat]]
  /\ backdated \subseteq Owners \X RewardTokens /\ misread \subseteq RewardTokens

\* The list of reward tokens names accounts that exist.
ListTypes ==
  /\ IsFiniteSet(rt.list) /\ rt.list \subseteq Known
  /\ Cardinality(rt.list) <= MaxRewardTokens

\* One reward token: its index grows with the clock, no user is ahead of it, and its
\* account accounts for no more than it knows of, which is no more than there was,
\* unless it began with the balance of another account.
TokenSound(t) ==
  /\ info[t].last_paid <= now
  /\ ~info[t].exists => info[t] = NoInfo /\ t \notin misread
  /\ \A u \in Owners : uinfo[u][t].last_index <= info[t].index
  /\ t \notin misread => /\ info[t].accounted <= info[t].last_known
                        /\ info[t].last_known <= KnownBalance(info[t], balance[t])

\* All that stakes have earned is covered by the balance accounted for, up to one unit
\* per staked token and second, however long the token has been accruing.
EarnedCovered(t) ==
  GovUnit = D9 =>
    Total([u \in Owners |-> earned[u][t]], NOwners)
      <= D18 * info[t].accounted + info[t].last_paid * (MaxSupply * D9)

\* The inductive invariant.
RewardsInv ==
  /\ RealmTypes /\ Backed
  /\ AccountTypes /\ ListTypes
  /\ \A t \in RewardTokens : TokenSound(t) /\ EarnedCovered(t)

LEMMA NowNat == RealmTypes => now \in Nat
BY RealmNumbers DEF RealmTypes

\* Stakes are natural numbers and together at most what the holding account has.
LEMMA StakeTypes ==
  ASSUME RealmTypes, Backed
  PROVE  /\ \A u \in Owners : Stake(u) \in Nat
         /\ [u \in Owners |-> Stake(u)] \in [1..NOwners -> Nat]
         /\ Staked \in Nat /\ Staked <= MaxSupply
         /\ Total([u \in Owners |-> Stake(u)], NOwners) <= Staked
<1>1. RecordTypes /\ Community \in GoverningMints
  BY DEF RealmTypes, GoverningMints
<1>2. \A u \in Owners : Stake(u) \in Nat
  BY <1>1, DepositedNat, Zenon DEF Stake
<1>3. [u \in Owners |-> Stake(u)] = [o \in Owners |-> tor[Community, o].deposit]
  BY DEF Stake
<1>4. Total([u \in Owners |-> Stake(u)], NOwners) = Deposited(Community)
  BY <1>3 DEF Deposited
<1>5. Staked \in Nat /\ Staked <= MaxSupply
  BY <1>1, RealmNumbers DEF RealmTypes, BalanceTypes, Staked
<1> QED BY <1>1, <1>2, <1>4, <1>5, RealmNumbers DEF Backed, Staked

-----------------------------------------------------------------------------
(* One accrual *)

\* What an accrual leaves of a reward token's account.
GrownFrom(r, t) ==
  /\ r \in InfoRecord
  /\ r.exists = info[t].exists /\ r.disallowed = info[t].disallowed
  /\ r.claimed = info[t].claimed
  /\ info[t].index <= r.index
  /\ r.last_paid <= now /\ info[t].last_paid <= r.last_paid
  /\ info[t].accounted <= r.accounted
  /\ t \notin misread => /\ r.accounted <= r.last_known
                        /\ r.last_known <= KnownBalance(r, balance[t])
  /\ GovUnit = D9 =>
       Staked * (r.index - info[t].index) * D9
         <= D18 * (r.accounted - info[t].accounted)
              + (r.last_paid - info[t].last_paid) * (MaxSupply * D9)

LEMMA KnownBalanceType ==
  ASSUME NEW r \in InfoRecord, NEW b \in Nat
  PROVE  /\ KnownBalance(r, b) \in Nat /\ KnownBalance(r, b) <= MaxU128
         /\ b * D9 + r.claimed \in Nat
<1>1. r.claimed \in Nat
  BY DEF InfoRecord
<1>2. b * D9 + r.claimed \in Nat
  BY <1>1, Scales, Quotients
<1> QED BY <1>2, Roundings DEF KnownBalance, FromTokenAmount

\* An account that does not accrue grows by nothing.
LEMMA NoGrowth ==
  ASSUME RewardsInv, NEW t \in RewardTokens
  PROVE  GrownFrom(info[t], t)
<1> DEFINE r == info[t]
<1>1. /\ r \in InfoRecord /\ r.last_paid <= now
      /\ t \notin misread => /\ r.accounted <= r.last_known
                            /\ r.last_known <= KnownBalance(r, balance[t])
  BY DEF RewardsInv, AccountTypes, TokenSound
<1>2. r.last_paid \in Nat /\ r.index \in Nat /\ r.accounted \in Nat
  BY <1>1 DEF InfoRecord
<1>3. Staked \in Nat /\ MaxSupply * D9 \in Nat
  BY StakeTypes, RealmNumbers, Scales, Quotients DEF RewardsInv
<1>4. /\ r.index - r.index = 0 /\ r.accounted - r.accounted = 0
      /\ r.last_paid - r.last_paid = 0
  BY <1>2
<1>5. Staked * 0 * D9 <= D18 * 0 + 0 * (MaxSupply * D9)
  BY <1>3, Scales
<1>6. Staked * (r.index - r.index) * D9
        <= D18 * (r.accounted - r.accounted)
             + (r.last_paid - r.last_paid) * (MaxSupply * D9)
  BY <1>4, <1>5
<1> QED BY <1>1, <1>2, <1>6 DEF GrownFrom

\* An accrual that the code allows.
LEMMA AccrualGrows ==
  ASSUME RewardsInv, NEW t \in RewardTokens, CanAccrue(info[t])
  PROVE  GrownFrom(InfoAfter(t), t)
<1> DEFINE r == info[t]
           unaccounted == r.last_known - r.accounted
           handout == Handout(r)
           delta == DeltaIndex(handout, Staked)
           known == KnownBalance(r, balance[t])
<1>1. /\ r \in InfoRecord /\ balance[t] \in Nat /\ r.last_paid <= now
      /\ t \notin misread => r.accounted <= r.last_known /\ r.last_known <= known
  BY Scales DEF RewardsInv, AccountTypes, TokenSound
<1>2. /\ r.last_paid \in Nat /\ r.index \in Nat /\ r.accounted \in Nat
      /\ r.last_known \in Nat /\ r.last_known <= MaxU128 /\ r.claimed \in Nat
  BY <1>1, Scales DEF InfoRecord
<1>3. now \in Nat /\ Staked \in Nat /\ Staked <= MaxSupply /\ MaxSupply \in Nat
  BY NowNat, StakeTypes, RealmNumbers DEF RewardsInv
<1>4. MaxSupply * D9 \in Nat
  BY <1>3, Scales, Quotients
<1>5. CASE ~Accrues(r)
  <2>1. InfoAfter(t) = r
    BY <1>5 DEF InfoAfter, AccruedInfo
  <2> QED BY <2>1, NoGrowth
<1>6. CASE Accrues(r)
  <2>1. now > r.last_paid /\ Decayed(r) \in 0..(D18 - 1) /\ r.last_known >= r.accounted
    BY <1>6 DEF Accrues, CanAccrue
  <2>2. unaccounted \in Nat
    BY <1>2, <2>1
  <2>3. /\ handout \in Nat /\ handout <= unaccounted
        /\ ToScaledCeil(handout) <= unaccounted /\ ToScaledCeil(handout) \in Nat
        /\ handout <= ToScaledCeil(handout)
    <3> HIDE DEF unaccounted
    <3>1. handout = (unaccounted * (D18 - Decayed(r) - 1)) \div D18
      BY DEF Handout, HandoutPercentage, unaccounted
    <3>2. handout \in Nat /\ handout <= unaccounted /\ ToScaledCeil(handout) <= unaccounted
      BY <2>1, <2>2, <3>1, HandoutFits
    <3>3. unaccounted <= MaxU128
      BY <1>2, <2>2, Scales DEF unaccounted
    <3>4. handout <= MaxU128
      BY <2>2, <3>2, <3>3, Scales
    <3> QED BY <3>2, <3>4, Roundings
  <2> DEFINE grown == IF Staked > 0 THEN delta ELSE 0
             more == IF Staked > 0 THEN ToScaledCeil(handout) ELSE 0
  <2>4. InfoAfter(t) = [r EXCEPT !.last_known = known, !.index = r.index + grown,
                                 !.accounted = r.accounted + more, !.last_paid = now]
    <3>1. r.index = r.index + 0 /\ r.accounted = r.accounted + 0
      BY <1>2
    <3>2. InfoAfter(t) =
            [r EXCEPT !.last_known = known,
                      !.index = IF Staked > 0 THEN r.index + delta ELSE r.index,
                      !.accounted = IF Staked > 0 THEN r.accounted + ToScaledCeil(handout)
                                                  ELSE r.accounted,
                      !.last_paid = now]
      BY <1>6 DEF InfoAfter, AccruedInfo
    <3> HIDE DEF r, delta, handout, known
    <3> QED BY <3>1, <3>2
  <2>5. Staked > 0 => delta \in Nat /\ Staked * delta <= handout * GovUnit + Staked
    <3> HIDE DEF handout
    <3> QED BY <1>3, <2>3, DeltaIndexBound
  <2>6. known \in Nat /\ known <= MaxU128
    BY <1>1, KnownBalanceType
  <2> HIDE DEF delta, handout, known
  <2>7. grown \in Nat /\ more \in Nat /\ more <= unaccounted
    BY <2>2, <2>3, <2>5
  <2>8. GovUnit = D9 => Staked * grown * D9 <= D18 * more + (now - r.last_paid) * (MaxSupply * D9)
    <3> SUFFICES ASSUME GovUnit = D9
                 PROVE  Staked * grown * D9
                          <= D18 * more + (now - r.last_paid) * (MaxSupply * D9)
      OBVIOUS
    <3>1. \A a, b \in Nat : b > 0 => a <= b * a
      OBVIOUS
    <3>2. now - r.last_paid \in Nat /\ now - r.last_paid > 0
      BY <1>2, <1>3, <2>1
    <3>3. /\ MaxSupply * D9 <= (now - r.last_paid) * (MaxSupply * D9)
          /\ (now - r.last_paid) * (MaxSupply * D9) \in Nat
      BY <1>4, <3>1, <3>2, Quotients
    <3>4. D18 * more \in Nat
      BY <2>7, Scales, Quotients
    <3>5. CASE Staked > 0
      <4>1. grown = delta /\ more = ToScaledCeil(handout)
        BY <3>5
      <4>2. delta \in Nat /\ Staked * delta <= handout * D9 + Staked
        BY <2>5, <3>5
      <4>3. \A a, b, c \in Nat : a <= b => a * c <= b * c
        OBVIOUS
      <4>4. Staked * delta \in Nat /\ handout * D9 \in Nat
        BY <1>3, <2>3, <4>2, Scales, Quotients
      <4>5. (Staked * delta) * D9 <= (handout * D9 + Staked) * D9
        BY <1>3, <4>2, <4>3, <4>4, Scales
      <4>6. (handout * D9 + Staked) * D9 = handout * D18 + Staked * D9
        BY <1>3, <2>3, Scales
      <4>7. handout * D18 <= D18 * ToScaledCeil(handout)
        <5>1. handout * D18 <= ToScaledCeil(handout) * D18
          BY <2>3, <4>3, Scales
        <5> QED BY <2>3, <5>1, Scales
      <4>8. Staked * D9 <= MaxSupply * D9
        BY <1>3, <4>3, Scales
      <4>9. /\ (Staked * delta) * D9 \in Nat /\ handout * D18 \in Nat
            /\ Staked * D9 \in Nat /\ D18 * ToScaledCeil(handout) \in Nat
        BY <1>3, <2>3, <4>4, Scales, Quotients
      <4>10. (Staked * delta) * D9 <= D18 * ToScaledCeil(handout)
                                        + (now - r.last_paid) * (MaxSupply * D9)
        BY <1>4, <3>3, <4>5, <4>6, <4>7, <4>8, <4>9
      <4> QED BY <4>1, <4>10
    <3>6. CASE ~(Staked > 0)
      <4>1. Staked * grown * D9 = 0
        BY <1>3, <3>6, Scales
      <4>2. more = 0
        BY <3>6
      <4>3. D18 * more = 0
        BY <4>2, Scales
      <4> QED BY <3>3, <4>1, <4>3
    <3> QED BY <3>5, <3>6
  <2> HIDE DEF grown, more, unaccounted
  <2> DEFINE s == InfoAfter(t)
  <2>9. /\ s \in InfoRecord /\ s.exists = r.exists /\ s.disallowed = r.disallowed
        /\ s.claimed = r.claimed /\ s.index = r.index + grown /\ s.last_paid = now
        /\ s.accounted = r.accounted + more /\ s.last_known = known
    <3>1. /\ r.index + grown \in Nat /\ r.accounted + more \in Nat
          /\ known \in 0..MaxU128 /\ now \in Nat
      BY <1>2, <1>3, <2>6, <2>7, Scales
    <3> HIDE DEF r
    <3>2. r \in InfoRecord
      BY <1>1
    <3> QED BY <2>4, <3>1, <3>2 DEF InfoRecord, s
  <2>10. KnownBalance(s, balance[t]) = known
    BY <2>9 DEF KnownBalance, known
  <2> HIDE DEF s
  <2>11. t \notin misread => s.accounted <= known
    BY <1>1, <1>2, <2>6, <2>7, <2>9 DEF unaccounted
  <2>12. /\ s.index - r.index = grown /\ s.accounted - r.accounted = more
         /\ s.last_paid - r.last_paid = now - r.last_paid
    BY <1>2, <1>3, <2>7, <2>9
  <2>13. GovUnit = D9 => Staked * (s.index - r.index) * D9
           <= D18 * (s.accounted - r.accounted)
                + (s.last_paid - r.last_paid) * (MaxSupply * D9)
    BY <2>8, <2>12
  <2>14. GrownFrom(s, t)
    BY <1>1, <1>2, <1>3, <2>6, <2>7, <2>9, <2>10, <2>11, <2>13 DEF GrownFrom
  <2> QED BY <2>14 DEF s
<1> QED BY <1>5, <1>6

-----------------------------------------------------------------------------
(* One reward token in a step *)

\* What the stakes of the owner u earn when the index of token t grows to that of r.
GrowthEarned(r, t, u) == FromTokenAmount(Stake(u)) * (r.index - info[t].index)

\* A step takes token t from its account now to r: its account is r but for what was
\* claimed and whether it is disallowed, nothing that was known of is lost, users are
\* moved to the new index or not at all, and the stakes earn the growth.
TokenStep(r, t) ==
  /\ GrownFrom(r, t)
  /\ (t \in misread') = (t \in misread)
  /\ ~info[t].exists => r = info[t] /\ info'[t] = info[t]
  /\ info'[t].exists = r.exists
  /\ info'[t].last_paid = r.last_paid /\ info'[t].index = r.index
  /\ info'[t].accounted = r.accounted /\ info'[t].last_known = r.last_known
  /\ KnownBalance(r, balance[t]) <= KnownBalance(info'[t], balance'[t])
  /\ \A u \in Owners :
       /\ uinfo'[u][t].last_index \in {uinfo[u][t].last_index, r.index}
       /\ earned'[u][t] = earned[u][t] + GrowthEarned(r, t, u)

LEMMA GrowthNat ==
  ASSUME RewardsInv, NEW t \in RewardTokens, NEW r, GrownFrom(r, t), NEW u \in Owners
  PROVE  GrowthEarned(r, t, u) \in Nat /\ r.index - info[t].index \in Nat
<1>1. Stake(u) \in Nat
  BY StakeTypes DEF RewardsInv
<1>2. r.index \in Nat /\ info[t].index \in Nat /\ info[t].index <= r.index
  BY DEF GrownFrom, InfoRecord, RewardsInv, AccountTypes
<1>3. r.index - info[t].index \in Nat
  BY <1>2
<1>4. FromTokenAmount(Stake(u)) \in Nat
  BY <1>1, Scales, Quotients DEF FromTokenAmount
<1> QED BY <1>3, <1>4, Quotients DEF GrowthEarned

\* A step of its token keeps an account sound.
LEMMA TokenSoundStep ==
  ASSUME RewardsInv, RealmTypes', AccountTypes', now <= now',
         NEW t \in RewardTokens, NEW r, TokenStep(r, t)
  PROVE  TokenSound(t)'
<1>1. GrownFrom(r, t) /\ r \in InfoRecord
  BY DEF TokenStep, GrownFrom
<1>2. now \in Nat /\ now' \in Nat
  BY RealmNumbers DEF RewardsInv, RealmTypes
<1>3. /\ r.last_paid \in Nat /\ r.index \in Nat /\ r.accounted \in Nat /\ r.last_known \in Nat
      /\ r.last_paid <= now
      /\ t \notin misread => /\ r.accounted <= r.last_known
                            /\ r.last_known <= KnownBalance(r, balance[t])
  BY <1>1, Scales DEF InfoRecord, GrownFrom
<1>4. info'[t].last_paid <= now'
  BY <1>2, <1>3 DEF TokenStep
<1>5. ~info'[t].exists => info'[t] = NoInfo /\ t \notin misread'
  BY <1>1 DEF TokenStep, GrownFrom, RewardsInv, TokenSound
<1>6. ASSUME NEW u \in Owners PROVE uinfo'[u][t].last_index <= info'[t].index
  <2>1. uinfo[u][t].last_index <= info[t].index /\ info[t].index <= r.index
    BY <1>1 DEF RewardsInv, TokenSound, GrownFrom
  <2>2. uinfo[u][t].last_index \in Nat /\ info[t].index \in Nat
    BY DEF RewardsInv, AccountTypes, UserRecord, InfoRecord
  <2>3. uinfo'[u][t].last_index \in {uinfo[u][t].last_index, r.index}
    BY DEF TokenStep
  <2>4. info'[t].index = r.index
    BY DEF TokenStep
  <2> QED BY <1>3, <2>1, <2>2, <2>3, <2>4
<1>7. t \notin misread' => info'[t].accounted <= info'[t].last_known
  BY <1>3 DEF TokenStep
<1>8. t \notin misread' => info'[t].last_known <= KnownBalance(info'[t], balance'[t])
  <2>1. KnownBalance(r, balance[t]) <= KnownBalance(info'[t], balance'[t])
    BY DEF TokenStep
  <2>2. info'[t] \in InfoRecord /\ balance[t] \in Nat /\ balance'[t] \in Nat
    BY Scales DEF RewardsInv, AccountTypes
  <2>3. KnownBalance(r, balance[t]) \in Nat /\ KnownBalance(info'[t], balance'[t]) \in Nat
    BY <1>1, <2>2, KnownBalanceType
  <2>4. info'[t].last_known = r.last_known /\ (t \notin misread' => t \notin misread)
    BY DEF TokenStep
  <2> QED BY <1>3, <2>1, <2>3, <2>4
<1> QED BY <1>4, <1>5, <1>6, <1>7, <1>8 DEF TokenSound

\* What all stakes earn by one growth of an index is what its account accounts for,
\* and the rounding.
LEMMA AllEarn ==
  ASSUME RewardsInv, NEW t \in RewardTokens, NEW r, GrownFrom(r, t), GovUnit = D9
  PROVE  /\ [u \in Owners |-> GrowthEarned(r, t, u)] \in [1..NOwners -> Nat]
         /\ Total([u \in Owners |-> GrowthEarned(r, t, u)], NOwners)
              <= D18 * (r.accounted - info[t].accounted)
                   + (r.last_paid - info[t].last_paid) * (MaxSupply * D9)
<1> DEFINE g == [u \in Owners |-> GrowthEarned(r, t, u)]
           f == [u \in Owners |-> Stake(u)]
           d == r.index - info[t].index
           a == D9 * d
<1>1. NOwners \in Nat /\ Owners = 1..NOwners
  BY RealmNumbers
<1>2. \A u \in Owners : Stake(u) \in Nat
  BY StakeTypes DEF RewardsInv
<1>3. /\ f \in [1..NOwners -> Nat] /\ Staked \in Nat
      /\ Total(f, NOwners) <= Staked /\ Total(f, NOwners) \in Nat
  BY <1>1, StakeTypes, TotalNat DEF RewardsInv
<1>4. g \in [1..NOwners -> Nat]
  BY <1>1, GrowthNat
<1>5. d \in Nat
  BY DEF GrownFrom, InfoRecord, RewardsInv, AccountTypes
<1>6. a \in Nat
  BY <1>5, Scales, Quotients
<1>7. ASSUME NEW u \in 1..NOwners PROVE g[u] * 1 <= a * f[u]
  <2>1. g[u] = (Stake(u) * D9) * d /\ f[u] = Stake(u) /\ Stake(u) \in Nat
    BY <1>1, <1>2 DEF GrowthEarned, FromTokenAmount
  <2> HIDE DEF g, f, d
  <2>2. \A x, y, z \in Nat : ((x * y) * z) * 1 <= (y * z) * x
    OBVIOUS
  <2> QED BY <1>5, <2>1, <2>2, Scales
<1> HIDE DEF g, f
<1>8. Total(g, NOwners) * 1 <= a * Total(f, NOwners)
  <2> HIDE DEF a
  <2>1. 1 \in Nat
    OBVIOUS
  <2> QED BY <1>1, <1>3, <1>4, <1>6, <1>7, <2>1, TotalWeighted
<1>9. a * Total(f, NOwners) <= Staked * d * D9
  <2>1. \A x, y, z \in Nat : x <= y => z * x <= z * y
    OBVIOUS
  <2>2. a * Total(f, NOwners) <= a * Staked
    BY <1>3, <1>6, <2>1
  <2> HIDE DEF d
  <2>3. a * Staked = Staked * d * D9
    BY <1>3, <1>5, Scales
  <2> QED BY <2>2, <2>3
<1>10. /\ Total(g, NOwners) \in Nat
       /\ a * Total(f, NOwners) \in Nat /\ Staked * d * D9 \in Nat
  <2> HIDE DEF d, a
  <2> QED BY <1>1, <1>3, <1>4, <1>5, <1>6, TotalNat, Scales, Quotients
<1>11. Staked * d * D9 <= D18 * (r.accounted - info[t].accounted)
                            + (r.last_paid - info[t].last_paid) * (MaxSupply * D9)
  BY DEF GrownFrom
<1> DEFINE bound == D18 * (r.accounted - info[t].accounted)
                      + (r.last_paid - info[t].last_paid) * (MaxSupply * D9)
<1>12. bound \in Int
  <2>1. /\ r.accounted - info[t].accounted \in Int
        /\ r.last_paid - info[t].last_paid \in Int
    BY DEF GrownFrom, InfoRecord, RewardsInv, AccountTypes
  <2>2. MaxSupply * D9 \in Nat
    BY RealmNumbers, Scales, Quotients
  <2>3. \A x, y \in Int : x * y \in Int
    OBVIOUS
  <2> QED BY <2>1, <2>2, <2>3, Scales
<1>13. Total(g, NOwners) <= bound
  <2> HIDE DEF bound, d, a
  <2>1. Staked * d * D9 <= bound
    BY <1>11 DEF bound, d
  <2> QED BY <1>8, <1>9, <1>10, <1>12, <2>1
<1> QED BY <1>4, <1>13 DEF g

LEMMA EarnedCoveredStep ==
  ASSUME RewardsInv, RealmTypes', AccountTypes', NEW t \in RewardTokens, NEW r,
         TokenStep(r, t)
  PROVE  EarnedCovered(t)'
<1> SUFFICES ASSUME GovUnit = D9
             PROVE  Total([u \in Owners |-> earned'[u][t]], NOwners)
                      <= D18 * info'[t].accounted + info'[t].last_paid * (MaxSupply * D9)
  BY DEF EarnedCovered
<1> DEFINE e == [u \in Owners |-> earned[u][t]]
           g == [u \in Owners |-> GrowthEarned(r, t, u)]
           h == [u \in Owners |-> earned'[u][t]]
           w == MaxSupply * D9
<1>1. NOwners \in Nat /\ Owners = 1..NOwners
  BY RealmNumbers
<1>2. e \in [1..NOwners -> Nat] /\ h \in [1..NOwners -> Nat]
  BY <1>1 DEF RewardsInv, AccountTypes
<1>3. /\ g \in [1..NOwners -> Nat]
      /\ Total(g, NOwners) <= D18 * (r.accounted - info[t].accounted)
                                + (r.last_paid - info[t].last_paid) * w
  BY AllEarn DEF TokenStep
<1>4. \A u \in 1..NOwners : h[u] = e[u] + g[u]
  BY <1>1 DEF TokenStep
<1>5. Total(e, NOwners) <= D18 * info[t].accounted + info[t].last_paid * w
  BY DEF RewardsInv, EarnedCovered
<1> HIDE DEF e, g, h
<1>6. Total(h, NOwners) = Total(e, NOwners) + Total(g, NOwners)
  BY <1>1, <1>2, <1>3, <1>4, TotalSum
<1>7. /\ Total(e, NOwners) \in Nat /\ Total(g, NOwners) \in Nat
  BY <1>1, <1>2, <1>3, TotalNat
<1>8. w \in Nat
  BY RealmNumbers, Scales, Quotients
<1> HIDE DEF w
<1>9. /\ r.accounted \in Nat /\ r.last_paid \in Nat
      /\ info[t].accounted \in Nat /\ info[t].last_paid \in Nat
  BY DEF TokenStep, GrownFrom, InfoRecord, RewardsInv, AccountTypes
<1>10. /\ D18 * (r.accounted - info[t].accounted)
            = D18 * r.accounted - D18 * info[t].accounted
       /\ (r.last_paid - info[t].last_paid) * w = r.last_paid * w - info[t].last_paid * w
  BY <1>8, <1>9, Scales
<1>11. /\ D18 * r.accounted \in Nat /\ D18 * info[t].accounted \in Nat
       /\ r.last_paid * w \in Nat /\ info[t].last_paid * w \in Nat
  BY <1>8, <1>9, Scales, Quotients
<1>12. Total(h, NOwners) <= D18 * r.accounted + r.last_paid * w
  BY <1>3, <1>5, <1>6, <1>7, <1>10, <1>11
<1>13. info'[t].accounted = r.accounted /\ info'[t].last_paid = r.last_paid
  BY DEF TokenStep
<1> QED BY <1>12, <1>13 DEF h, w

-----------------------------------------------------------------------------
(* One user in a step *)

\* Users are credited with no more than their stakes earned: a part of RewardsEarned.
CreditFits(u, t) ==
  D18 * (uinfo[u][t].accrued + paid[u][t]) + Pending(u, t) <= earned[u][t]

\* Accruing moves a user to the new index and credits, rounded down, what the user's
\* stake earned since the last accrual.
Credited(n, r, u, t) ==
  /\ n \in UserRecord
  /\ n.last_index = r.index
  /\ D18 * n.accrued <= D18 * uinfo[u][t].accrued
                          + FromTokenAmount(Stake(u)) * (r.index - uinfo[u][t].last_index)

LEMMA UserCredit ==
  ASSUME RewardsInv, NEW u \in Owners, NEW t \in RewardTokens, GrownFrom(InfoAfter(t), t)
  PROVE  Credited(UserAfter(u, t), InfoAfter(t), u, t)
<1> DEFINE e == uinfo[u][t]
           r == InfoAfter(t)
           s == FromTokenAmount(Stake(u))
           d == r.index - e.last_index
           c == ToScaledFloor((s * d) \div D18)
<1>1. /\ e \in UserRecord /\ e.last_index \in Nat /\ e.accrued \in Nat
      /\ r.index \in Nat /\ e.last_index <= r.index
  <2>1. e \in UserRecord /\ e.last_index <= info[t].index /\ info[t].index \in Nat
    BY DEF RewardsInv, AccountTypes, TokenSound, InfoRecord
  <2>2. r.index \in Nat /\ info[t].index <= r.index
    BY DEF GrownFrom, InfoRecord
  <2> HIDE DEF r
  <2> QED BY <2>1, <2>2 DEF UserRecord
<1>2. s \in Nat
  BY StakeTypes, Scales, Quotients DEF RewardsInv, FromTokenAmount
<1>3. UserAfter(u, t) = IF r.index <= e.last_index THEN [e EXCEPT !.exists = TRUE]
                        ELSE [exists |-> TRUE, last_index |-> r.index,
                              accrued |-> e.accrued + c]
  BY DEF UserAfter, AccruedUser
<1>4. d \in Nat
  BY <1>1
<1>5. s * d \in Nat
  BY <1>2, <1>4, Quotients
<1>6. c \in Nat /\ D18 * c <= s * d
  <2> DEFINE n == s * d
             q == n \div D18
  <2>1. q \in Nat /\ q * D18 <= n
    <3> HIDE DEF n
    <3> QED BY <1>5, Scales, Quotients DEF n
  <2>2. c = ToScaledFloor(q)
    OBVIOUS
  <2> HIDE DEF q, c, n
  <2>3. c \in Nat /\ c <= q
    BY <2>1, <2>2, Roundings
  <2>4. \A x, y, z \in Nat : x <= y => z * x <= y * z
    OBVIOUS
  <2>5. D18 * c <= q * D18 /\ D18 * c \in Nat /\ q * D18 \in Nat
    BY <2>1, <2>3, <2>4, Scales, Quotients
  <2>6. n \in Nat
    BY <1>5 DEF n
  <2>7. c \in Nat /\ D18 * c <= n
    BY <2>1, <2>3, <2>5, <2>6
  <2> QED BY <2>7 DEF n
<1>7. CASE r.index <= e.last_index
  <2>1. e.last_index = r.index
    BY <1>1, <1>7
  <2>2. D18 * e.accrued <= D18 * e.accrued + s * d
    BY <1>1, <1>5, Scales, Quotients
  <2>3. UserAfter(u, t) = [e EXCEPT !.exists = TRUE]
    BY <1>3, <1>7
  <2> HIDE DEF r, s
  <2>4. /\ UserAfter(u, t) \in UserRecord /\ UserAfter(u, t).last_index = e.last_index
        /\ UserAfter(u, t).accrued = e.accrued
    BY <1>1, <2>3 DEF UserRecord
  <2> QED BY <2>1, <2>2, <2>4 DEF Credited, r, s
<1>8. CASE ~(r.index <= e.last_index)
  <2>1. UserAfter(u, t) = [exists |-> TRUE, last_index |-> r.index,
                           accrued |-> e.accrued + c]
    BY <1>3, <1>8
  <2> HIDE DEF r, s, c, d
  <2>2. D18 * (e.accrued + c) = D18 * e.accrued + D18 * c
    BY <1>1, <1>6, Scales
  <2>3. D18 * (e.accrued + c) <= D18 * e.accrued + s * d
    BY <1>1, <1>5, <1>6, <2>2, Scales, Quotients
  <2>4. /\ UserAfter(u, t) \in UserRecord /\ UserAfter(u, t).last_index = r.index
        /\ UserAfter(u, t).accrued = e.accrued + c
    BY <1>1, <1>6, <2>1 DEF UserRecord
  <2> QED BY <2>3, <2>4 DEF Credited, r, s, d
<1> QED BY <1>7, <1>8

\* The numbers that a credit is about.
LEMMA CreditNumbers ==
  ASSUME RewardsInv, NEW u \in Owners, NEW t \in RewardTokens
  PROVE  /\ uinfo[u][t].accrued \in Nat /\ uinfo[u][t].last_index \in Nat
         /\ info[t].index \in Nat /\ uinfo[u][t].last_index <= info[t].index
         /\ paid[u][t] \in Nat /\ earned[u][t] \in Nat
         /\ Stake(u) \in Nat /\ FromTokenAmount(Stake(u)) \in Nat
         /\ D18 * (uinfo[u][t].accrued + paid[u][t]) \in Nat
<1>1. /\ uinfo[u][t] \in UserRecord /\ info[t] \in InfoRecord
      /\ uinfo[u][t].last_index <= info[t].index
      /\ paid[u][t] \in Nat /\ earned[u][t] \in Nat
  BY DEF RewardsInv, AccountTypes, TokenSound
<1>2. Stake(u) \in Nat
  BY StakeTypes DEF RewardsInv
<1>3. uinfo[u][t].accrued + paid[u][t] \in Nat
  BY <1>1 DEF UserRecord
<1> QED BY <1>1, <1>2, <1>3, Scales, Quotients DEF UserRecord, InfoRecord, FromTokenAmount

\* A user who accrues has nothing pending, at any later stake.
LEMMA CreditAccrued ==
  ASSUME RewardsInv, RewardsInv', NEW u \in Owners, NEW t \in RewardTokens, CreditFits(u, t),
         NEW r, NEW n, GrownFrom(r, t), Credited(n, r, u, t),
         info'[t].index = r.index, uinfo'[u][t].last_index = r.index,
         uinfo'[u][t].accrued + paid'[u][t] = n.accrued + paid[u][t],
         earned'[u][t] = earned[u][t] + GrowthEarned(r, t, u)
  PROVE  CreditFits(u, t)'
<1> DEFINE s == FromTokenAmount(Stake(u))
           a == uinfo[u][t].accrued
           p == paid[u][t]
           l == uinfo[u][t].last_index
           i == info[t].index
           j == r.index
           b == n.accrued
           m == earned[u][t]
<1>1. a \in Nat /\ l \in Nat /\ i \in Nat /\ l <= i /\ p \in Nat /\ m \in Nat /\ s \in Nat
  BY CreditNumbers
<1>2. j \in Nat /\ i <= j /\ b \in Nat /\ D18 * b <= D18 * a + s * (j - l)
  BY DEF GrownFrom, InfoRecord, Credited, UserRecord
<1>3. D18 * (a + p) + s * (i - l) <= m
  BY DEF CreditFits, Pending
<1>4. Pending(u, t)' = 0
  <2>1. FromTokenAmount(Stake(u)') \in Nat
    <3>1. RealmTypes' /\ Backed'
      BY DEF RewardsInv
    <3>2. RecordTypes' /\ Community \in GoverningMints
      BY <3>1 DEF RealmTypes, GoverningMints
    <3>3. Stake(u)' \in Nat
      BY <3>2, NextDepositedNat, Zenon DEF Stake
    <3> QED BY <3>3, Scales, Quotients DEF FromTokenAmount
  <2>2. Pending(u, t)' = FromTokenAmount(Stake(u)') * (info'[t].index - uinfo'[u][t].last_index)
    BY DEF Pending, FromTokenAmount
  <2>3. info'[t].index - uinfo'[u][t].last_index = 0
    BY <1>2
  <2>4. \A x \in Nat : x * 0 = 0
    OBVIOUS
  <2> QED BY <2>1, <2>2, <2>3, <2>4
<1>5. GrowthEarned(r, t, u) = s * (j - i)
  BY DEF GrowthEarned
<1> HIDE DEF s, a, p, l, i, j, b, m
<1>6. /\ s * (j - l) = s * (j - i) + s * (i - l)
      /\ D18 * (b + p) = D18 * b + D18 * p
      /\ D18 * (a + p) = D18 * a + D18 * p
  BY <1>1, <1>2, Scales
<1>7. /\ s * (j - i) \in Nat /\ s * (i - l) \in Nat /\ s * (j - l) \in Nat
      /\ D18 * b \in Nat /\ D18 * p \in Nat /\ D18 * a \in Nat
  <2>1. j - i \in Nat /\ i - l \in Nat /\ j - l \in Nat
    BY <1>1, <1>2
  <2> QED BY <1>1, <1>2, <2>1, Scales, Quotients
<1>8. D18 * (b + p) <= m + s * (j - i)
  BY <1>1, <1>2, <1>3, <1>6, <1>7
<1>9. D18 * (uinfo'[u][t].accrued + paid'[u][t]) + 0 <= earned'[u][t]
  <2>1. /\ uinfo'[u][t].accrued + paid'[u][t] = b + p
        /\ earned'[u][t] = m + s * (j - i)
    BY <1>5 DEF b, p, m
  <2>2. D18 * (b + p) \in Nat
    BY <1>1, <1>2, <1>6, <1>7
  <2> QED BY <1>8, <2>1, <2>2
<1> QED BY <1>4, <1>9 DEF CreditFits

\* For a user who does not accrue, what is pending grows as much as what is earned, and
\* a lower stake only lowers it.
LEMMA CreditWaiting ==
  ASSUME RewardsInv, RewardsInv', NEW u \in Owners, NEW t \in RewardTokens, CreditFits(u, t),
         NEW r, GrownFrom(r, t), info'[t].index = r.index,
         uinfo'[u][t].last_index = uinfo[u][t].last_index,
         uinfo'[u][t].accrued = uinfo[u][t].accrued, paid'[u][t] = paid[u][t],
         earned'[u][t] = earned[u][t] + GrowthEarned(r, t, u),
         Stake(u)' \in Nat, Stake(u)' <= Stake(u)
  PROVE  CreditFits(u, t)'
<1> DEFINE s == FromTokenAmount(Stake(u))
           z == FromTokenAmount(Stake(u)')
           c == D18 * (uinfo[u][t].accrued + paid[u][t])
           l == uinfo[u][t].last_index
           i == info[t].index
           j == r.index
           m == earned[u][t]
<1>1. l \in Nat /\ i \in Nat /\ l <= i /\ c \in Nat /\ m \in Nat /\ s \in Nat
  BY CreditNumbers
<1>2. j \in Nat /\ i <= j
  BY DEF GrownFrom, InfoRecord
<1>3. c + s * (i - l) <= m
  BY DEF CreditFits, Pending
<1>4. z \in Nat /\ z <= s
  <2>1. \A x, y, w \in Nat : x <= y => x * w <= y * w
    OBVIOUS
  <2>2. Stake(u) \in Nat
    BY CreditNumbers
  <2> QED BY <2>1, <2>2, Scales, Quotients DEF FromTokenAmount
<1>5. Pending(u, t)' = z * (j - l)
  BY DEF Pending, FromTokenAmount
<1>6. GrowthEarned(r, t, u) = s * (j - i)
  BY DEF GrowthEarned
<1>7. (D18 * (uinfo[u][t].accrued + paid[u][t]))' = c
  OBVIOUS
<1> HIDE DEF s, z, c, l, i, j, m
<1>8. j - l \in Nat /\ j - i \in Nat /\ i - l \in Nat
  BY <1>1, <1>2
<1>9. /\ s * (j - l) = s * (j - i) + s * (i - l)
      /\ z * (j - l) <= s * (j - l)
  <2>1. \A x, y, w \in Nat : x <= y => x * w <= y * w
    OBVIOUS
  <2>2. z * (j - l) <= s * (j - l)
    BY <1>1, <1>4, <1>8, <2>1
  <2>3. s * (j - l) = s * (j - i) + s * (i - l)
    BY <1>1, <1>2
  <2> QED BY <2>2, <2>3
<1>10. /\ s * (j - i) \in Nat /\ s * (i - l) \in Nat /\ s * (j - l) \in Nat
       /\ z * (j - l) \in Nat
  BY <1>1, <1>4, <1>8, Quotients
<1>11. c + z * (j - l) <= m + s * (j - i)
  BY <1>1, <1>3, <1>9, <1>10
<1>12. earned'[u][t] = m + s * (j - i)
  BY <1>6 DEF m
<1> QED BY <1>5, <1>7, <1>11, <1>12 DEF CreditFits

\* Before a token has its RewardInfo no user has an index.
LEMMA UnknownIndex ==
  ASSUME RewardsInv, NEW u \in Owners, NEW t \in RewardTokens, ~info[t].exists
  PROVE  info[t].index = 0 /\ uinfo[u][t].last_index = 0
<1>1. info[t].index = 0
  BY DEF RewardsInv, TokenSound, NoInfo
<1> QED BY <1>1, CreditNumbers

\* Where the user's index is that of the token, nothing is pending at any stake.
LEMMA CreditSettled ==
  ASSUME RewardsInv, RewardsInv', NEW u \in Owners, NEW t \in RewardTokens, CreditFits(u, t),
         info'[t].index = uinfo[u][t].last_index,
         uinfo'[u][t] = uinfo[u][t], paid'[u][t] = paid[u][t], earned'[u][t] = earned[u][t]
  PROVE  CreditFits(u, t)'
<1> DEFINE i == uinfo[u][t].last_index
<1>1. i \in Nat
  BY DEF RewardsInv, AccountTypes, UserRecord
<1>2. Stake(u)' \in Nat
  <2>1. RecordTypes' /\ Community \in GoverningMints
    BY DEF RewardsInv, RealmTypes, GoverningMints
  <2> QED BY <2>1, NextDepositedNat, Zenon DEF Stake
<1>3. Pending(u, t)' = 0
  <2>1. Pending(u, t)' = FromTokenAmount(Stake(u)') * (i - i)
    BY DEF Pending, FromTokenAmount
  <2>2. \A x, y \in Nat : x * (y - y) = 0
    OBVIOUS
  <2>3. FromTokenAmount(Stake(u)') \in Nat
    BY <1>2, Scales, Quotients DEF FromTokenAmount
  <2> HIDE DEF i
  <2> QED BY <1>1, <2>1, <2>2, <2>3
<1>4. D18 * (uinfo[u][t].accrued + paid[u][t]) <= earned[u][t]
  <2> DEFINE c == D18 * (uinfo[u][t].accrued + paid[u][t])
             z == Pending(u, t)
  <2>1. c + z <= earned[u][t]
    BY DEF CreditFits
  <2>2. c \in Nat /\ earned[u][t] \in Nat
    BY CreditNumbers
  <2>3. z \in Nat
    <3>1. info[t].index - uinfo[u][t].last_index \in Nat /\ FromTokenAmount(Stake(u)) \in Nat
      BY CreditNumbers
    <3> QED BY <3>1, Quotients DEF Pending
  <2> HIDE DEF c, z
  <2>4. c <= earned[u][t]
    BY <2>1, <2>2, <2>3
  <2> QED BY <2>4 DEF c
<1>5. D18 * (uinfo[u][t].accrued + paid[u][t]) \in Nat
  BY CreditNumbers
<1> QED BY <1>3, <1>4, <1>5 DEF CreditFits

-----------------------------------------------------------------------------
(* The steps *)

CreditsKept ==
  \A u \in Owners, t \in RewardTokens : CreditFits(u, t) => CreditFits(u, t)'

\* A deposit may spoil what it leaves uncredited.
CreditsKeptBut(exempt) ==
  \A u \in Owners, t \in RewardTokens :
    <<u, t>> \notin exempt /\ CreditFits(u, t) => CreditFits(u, t)'

\* What is left to show of a step once its tokens are accounted for.
LEMMA InvStep ==
  ASSUME RewardsInv, RealmTypes', Backed', AccountTypes', ListTypes', now <= now',
         \A t \in RewardTokens :
           (\E r : TokenStep(r, t)) \/ (TokenSound(t)' /\ EarnedCovered(t)')
  PROVE  RewardsInv'
<1>1. ASSUME NEW t \in RewardTokens PROVE TokenSound(t)' /\ EarnedCovered(t)'
  <2>1. CASE \E r : TokenStep(r, t)
    <3>1. PICK r : TokenStep(r, t)
      BY <2>1
    <3> QED BY <3>1, TokenSoundStep, EarnedCoveredStep
  <2> QED BY <1>1, <2>1
<1> QED BY <1>1 DEF RewardsInv

LEMMA NowStays ==
  ASSUME RewardsInv, now' = now
  PROVE  now <= now'
BY NowNat DEF RewardsInv

\* An unchanged realm keeps its types and stakes.
LEMMA RealmStays ==
  ASSUME RewardsInv, UNCHANGED realmVars
  PROVE  /\ RealmTypes' /\ Backed' /\ now <= now'
         /\ \A u \in Owners : Stake(u)' = Stake(u)
<1>1. now \in Nat
  BY NowNat DEF RewardsInv
<1>2. RealmTypes' /\ now <= now'
  BY <1>1 DEF realmVars, RewardsInv, RealmTypes, ConfigTypes, RecordTypes, BalanceTypes
<1>3. Backed'
  <2>1. \A m \in GoverningMints : Deposited(m)' = Deposited(m)
    BY SameDeposits DEF realmVars
  <2> QED BY <2>1 DEF Backed, RewardsInv, realmVars
<1>4. \A u \in Owners : Stake(u)' = Stake(u)
  BY DEF Stake, realmVars
<1> QED BY <1>2, <1>3, <1>4

\* The list of tokens stays sound while their accounts stay and none is added.
LEMMA ListStays ==
  ASSUME ListTypes, rt'.list \subseteq rt.list, MaxRewardTokens \in Nat,
         \A t \in RewardTokens : info[t].exists => info'[t].exists
  PROVE  ListTypes'
<1>1. IsFiniteSet(rt'.list) /\ Cardinality(rt'.list) <= Cardinality(rt.list)
  BY FS_Subset DEF ListTypes
<1>2. Cardinality(rt'.list) \in Nat /\ Cardinality(rt.list) \in Nat
  BY <1>1, FS_CardinalityType DEF ListTypes
<1>3. rt'.list \subseteq Known'
  BY DEF ListTypes, Known
<1> QED BY <1>1, <1>2, <1>3 DEF ListTypes

\* The account that a token has after the accrual of the tokens T.
AfterAccrual(t, T) == IF t \in T THEN InfoAfter(t) ELSE info[t]

LEMMA AccrualOf ==
  ASSUME RewardsInv, NEW T, T \subseteq Known, \A t \in T : CanAccrue(info[t]),
         NEW t \in RewardTokens
  PROVE  /\ GrownFrom(AfterAccrual(t, T), t) /\ AfterAccrual(t, T) \in InfoRecord
         /\ AfterAccrual(t, T).exists = info[t].exists
         /\ ~info[t].exists => AfterAccrual(t, T) = info[t]
<1>1. GrownFrom(AfterAccrual(t, T), t)
  BY AccrualGrows, NoGrowth DEF AfterAccrual
<1>2. ~info[t].exists => AfterAccrual(t, T) = info[t]
  BY DEF AfterAccrual, Known
<1> QED BY <1>1, <1>2 DEF GrownFrom

\* The history of what the stakes earned, for the tokens that grow.
LEMMA GrowIndexStep ==
  ASSUME RewardsInv, NEW T, T \subseteq Known, \A t \in T : CanAccrue(info[t]), GrowIndex(T)
  PROVE  /\ earned' \in [Owners -> [RewardTokens -> Nat]]
         /\ \A u \in Owners, t \in RewardTokens :
              earned'[u][t] = earned[u][t] + GrowthEarned(AfterAccrual(t, T), t, u)
<1>1. ASSUME NEW u \in Owners, NEW t \in RewardTokens
      PROVE  /\ earned[u][t] \in Nat /\ GrowthEarned(AfterAccrual(t, T), t, u) \in Nat
             /\ t \notin T => GrowthEarned(AfterAccrual(t, T), t, u) = 0
  <2>1. GrowthEarned(AfterAccrual(t, T), t, u) \in Nat
    BY AccrualOf, GrowthNat
  <2>2. earned[u][t] \in Nat /\ info[t].index \in Nat /\ FromTokenAmount(Stake(u)) \in Nat
    BY CreditNumbers
  <2>3. ASSUME t \notin T PROVE GrowthEarned(AfterAccrual(t, T), t, u) = 0
    <3>1. GrowthEarned(AfterAccrual(t, T), t, u)
            = FromTokenAmount(Stake(u)) * (info[t].index - info[t].index)
      BY <2>3 DEF GrowthEarned, AfterAccrual
    <3>2. \A x, y \in Nat : x * (y - y) = 0
      OBVIOUS
    <3> QED BY <2>2, <3>1, <3>2
  <2> QED BY <2>1, <2>2, <2>3
<1>2. earned' = [u \in Owners |-> [t \in RewardTokens |->
                   IF t \in T THEN earned[u][t] + GrowthEarned(AfterAccrual(t, T), t, u)
                   ELSE earned[u][t]]]
  BY DEF GrowIndex, GrowthEarned, AfterAccrual
<1>3. \A u \in Owners, t \in RewardTokens :
        earned'[u][t] = IF t \in T
                        THEN earned[u][t] + GrowthEarned(AfterAccrual(t, T), t, u)
                        ELSE earned[u][t]
  BY <1>2
<1>4. \A u \in Owners, t \in RewardTokens :
        earned'[u][t] = earned[u][t] + GrowthEarned(AfterAccrual(t, T), t, u)
  <2> TAKE u \in Owners, t \in RewardTokens
  <2>1. t \notin T => earned[u][t] + GrowthEarned(AfterAccrual(t, T), t, u) = earned[u][t]
    BY <1>1
  <2> QED BY <1>3, <2>1
<1>5. \A u \in Owners, t \in RewardTokens :
        earned[u][t] + GrowthEarned(AfterAccrual(t, T), t, u) \in Nat
  BY <1>1
<1>6. earned' \in [Owners -> [RewardTokens -> Nat]]
  <2>1. \A u \in Owners, t \in RewardTokens : earned[u][t] \in Nat
    BY <1>1
  <2> QED BY <1>2, <1>5, <2>1
<1> QED BY <1>4, <1>6

\* The accrual that every instruction of users starts with, whatever the realm then
\* does with its tokens.
LEMMA AccrueStep ==
  ASSUME RewardsInv, NEW us, NEW T, Accrue(us, T), balance' = balance, paid' = paid,
         RealmTypes', Backed', now' = now, misread' = misread,
         backdated' \subseteq Owners \X RewardTokens,
         rt' \in TokensRecord, rt'.list = rt.list
  PROVE  /\ RewardsInv'
         /\ \A u \in Owners, t \in RewardTokens :
              /\ CreditFits(u, t)
              /\ \/ u \in us /\ t \in T
                 \/ t \notin T /\ uinfo[u][t].last_index = info[t].index
                 \/ Stake(u)' \in {0, Stake(u)}
              => CreditFits(u, t)'
<1>1. T \subseteq Known /\ \A t \in T : CanAccrue(info[t])
  BY DEF Accrue
<1>2. \A t \in RewardTokens : info'[t] = AfterAccrual(t, T)
  BY DEF Accrue, AfterAccrual
<1>3. \A t \in RewardTokens :
        /\ GrownFrom(AfterAccrual(t, T), t) /\ AfterAccrual(t, T) \in InfoRecord
        /\ AfterAccrual(t, T).exists = info[t].exists
        /\ ~info[t].exists => AfterAccrual(t, T) = info[t]
  BY <1>1, AccrualOf
<1>4. info' \in [RewardTokens -> InfoRecord]
  <2>1. info' = [t \in RewardTokens |-> AfterAccrual(t, T)]
    BY DEF Accrue, AfterAccrual
  <2> QED BY <1>3, <2>1
<1>5. /\ earned' \in [Owners -> [RewardTokens -> Nat]]
      /\ \A u \in Owners, t \in RewardTokens :
           earned'[u][t] = earned[u][t] + GrowthEarned(AfterAccrual(t, T), t, u)
  BY <1>1, GrowIndexStep DEF Accrue
<1>6. \A u \in Owners, t \in RewardTokens :
        uinfo'[u][t] = IF u \in us /\ t \in T THEN UserAfter(u, t) ELSE uinfo[u][t]
  BY DEF Accrue
<1>7. \A u \in Owners, t \in T : Credited(UserAfter(u, t), AfterAccrual(t, T), u, t)
  <2> SUFFICES ASSUME NEW u \in Owners, NEW t \in T
               PROVE  Credited(UserAfter(u, t), AfterAccrual(t, T), u, t)
    OBVIOUS
  <2>1. t \in RewardTokens
    BY <1>1 DEF Known
  <2>2. AfterAccrual(t, T) = InfoAfter(t)
    BY DEF AfterAccrual
  <2> QED BY <1>3, <2>1, <2>2, UserCredit
<1>8. uinfo' \in [Owners -> [RewardTokens -> UserRecord]]
  <2>1. \A u \in Owners, t \in RewardTokens :
          (IF u \in us /\ t \in T THEN UserAfter(u, t) ELSE uinfo[u][t]) \in UserRecord
    BY <1>7 DEF Credited, RewardsInv, AccountTypes
  <2>2. uinfo' = [u \in Owners |-> [t \in RewardTokens |->
                    IF u \in us /\ t \in T THEN UserAfter(u, t) ELSE uinfo[u][t]]]
    BY DEF Accrue
  <2> QED BY <2>1, <2>2
<1>9. AccountTypes'
  BY <1>4, <1>5, <1>8 DEF AccountTypes, RewardsInv
<1>10. ListTypes'
  <2>1. \A t \in RewardTokens : info[t].exists => info'[t].exists
    BY <1>2, <1>3
  <2> QED BY <2>1, ListStays, RewardsAssumption DEF RewardsInv
<1>11. ASSUME NEW t \in RewardTokens PROVE TokenStep(AfterAccrual(t, T), t)
  <2>1. \A u \in Owners :
          uinfo'[u][t].last_index \in {uinfo[u][t].last_index, AfterAccrual(t, T).index}
    BY <1>6, <1>7 DEF Credited
  <2>2. KnownBalance(AfterAccrual(t, T), balance[t]) \in Nat
    <3>1. balance[t] \in Nat
      BY Scales DEF RewardsInv, AccountTypes
    <3> QED BY <1>3, <3>1, KnownBalanceType
  <2>3. KnownBalance(AfterAccrual(t, T), balance[t]) <= KnownBalance(info'[t], balance'[t])
    BY <1>2, <2>2
  <2> QED BY <1>2, <1>3, <1>5, <2>1, <2>3 DEF TokenStep
<1>12. RewardsInv'
  BY <1>9, <1>10, <1>11, InvStep, NowStays
<1>13. ASSUME NEW u \in Owners, NEW t \in RewardTokens, CreditFits(u, t), u \in us, t \in T
       PROVE  CreditFits(u, t)'
  <2>1. Credited(UserAfter(u, t), AfterAccrual(t, T), u, t) /\ uinfo'[u][t] = UserAfter(u, t)
    BY <1>6, <1>7, <1>13
  <2>2. uinfo'[u][t].accrued + paid'[u][t] = UserAfter(u, t).accrued + paid[u][t]
    BY <2>1
  <2>3. uinfo'[u][t].last_index = AfterAccrual(t, T).index
    BY <2>1 DEF Credited
  <2> QED BY <1>2, <1>3, <1>5, <1>12, <1>13, <2>1, <2>2, <2>3, CreditAccrued
<1>14. ASSUME NEW u \in Owners, NEW t \in RewardTokens, CreditFits(u, t),
              t \notin T, uinfo[u][t].last_index = info[t].index
       PROVE  CreditFits(u, t)'
  <2>1. info'[t] = info[t]
    BY <1>2, <1>14 DEF AfterAccrual
  <2>2. earned'[u][t] = earned[u][t]
    BY <1>14 DEF Accrue, GrowIndex
  <2>3. uinfo'[u][t] = uinfo[u][t] /\ paid'[u][t] = paid[u][t]
    BY <1>6, <1>14
  <2> QED BY <1>12, <1>14, <2>1, <2>2, <2>3, CreditSettled
<1>15. ASSUME NEW u \in Owners, NEW t \in RewardTokens, CreditFits(u, t),
              ~(u \in us /\ t \in T), Stake(u)' \in {0, Stake(u)}
       PROVE  CreditFits(u, t)'
  <2>1. uinfo'[u][t] = uinfo[u][t]
    BY <1>6, <1>15
  <2>2. Stake(u)' \in Nat /\ Stake(u)' <= Stake(u)
    BY <1>15, CreditNumbers
  <2> QED BY <1>2, <1>3, <1>5, <1>12, <1>15, <2>1, <2>2, CreditWaiting
<1> QED BY <1>12, <1>13, <1>14, <1>15

-----------------------------------------------------------------------------
(* Instructions that do not accrue *)

\* The realm, the administrator and those who send tokens: no account of a reward token
\* or of a user changes, stakes only fall and balances only grow.
LEMMA NoAccrualStep ==
  ASSUME RewardsInv, RealmTypes', Backed', now <= now',
         UNCHANGED <<info, uinfo, earned, paid, backdated, misread>>,
         rt' \in TokensRecord, rt'.list = rt.list,
         balance' \in [RewardTokens -> 0..MaxPot],
         \A t \in RewardTokens : balance[t] <= balance'[t]
  PROVE  /\ RewardsInv'
         /\ \A u \in Owners, t \in RewardTokens :
              CreditFits(u, t) /\ Stake(u)' \in Nat /\ Stake(u)' <= Stake(u)
                => CreditFits(u, t)'
<1>1. AccountTypes'
  BY DEF AccountTypes, RewardsInv
<1>2. ListTypes'
  BY DEF ListTypes, Known, RewardsInv
<1>3. ASSUME NEW t \in RewardTokens
      PROVE  /\ TokenStep(info[t], t)
             /\ \A u \in Owners : earned'[u][t] = earned[u][t] + GrowthEarned(info[t], t, u)
  <2>1. GrownFrom(info[t], t)
    BY NoGrowth
  <2>2. \A u \in Owners : earned'[u][t] = earned[u][t] + GrowthEarned(info[t], t, u)
    <3> TAKE u \in Owners
    <3>1. /\ FromTokenAmount(Stake(u)) \in Nat /\ info[t].index \in Nat
          /\ earned[u][t] \in Nat
      BY CreditNumbers
    <3>2. \A x, y \in Nat : x * (y - y) = 0
      OBVIOUS
    <3>3. GrowthEarned(info[t], t, u) = 0
      BY <3>1, <3>2 DEF GrowthEarned
    <3> QED BY <3>1, <3>3
  <2>3. KnownBalance(info[t], balance[t]) <= KnownBalance(info'[t], balance'[t])
    <3>1. /\ info[t] \in InfoRecord /\ balance[t] \in Nat /\ balance'[t] \in Nat
          /\ balance[t] <= balance'[t] /\ info'[t] = info[t]
      BY Scales DEF RewardsInv, AccountTypes
    <3> DEFINE x == balance[t] * D9 + info[t].claimed
               y == balance'[t] * D9 + info[t].claimed
    <3>2. x \in Nat /\ y \in Nat
      BY <3>1, KnownBalanceType
    <3>3. x <= y
      <4>1. \A a, b, c \in Nat : a <= b => a * c <= b * c /\ a * c \in Nat /\ b * c \in Nat
        OBVIOUS
      <4>2. info[t].claimed \in Nat
        BY <3>1 DEF InfoRecord
      <4> QED BY <3>1, <4>1, <4>2, Scales
    <3>4. /\ KnownBalance(info[t], balance[t]) = ToScaledCeil(x)
          /\ KnownBalance(info'[t], balance'[t]) = ToScaledCeil(y)
      BY <3>1 DEF KnownBalance, FromTokenAmount
    <3> HIDE DEF x, y
    <3> QED BY <3>2, <3>3, <3>4, Roundings
  <2> QED BY <2>1, <2>2, <2>3 DEF TokenStep
<1>4. RewardsInv'
  BY <1>1, <1>2, <1>3, InvStep
<1>5. ASSUME NEW u \in Owners, NEW t \in RewardTokens, CreditFits(u, t),
             Stake(u)' \in Nat, Stake(u)' <= Stake(u)
      PROVE  CreditFits(u, t)'
  BY <1>3, <1>4, <1>5, CreditWaiting, NoGrowth
<1> QED BY <1>4, <1>5

\* What a deposit, a withdrawal and a revocation do to the stakes.
LEMMA OneStake ==
  ASSUME RealmTypes, NEW u \in Owners, NEW d, NEW e \in BOOLEAN,
         tor' = [tor EXCEPT ![<<Community, u>>].exists = e,
                            ![<<Community, u>>].deposit = d]
         \/ tor' = [tor EXCEPT ![<<Community, u>>].deposit = d]
  PROVE  /\ \A v \in Owners : v # u => Stake(v)' = Stake(v)
         /\ Stake(u)' = d
<1>1. \A v \in Owners : /\ Stake(v) = tor[<<Community, v>>].deposit
                        /\ Stake(v)' = tor'[<<Community, v>>].deposit
  BY Zenon DEF Stake
<1>2. tor \in [Records -> OwnerRecord] /\ \A v \in Owners : <<Community, v>> \in Records
  BY RecordKeys DEF RealmTypes, RecordTypes, GoverningMints
<1>3. \A v \in Owners : v # u => <<Community, v>> # <<Community, u>>
  OBVIOUS
<1>4. \A v \in Owners : v # u => tor'[<<Community, v>>] = tor[<<Community, v>>]
  BY <1>2, <1>3
<1>5. tor'[<<Community, u>>].deposit = d
  BY <1>2 DEF OwnerRecord
<1> QED BY <1>1, <1>4, <1>5

\* Revocations lower the stake of an owner without an accrual.
LEMMA RealmStepKept ==
  ASSUME RewardsInv, RealmStep, UNCHANGED rewardVars
  PROVE  RewardsInv' /\ CreditsKept
<1>1. RealmTypes /\ Backed /\ now \in Nat
  BY NowNat DEF RewardsInv
<1>2. /\ RealmTypes' /\ Backed' /\ now <= now'
      /\ \A u \in Owners : Stake(u)' \in Nat /\ Stake(u)' <= Stake(u)
  <2>0. \A u \in Owners : Stake(u) \in Nat
    BY <1>1, StakeTypes
  <2>1. CASE Tick
    <3>1. \A u \in Owners : Stake(u)' = Stake(u)
      BY <2>1 DEF Tick, Stake
    <3> QED BY <1>1, <2>0, <2>1, <3>1, TickStep DEF Tick
  <2>2. CASE AddGovernance(RealmAuthority, <<Community, 1>>)
    <3>1. UNCHANGED <<now, realm, tokens, tor, holding, wallet>>
          /\ govs' = govs \cup {GovernanceAccount}
      BY <2>2 DEF AddGovernance
    <3>2. RealmTypes'
      BY <1>1, <3>1 DEF RealmTypes, ConfigTypes, RecordTypes, BalanceTypes
    <3>3. \A m \in GoverningMints : Deposited(m)' = Deposited(m)
      BY <3>1, SameDeposits
    <3>4. Backed'
      BY <1>1, <3>1, <3>3 DEF Backed
    <3>5. \A u \in Owners : Stake(u)' = Stake(u)
      BY <3>1 DEF Stake
    <3> QED BY <1>1, <2>0, <3>1, <3>2, <3>4, <3>5
  <2>3. ASSUME NEW u \in Revocable, NEW amount \in Amounts,
               RevokeGoverningTokens(<<Community, u>>, MintAuthority, amount)
        PROVE  /\ RealmTypes' /\ Backed' /\ now <= now'
               /\ \A v \in Owners : Stake(v)' \in Nat /\ Stake(v)' <= Stake(v)
    <3>1. u \in Owners /\ <<Community, u>> \in Records
      BY RewardsAssumption, RecordKeys DEF GoverningMints
    <3>2. RealmTypes' /\ Backed'
      BY <1>1, <2>3, <3>1, RevokeGoverningTokensStep
    <3>3. now' = now
      BY <2>3 DEF RevokeGoverningTokens
    <3>4. amount \in Nat /\ tor[<<Community, u>>].deposit >= amount
      BY <2>3, RealmAssumption DEF RevokeGoverningTokens
    <3>5. tor' = [tor EXCEPT ![<<Community, u>>].deposit
                    = tor[<<Community, u>>].deposit - amount]
      <4>1. tor' = [tor EXCEPT ![<<Community, u>>]
                      = [tor[<<Community, u>>] EXCEPT !.deposit = @ - amount]]
        BY <2>3 DEF RevokeGoverningTokens, RevokedRecord
      <4> QED BY <4>1
    <3>6. Stake(u) = tor[<<Community, u>>].deposit
      BY Zenon DEF Stake
    <3>7. /\ \A v \in Owners : v # u => Stake(v)' = Stake(v)
          /\ Stake(u)' = Stake(u) - amount
      BY <1>1, <3>1, <3>5, <3>6, OneStake
    <3> QED BY <1>1, <2>0, <3>1, <3>2, <3>3, <3>4, <3>6, <3>7
  <2> QED BY <2>1, <2>2, <2>3 DEF RealmStep
<1>3. /\ rt' \in TokensRecord /\ rt'.list = rt.list
      /\ balance' \in [RewardTokens -> 0..MaxPot]
      /\ \A t \in RewardTokens : balance[t] <= balance'[t]
  BY Scales DEF rewardVars, RewardsInv, AccountTypes
<1> QED BY <1>2, <1>3, NoAccrualStep DEF rewardVars, exceptions, CreditsKept

\* Tokens sent to the program, and a new administrator.
LEMMA SmallStepsKept ==
  ASSUME RewardsInv
  PROVE  /\ \A s : SetRewardsAdmin(s) => RewardsInv' /\ CreditsKept
         /\ \A t \in RewardTokens, amount \in Donations :
              SendRewards(t, amount) => RewardsInv' /\ CreditsKept
         /\ UNCHANGED vars => RewardsInv' /\ CreditsKept
<1>0. ASSUME UNCHANGED realmVars
      PROVE  /\ RealmTypes' /\ Backed' /\ now <= now'
             /\ \A u \in Owners : Stake(u)' \in Nat /\ Stake(u)' <= Stake(u)
  <2>1. \A u \in Owners : Stake(u) \in Nat
    BY StakeTypes DEF RewardsInv
  <2> QED BY <1>0, <2>1, RealmStays
<1>1. /\ rt \in TokensRecord
      /\ balance \in [RewardTokens -> 0..MaxPot]
      /\ \A t \in RewardTokens : balance[t] <= balance[t]
  BY Scales DEF RewardsInv, AccountTypes
<1>2. ASSUME NEW s, SetRewardsAdmin(s) PROVE RewardsInv' /\ CreditsKept
  <2>1. /\ UNCHANGED realmVars
        /\ UNCHANGED <<info, uinfo, earned, paid, balance, backdated, misread>>
        /\ rt' = [rt EXCEPT !.exists = TRUE, !.admin = s]
    BY <1>2 DEF SetRewardsAdmin, exceptions
  <2>2. s \in {GovernanceAccount}
    BY <1>2 DEF SetRewardsAdmin, RewardsInv, RealmTypes
  <2>3. rt' \in TokensRecord /\ rt'.list = rt.list
    BY <1>1, <2>1, <2>2 DEF TokensRecord
  <2> QED BY <1>0, <1>1, <2>1, <2>3, NoAccrualStep DEF CreditsKept
<1>3. ASSUME NEW t \in RewardTokens, NEW amount \in Donations, SendRewards(t, amount)
      PROVE  RewardsInv' /\ CreditsKept
  <2>1. /\ UNCHANGED realmVars
        /\ UNCHANGED <<info, uinfo, earned, paid, rt, backdated, misread>>
        /\ balance' = [balance EXCEPT ![t] = balance[t] + amount]
        /\ balance[t] + info[t].claimed \div D9 + amount <= MaxPot
    BY <1>3 DEF SendRewards, exceptions
  <2>2. amount \in Nat /\ balance[t] \in Nat /\ info[t].claimed \div D9 \in Nat
    <3>1. info[t].claimed \in Nat
      BY DEF RewardsInv, AccountTypes, InfoRecord
    <3>2. amount \in Nat
      BY RewardsAssumption
    <3>3. balance[t] \in Nat
      BY Scales DEF RewardsInv, AccountTypes
    <3> QED BY <3>1, <3>2, <3>3, Scales, Quotients
  <2>3. balance[t] + amount \in 0..MaxPot /\ balance[t] <= balance[t] + amount
    BY <2>1, <2>2, Scales
  <2>4. balance' \in [RewardTokens -> 0..MaxPot]
    BY <1>1, <2>1, <2>3
  <2>5. \A n \in RewardTokens : balance[n] <= balance'[n]
    BY <1>1, <2>1, <2>3
  <2> QED BY <1>0, <1>1, <2>1, <2>4, <2>5, NoAccrualStep DEF CreditsKept
<1>4. ASSUME UNCHANGED vars PROVE RewardsInv' /\ CreditsKept
  <2>1. UNCHANGED realmVars /\ UNCHANGED rewardVars
    BY <1>4 DEF vars
  <2> QED BY <1>0, <1>1, <2>1, NoAccrualStep DEF rewardVars, exceptions, CreditsKept
<1> QED BY <1>2, <1>3, <1>4

\* Users accrue for themselves or for others.
LEMMA AccrueRewardsKept ==
  ASSUME RewardsInv, NEW caller, NEW u, NEW T, AccrueRewards(caller, u, T)
  PROVE  RewardsInv' /\ CreditsKept
<1>1. /\ Accrue({caller, u}, T) /\ UNCHANGED realmVars
      /\ rt' = rt /\ balance' = balance /\ paid' = paid
      /\ backdated' = backdated /\ misread' = misread
  BY DEF AccrueRewards, exceptions
<1>2. /\ RealmTypes' /\ Backed' /\ now' = now
      /\ \A v \in Owners : Stake(v)' = Stake(v)
  BY <1>1, RealmStays DEF realmVars
<1>3. /\ rt' \in TokensRecord /\ rt'.list = rt.list
      /\ backdated' \subseteq Owners \X RewardTokens
  BY <1>1 DEF RewardsInv, AccountTypes
<1> QED BY <1>1, <1>2, <1>3, AccrueStep DEF CreditsKept

\* A new ratio is the logarithm of two divided by the half life.
LEMMA InitOrSetRewardRatioKept ==
  ASSUME RewardsInv, NEW s, NEW executor, NEW T, NEW halfLife,
         InitOrSetRewardRatio(s, executor, T, halfLife)
  PROVE  RewardsInv' /\ CreditsKept
<1>1. /\ Accrue({executor}, T) /\ UNCHANGED realmVars
      /\ rt' = [rt EXCEPT !.ratio = RatioOf(halfLife)] /\ balance' = balance /\ paid' = paid
      /\ halfLife \in MinHalfLife..MaxHalfLife /\ rt.exists
      /\ backdated' = backdated /\ misread' = misread
  BY DEF InitOrSetRewardRatio, Accrue, exceptions
<1>2. /\ RealmTypes' /\ Backed' /\ now' = now
      /\ \A v \in Owners : Stake(v)' = Stake(v)
  BY <1>1, RealmStays DEF realmVars
<1>3. MinHalfLife \in Nat /\ MinHalfLife > 0 /\ MaxHalfLife \in Nat /\ LN_2 \in Nat
  BY RewardsAssumption
<1>4. halfLife \in Nat /\ halfLife > 0
  BY <1>1, <1>3
<1>5. RatioOf(halfLife) \in Nat
  BY <1>3, <1>4, Quotients DEF RatioOf
<1>6. /\ rt' \in TokensRecord /\ rt'.list = rt.list
      /\ backdated' \subseteq Owners \X RewardTokens
  BY <1>1, <1>5 DEF RewardsInv, AccountTypes, TokensRecord
<1> QED BY <1>1, <1>2, <1>6, AccrueStep DEF CreditsKept

\* Deposits accrue on the stake before the tokens move: what they leave uncredited is
\* of tokens that were not passed.
LEMMA DepositAndAccrueKept ==
  ASSUME RewardsInv, NEW u \in Owners, NEW amount \in Amounts, NEW minted \in BOOLEAN,
         NEW T, DepositAndAccrue(u, amount, minted, T)
  PROVE  RewardsInv' /\ CreditsKeptBut(backdated')
<1> DEFINE k == <<Community, u>>
<1>1. /\ Accrue({u}, T) /\ DepositGoverningTokens(k, amount, minted)
      /\ rt' = rt /\ balance' = balance /\ paid' = paid /\ misread' = misread
      /\ backdated' = backdated \cup ({u} \X (Uncredited(u) \ T))
  BY DEF DepositAndAccrue
<1>2. k \in Records /\ RealmTypes /\ Backed
  BY RecordKeys DEF GoverningMints, RewardsInv
<1>3. RealmTypes' /\ Backed'
  BY <1>1, <1>2, DepositGoverningTokensStep
<1>4. /\ now' = now
      /\ tor' = [tor EXCEPT ![<<Community, u>>].exists = TRUE,
                            ![<<Community, u>>].deposit
                              = tor[<<Community, u>>].deposit + amount]
  BY <1>1 DEF DepositGoverningTokens
<1>5. \A v \in Owners : v # u => Stake(v)' = Stake(v)
  <2> DEFINE d == tor[<<Community, u>>].deposit + amount
  <2>1. tor' = [tor EXCEPT ![<<Community, u>>].exists = TRUE, ![<<Community, u>>].deposit = d]
    BY <1>4
  <2> HIDE DEF d
  <2> QED BY <1>2, <2>1, OneStake
<1>6. /\ rt' \in TokensRecord /\ rt'.list = rt.list
      /\ backdated' \subseteq Owners \X RewardTokens
  BY <1>1 DEF RewardsInv, AccountTypes, Uncredited
<1>7. /\ RewardsInv'
      /\ \A v \in Owners, t \in RewardTokens :
           /\ CreditFits(v, t)
           /\ \/ v \in {u} /\ t \in T
              \/ t \notin T /\ uinfo[v][t].last_index = info[t].index
              \/ Stake(v)' \in {0, Stake(v)}
           => CreditFits(v, t)'
  <2> HIDE DEF k
  <2> QED BY <1>1, <1>3, <1>4, <1>6, AccrueStep
<1>8. ASSUME NEW t \in RewardTokens, t \notin T, <<u, t>> \notin backdated'
      PROVE  uinfo[u][t].last_index = info[t].index
  <2>1. ~(uinfo[u][t].last_index < info[t].index)
    BY <1>1, <1>8 DEF Uncredited
  <2>2. /\ uinfo[u][t].last_index \in Nat /\ info[t].index \in Nat
        /\ uinfo[u][t].last_index <= info[t].index
    BY DEF RewardsInv, AccountTypes, UserRecord, InfoRecord, TokenSound
  <2> QED BY <2>1, <2>2
<1> QED BY <1>5, <1>7, <1>8 DEF CreditsKeptBut

\* Withdrawals accrue too, but a stake that falls leaves no more pending.
LEMMA WithdrawAndAccrueKept ==
  ASSUME RewardsInv, NEW u \in Owners, NEW T, WithdrawAndAccrue(u, T)
  PROVE  RewardsInv' /\ CreditsKept
<1> DEFINE k == <<Community, u>>
<1>1. /\ Accrue({u}, T) /\ WithdrawGoverningTokens(k)
      /\ rt' = rt /\ balance' = balance /\ paid' = paid
      /\ backdated' = backdated /\ misread' = misread
  BY DEF WithdrawAndAccrue, exceptions
<1>2. k \in Records /\ RealmTypes /\ Backed
  BY RecordKeys DEF GoverningMints, RewardsInv
<1>3. RealmTypes' /\ Backed'
  BY <1>1, <1>2, WithdrawGoverningTokensStep
<1>4. now' = now /\ tor' = [tor EXCEPT ![<<Community, u>>].deposit = 0]
  BY <1>1 DEF WithdrawGoverningTokens
<1>5. \A v \in Owners : Stake(v)' \in {0, Stake(v)}
  BY <1>2, <1>4, OneStake
<1>6. /\ rt' \in TokensRecord /\ rt'.list = rt.list
      /\ backdated' \subseteq Owners \X RewardTokens
  BY <1>1 DEF RewardsInv, AccountTypes
<1>7. /\ RewardsInv'
      /\ \A v \in Owners, t \in RewardTokens :
           CreditFits(v, t) /\ Stake(v)' \in {0, Stake(v)} => CreditFits(v, t)'
  <2> HIDE DEF k
  <2> QED BY <1>1, <1>3, <1>4, <1>6, AccrueStep
<1> QED BY <1>5, <1>7 DEF CreditsKept

-----------------------------------------------------------------------------
(* Claims *)

\* What a claim of token t leaves of its account and of the user's.
ClaimedInfo(u, t) == [InfoAfter(t) EXCEPT !.claimed = @ + Claimable(u, t) * D9]
ClaimedUser(u, t) == [UserAfter(u, t) EXCEPT !.accrued = @ - Claimable(u, t) * D9]

\* A claim pays whole units of what was accrued; what leaves the account of the token is
\* remembered as claimed, so that the balance known does not fall.
LEMMA ClaimOf ==
  ASSUME RewardsInv, NEW u \in Owners, NEW t \in RewardTokens, CanAccrue(info[t]),
         Claimable(u, t) <= balance[t]
  PROVE  /\ Claimable(u, t) \in Nat /\ Claimable(u, t) * D9 \in Nat
         /\ balance[t] - Claimable(u, t) \in 0..MaxPot
         /\ ClaimedInfo(u, t) \in InfoRecord
         /\ ClaimedInfo(u, t) = [InfoAfter(t) EXCEPT !.claimed = ClaimedInfo(u, t).claimed]
         /\ KnownBalance(ClaimedInfo(u, t), balance[t] - Claimable(u, t))
              = KnownBalance(InfoAfter(t), balance[t])
         /\ ClaimedUser(u, t) \in UserRecord
         /\ ClaimedUser(u, t).last_index = InfoAfter(t).index
         /\ ClaimedUser(u, t).accrued + (paid[u][t] + Claimable(u, t) * D9)
              = UserAfter(u, t).accrued + paid[u][t]
<1> DEFINE r == InfoAfter(t)
           n == UserAfter(u, t)
           c == Claimable(u, t)
           x == c * D9
           b == balance[t]
           p == paid[u][t]
<1>1. GrownFrom(r, t)
  BY AccrualGrows
<1>2. Credited(n, r, u, t)
  BY <1>1, UserCredit
<1>3. /\ r \in InfoRecord /\ r.claimed \in Nat
      /\ n \in UserRecord /\ n.accrued \in Nat /\ n.last_index = r.index
  <2> HIDE DEF r, n
  <2> QED BY <1>1, <1>2 DEF GrownFrom, InfoRecord, Credited, UserRecord
<1>4. b \in Nat /\ b <= MaxPot /\ p \in Nat
  BY Scales DEF RewardsInv, AccountTypes
<1>5. c \in Nat /\ x <= n.accrued
  <2>1. c = ToTokenFloor(n.accrued)
    BY DEF Claimable
  <2> HIDE DEF n, c
  <2> QED BY <1>3, <2>1, Roundings
<1>6. ClaimedInfo(u, t) = [r EXCEPT !.claimed = r.claimed + x]
  BY DEF ClaimedInfo
<1>7. ClaimedUser(u, t) = [n EXCEPT !.accrued = n.accrued - x]
  BY DEF ClaimedUser
<1>8. c <= b
  OBVIOUS
<1> HIDE DEF r, n, c, b, p
<1>9. x \in Nat
  BY <1>5, Scales, Quotients
<1>10. b - c \in 0..MaxPot /\ (b - c) * D9 + (r.claimed + x) = b * D9 + r.claimed
  BY <1>3, <1>4, <1>5, <1>8, Scales
<1> HIDE DEF x
<1>11. /\ ClaimedInfo(u, t) \in InfoRecord
       /\ ClaimedInfo(u, t).claimed = r.claimed + x
       /\ ClaimedInfo(u, t) = [r EXCEPT !.claimed = ClaimedInfo(u, t).claimed]
  BY <1>3, <1>6, <1>9 DEF InfoRecord
<1>12. KnownBalance(ClaimedInfo(u, t), b - c) = KnownBalance(r, b)
  BY <1>10, <1>11 DEF KnownBalance, FromTokenAmount
<1>13. /\ ClaimedUser(u, t) \in UserRecord
       /\ ClaimedUser(u, t).last_index = r.index
       /\ ClaimedUser(u, t).accrued = n.accrued - x
  BY <1>3, <1>5, <1>7, <1>9 DEF UserRecord
<1>14. ClaimedUser(u, t).accrued + (p + x) = n.accrued + p
  BY <1>3, <1>4, <1>9, <1>13
<1> QED BY <1>5, <1>9, <1>10, <1>11, <1>12, <1>13, <1>14 DEF r, n, c, b, p, x

LEMMA ClaimRewardsKept ==
  ASSUME RewardsInv, NEW u \in Owners, NEW T, ClaimRewards(u, T)
  PROVE  RewardsInv' /\ CreditsKept
<1>1. /\ T \subseteq Known /\ T \subseteq RewardTokens
      /\ \A t \in T : CanAccrue(info[t]) /\ Claimable(u, t) <= balance[t]
      /\ GrowIndex(T) /\ UNCHANGED realmVars /\ rt' = rt
      /\ backdated' = backdated /\ misread' = misread
  BY DEF ClaimRewards, Known, exceptions
<1>2. /\ info' = [t \in RewardTokens |-> IF t \in T THEN ClaimedInfo(u, t) ELSE info[t]]
      /\ balance' = [t \in RewardTokens |->
                       IF t \in T THEN balance[t] - Claimable(u, t) ELSE balance[t]]
      /\ uinfo' = [uinfo EXCEPT ![u] = [t \in RewardTokens |->
                     IF t \in T THEN ClaimedUser(u, t) ELSE uinfo[u][t]]]
      /\ paid' = [paid EXCEPT ![u] = [t \in RewardTokens |->
                    IF t \in T THEN paid[u][t] + Claimable(u, t) * D9 ELSE paid[u][t]]]
  BY DEF ClaimRewards, ClaimedInfo, ClaimedUser
<1>3. /\ RealmTypes' /\ Backed' /\ now <= now'
      /\ \A v \in Owners : Stake(v)' = Stake(v)
  BY <1>1, RealmStays
<1>4. \A t \in RewardTokens :
        /\ GrownFrom(AfterAccrual(t, T), t) /\ AfterAccrual(t, T) \in InfoRecord
        /\ AfterAccrual(t, T).exists = info[t].exists
        /\ ~info[t].exists => AfterAccrual(t, T) = info[t]
  BY <1>1, AccrualOf
<1>5. /\ earned' \in [Owners -> [RewardTokens -> Nat]]
      /\ \A v \in Owners, t \in RewardTokens :
           earned'[v][t] = earned[v][t] + GrowthEarned(AfterAccrual(t, T), t, v)
  BY <1>1, GrowIndexStep
<1>6. \A t \in T :
        /\ Claimable(u, t) * D9 \in Nat /\ balance[t] - Claimable(u, t) \in 0..MaxPot
        /\ ClaimedInfo(u, t) \in InfoRecord
        /\ ClaimedInfo(u, t) = [InfoAfter(t) EXCEPT !.claimed = ClaimedInfo(u, t).claimed]
        /\ KnownBalance(ClaimedInfo(u, t), balance[t] - Claimable(u, t))
             = KnownBalance(InfoAfter(t), balance[t])
        /\ ClaimedUser(u, t) \in UserRecord
        /\ ClaimedUser(u, t).last_index = InfoAfter(t).index
        /\ ClaimedUser(u, t).accrued + (paid[u][t] + Claimable(u, t) * D9)
             = UserAfter(u, t).accrued + paid[u][t]
  BY <1>1, ClaimOf
<1>7. /\ info \in [RewardTokens -> InfoRecord] /\ balance \in [RewardTokens -> 0..MaxPot]
      /\ uinfo \in [Owners -> [RewardTokens -> UserRecord]]
      /\ paid \in [Owners -> [RewardTokens -> Nat]] /\ rt \in TokensRecord
      /\ backdated \subseteq Owners \X RewardTokens /\ misread \subseteq RewardTokens
  BY DEF RewardsInv, AccountTypes
<1>8. AccountTypes'
  <2>1. info' \in [RewardTokens -> InfoRecord] /\ balance' \in [RewardTokens -> 0..MaxPot]
    BY <1>2, <1>6, <1>7
  <2>2. uinfo' \in [Owners -> [RewardTokens -> UserRecord]]
    BY <1>2, <1>6, <1>7
  <2>3. paid' \in [Owners -> [RewardTokens -> Nat]]
    <3>1. \A t \in RewardTokens :
            (IF t \in T THEN paid[u][t] + Claimable(u, t) * D9 ELSE paid[u][t]) \in Nat
      <4>1. \A t \in RewardTokens : paid[u][t] \in Nat
        BY <1>7
      <4> QED BY <1>6, <4>1
    <3> QED BY <1>2, <1>7, <3>1
  <2> QED BY <1>1, <1>5, <1>7, <2>1, <2>2, <2>3 DEF AccountTypes
<1>9. ASSUME NEW t \in RewardTokens
      PROVE  /\ info'[t].exists = AfterAccrual(t, T).exists
             /\ info'[t].last_paid = AfterAccrual(t, T).last_paid
             /\ info'[t].index = AfterAccrual(t, T).index
             /\ info'[t].accounted = AfterAccrual(t, T).accounted
             /\ info'[t].last_known = AfterAccrual(t, T).last_known
             /\ ~info[t].exists => info'[t] = info[t]
  <2>1. CASE t \in T
    <3>1. /\ AfterAccrual(t, T) = InfoAfter(t) /\ AfterAccrual(t, T) \in InfoRecord
          /\ info'[t] = [InfoAfter(t) EXCEPT !.claimed = ClaimedInfo(u, t).claimed]
      BY <1>2, <1>4, <1>6, <2>1 DEF AfterAccrual
    <3>2. info[t].exists
      BY <1>1, <2>1 DEF Known
    <3> QED BY <3>1, <3>2 DEF InfoRecord
  <2>2. CASE t \notin T
    BY <1>2, <2>2 DEF AfterAccrual
  <2> QED BY <2>1, <2>2
<1>10. \A v \in Owners, t \in RewardTokens :
         /\ uinfo'[v][t] = IF v = u /\ t \in T THEN ClaimedUser(u, t) ELSE uinfo[v][t]
         /\ paid'[v][t] = IF v = u /\ t \in T THEN paid[u][t] + Claimable(u, t) * D9
                                              ELSE paid[v][t]
  BY <1>2, <1>7
<1>11. ASSUME NEW t \in RewardTokens PROVE TokenStep(AfterAccrual(t, T), t)
  <2>1. \A v \in Owners :
          uinfo'[v][t].last_index \in {uinfo[v][t].last_index, AfterAccrual(t, T).index}
    <3>1. t \in T => ClaimedUser(u, t).last_index = AfterAccrual(t, T).index
      BY <1>6 DEF AfterAccrual
    <3> QED BY <1>10, <3>1
  <2>2. KnownBalance(AfterAccrual(t, T), balance[t]) \in Nat
    <3>1. balance[t] \in Nat
      BY <1>7, Scales
    <3> QED BY <1>4, <3>1, KnownBalanceType
  <2>3. KnownBalance(AfterAccrual(t, T), balance[t]) = KnownBalance(info'[t], balance'[t])
    BY <1>2, <1>6 DEF AfterAccrual
  <2>4. KnownBalance(AfterAccrual(t, T), balance[t]) <= KnownBalance(info'[t], balance'[t])
    BY <2>2, <2>3
  <2> QED BY <1>1, <1>4, <1>5, <1>9, <2>1, <2>4 DEF TokenStep
<1>12. ListTypes'
  <2>1. \A t \in RewardTokens : info[t].exists => info'[t].exists
    BY <1>4, <1>9
  <2> QED BY <1>1, <2>1, ListStays, RewardsAssumption DEF RewardsInv
<1>13. RewardsInv'
  BY <1>3, <1>8, <1>11, <1>12, InvStep
<1>14. ASSUME NEW v \in Owners, NEW t \in RewardTokens, CreditFits(v, t), v = u, t \in T
       PROVE  CreditFits(v, t)'
  <2>1. AfterAccrual(t, T) = InfoAfter(t)
    BY <1>14 DEF AfterAccrual
  <2>2. Credited(UserAfter(v, t), AfterAccrual(t, T), v, t)
    BY <1>4, <2>1, UserCredit
  <2>3. uinfo'[v][t].last_index = AfterAccrual(t, T).index
    BY <1>6, <1>10, <1>14, <2>1
  <2>4. uinfo'[v][t].accrued + paid'[v][t] = UserAfter(v, t).accrued + paid[v][t]
    BY <1>6, <1>10, <1>14
  <2> QED BY <1>4, <1>5, <1>9, <1>13, <1>14, <2>2, <2>3, <2>4, CreditAccrued
<1>15. ASSUME NEW v \in Owners, NEW t \in RewardTokens, CreditFits(v, t),
              ~(v = u /\ t \in T)
       PROVE  CreditFits(v, t)'
  <2>1. uinfo'[v][t] = uinfo[v][t] /\ paid'[v][t] = paid[v][t]
    BY <1>10, <1>15
  <2>2. Stake(v)' \in Nat /\ Stake(v)' <= Stake(v)
    BY <1>3, CreditNumbers
  <2> QED BY <1>4, <1>5, <1>9, <1>13, <1>15, <2>1, <2>2, CreditWaiting
<1> QED BY <1>13, <1>14, <1>15 DEF CreditsKept

-----------------------------------------------------------------------------
(* The list of reward tokens *)

\* A token that a step does not touch.
LEMMA IdleToken ==
  ASSUME RewardsInv, NEW t \in RewardTokens, info'[t] = info[t], balance'[t] = balance[t],
         (t \in misread') = (t \in misread), UNCHANGED <<uinfo, earned>>
  PROVE  /\ TokenStep(info[t], t)
         /\ \A u \in Owners : earned'[u][t] = earned[u][t] + GrowthEarned(info[t], t, u)
<1>1. GrownFrom(info[t], t)
  BY NoGrowth
<1>2. \A u \in Owners : earned'[u][t] = earned[u][t] + GrowthEarned(info[t], t, u)
  <2> TAKE u \in Owners
  <2>1. /\ FromTokenAmount(Stake(u)) \in Nat /\ info[t].index \in Nat
        /\ earned[u][t] \in Nat
    BY CreditNumbers
  <2>2. \A x, y \in Nat : x * (y - y) = 0
    OBVIOUS
  <2>3. GrowthEarned(info[t], t, u) = 0
    BY <2>1, <2>2 DEF GrowthEarned
  <2> QED BY <2>1, <2>3
<1>3. KnownBalance(info[t], balance[t]) <= KnownBalance(info'[t], balance'[t])
  <2>1. info[t] \in InfoRecord /\ balance[t] \in Nat
    BY Scales DEF RewardsInv, AccountTypes
  <2>2. KnownBalance(info[t], balance[t]) \in Nat
    BY <2>1, KnownBalanceType
  <2>3. KnownBalance(info'[t], balance'[t]) = KnownBalance(info[t], balance[t])
    OBVIOUS
  <2> QED BY <2>2, <2>3
<1> QED BY <1>1, <1>2, <1>3 DEF TokenStep

\* A new token starts with a balance of which nothing is handed out for the time
\* before.
LEMMA NewInfoSound ==
  ASSUME RewardsInv, NEW t \in RewardTokens, NEW a \in {balance[t]} \cup OtherBalances,
         ~info[t].exists, info'[t] = NewInfo(a), a > balance[t] => t \in misread',
         now' = now, UNCHANGED <<uinfo, balance, earned>>
  PROVE  /\ NewInfo(a) \in InfoRecord /\ NewInfo(a).exists /\ NewInfo(a).index = 0
         /\ TokenSound(t)' /\ EarnedCovered(t)'
<1> DEFINE r == NewInfo(a)
           b == balance[t]
<1>0. a \in Nat /\ a <= MaxU128
  BY RewardsAssumption, Scales DEF RewardsInv, AccountTypes
<1>1. /\ r.exists /\ r.last_paid = now /\ r.index = 0 /\ r.accounted = 0
      /\ r.last_known = a /\ r.claimed = 0 /\ r.disallowed = FALSE
  BY DEF NewInfo, NoInfo
<1>2. b \in Nat /\ b <= MaxPot /\ b <= MaxU64 /\ b <= MaxU128
  BY Scales DEF RewardsInv, AccountTypes
<1>3. now \in Nat
  BY NowNat DEF RewardsInv
<1>4. r \in InfoRecord
  <2>1. a \in 0..MaxU128 /\ 0 \in Nat
    BY <1>0, Scales
  <2>2. r = [exists |-> TRUE, last_paid |-> now, index |-> 0, accounted |-> 0,
             last_known |-> a, claimed |-> 0, disallowed |-> FALSE]
    BY DEF NewInfo, NoInfo
  <2> HIDE DEF r
  <2> QED BY <1>3, <2>1, <2>2 DEF InfoRecord
<1>5. info[t] = NoInfo /\ info[t].index = 0 /\ info[t].accounted = 0 /\ info[t].last_paid = 0
  BY DEF RewardsInv, TokenSound, NoInfo
<1>6. b <= KnownBalance(r, b)
  <2> HIDE DEF b, r
  <2>1. b <= b * D9 /\ b * D9 <= MaxU64 * D9 /\ b * D9 \in Nat /\ MaxU64 * D9 \in Nat
    <3>1. \A x, y, z \in Nat : z > 0 /\ x <= y => x <= x * z /\ x * z <= y * z
      OBVIOUS
    <3> QED BY <1>2, <3>1, Scales, Quotients
  <2>2. MaxU64 * D9 <= MaxU128
    BY RewardsAssumption
  <2>3. b * D9 <= MaxU128 /\ b * D9 + r.claimed = b * D9
    BY <1>1, <2>1, <2>2, Scales
  <2>4. /\ KnownBalance(r, b) = ToScaledCeil(b * D9) /\ ToScaledCeil(b * D9) \in Nat
        /\ b * D9 <= ToScaledCeil(b * D9)
    BY <2>1, <2>3, Roundings DEF KnownBalance, FromTokenAmount
  <2> QED BY <1>2, <2>1, <2>4
<1>7. TokenSound(t)'
  <2>1. info'[t] = r
    OBVIOUS
  <2>2. \A u \in Owners : uinfo'[u][t].last_index <= info'[t].index
    BY <1>1, <1>5, <2>1 DEF RewardsInv, TokenSound
  <2>3. t \notin misread' => info'[t].last_known <= KnownBalance(info'[t], balance'[t])
    <3> SUFFICES ASSUME t \notin misread'
                 PROVE  info'[t].last_known <= KnownBalance(info'[t], balance'[t])
      OBVIOUS
    <3>1. b <= KnownBalance(r, b) /\ balance'[t] = b /\ a <= b /\ KnownBalance(r, b) \in Nat
      BY <1>0, <1>2, <1>4, <1>6, KnownBalanceType
    <3> HIDE DEF b, r
    <3> QED BY <1>0, <1>1, <1>2, <2>1, <3>1
  <2>4. info'[t].last_paid <= now'
    BY <1>1, <1>3, <2>1
  <2>5. info'[t].accounted <= info'[t].last_known
    BY <1>0, <1>1, <2>1
  <2>6. info'[t].exists
    BY <1>1, <2>1
  <2> HIDE DEF r
  <2> QED BY <2>2, <2>3, <2>4, <2>5, <2>6 DEF TokenSound
<1>8. EarnedCovered(t)'
  <2> SUFFICES ASSUME GovUnit = D9
               PROVE  Total([u \in Owners |-> earned'[u][t]], NOwners)
                        <= D18 * info'[t].accounted + info'[t].last_paid * (MaxSupply * D9)
    BY DEF EarnedCovered
  <2> DEFINE e == [u \in Owners |-> earned[u][t]]
             w == MaxSupply * D9
  <2>1. e = [u \in Owners |-> earned'[u][t]]
    OBVIOUS
  <2>2. Total(e, NOwners) <= D18 * info[t].accounted + info[t].last_paid * w
    BY DEF RewardsInv, EarnedCovered
  <2>3. Total(e, NOwners) \in Nat
    <3>1. e \in [1..NOwners -> Nat] /\ NOwners \in Nat
      BY RealmNumbers DEF RewardsInv, AccountTypes
    <3> HIDE DEF e
    <3> QED BY <3>1, TotalNat
  <2>4. w \in Nat
    BY RealmNumbers, Scales, Quotients
  <2> HIDE DEF e, w
  <2>5. now * w \in Nat
    BY <1>3, <2>4, Quotients
  <2>6. Total(e, NOwners) <= D18 * 0 + now * w
    <3>1. D18 * 0 = 0 /\ 0 * w = 0
      BY <2>4, Scales
    <3> QED BY <1>5, <2>2, <2>3, <2>5, <3>1
  <2>7. info'[t].accounted = 0 /\ info'[t].last_paid = now
    BY <1>1
  <2> QED BY <2>1, <2>6, <2>7 DEF w
<1> QED BY <1>1, <1>4, <1>7, <1>8

LEMMA AddRewardTokenKept ==
  ASSUME RewardsInv, NEW s, NEW t \in RewardTokens, NEW a \in {balance[t]} \cup OtherBalances,
         AddRewardToken(s, t, a)
  PROVE  RewardsInv' /\ CreditsKept
<1>1. /\ CanList(t) /\ rt' = [rt EXCEPT !.list = rt.list \cup {t}]
      /\ info' = [info EXCEPT ![t] = IF info[t].exists THEN info[t] ELSE NewInfo(a)]
      /\ misread' = IF ~info[t].exists /\ a > balance[t] THEN misread \cup {t} ELSE misread
      /\ UNCHANGED realmVars /\ UNCHANGED <<uinfo, balance, earned, paid, backdated>>
  BY DEF AddRewardToken
<1>2. /\ RealmTypes' /\ Backed' /\ now <= now' /\ now' = now
      /\ \A u \in Owners : Stake(u)' = Stake(u)
  BY <1>1, RealmStays DEF realmVars
<1>3. /\ info \in [RewardTokens -> InfoRecord] /\ rt \in TokensRecord
      /\ ListTypes
  BY DEF RewardsInv, AccountTypes
<1>4. /\ \A n \in RewardTokens :
           n # t => info'[n] = info[n] /\ (n \in misread') = (n \in misread)
      /\ info[t].exists => info'[t] = info[t] /\ misread' = misread
      /\ ~info[t].exists => info'[t] = NewInfo(a) /\ (a > balance[t] => t \in misread')
  BY <1>1, <1>3
<1>5. ~info[t].exists => /\ NewInfo(a) \in InfoRecord /\ NewInfo(a).exists
                         /\ NewInfo(a).index = 0
                         /\ TokenSound(t)' /\ EarnedCovered(t)'
  BY <1>1, <1>2, <1>4, NewInfoSound
<1>6. AccountTypes'
  <2>1. info' \in [RewardTokens -> InfoRecord]
    BY <1>1, <1>3, <1>5
  <2>2. rt' \in TokensRecord
    BY <1>1, <1>3 DEF TokensRecord
  <2> QED BY <1>1, <2>1, <2>2 DEF AccountTypes, RewardsInv
<1>7. ListTypes'
  <2>1. rt'.list = rt.list \cup {t}
    BY <1>1, <1>3 DEF TokensRecord
  <2>2. IsFiniteSet(rt.list) /\ Cardinality(rt.list) < MaxRewardTokens /\ t \notin rt.list
    BY <1>1, <1>3 DEF ListTypes, CanList
  <2>3. /\ IsFiniteSet(rt.list \cup {t})
        /\ Cardinality(rt.list \cup {t}) = Cardinality(rt.list) + 1
    BY <2>2, FS_AddElement
  <2>4. Cardinality(rt.list) \in Nat /\ MaxRewardTokens \in Nat
    BY <2>2, FS_CardinalityType, RewardsAssumption
  <2>5. Cardinality(rt'.list) <= MaxRewardTokens
    BY <2>1, <2>2, <2>3, <2>4
  <2>6. rt'.list \subseteq Known'
    <3>1. \A n \in RewardTokens : info[n].exists \/ n = t => info'[n].exists
      BY <1>4, <1>5
    <3> QED BY <1>3, <2>1, <3>1 DEF ListTypes, Known
  <2> QED BY <2>1, <2>3, <2>5, <2>6 DEF ListTypes
<1>8. ASSUME NEW n \in RewardTokens, n # t \/ info[t].exists
      PROVE  /\ TokenStep(info[n], n) /\ info'[n] = info[n]
             /\ \A u \in Owners : earned'[u][n] = earned[u][n] + GrowthEarned(info[n], n, u)
  BY <1>1, <1>4, <1>8, IdleToken
<1>9. RewardsInv'
  <2>1. \A n \in RewardTokens :
          (\E r : TokenStep(r, n)) \/ (TokenSound(n)' /\ EarnedCovered(n)')
    BY <1>4, <1>5, <1>8
  <2> QED BY <1>2, <1>6, <1>7, <2>1, InvStep
<1>10. ASSUME NEW u \in Owners, NEW n \in RewardTokens, CreditFits(u, n),
              n # t \/ info[t].exists
       PROVE  CreditFits(u, n)'
  <2>1. Stake(u)' \in Nat /\ Stake(u)' <= Stake(u)
    BY <1>2, CreditNumbers
  <2> QED BY <1>1, <1>8, <1>9, <1>10, <2>1, CreditWaiting, NoGrowth
<1>11. ASSUME NEW u \in Owners, CreditFits(u, t), ~info[t].exists
       PROVE  CreditFits(u, t)'
  <2>1. info'[t].index = 0 /\ uinfo[u][t].last_index = 0
    BY <1>4, <1>5, <1>11, UnknownIndex
  <2> QED BY <1>1, <1>9, <1>11, <2>1, CreditSettled
<1> QED BY <1>9, <1>10, <1>11 DEF CreditsKept

\* A removed token accrues for the last time.
LEMMA RemoveRewardTokenKept ==
  ASSUME RewardsInv, NEW s, NEW t \in RewardTokens, RemoveRewardToken(s, t)
  PROVE  RewardsInv' /\ CreditsKept
<1> DEFINE T == {t}
<1>1. /\ info[t].exists /\ CanAccrue(info[t]) /\ rt' = [rt EXCEPT !.list = rt.list \ {t}]
      /\ info' = [info EXCEPT ![t] = [InfoAfter(t) EXCEPT !.disallowed = TRUE]]
      /\ GrowIndex({t}) /\ UNCHANGED realmVars
      /\ UNCHANGED <<uinfo, balance, paid, backdated, misread>>
  BY DEF RemoveRewardToken, Unlisted, exceptions
<1>2. /\ RealmTypes' /\ Backed' /\ now <= now'
      /\ \A u \in Owners : Stake(u)' = Stake(u)
  BY <1>1, RealmStays
<1>3. T \subseteq Known /\ \A n \in T : CanAccrue(info[n])
  BY <1>1 DEF Known
<1>4. \A n \in RewardTokens :
        /\ GrownFrom(AfterAccrual(n, T), n) /\ AfterAccrual(n, T) \in InfoRecord
        /\ AfterAccrual(n, T).exists = info[n].exists
        /\ ~info[n].exists => AfterAccrual(n, T) = info[n]
  <2> HIDE DEF T
  <2> QED BY <1>3, AccrualOf
<1>5. /\ earned' \in [Owners -> [RewardTokens -> Nat]]
      /\ \A u \in Owners, n \in RewardTokens :
           earned'[u][n] = earned[u][n] + GrowthEarned(AfterAccrual(n, T), n, u)
  <2>1. GrowIndex(T)
    BY <1>1
  <2> HIDE DEF T
  <2> QED BY <1>3, <2>1, GrowIndexStep
<1>6. /\ info \in [RewardTokens -> InfoRecord] /\ balance \in [RewardTokens -> 0..MaxPot]
      /\ rt \in TokensRecord
  BY DEF RewardsInv, AccountTypes
<1>7. ASSUME NEW n \in RewardTokens
      PROVE  /\ info'[n] \in InfoRecord
             /\ info'[n].exists = AfterAccrual(n, T).exists
             /\ info'[n].last_paid = AfterAccrual(n, T).last_paid
             /\ info'[n].index = AfterAccrual(n, T).index
             /\ info'[n].accounted = AfterAccrual(n, T).accounted
             /\ info'[n].last_known = AfterAccrual(n, T).last_known
             /\ info'[n].claimed = AfterAccrual(n, T).claimed
             /\ ~info[n].exists => info'[n] = info[n]
  <2>1. CASE n = t
    <3>1. AfterAccrual(n, T) = InfoAfter(t) /\ InfoAfter(t) \in InfoRecord
      BY <1>4, <2>1 DEF AfterAccrual
    <3>2. info'[n] = [InfoAfter(t) EXCEPT !.disallowed = TRUE]
      BY <1>1, <1>6, <2>1
    <3>3. info[n].exists /\ AfterAccrual(n, T) = InfoAfter(t)
      BY <1>1, <2>1, <3>1
    <3> DEFINE r == InfoAfter(t)
    <3> HIDE DEF r
    <3>4. /\ r \in InfoRecord /\ info'[n] = [r EXCEPT !.disallowed = TRUE]
          /\ AfterAccrual(n, T) = r
      BY <3>1, <3>2, <3>3 DEF r
    <3>5. /\ info'[n] \in InfoRecord /\ info'[n].exists = r.exists
          /\ info'[n].last_paid = r.last_paid /\ info'[n].index = r.index
          /\ info'[n].accounted = r.accounted /\ info'[n].last_known = r.last_known
          /\ info'[n].claimed = r.claimed
      BY <3>4 DEF InfoRecord
    <3> QED BY <3>3, <3>4, <3>5
  <2>2. CASE n # t
    BY <1>1, <1>6, <2>2 DEF AfterAccrual
  <2> QED BY <2>1, <2>2
<1>8. AccountTypes'
  <2>1. info' \in [RewardTokens -> InfoRecord]
    <3>1. info' = [n \in RewardTokens |-> info'[n]]
      BY <1>1, <1>6
    <3> QED BY <1>7, <3>1
  <2>2. rt' \in TokensRecord
    BY <1>1, <1>6 DEF TokensRecord
  <2> QED BY <1>1, <1>5, <2>1, <2>2 DEF AccountTypes, RewardsInv
<1> HIDE DEF T
<1>9. ASSUME NEW n \in RewardTokens PROVE TokenStep(AfterAccrual(n, T), n)
  <2>1. balance'[n] = balance[n] /\ balance[n] \in Nat
    BY <1>1, <1>6, Scales
  <2>2. KnownBalance(AfterAccrual(n, T), balance[n]) = KnownBalance(info'[n], balance'[n])
    BY <1>7, <2>1 DEF KnownBalance
  <2>3. KnownBalance(AfterAccrual(n, T), balance[n]) \in Nat
    BY <1>4, <2>1, KnownBalanceType
  <2>4. KnownBalance(AfterAccrual(n, T), balance[n]) <= KnownBalance(info'[n], balance'[n])
    BY <2>2, <2>3
  <2>5. \A u \in Owners :
          uinfo'[u][n].last_index \in {uinfo[u][n].last_index, AfterAccrual(n, T).index}
    BY <1>1
  <2> QED BY <1>1, <1>4, <1>5, <1>7, <2>4, <2>5 DEF TokenStep
<1>10. ListTypes'
  <2>1. \A n \in RewardTokens : info[n].exists => info'[n].exists
    BY <1>4, <1>7
  <2>2. rt'.list \subseteq rt.list
    BY <1>1, <1>6 DEF TokensRecord
  <2> QED BY <2>1, <2>2, ListStays, RewardsAssumption DEF RewardsInv
<1>11. RewardsInv'
  BY <1>2, <1>8, <1>9, <1>10, InvStep
<1>12. ASSUME NEW u \in Owners, NEW n \in RewardTokens, CreditFits(u, n)
       PROVE  CreditFits(u, n)'
  <2>1. Stake(u)' \in Nat /\ Stake(u)' <= Stake(u)
    BY <1>2, CreditNumbers
  <2> QED BY <1>1, <1>4, <1>5, <1>7, <1>11, <1>12, <2>1, CreditWaiting
<1> QED BY <1>11, <1>12 DEF CreditsKept

-----------------------------------------------------------------------------
(* The theorems *)

LEMMA InitInv == Init => RewardsInv /\ RewardsEarned
<1> SUFFICES ASSUME Init PROVE RewardsInv /\ RewardsEarned
  OBVIOUS
<1>1. /\ rt = [exists |-> FALSE, admin |-> None, ratio |-> 0, list |-> {}]
      /\ info = [t \in RewardTokens |-> NoInfo]
      /\ uinfo = [u \in Owners |-> [t \in RewardTokens |-> NoUserInfo]]
      /\ balance = [t \in RewardTokens |-> 0]
      /\ earned = [u \in Owners |-> [t \in RewardTokens |-> 0]]
      /\ paid = [u \in Owners |-> [t \in RewardTokens |-> 0]]
      /\ backdated = {} /\ misread = {}
  BY DEF Init
<1>2. RealmTypes /\ Backed
  BY InitRealmTypes, InitRealmBacked DEF Init
<1>3. /\ 0 \in Nat /\ 0 \in 0..MaxU128 /\ 0 \in 0..MaxPot
  BY Scales
<1>4. AccountTypes
  <2>1. NoInfo \in InfoRecord /\ NoUserInfo \in UserRecord
    BY <1>3 DEF NoInfo, NoUserInfo, InfoRecord, UserRecord
  <2>2. rt \in TokensRecord
    BY <1>1, <1>3 DEF TokensRecord
  <2> QED BY <1>1, <1>3, <2>1, <2>2 DEF AccountTypes
<1>5. ListTypes
  <2>1. rt.list = {} /\ MaxRewardTokens \in Nat
    BY <1>1, RewardsAssumption
  <2> QED BY <2>1, FS_EmptySet DEF ListTypes
<1>6. ASSUME NEW t \in RewardTokens PROVE TokenSound(t) /\ EarnedCovered(t)
  <2>1. info[t] = NoInfo /\ balance[t] = 0
    BY <1>1
  <2>2. KnownBalance(info[t], balance[t]) \in Nat
    BY <1>3, <1>4, <2>1, KnownBalanceType DEF AccountTypes
  <2>3. now \in Nat
    BY <1>2, NowNat
  <2>4. TokenSound(t)
    <3>1. \A u \in Owners : uinfo[u][t].last_index = 0
      BY <1>1 DEF NoUserInfo
    <3>2. /\ info[t].last_paid = 0 /\ info[t].index = 0 /\ info[t].accounted = 0
          /\ info[t].last_known = 0
      BY <2>1 DEF NoInfo
    <3> QED BY <1>1, <2>1, <2>2, <2>3, <3>1, <3>2 DEF TokenSound
  <2>5. EarnedCovered(t)
    <3> DEFINE e == [u \in Owners |-> earned[u][t]]
               w == MaxSupply * D9
    <3>1. NOwners \in Nat /\ e \in [1..NOwners -> Nat] /\ \A u \in 1..NOwners : e[u] = 0
      BY <1>1, RealmNumbers
    <3> HIDE DEF e
    <3>2. Total(e, NOwners) = 0
      BY <3>1, TotalZero
    <3>3. w \in Nat
      BY RealmNumbers, Scales, Quotients
    <3> HIDE DEF w
    <3>4. Total(e, NOwners) <= D18 * info[t].accounted + info[t].last_paid * w
      <4>1. info[t].accounted = 0 /\ info[t].last_paid = 0
        BY <2>1 DEF NoInfo
      <4>2. D18 * 0 = 0 /\ 0 * w = 0
        BY <3>3, Scales
      <4> QED BY <3>2, <4>1, <4>2
    <3> QED BY <3>4 DEF EarnedCovered, e, w
  <2> QED BY <2>4, <2>5
<1>7. RewardsInv
  BY <1>2, <1>4, <1>5, <1>6 DEF RewardsInv
<1>8. ASSUME NEW u \in Owners, NEW t \in RewardTokens PROVE CreditFits(u, t)
  <2>1. /\ uinfo[u][t].accrued = 0 /\ uinfo[u][t].last_index = 0 /\ info[t].index = 0
        /\ paid[u][t] = 0 /\ earned[u][t] = 0
    BY <1>1 DEF NoUserInfo, NoInfo
  <2>2. FromTokenAmount(Stake(u)) \in Nat
    BY <1>7, CreditNumbers
  <2>3. Pending(u, t) = 0
    <3>1. Pending(u, t) = FromTokenAmount(Stake(u)) * (0 - 0)
      BY <2>1 DEF Pending
    <3>2. \A x \in Nat : x * (0 - 0) = 0
      OBVIOUS
    <3> QED BY <2>2, <3>1, <3>2
  <2>4. D18 * (0 + 0) + 0 <= 0
    BY Scales
  <2> QED BY <2>1, <2>3, <2>4 DEF CreditFits
<1> QED BY <1>7, <1>8 DEF RewardsEarned, Promised, CreditFits

LEMMA NextKept ==
  ASSUME RewardsInv, [Next]_vars
  PROVE  RewardsInv' /\ CreditsKeptBut(backdated')
<1>0. CreditsKept => CreditsKeptBut(backdated')
  BY DEF CreditsKept, CreditsKeptBut
<1>1. ASSUME NEW u \in Owners, NEW amount \in Amounts, NEW T,
             DepositAndAccrue(u, amount, TRUE, T) \/ DepositAndAccrue(u, amount, FALSE, T)
      PROVE  RewardsInv' /\ CreditsKeptBut(backdated')
  <2>1. TRUE \in BOOLEAN /\ FALSE \in BOOLEAN
    OBVIOUS
  <2> QED BY <1>1, <2>1, DepositAndAccrueKept
<1>2. ASSUME NEW u \in Owners, NEW T \in SUBSET RewardTokens,
             \/ WithdrawAndAccrue(u, T)
             \/ ClaimRewards(u, T)
             \/ \E caller \in Owners : AccrueRewards(caller, u, T)
             \/ \E halfLife \in HalfLives :
                  InitOrSetRewardRatio(GovernanceAccount, u, T, halfLife)
      PROVE  RewardsInv' /\ CreditsKept
  BY <1>2, WithdrawAndAccrueKept, ClaimRewardsKept, AccrueRewardsKept, InitOrSetRewardRatioKept
<1>3. ASSUME NEW t \in RewardTokens,
             \/ \E a \in {balance[t]} \cup OtherBalances : AddRewardToken(GovernanceAccount, t, a)
             \/ RemoveRewardToken(GovernanceAccount, t)
             \/ \E amount \in Donations : SendRewards(t, amount)
      PROVE  RewardsInv' /\ CreditsKept
  BY <1>3, AddRewardTokenKept, RemoveRewardTokenKept, SmallStepsKept
<1>4. ASSUME RealmStep /\ UNCHANGED rewardVars PROVE RewardsInv' /\ CreditsKept
  BY <1>4, RealmStepKept
<1>5. ASSUME SetRewardsAdmin(GovernanceAccount) \/ UNCHANGED vars
      PROVE  RewardsInv' /\ CreditsKept
  BY <1>5, SmallStepsKept
<1> QED BY <1>0, <1>1, <1>2, <1>3, <1>4, <1>5 DEF Next

\* What was backdated once stays so.
LEMMA BackdatedGrows ==
  ASSUME [Next]_vars
  PROVE  backdated \subseteq backdated'
BY DEF Next, vars, rewardVars, exceptions, DepositAndAccrue, WithdrawAndAccrue, ClaimRewards,
       AccrueRewards, InitOrSetRewardRatio, SetRewardsAdmin, AddRewardToken,
       RemoveRewardToken, SendRewards

LEMMA RewardsInvHolds == Spec => []RewardsInv
<1>1. Init => RewardsInv
  BY InitInv
<1>2. RewardsInv /\ [Next]_vars => RewardsInv'
  BY NextKept
<1> QED BY <1>1, <1>2, PTL DEF Spec

\* The accounts of the rewards program hold what their types say: the list names
\* existing accounts and is not longer than RewardTokens has room for, no index runs
\* ahead of the clock or a user ahead of an index, and no balance is negative.
THEOREM RewardsTypeCorrect == Spec => []RewardsTypeOK
<1>1. RewardsInv => RewardsTypeOK
  <2> SUFFICES ASSUME RewardsInv PROVE RewardsTypeOK
    OBVIOUS
  <2>1. now \in Nat
    BY NowNat DEF RewardsInv
  <2>2. rt.exists \in BOOLEAN
    BY DEF RewardsInv, AccountTypes, TokensRecord
  <2>3. rt.list \subseteq Known /\ Cardinality(rt.list) <= MaxRewardTokens
    BY DEF RewardsInv, ListTypes
  <2>4. ASSUME NEW t \in RewardTokens
        PROVE  /\ info[t].last_paid \in 0..now /\ info[t].index \in Nat
               /\ info[t].accounted \in Nat /\ info[t].claimed \in Nat
               /\ balance[t] \in 0..MaxPot
    <3>1. info[t] \in InfoRecord /\ balance[t] \in 0..MaxPot /\ info[t].last_paid <= now
      BY DEF RewardsInv, AccountTypes, TokenSound
    <3> QED BY <2>1, <3>1 DEF InfoRecord
  <2>5. ASSUME NEW t \in RewardTokens, NEW u \in Owners
        PROVE  uinfo[u][t].last_index \in 0..info[t].index /\ uinfo[u][t].accrued \in Nat
    BY CreditNumbers
  <2>6. backdated \subseteq Owners \X RewardTokens /\ misread \subseteq Known
    BY DEF RewardsInv, AccountTypes, TokenSound, Known
  <2> QED BY <2>2, <2>3, <2>4, <2>5, <2>6 DEF RewardsTypeOK
<1> QED BY <1>1, RewardsInvHolds, PTL

\* accrue_rewards (reward_info.rs) never fails at the subtraction of the balance
\* accounted for from the balance last known: a handout, rounded up, stays within the
\* balance not accounted for because its percentage is one unit too small, and neither
\* claims nor removals lower the balance that is known.  The exception is a token that
\* add_reward_token was shown a larger balance of than accruals find.
THEOREM AccrualsNeverFail == Spec => []AccrualPossible
<1>1. RewardsInv => AccrualPossible
  BY DEF RewardsInv, TokenSound, AccrualPossible, Known
<1> QED BY <1>1, RewardsInvHolds, PTL

\* No order of deposits, withdrawals, revocations, accruals, claims and removals, for
\* whatever tokens the callers pass, credits a user with more than the stake earned while
\* the index grew, but for the tokens whose growth a deposit of that user left uncredited.
THEOREM RewardsAreEarned == Spec => []RewardsEarned
<1>1. Init => RewardsEarned
  BY InitInv
<1>2. RewardsInv /\ RewardsEarned /\ [Next]_vars => RewardsEarned'
  <2> SUFFICES ASSUME RewardsInv, RewardsEarned, [Next]_vars PROVE RewardsEarned'
    OBVIOUS
  <2>1. CreditsKeptBut(backdated') /\ backdated \subseteq backdated'
    BY NextKept, BackdatedGrows
  <2>2. \A u \in Owners, t \in RewardTokens : <<u, t>> \notin backdated => CreditFits(u, t)
    BY DEF RewardsEarned, Promised, CreditFits
  <2>3. \A u \in Owners, t \in RewardTokens : <<u, t>> \notin backdated' => CreditFits(u, t)'
    BY <2>1, <2>2 DEF CreditsKeptBut
  <2> QED BY <2>3 DEF RewardsEarned, Promised, CreditFits
<1> QED BY <1>1, <1>2, RewardsInvHolds, PTL DEF Spec

\* What is credited to the users or waits for them, backdated stakes aside, never passes
\* what the account of the token accounted for by more than the rounding of the index, one
\* unit per staked token and second.
THEOREM PromisesAreCovered == Spec => []PromisesCovered
<1>1. RewardsInv /\ RewardsEarned => PromisesCovered
  <2> SUFFICES ASSUME RewardsInv, RewardsEarned, GovUnit = D9, NEW t \in RewardTokens
               PROVE  Total([u \in Owners |-> IF <<u, t>> \in backdated THEN 0
                                              ELSE Promised(u, t)], NOwners)
                          <= D18 * info[t].accounted + now * MaxSupply * D9
    BY DEF PromisesCovered
  <2> DEFINE c == [u \in Owners |-> IF <<u, t>> \in backdated THEN 0 ELSE Promised(u, t)]
             e == [u \in Owners |-> earned[u][t]]
             w == MaxSupply * D9
  <2>1. NOwners \in Nat /\ Owners = 1..NOwners /\ MaxSupply \in Nat
    BY RealmNumbers
  <2>2. ASSUME NEW u \in Owners
        PROVE  /\ Promised(u, t) \in Nat /\ earned[u][t] \in Nat
               /\ <<u, t>> \notin backdated => Promised(u, t) <= earned[u][t]
    <3>1. /\ D18 * (uinfo[u][t].accrued + paid[u][t]) \in Nat /\ earned[u][t] \in Nat
          /\ info[t].index - uinfo[u][t].last_index \in Nat
          /\ FromTokenAmount(Stake(u)) \in Nat
      BY CreditNumbers
    <3>2. Pending(u, t) \in Nat
      BY <3>1, Quotients DEF Pending
    <3> QED BY <3>1, <3>2 DEF RewardsEarned, Promised
  <2>3. /\ c \in [1..NOwners -> Nat] /\ e \in [1..NOwners -> Nat]
        /\ \A u \in 1..NOwners : c[u] <= e[u]
    <3>1. ASSUME NEW u \in Owners
          PROVE  /\ c[u] \in Nat /\ e[u] \in Nat /\ c[u] <= e[u]
      <4>1. CASE <<u, t>> \in backdated
        <5>1. c[u] = 0 /\ e[u] = earned[u][t]
          BY <4>1
        <5> QED BY <2>2, <5>1
      <4>2. CASE <<u, t>> \notin backdated
        <5>1. c[u] = Promised(u, t) /\ e[u] = earned[u][t]
          BY <4>2
        <5> QED BY <2>2, <4>2, <5>1
      <4> QED BY <4>1, <4>2
    <3>2. c = [u \in Owners |-> c[u]] /\ e = [u \in Owners |-> e[u]]
      OBVIOUS
    <3> HIDE DEF c, e
    <3> QED BY <2>1, <3>1, <3>2
  <2>4. Total(e, NOwners) <= D18 * info[t].accounted + info[t].last_paid * w
    BY DEF RewardsInv, EarnedCovered
  <2> HIDE DEF c, e
  <2>5. /\ Total(c, NOwners) <= Total(e, NOwners)
        /\ Total(c, NOwners) \in Nat /\ Total(e, NOwners) \in Nat
    BY <2>1, <2>3, TotalMonotone, TotalNat
  <2>6. w \in Nat
    BY <2>1, Scales, Quotients
  <2>7. /\ info[t].last_paid \in Nat /\ info[t].last_paid <= now /\ now \in Nat
        /\ info[t].accounted \in Nat
    <3>1. now \in Nat
      BY NowNat DEF RewardsInv
    <3> QED BY <3>1 DEF RewardsInv, AccountTypes, InfoRecord, TokenSound
  <2>8. now * MaxSupply * D9 = now * w
    BY <2>1, <2>7, Scales
  <2> HIDE DEF w
  <2>9. info[t].last_paid * w <= now * w /\ info[t].last_paid * w \in Nat /\ now * w \in Nat
    <3>1. \A x, y, z \in Nat : x <= y => x * z <= y * z /\ x * z \in Nat /\ y * z \in Nat
      OBVIOUS
    <3> QED BY <2>6, <2>7, <3>1
  <2>10. D18 * info[t].accounted \in Nat
    BY <2>7, Scales, Quotients
  <2>11. Total(c, NOwners) <= D18 * info[t].accounted + now * w
    BY <2>4, <2>5, <2>9, <2>10
  <2> QED BY <2>8, <2>11 DEF c
<1>2. Spec => []RewardsEarned
  BY RewardsAreEarned
<1> QED BY <1>1, <1>2, RewardsInvHolds, PTL

=============================================================================
