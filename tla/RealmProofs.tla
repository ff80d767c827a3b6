---------------------------- MODULE RealmProofs ----------------------------
(***************************************************************************)
(* Types of a realm for every number of owners, and why the deposits of    *)
(* the owners' records can always be paid out: no instruction lowers what  *)
(* a holding account has beyond them.                                      *)
(***************************************************************************)
EXTENDS Realm, SumsProofs

-----------------------------------------------------------------------------
(* Types *)

\* A token owner record; that the votes it counts are never negative is a
\* consequence of CountersAgree and not a type.
OwnerRecord ==
  [exists : BOOLEAN, deposit : 0..MaxU64, unrelinquished : Int,
   outstanding : 0..MaxOutstanding, delegate : Delegates \cup {None}, locks : SUBSET Locks]

RealmRecord ==
  [authority : {RealmAuthority, None} \cup NewAuthorities, council : BOOLEAN,
   source : SourceArgs, min_weight_to_create_governance : Nat]

TokenConfig ==
  [token_type : TokenTypes, voter_weight_addin : BOOLEAN,
   max_voter_weight_addin : BOOLEAN, lock_authorities : SUBSET LockAuthorities]

ConfigTypes ==
  /\ realm \in RealmRecord
  /\ tokens \in [GoverningMints -> TokenConfig]

RecordTypes ==
  /\ tor \in [Records -> OwnerRecord]
  /\ \A k \in Records : ~tor[k].exists => tor[k] = NoRecord

BalanceTypes ==
  /\ holding \in [GoverningMints -> Nat]
  /\ wallet \in [GoverningMints -> Nat]
  /\ \A m \in GoverningMints : holding[m] + wallet[m] <= MaxSupply

RealmTypes ==
  /\ now \in 0..MaxTime
  /\ ConfigTypes
  /\ RecordTypes
  /\ BalanceTypes
  /\ govs \subseteq {GovernanceAccount}

\* What the constants are numbers of.
LEMMA RealmNumbers ==
  /\ MaxSupply \in Nat /\ MaxU64 \in Nat /\ MaxTime \in Nat /\ NOwners \in Nat
  /\ MaxSupply <= MaxU64
  /\ SUPPLY_FRACTION_BASE \in Nat \ {0}
  /\ Owners = 1..NOwners
BY RealmAssumption DEF Owners

\* The two parts of the address of a record.
LEMMA RecordKeys ==
  /\ \A k \in Records : k = <<k[1], k[2]>> /\ k[1] \in GoverningMints /\ k[2] \in Owners
  /\ \A m \in GoverningMints, o \in Owners :
       <<m, o>> \in Records /\ <<m, o>>[1] = m /\ <<m, o>>[2] = o
BY DEF Records

\* Arguments that are given for a configuration make one.
LEMMA ResolvedType ==
  ASSUME NEW args \in RealmConfigArgs, NEW m \in GoverningMints,
         NEW authorities \in SUBSET LockAuthorities
  PROVE  ResolveTokenConfig(args, m, authorities) \in TokenConfig
BY DEF ResolveTokenConfig, TokenConfig, RealmConfigArgs, TokenConfigArgs

LEMMA NewRecordType ==
  /\ NoRecord \in OwnerRecord /\ NewRecord \in OwnerRecord
  /\ NewRecord.exists /\ NewRecord.deposit = 0
  /\ NewRecord.unrelinquished = 0 /\ NewRecord.outstanding = 0
  /\ NoRecord.deposit = 0 /\ NoRecord.unrelinquished = 0 /\ NoRecord.outstanding = 0
<1>1. /\ NewRecord.deposit = 0 /\ NewRecord.unrelinquished = 0 /\ NewRecord.outstanding = 0
      /\ NoRecord.deposit = 0 /\ NoRecord.unrelinquished = 0 /\ NoRecord.outstanding = 0
  BY DEF NoRecord, NewRecord
<1>2. NewRecord.exists
  BY Zenon DEF NoRecord, NewRecord
<1>3. 0 \in 0..MaxU64 /\ 0 \in Int /\ 0 \in 0..MaxOutstanding
  BY RealmNumbers DEF MaxOutstanding
<1>4. NoRecord \in OwnerRecord
  BY <1>3, Zenon DEF OwnerRecord, NoRecord
<1>5. NewRecord \in OwnerRecord
  BY <1>4 DEF OwnerRecord, NewRecord
<1> QED BY <1>1, <1>2, <1>4, <1>5

\* One record is replaced by one that exists.
LEMMA RecordStep ==
  ASSUME RecordTypes, NEW k \in Records, NEW r \in OwnerRecord, r.exists,
         tor' = [tor EXCEPT ![k] = r]
  PROVE  RecordTypes'
BY DEF RecordTypes

-----------------------------------------------------------------------------
(* The initial state *)

LEMMA InitRealmTypes == RealmInit => RealmTypes
<1> SUFFICES ASSUME RealmInit PROVE RealmTypes
  OBVIOUS
<1>1. PICK args \in InitialRealms : CreateRealm(args)
  BY DEF RealmInit
<1>2. args \in RealmConfigArgs
  BY RealmArgsAssumption
<1>3. ConfigTypes
  <2>1. realm \in RealmRecord
    BY <1>1, <1>2 DEF CreateRealm, RealmRecord, RealmConfigArgs
  <2>2. \A m \in GoverningMints : ResolveTokenConfig(args, m, {}) \in TokenConfig
    BY <1>2, ResolvedType
  <2> QED BY <1>1, <2>1, <2>2 DEF CreateRealm, ConfigTypes
<1>4. PICK deposits \in InitialDeposits :
        /\ tor = [k \in Records |->
             IF k \in DOMAIN deposits THEN [NewRecord EXCEPT !.deposit = deposits[k]]
                                      ELSE NoRecord]
        /\ holding = [m \in GoverningMints |->
             Total([o \in Owners |-> tor[m, o].deposit], NOwners)]
  BY DEF RealmInit
<1>5. RecordTypes
  <2>1. \A k \in Records : k \in DOMAIN deposits => deposits[k] \in 0..MaxU64
    BY RealmArgsAssumption
  <2>2. \A d \in 0..MaxU64 : /\ [NewRecord EXCEPT !.deposit = d] \in OwnerRecord
                             /\ [NewRecord EXCEPT !.deposit = d].exists
    BY NewRecordType DEF OwnerRecord
  <2> QED BY <1>4, <2>1, <2>2, NewRecordType DEF RecordTypes
<1>6. BalanceTypes
  <2> SUFFICES ASSUME NEW m \in GoverningMints
               PROVE  holding[m] \in Nat /\ wallet[m] \in Nat /\ holding[m] + wallet[m] <= MaxSupply
    BY <1>4 DEF BalanceTypes, RealmInit
  <2> DEFINE f == [o \in Owners |-> IF <<m, o>> \in DOMAIN deposits
                                    THEN deposits[<<m, o>>] ELSE 0]
             g == [o \in Owners |-> tor[m, o].deposit]
  <2>1. \A o \in Owners : g[o] = f[o] /\ g[o] \in Nat
    <3> TAKE o \in Owners
    <3> DEFINE k == <<m, o>>
    <3>1. k \in Records /\ tor[k] \in OwnerRecord
      BY <1>5, RecordKeys DEF RecordTypes
    <3>2. tor[k].deposit = IF k \in DOMAIN deposits THEN deposits[k] ELSE 0
      BY <1>4, <3>1, NewRecordType DEF NewRecord, NoRecord
    <3>3. tor[k].deposit \in Nat
      BY <3>1, RealmNumbers DEF OwnerRecord
    <3> QED BY <3>2, <3>3
  <2>2. f = g /\ g \in [1..NOwners -> Nat] /\ NOwners \in Nat
    BY <2>1, RealmNumbers
  <2>3. Total(f, NOwners) <= MaxSupply
    BY RealmArgsAssumption
  <2>4. holding[m] = Total(g, NOwners) /\ wallet[m] = 0
    BY <1>4 DEF RealmInit
  <2> HIDE DEF f, g
  <2>5. Total(g, NOwners) \in Nat
    BY <2>2, TotalNat
  <2> QED BY <2>2, <2>3, <2>4, <2>5, RealmNumbers
<1>7. now = 0 /\ govs = {}
  BY <1>1 DEF RealmInit, CreateRealm
<1>8. now \in 0..MaxTime
  BY <1>7, RealmNumbers
<1> QED BY <1>3, <1>5, <1>6, <1>7, <1>8 DEF RealmTypes

-----------------------------------------------------------------------------
(* What a step of the realm keeps *)

\* What the records of a mint's owners add up to.
Deposited(m) == Total([o \in Owners |-> tor[m, o].deposit], NOwners)

Backed == \A m \in GoverningMints : Deposited(m) <= holding[m]

CountersKept ==
  \A k \in Records : /\ tor'[k].unrelinquished = tor[k].unrelinquished
                     /\ tor'[k].outstanding = tor[k].outstanding
                     /\ tor[k].exists => tor'[k].exists

\* Deposits are natural numbers, and so are their sums.
LEMMA DepositedNat ==
  ASSUME RecordTypes, NEW m \in GoverningMints
  PROVE  /\ \A o \in Owners : tor[m, o].deposit \in Nat
         /\ [o \in Owners |-> tor[m, o].deposit] \in [1..NOwners -> Nat]
         /\ Deposited(m) \in Nat
<1>0. \A k \in Records : tor[k].deposit \in Nat
  BY RealmNumbers DEF RecordTypes, OwnerRecord
<1>1. \A o \in Owners : tor[m, o].deposit \in Nat
  BY <1>0, RecordKeys
<1>2. [o \in Owners |-> tor[m, o].deposit] \in [1..NOwners -> Nat]
  BY <1>1, RealmNumbers
<1> QED BY <1>1, <1>2, RealmNumbers, TotalNat DEF Deposited

\* The holding account starts with the deposits made before.
LEMMA InitRealmBacked == RealmInit => Backed
<1> SUFFICES ASSUME RealmInit, NEW m \in GoverningMints PROVE Deposited(m) <= holding[m]
  BY DEF Backed
<1>0. holding = [n \in GoverningMints |->
                   Total([o \in Owners |-> tor[n, o].deposit], NOwners)]
  BY Zenon DEF RealmInit
<1>1. holding = [n \in GoverningMints |-> Deposited(n)]
  BY <1>0, Zenon DEF Deposited
<1>2. holding[m] = Deposited(m)
  BY <1>1
<1>3. RecordTypes
  BY InitRealmTypes DEF RealmTypes
<1>4. Deposited(m) \in Nat
  BY <1>3, DepositedNat, Zenon
<1> QED BY <1>2, <1>4

LEMMA NextDepositedNat ==
  ASSUME RecordTypes', NEW m \in GoverningMints
  PROVE  /\ \A o \in Owners : tor'[m, o].deposit \in Nat
         /\ [o \in Owners |-> tor'[m, o].deposit] \in [1..NOwners -> Nat]
         /\ Deposited(m)' \in Nat
         /\ Deposited(m)' = Total([o \in Owners |-> tor'[m, o].deposit], NOwners)
<1>0. \A k \in Records : tor'[k].deposit \in Nat
  BY RealmNumbers DEF RecordTypes, OwnerRecord
<1>1. \A o \in Owners : tor'[m, o].deposit \in Nat
  BY <1>0, RecordKeys
<1>2. [o \in Owners |-> tor'[m, o].deposit] \in [1..NOwners -> Nat]
  BY <1>1, RealmNumbers
<1>3. Deposited(m)' = Total([o \in Owners |-> tor'[m, o].deposit], NOwners)
  BY RealmNumbers DEF Deposited
<1> QED BY <1>1, <1>2, <1>3, RealmNumbers, TotalNat

\* Steps that leave the deposits alone.
LEMMA SameDeposits ==
  ASSUME \A k \in Records : tor'[k].deposit = tor[k].deposit, NEW m \in GoverningMints
  PROVE  Deposited(m)' = Deposited(m)
<1>1. [o \in Owners |-> tor'[m, o].deposit] = [o \in Owners |-> tor[m, o].deposit]
  BY RecordKeys
<1> QED BY <1>1 DEF Deposited

\* A step of one record changes the sum of its mint by what it changes the deposit.
LEMMA OneDeposit ==
  ASSUME RecordTypes, RecordTypes', NEW k \in Records, NEW r \in OwnerRecord,
         tor' = [tor EXCEPT ![k] = r], NEW m \in GoverningMints
  PROVE  Deposited(m)' = IF m = k[1] THEN Deposited(m) + r.deposit - tor[k].deposit
                                     ELSE Deposited(m)
<1> DEFINE f == [o \in Owners |-> tor[m, o].deposit]
           g == [o \in Owners |-> tor'[m, o].deposit]
<1>1. /\ f \in [1..NOwners -> Nat] /\ g \in [1..NOwners -> Nat] /\ NOwners \in Nat
      /\ Deposited(m) = Total(f, NOwners) /\ Deposited(m)' = Total(g, NOwners)
  BY DepositedNat, NextDepositedNat, RealmNumbers DEF Deposited
<1>2. \A o \in Owners : tor'[m, o] = IF <<m, o>> = k THEN r ELSE tor[m, o]
  BY RecordKeys DEF RecordTypes
<1>3. CASE m = k[1]
  <2>1. k[2] \in Owners /\ <<m, k[2]>> = k
    BY <1>3, RecordKeys
  <2>2. \A i \in Owners : i # k[2] => <<m, i>> # k
    BY RecordKeys
  <2>3. \A i \in Owners : i # k[2] => g[i] = f[i]
    <3> TAKE i \in Owners
    <3>1. i # k[2] => tor'[m, i] = tor[m, i]
      BY <1>2, <2>2
    <3>2. g[i] = tor'[m, i].deposit /\ f[i] = tor[m, i].deposit
      OBVIOUS
    <3> HIDE DEF f, g
    <3> QED BY <3>1, <3>2, Zenon
  <2>4. f[k[2]] = tor[k].deposit /\ g[k[2]] = r.deposit
    BY <1>2, <2>1
  <2>5. k[2] \in 1..NOwners /\ \A i \in 1..NOwners : i # k[2] => g[i] = f[i]
    BY <2>1, <2>3, RealmNumbers
  <2> HIDE DEF f, g
  <2>6. Total(g, NOwners) = Total(f, NOwners) + g[k[2]] - f[k[2]]
    BY <1>1, <2>5, TotalUpdate
  <2> QED BY <1>1, <1>3, <2>4, <2>6
<1>4. CASE m # k[1]
  <2>1. \A o \in Owners : <<m, o>> # k
    BY <1>4, RecordKeys
  <2>2. \A o \in Owners : tor'[m, o] = tor[m, o]
    BY <1>2, <2>1
  <2>3. \A o \in Owners : tor'[m, o].deposit = tor[m, o].deposit
    BY <2>2, Zenon
  <2>4. g = f
    BY <2>3
  <2> QED BY <1>1, <1>4, <2>4
<1> QED BY <1>3, <1>4

\* Configuration alone.
LEMMA ConfigStep ==
  ASSUME RealmTypes, ConfigTypes', UNCHANGED <<now, tor, holding, wallet, govs>>
  PROVE  RealmTypes' /\ CountersKept /\ (Backed => Backed')
<1>1. RealmTypes' /\ CountersKept
  BY DEF RealmTypes, RecordTypes, BalanceTypes, CountersKept
<1>2. \A m \in GoverningMints : Deposited(m)' = Deposited(m)
  BY SameDeposits
<1> QED BY <1>1, <1>2 DEF Backed

\* One record, whose deposit and counters stay.
LEMMA RecordOnly ==
  ASSUME RealmTypes, NEW k \in Records, NEW r \in OwnerRecord, r.exists,
         r.deposit = tor[k].deposit, r.unrelinquished = tor[k].unrelinquished,
         r.outstanding = tor[k].outstanding,
         tor' = [tor EXCEPT ![k] = r],
         UNCHANGED <<now, realm, tokens, holding, wallet, govs>>
  PROVE  RealmTypes' /\ CountersKept /\ (Backed => Backed')
<1>1. RecordTypes'
  BY RecordStep DEF RealmTypes
<1>2. RealmTypes'
  BY <1>1 DEF RealmTypes, ConfigTypes, BalanceTypes
<1>3. \A j \in Records : tor'[j] = IF j = k THEN r ELSE tor[j]
  BY DEF RealmTypes, RecordTypes
<1>4. CountersKept
  BY <1>3 DEF CountersKept
<1>5. \A m \in GoverningMints : Deposited(m)' = Deposited(m)
  BY <1>3, SameDeposits
<1> QED BY <1>2, <1>4, <1>5 DEF Backed

\* One record's deposit and the two balances of its mint.
LEMMA BalanceStep ==
  ASSUME RealmTypes, NEW k \in Records, NEW r \in OwnerRecord, r.exists,
         r.unrelinquished = tor[k].unrelinquished, r.outstanding = tor[k].outstanding,
         NEW h \in Nat, NEW w \in Nat, h + w <= MaxSupply,
         h - r.deposit >= holding[k[1]] - tor[k].deposit,
         tor' = [tor EXCEPT ![k] = r],
         holding' = [holding EXCEPT ![k[1]] = h], wallet' = [wallet EXCEPT ![k[1]] = w],
         UNCHANGED <<now, realm, tokens, govs>>
  PROVE  RealmTypes' /\ CountersKept /\ (Backed => Backed')
<1>1. RecordTypes /\ RecordTypes'
  BY RecordStep DEF RealmTypes
<1>2. k[1] \in GoverningMints
  BY RecordKeys
<1>3. BalanceTypes'
  BY <1>2 DEF RealmTypes, BalanceTypes
<1>4. RealmTypes'
  BY <1>1, <1>3 DEF RealmTypes, ConfigTypes
<1>5. \A j \in Records : tor'[j] = IF j = k THEN r ELSE tor[j]
  BY DEF RealmTypes, RecordTypes
<1>6. CountersKept
  BY <1>5 DEF CountersKept
<1>7. ASSUME Backed PROVE Backed'
  <2> SUFFICES ASSUME NEW m \in GoverningMints PROVE Deposited(m)' <= holding'[m]
    BY DEF Backed
  <2>1. Deposited(m) <= holding[m]
    BY <1>7 DEF Backed
  <2>2. /\ Deposited(m) \in Nat /\ holding[m] \in Nat
        /\ r.deposit \in Nat /\ tor[k].deposit \in Nat
    <3>1. Deposited(m) \in Nat
      BY <1>1, DepositedNat
    <3>2. holding[m] \in Nat
      BY DEF RealmTypes, BalanceTypes
    <3>3. r.deposit \in Nat /\ tor[k].deposit \in Nat
      BY <1>1, RealmNumbers DEF RecordTypes, OwnerRecord
    <3> QED BY <3>1, <3>2, <3>3
  <2>3. holding'[m] = IF m = k[1] THEN h ELSE holding[m]
    BY DEF RealmTypes, BalanceTypes
  <2>4. Deposited(m)' = IF m = k[1] THEN Deposited(m) + r.deposit - tor[k].deposit
                                    ELSE Deposited(m)
    BY <1>1, OneDeposit
  <2>5. CASE m = k[1]
    BY <2>1, <2>2, <2>3, <2>4, <2>5
  <2>6. CASE m # k[1]
    BY <2>1, <2>2, <2>3, <2>4, <2>6
  <2> QED BY <2>5, <2>6
<1> QED BY <1>4, <1>6, <1>7

-----------------------------------------------------------------------------
(* The instructions of a realm *)

LEMMA SetRealmConfigStep ==
  ASSUME RealmTypes, NEW s, NEW args \in RealmConfigArgs, SetRealmConfig(s, args)
  PROVE  RealmTypes' /\ CountersKept /\ (Backed => Backed')
<1>1. \A m \in GoverningMints : tokens[m].lock_authorities \in SUBSET LockAuthorities
  BY DEF RealmTypes, ConfigTypes, TokenConfig
<1>2. tokens' \in [GoverningMints -> TokenConfig]
  BY <1>1, ResolvedType DEF SetRealmConfig
<1>3. realm' \in RealmRecord
  BY DEF SetRealmConfig, RealmTypes, ConfigTypes, RealmRecord, RealmConfigArgs
<1> QED BY <1>2, <1>3, ConfigStep DEF SetRealmConfig, ConfigTypes

LEMMA AddLockAuthorityStep ==
  ASSUME RealmTypes, NEW s, NEW m \in GoverningMints, NEW a \in LockAuthorities,
         AddLockAuthority(s, m, a)
  PROVE  RealmTypes' /\ CountersKept /\ (Backed => Backed')
<1>1. ConfigTypes'
  BY DEF AddLockAuthority, RealmTypes, ConfigTypes, TokenConfig
<1> QED BY <1>1, ConfigStep DEF AddLockAuthority

LEMMA RemoveLockAuthorityStep ==
  ASSUME RealmTypes, NEW s, NEW m \in GoverningMints, NEW a \in LockAuthorities,
         RemoveLockAuthority(s, m, a)
  PROVE  RealmTypes' /\ CountersKept /\ (Backed => Backed')
<1>1. ConfigTypes'
  BY DEF RemoveLockAuthority, RealmTypes, ConfigTypes, TokenConfig
<1> QED BY <1>1, ConfigStep DEF RemoveLockAuthority

LEMMA SetRealmAuthorityStep ==
  ASSUME RealmTypes, NEW s, NEW action, NEW new \in {None} \cup NewAuthorities,
         SetRealmAuthority(s, action, new)
  PROVE  RealmTypes' /\ CountersKept /\ (Backed => Backed')
<1>1. ConfigTypes'
  BY DEF SetRealmAuthority, RealmTypes, ConfigTypes, RealmRecord
<1> QED BY <1>1, ConfigStep DEF SetRealmAuthority

\* A record that does not exist counts nothing, and neither does a new one.
LEMMA CreateTokenOwnerRecordStep ==
  ASSUME RealmTypes, NEW k \in Records, CreateTokenOwnerRecord(k)
  PROVE  RealmTypes' /\ CountersKept /\ (Backed => Backed')
<1>1. tor[k] = NoRecord
  BY DEF CreateTokenOwnerRecord, RealmTypes, RecordTypes
<1> QED BY <1>1, NewRecordType, RecordOnly DEF CreateTokenOwnerRecord

LEMMA SetGovernanceDelegateStep ==
  ASSUME RealmTypes, NEW k \in Records, NEW s, NEW d \in Delegates \cup {None},
         SetGovernanceDelegate(k, s, d)
  PROVE  RealmTypes' /\ CountersKept /\ (Backed => Backed')
<1> DEFINE r == [tor[k] EXCEPT !.delegate = d]
<1>1. tor[k] \in OwnerRecord /\ tor[k].exists
  BY DEF SetGovernanceDelegate, OwnerOrDelegateSigns, RealmTypes, RecordTypes
<1>2. /\ r \in OwnerRecord /\ r.exists = tor[k].exists /\ r.deposit = tor[k].deposit
      /\ r.unrelinquished = tor[k].unrelinquished /\ r.outstanding = tor[k].outstanding
  BY <1>1 DEF OwnerRecord
<1>3. /\ tor' = [tor EXCEPT ![k] = r]
      /\ UNCHANGED <<now, realm, tokens, holding, wallet, govs>>
  BY DEF SetGovernanceDelegate
<1> HIDE DEF r
<1> QED BY <1>1, <1>2, <1>3, RecordOnly

LEMMA WithoutExpiredType ==
  ASSUME NEW r \in OwnerRecord
  PROVE  /\ WithoutExpiredLocks(r) \in OwnerRecord
         /\ WithoutExpiredLocks(r).exists = r.exists
         /\ WithoutExpiredLocks(r).deposit = r.deposit
         /\ WithoutExpiredLocks(r).unrelinquished = r.unrelinquished
         /\ WithoutExpiredLocks(r).outstanding = r.outstanding
BY DEF WithoutExpiredLocks, OwnerRecord

LEMMA SetTokenOwnerRecordLockStep ==
  ASSUME RealmTypes, NEW k \in Records, NEW lock \in Locks, SetTokenOwnerRecordLock(k, lock)
  PROVE  RealmTypes' /\ CountersKept /\ (Backed => Backed')
<1> DEFINE q == WithoutExpiredLocks(tor[k])
           r == UpsertLock(q, lock)
<1>1. tor[k] \in OwnerRecord /\ tor[k].exists
  BY DEF SetTokenOwnerRecordLock, RealmTypes, RecordTypes
<1>2. /\ q \in OwnerRecord /\ q.exists = tor[k].exists /\ q.deposit = tor[k].deposit
      /\ q.unrelinquished = tor[k].unrelinquished /\ q.outstanding = tor[k].outstanding
  BY <1>1, WithoutExpiredType
<1>3. /\ tor' = [tor EXCEPT ![k] = r]
      /\ UNCHANGED <<now, realm, tokens, holding, wallet, govs>>
  BY DEF SetTokenOwnerRecordLock
<1> HIDE DEF q
<1>4. /\ r \in OwnerRecord /\ r.exists = q.exists /\ r.deposit = q.deposit
      /\ r.unrelinquished = q.unrelinquished /\ r.outstanding = q.outstanding
  BY <1>2 DEF UpsertLock, OwnerRecord
<1> HIDE DEF r
<1> QED BY <1>1, <1>2, <1>3, <1>4, RecordOnly

LEMMA RelinquishTokenOwnerRecordLocksStep ==
  ASSUME RealmTypes, NEW k \in Records, NEW a, NEW s, NEW ids,
         RelinquishTokenOwnerRecordLocks(k, a, s, ids)
  PROVE  RealmTypes' /\ CountersKept /\ (Backed => Backed')
<1> DEFINE q == WithoutLocks(tor[k], a, ids)
           r == WithoutExpiredLocks(q)
<1>1. tor[k] \in OwnerRecord /\ tor[k].exists
  BY DEF RelinquishTokenOwnerRecordLocks, RealmTypes, RecordTypes
<1>2. /\ q \in OwnerRecord /\ q.exists = tor[k].exists /\ q.deposit = tor[k].deposit
      /\ q.unrelinquished = tor[k].unrelinquished /\ q.outstanding = tor[k].outstanding
  BY <1>1 DEF OwnerRecord, WithoutLocks
<1>3. /\ tor' = [tor EXCEPT ![k] = r]
      /\ UNCHANGED <<now, realm, tokens, holding, wallet, govs>>
  BY DEF RelinquishTokenOwnerRecordLocks
<1> HIDE DEF q
<1>4. /\ r \in OwnerRecord /\ r.exists = q.exists /\ r.deposit = q.deposit
      /\ r.unrelinquished = q.unrelinquished /\ r.outstanding = q.outstanding
  BY <1>2, WithoutExpiredType
<1> HIDE DEF r
<1> QED BY <1>1, <1>2, <1>3, <1>4, RecordOnly

-----------------------------------------------------------------------------
(* Instructions that move governing tokens *)

LEMMA BalancesOf ==
  ASSUME RealmTypes, NEW k \in Records
  PROVE  /\ k[1] \in GoverningMints
         /\ holding[k[1]] \in Nat /\ wallet[k[1]] \in Nat
         /\ holding[k[1]] + wallet[k[1]] <= MaxSupply
         /\ tor[k] \in OwnerRecord /\ tor[k].deposit \in 0..MaxU64
<1>1. k[1] \in GoverningMints
  BY RecordKeys
<1>2. tor[k] \in OwnerRecord
  BY DEF RealmTypes, RecordTypes
<1> QED BY <1>1, <1>2 DEF RealmTypes, BalanceTypes, OwnerRecord

LEMMA DepositGoverningTokensStep ==
  ASSUME RealmTypes, NEW k \in Records, NEW amount \in Amounts, NEW minted \in BOOLEAN,
         DepositGoverningTokens(k, amount, minted)
  PROVE  RealmTypes' /\ CountersKept /\ (Backed => Backed')
<1> DEFINE r == [tor[k] EXCEPT !.exists = TRUE, !.deposit = @ + amount]
           h == holding[k[1]] + amount
           w == IF minted THEN wallet[k[1]] ELSE wallet[k[1]] - amount
<1>1. amount \in Nat
  BY RealmAssumption
<1>2. tor[k].deposit + amount \in 0..MaxU64
  BY <1>1, BalancesOf, RealmNumbers DEF DepositGoverningTokens
<1>3. /\ r \in OwnerRecord /\ r.exists /\ r.deposit = tor[k].deposit + amount
      /\ r.unrelinquished = tor[k].unrelinquished /\ r.outstanding = tor[k].outstanding
  BY <1>2, BalancesOf DEF OwnerRecord
<1>4. h \in Nat /\ w \in Nat /\ h + w <= MaxSupply
  <2>1. CASE minted
    <3>1. h + wallet[k[1]] <= MaxSupply
      BY <1>1, <2>1, BalancesOf DEF DepositGoverningTokens
    <3> QED BY <1>1, <2>1, <3>1, BalancesOf
  <2>2. CASE ~minted
    <3>1. wallet[k[1]] >= amount
      BY <2>2 DEF DepositGoverningTokens
    <3> QED BY <1>1, <2>2, <3>1, BalancesOf, RealmNumbers
  <2> QED BY <2>1, <2>2
<1>5. tor' = [tor EXCEPT ![k] = r]
  BY DEF DepositGoverningTokens
<1>6. holding' = [holding EXCEPT ![k[1]] = h]
  BY DEF DepositGoverningTokens
<1>7. wallet' = [wallet EXCEPT ![k[1]] = w]
  BY DEF DepositGoverningTokens, RealmTypes, BalanceTypes
<1>8. UNCHANGED <<now, realm, tokens, govs>>
  BY DEF DepositGoverningTokens
<1>9. h - r.deposit >= holding[k[1]] - tor[k].deposit
  BY <1>1, <1>3, BalancesOf, RealmNumbers
<1> HIDE DEF r, h, w
<1> QED BY <1>3, <1>4, <1>5, <1>6, <1>7, <1>8, <1>9, BalanceStep

LEMMA WithdrawGoverningTokensStep ==
  ASSUME RealmTypes, NEW k \in Records, WithdrawGoverningTokens(k)
  PROVE  RealmTypes' /\ CountersKept /\ (Backed => Backed')
<1> DEFINE r == [tor[k] EXCEPT !.deposit = 0]
           h == holding[k[1]] - tor[k].deposit
           w == wallet[k[1]] + tor[k].deposit
<1>1. 0 \in 0..MaxU64
  BY RealmNumbers
<1>2. r.exists = tor[k].exists /\ tor[k].exists
  BY BalancesOf DEF OwnerRecord, WithdrawGoverningTokens
<1>3. /\ r \in OwnerRecord /\ r.deposit = 0
      /\ r.unrelinquished = tor[k].unrelinquished /\ r.outstanding = tor[k].outstanding
  BY <1>1, BalancesOf DEF OwnerRecord
<1>4. h \in Nat /\ w \in Nat /\ h + w <= MaxSupply
  BY BalancesOf, RealmNumbers DEF WithdrawGoverningTokens
<1>5. /\ tor' = [tor EXCEPT ![k] = r]
      /\ holding' = [holding EXCEPT ![k[1]] = h] /\ wallet' = [wallet EXCEPT ![k[1]] = w]
      /\ UNCHANGED <<now, realm, tokens, govs>>
  BY DEF WithdrawGoverningTokens
<1>6. h - r.deposit >= holding[k[1]] - tor[k].deposit
  BY <1>3, BalancesOf, RealmNumbers
<1> HIDE DEF r, h, w
<1> QED BY <1>2, <1>3, <1>4, <1>5, <1>6, BalanceStep

LEMMA RevokeGoverningTokensStep ==
  ASSUME RealmTypes, NEW k \in Records, NEW s, NEW amount \in Amounts,
         RevokeGoverningTokens(k, s, amount)
  PROVE  RealmTypes' /\ CountersKept /\ (Backed => Backed')
<1> DEFINE r == [tor[k] EXCEPT !.deposit = @ - amount]
           h == holding[k[1]] - amount
           w == wallet[k[1]]
<1>1. amount \in Nat
  BY RealmAssumption
<1>2. tor[k].deposit - amount \in 0..MaxU64
  BY <1>1, BalancesOf, RealmNumbers DEF RevokeGoverningTokens
<1>3. r.exists = tor[k].exists /\ tor[k].exists
  BY BalancesOf DEF OwnerRecord, RevokeGoverningTokens
<1>4. /\ r \in OwnerRecord /\ r.deposit = tor[k].deposit - amount
      /\ r.unrelinquished = tor[k].unrelinquished /\ r.outstanding = tor[k].outstanding
  BY <1>2, BalancesOf DEF OwnerRecord
<1>5. h \in Nat /\ w \in Nat /\ h + w <= MaxSupply
  BY <1>1, BalancesOf, RealmNumbers DEF RevokeGoverningTokens
<1>6. /\ tor' = [tor EXCEPT ![k] = r]
      /\ holding' = [holding EXCEPT ![k[1]] = h]
      /\ UNCHANGED <<now, realm, tokens, wallet, govs>>
  BY DEF RevokeGoverningTokens, RevokedRecord
<1>7. wallet' = [wallet EXCEPT ![k[1]] = w]
  BY <1>6 DEF RealmTypes, BalanceTypes
<1>8. h - r.deposit >= holding[k[1]] - tor[k].deposit
  BY <1>1, <1>4, BalancesOf, RealmNumbers
<1> HIDE DEF r, h, w
<1> QED BY <1>3, <1>4, <1>5, <1>6, <1>7, <1>8, BalanceStep

\* What anyone sends to a holding account only adds to it.
LEMMA TransferToHoldingStep ==
  ASSUME RealmTypes, NEW m \in GoverningMints, NEW amount \in Amounts,
         TransferToHolding(m, amount)
  PROVE  RealmTypes' /\ CountersKept /\ (Backed => Backed')
<1>1. amount \in Nat
  BY RealmAssumption
<1>2. /\ wallet[m] >= amount /\ tor' = tor
      /\ wallet' = [wallet EXCEPT ![m] = wallet[m] - amount]
      /\ holding' = [holding EXCEPT ![m] = holding[m] + amount]
      /\ UNCHANGED <<now, realm, tokens, govs>>
  BY DEF TransferToHolding
<1>3. /\ holding \in [GoverningMints -> Nat] /\ wallet \in [GoverningMints -> Nat]
      /\ \A n \in GoverningMints : holding[n] + wallet[n] <= MaxSupply
  BY DEF RealmTypes, BalanceTypes
<1>4. \A n \in GoverningMints :
        /\ holding'[n] = IF n = m THEN holding[m] + amount ELSE holding[n]
        /\ wallet'[n] = IF n = m THEN wallet[m] - amount ELSE wallet[n]
  BY <1>2, <1>3
<1>5. BalanceTypes'
  <2>1. \A n \in GoverningMints :
          holding'[n] \in Nat /\ wallet'[n] \in Nat /\ holding'[n] + wallet'[n] <= MaxSupply
    BY <1>1, <1>2, <1>3, <1>4, RealmNumbers
  <2> QED BY <1>2, <1>3, <2>1 DEF BalanceTypes
<1>6. RealmTypes' /\ CountersKept
  BY <1>2, <1>5 DEF RealmTypes, ConfigTypes, RecordTypes, CountersKept
<1>7. ASSUME Backed, NEW n \in GoverningMints PROVE Deposited(n)' <= holding'[n]
  <2>1. Deposited(n)' = Deposited(n)
    BY <1>2, SameDeposits
  <2>2. Deposited(n) <= holding[n] /\ Deposited(n) \in Nat
    BY <1>7, DepositedNat DEF Backed, RealmTypes
  <2>3. holding'[n] >= holding[n] /\ holding[n] \in Nat /\ holding'[n] \in Nat
    BY <1>1, <1>3, <1>4
  <2> QED BY <2>1, <2>2, <2>3
<1> QED BY <1>6, <1>7 DEF Backed

LEMMA TickStep ==
  ASSUME RealmTypes, Tick
  PROVE  RealmTypes' /\ CountersKept /\ (Backed => Backed')
<1>1. now' \in 0..MaxTime
  BY RealmNumbers DEF Tick, RealmTypes
<1>2. RealmTypes' /\ CountersKept
  BY <1>1 DEF Tick, RealmTypes, ConfigTypes, RecordTypes, BalanceTypes, CountersKept
<1>3. \A m \in GoverningMints : Deposited(m)' = Deposited(m)
  BY SameDeposits DEF Tick
<1> QED BY <1>2, <1>3 DEF Backed, Tick

=============================================================================
