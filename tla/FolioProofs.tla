---------------------------- MODULE FolioProofs ----------------------------
(***************************************************************************)
(* Theorems about module Folio for every number of users, mints, actors    *)
(* and fee recipients, every bound and every input: the arithmetic of fees *)
(* and shares stays in its widths and the accounts keep their types.       *)
(***************************************************************************)
EXTENDS Folio, SumsProofs

-----------------------------------------------------------------------------
(* Arithmetic *)

\* The scale of ratios is positive.
LEMMA D18Pos == D9 \in Nat /\ D9 > 0 /\ D18 \in Nat /\ D18 > 0
<1>1. D9 \in Nat /\ D9 > 0
  BY DecimalAssumption
<1>2. \A a \in Nat : a > 0 => a * a > 0 /\ a * a \in Nat
  OBVIOUS
<1> QED BY <1>1, <1>2 DEF D18

\* Products and quotients of naturals are naturals.
LEMMA NatOps ==
  /\ \A a, b \in Nat : a * b \in Nat
  /\ \A a, b \in Nat : b > 0 => a \div b \in Nat
  /\ \A a, b \in Nat : b > 0 => CeilDiv(a, b) \in Nat
<1>1. \A a, b \in Nat : a * b \in Nat
  OBVIOUS
<1>2. \A a, b \in Nat : b > 0 => a \div b \in Nat
  OBVIOUS
<1>3. ASSUME NEW a \in Nat, NEW b \in Nat, b > 0 PROVE CeilDiv(a, b) \in Nat
  <2>1. a + b - 1 \in Nat
    BY <1>3
  <2> QED BY <1>2, <1>3, <2>1 DEF CeilDiv
<1> QED BY <1>1, <1>2, <1>3

\* The rate per second of a yearly fee is a natural, whatever the fee.
LEMMA RateNat == \A fee \in Nat : PerSecondRate(fee) \in Nat
<1> SUFFICES ASSUME NEW fee \in Nat PROVE PerSecondRate(fee) \in Nat
  OBVIOUS
<1> DEFINE n == YEAR
           square == fee * fee * (n - 1)
           cube == fee * fee * fee * (n - 1) * (n - 2)
<1>1. n \in Nat /\ n > 0 /\ n - 1 \in Nat /\ n - 2 \in Nat
  BY DecimalAssumption
<1>2. D18 \in Nat /\ D18 > 0
  BY D18Pos
<1> HIDE DEF n
<1>3. n * n \in Nat /\ n * n > 0 /\ n * n * n \in Nat /\ n * n * n > 0
  <2>1. \A a, b \in Nat : a > 0 /\ b > 0 => a * b \in Nat /\ a * b > 0
    OBVIOUS
  <2> QED BY <1>1, <2>1
<1>4. square \in Nat /\ cube \in Nat
  <2>1. fee * fee \in Nat
    BY NatOps
  <2>2. fee * fee * fee \in Nat /\ fee * fee * (n - 1) \in Nat
    BY <1>1, <2>1, NatOps
  <2>3. fee * fee * fee * (n - 1) \in Nat
    BY <1>1, <2>2, NatOps
  <2> QED BY <1>1, <2>2, <2>3, NatOps
<1> HIDE DEF square, cube
<1>5. fee \div n \in Nat
  BY <1>1, NatOps
<1>6. ((square \div D18) \div (n * n)) \div 2 \in Nat
  <2>1. square \div D18 \in Nat
    BY <1>2, <1>4, NatOps
  <2>2. (square \div D18) \div (n * n) \in Nat
    BY <1>3, <2>1, NatOps
  <2> QED BY <2>2, NatOps
<1>7. (((cube \div D18) \div D18) \div (n * n * n)) \div 6 \in Nat
  <2>1. cube \div D18 \in Nat
    BY <1>2, <1>4, NatOps
  <2>2. (cube \div D18) \div D18 \in Nat
    BY <1>2, <2>1, NatOps
  <2>3. ((cube \div D18) \div D18) \div (n * n * n) \in Nat
    BY <1>3, <2>2, NatOps
  <2> QED BY <2>3, NatOps
<1>8. fee \div n + ((square \div D18) \div (n * n)) \div 2
        + (((cube \div D18) \div D18) \div (n * n * n)) \div 6 \in Nat
  BY <1>5, <1>6, <1>7
<1> QED BY <1>2, <1>8 DEF PerSecondRate, n, square, cube

\* Truncation loses nothing but the remainder.
LEMMA FloorBound == \A a, b \in Nat : b > 0 => (a \div b) * b <= a
OBVIOUS

\* A quotient is at most c when less than c + 1 times the divisor is divided.
LEMMA QuotientBelow ==
  ASSUME NEW a \in Nat, NEW c \in Nat, NEW d \in Nat, d > 0, a < (c + 1) * d
  PROVE  a \div d <= c
<1> DEFINE q == a \div d
<1>1. q \in Nat /\ q * d <= a
  BY FloorBound, NatOps
<1> HIDE DEF q
<1>2. \A p \in Nat : p >= c + 1 => p * d >= (c + 1) * d
  OBVIOUS
<1>3. (c + 1) * d \in Nat /\ q * d \in Nat
  BY <1>1
<1>4. ~(q >= c + 1)
  BY <1>1, <1>2, <1>3
<1> QED BY <1>1, <1>4 DEF q

\* A quotient of at most c times the divisor is at most c.
LEMMA QuotientBound ==
  ASSUME NEW a \in Nat, NEW c \in Nat, NEW d \in Nat, d > 0, a <= c * d
  PROVE  a \div d <= c
<1>1. (c + 1) * d = c * d + d /\ c * d \in Nat
  OBVIOUS
<1> QED BY <1>1, QuotientBelow

\* Rounding up adds less than one divisor.
LEMMA CeilBounds ==
  ASSUME NEW a \in Nat, NEW d \in Nat, d > 0
  PROVE  /\ CeilDiv(a, d) \in Nat /\ CeilDiv(a, d) * d >= a
         /\ \A c \in Nat : a <= c * d => CeilDiv(a, d) <= c
<1>1. a + d - 1 \in Nat
  OBVIOUS
<1>2. CeilDiv(a, d) \in Nat
  BY NatOps
<1>3. CeilDiv(a, d) * d >= a
  <2> DEFINE q == (a + d - 1) \div d
  <2>1. q \in Nat /\ a + d - 1 < (q + 1) * d
    BY <1>1
  <2> HIDE DEF q
  <2>2. (q + 1) * d = q * d + d /\ q * d \in Nat
    BY <2>1
  <2>3. q * d >= a
    BY <2>1, <2>2
  <2> QED BY <2>3 DEF q, CeilDiv
<1>4. ASSUME NEW c \in Nat, a <= c * d PROVE CeilDiv(a, d) <= c
  <2>1. (c + 1) * d = c * d + d /\ c * d \in Nat
    OBVIOUS
  <2>2. a + d - 1 < (c + 1) * d
    BY <1>4, <2>1
  <2> QED BY <1>1, <2>2, QuotientBelow DEF CeilDiv
<1> QED BY <1>2, <1>3, <1>4

\* Division keeps an order.
LEMMA QuotientMonotone ==
  ASSUME NEW a \in Nat, NEW c \in Nat, NEW d \in Nat, d > 0, a <= c
  PROVE  a \div d <= c \div d
<1> DEFINE q == c \div d
<1>1. q \in Nat /\ c < (q + 1) * d
  OBVIOUS
<1> HIDE DEF q
<1>2. \A p \in Nat : p * d \in Nat
  OBVIOUS
<1>3. a \div d \in Nat /\ (a \div d) * d <= a
  BY FloorBound, NatOps
<1>4. \A p \in Nat : p >= q + 1 => p * d >= (q + 1) * d
  BY <1>1
<1>5. ~(a \div d >= q + 1)
  BY <1>1, <1>2, <1>3, <1>4
<1> QED BY <1>1, <1>3, <1>5 DEF q

\* Conversions saturate within their types (to_token_amount, to_scaled).
LEMMA Conversions ==
  ASSUME NEW x \in Nat
  PROVE  /\ ToTokenFloor(x) \in U64 /\ ToTokenCeil(x) \in U64
         /\ ToScaledFloor(x) \in U128 /\ ToScaledFloor(x) <= x
         /\ FromTokenAmount(x) \in Nat
         /\ FromTokenAmount(ToTokenFloor(x)) <= x
<1>1. MaxU64 \in Nat /\ MaxU128 \in Nat
  BY DecimalAssumption
<1>2. x \div D9 \in Nat /\ CeilDiv(x, D9) \in Nat
  BY D18Pos, NatOps
<1>3. ToTokenFloor(x) \in U64 /\ ToTokenCeil(x) \in U64
  BY <1>1, <1>2 DEF ToTokenFloor, ToTokenCeil, SatU64, U64
<1>4. ToScaledFloor(x) \in U128 /\ ToScaledFloor(x) <= x
  BY <1>1 DEF ToScaledFloor, SatU128, U128
<1>5. FromTokenAmount(x) \in Nat
  BY D18Pos, NatOps DEF FromTokenAmount
<1>6. FromTokenAmount(ToTokenFloor(x)) <= x
  <2>1. ToTokenFloor(x) \in Nat /\ ToTokenFloor(x) <= x \div D9
    BY <1>1, <1>2 DEF ToTokenFloor, SatU64
  <2>2. \A p, q, d \in Nat : p <= q => p * d <= q * d
    OBVIOUS
  <2>3. ToTokenFloor(x) * D9 <= (x \div D9) * D9
    BY <2>1, <2>2, <1>2, D18Pos
  <2>4. (x \div D9) * D9 <= x
    BY FloorBound, D18Pos
  <2>5. ToTokenFloor(x) * D9 \in Nat /\ (x \div D9) * D9 \in Nat
    BY <2>1, <1>2, D18Pos, NatOps
  <2> QED BY <2>3, <2>4, <2>5 DEF FromTokenAmount
<1> QED BY <1>3, <1>4, <1>5, <1>6

-----------------------------------------------------------------------------
(* Fees *)

\* The supply that dilutes: outstanding and pending shares.
LEMMA TotalSupplyNat ==
  ASSUME NEW f \in FolioRecord, NEW s \in U64
  PROVE  GetTotalSupply(f, s) \in Nat
<1>1. FromTokenAmount(s) \in Nat
  BY Conversions DEF U64
<1>2. /\ f.dao_pending_fee_shares \in Nat
      /\ f.fee_recipients_pending_fee_shares \in Nat /\ f.to_be_minted \in Nat
  BY DEF FolioRecord, U128
<1> QED BY <1>1, <1>2 DEF GetTotalSupply

\* The pending shares of an accrual that goes through, and the DAO's part of them.
LEMMA AccruedParts ==
  ASSUME NEW f \in FolioRecord, NEW s \in U64, NEW t \in Nat, NEW fee,
         PokeOk(f, s, t, fee), NeedsPoke(f, t)
  PROVE  LET shares == PendingFeeShares(f, s, GetAccountFeeUntil(t), fee)
         IN  DaoShares(f, shares, fee) \in Nat /\ shares - DaoShares(f, shares, fee) \in Nat
<1> DEFINE until == GetAccountFeeUntil(t)
           shares == PendingFeeShares(f, s, until, fee)
           dao == DaoShares(f, shares, fee)
<1>1. Decay(f, until, fee) \in 1..MaxU256 /\ shares >= 0 /\ dao \in 0..shares
  BY DEF PokeOk
<1>2. shares \in Int
  <2> DEFINE T == GetTotalSupply(f, s)
  <2>1. T \in Nat /\ T * D18 \in Nat
    BY TotalSupplyNat, D18Pos, NatOps
  <2>2. Decay(f, until, fee) \in Nat /\ Decay(f, until, fee) > 0
    BY <1>1, DecimalAssumption
  <2>3. (T * D18) \div Decay(f, until, fee) \in Nat
    BY <2>1, <2>2, NatOps
  <2> QED BY <2>1, <2>3 DEF PendingFeeShares
<1>3. dao \in Nat /\ shares - dao \in Nat
  <2> HIDE DEF dao, shares
  <2> QED BY <1>1, <1>2
<1> QED BY <1>3

\* poke leaves a well-formed account whose status, rates and reserve are those it
\* had: the checked additions of the code are what keeps the sums in u128.
LEMMA PokeType ==
  ASSUME NEW f \in FolioRecord, NEW s \in U64, NEW t \in Nat, NEW fee,
         PokeOk(f, s, t, fee)
  PROVE  /\ Poke(f, s, t, fee) \in FolioRecord
         /\ Poke(f, s, t, fee).status = f.status
         /\ Poke(f, s, t, fee).to_be_minted = f.to_be_minted
<1>1. CASE ~NeedsPoke(f, t)
  BY <1>1 DEF Poke
<1>2. CASE NeedsPoke(f, t)
  <2> DEFINE until == GetAccountFeeUntil(t)
             shares == PendingFeeShares(f, s, until, fee)
             dao == DaoShares(f, shares, fee)
             d == f.dao_pending_fee_shares + ToScaledFloor(dao)
             r == f.fee_recipients_pending_fee_shares + ToScaledFloor(shares - dao)
  <2>1. until \in Nat
    <3>1. DAY \in Nat /\ DAY > 0
      BY FeeAssumption
    <3> QED BY <3>1, NatOps DEF GetAccountFeeUntil
  <2>2. d <= MaxU128 /\ r <= MaxU128
    BY <1>2 DEF PokeOk
  <2>4. dao \in Nat /\ shares - dao \in Nat
    BY <1>2, AccruedParts
  <2>5. d \in U128 /\ r \in U128
    <3>1. ToScaledFloor(dao) \in U128 /\ ToScaledFloor(shares - dao) \in U128
      BY <2>4, Conversions
    <3>2. /\ f.dao_pending_fee_shares \in U128
          /\ f.fee_recipients_pending_fee_shares \in U128
      BY DEF FolioRecord
    <3>3. MaxU128 \in Nat
      BY DecimalAssumption
    <3> HIDE DEF dao, shares
    <3> QED BY <2>2, <3>1, <3>2, <3>3 DEF U128
  <2>6. Poke(f, s, t, fee) =
          [f EXCEPT !.dao_pending_fee_shares = d,
                    !.fee_recipients_pending_fee_shares = r, !.last_poke = until]
    BY <1>2 DEF Poke
  <2> HIDE DEF d, r, until
  <2> QED BY <2>1, <2>5, <2>6 DEF FolioRecord
<1> QED BY <1>1, <1>2

\* calculate_fees_for_minting books fees within u128 and withholds a u64.
LEMMA MintFeeType ==
  ASSUME NEW f \in FolioRecord, NEW shares \in U64, NEW fee \in FeeDetails,
         MintFeesOk(f, shares, fee)
  PROVE  /\ CalculateFeesForMinting(f, shares, fee) \in FolioRecord
         /\ CalculateFeesForMinting(f, shares, fee).status = f.status
         /\ CalculateFeesForMinting(f, shares, fee).to_be_minted = f.to_be_minted
         /\ MintFeeShares(f, shares, fee) \in U64
<1> DEFINE dao == MintDaoFee(f, shares, fee)
           total == MintTotalFee(f, shares, fee)
           d == f.dao_pending_fee_shares + ToScaledFloor(dao)
           r == f.fee_recipients_pending_fee_shares + ToScaledFloor(total - dao)
<1>1. /\ fee.numerator \in Nat /\ fee.floor \in Nat /\ f.mint_fee \in Nat
      /\ FromTokenAmount(shares) \in Nat
  <2>1. MaxDaoFee \in Nat /\ MaxFeeFloor \in Nat /\ MaxU128 \in Nat
    BY FeeAssumption, DecimalAssumption, D18Pos
  <2> QED BY <2>1, Conversions DEF FeeDetails, FolioRecord, U128, U64
<1> DEFINE whole == CeilDiv(FromTokenAmount(shares) * f.mint_fee, D18)
<1>2. /\ whole \in Nat
      /\ CeilDiv(whole * fee.numerator, D18) \in Nat
      /\ CeilDiv(FromTokenAmount(shares) * fee.floor, D18) \in Nat
  <2>1. FromTokenAmount(shares) * f.mint_fee \in Nat
    BY <1>1, NatOps
  <2>2. whole \in Nat
    BY <2>1, NatOps, D18Pos
  <2>3. whole * fee.numerator \in Nat /\ FromTokenAmount(shares) * fee.floor \in Nat
    <3> HIDE DEF whole
    <3> QED BY <1>1, <2>2, NatOps
  <2> HIDE DEF whole
  <2> QED BY <2>2, <2>3, NatOps, D18Pos
<1>3. dao \in Nat
  BY <1>2 DEF MintDaoFee
<1>4. total \in Nat /\ total >= dao
  <2>1. total = IF whole < dao THEN dao ELSE whole
    BY DEF MintTotalFee
  <2> HIDE DEF whole, dao, total
  <2> QED BY <1>2, <1>3, <2>1
<1>5. MintFeeShares(f, shares, fee) \in U64
  BY <1>4, Conversions DEF MintFeeShares
<1>6. d \in U128 /\ r \in U128
  <2>1. ToScaledFloor(dao) \in U128 /\ ToScaledFloor(total - dao) \in U128
    <3> HIDE DEF dao, total
    <3>1. total - dao \in Nat
      BY <1>3, <1>4
    <3> QED BY <1>3, <3>1, Conversions
  <2>2. d <= MaxU128 /\ r <= MaxU128
    BY DEF MintFeesOk
  <2>3. f.dao_pending_fee_shares \in U128 /\ f.fee_recipients_pending_fee_shares \in U128
    BY DEF FolioRecord
  <2>4. MaxU128 \in Nat
    BY DecimalAssumption
  <2> HIDE DEF dao, total
  <2> QED BY <2>1, <2>2, <2>3, <2>4 DEF U128
<1>7. CalculateFeesForMinting(f, shares, fee) =
        [f EXCEPT !.dao_pending_fee_shares = d, !.fee_recipients_pending_fee_shares = r]
  BY DEF CalculateFeesForMinting
<1> HIDE DEF d, r
<1> QED BY <1>5, <1>6, <1>7 DEF FolioRecord

-----------------------------------------------------------------------------
(* Distributions *)

\* What a table of portions is.
LEMMA TableIs ==
  ASSUME NEW K, NEW t
  PROVE  t \in Tables(K) <=> \E S \in SUBSET K : t \in [S -> 0..D18]
BY DEF Tables

\* Restricting a table to some of its keys leaves a table of these.
LEMMA RestrictTable ==
  ASSUME NEW K, NEW L, NEW t \in Tables(K), NEW R, R \subseteq DOMAIN t, R \subseteq L
  PROVE  Restrict(t, R) \in Tables(L)
<1>1. PICK S \in SUBSET K : t \in [S -> 0..D18]
  BY TableIs
<1>2. Restrict(t, R) \in [R -> 0..D18]
  BY <1>1 DEF Restrict
<1> QED BY <1>2, TableIs

\* distribute_fees leaves a well-formed account: only whole shares that are there
\* are moved, and the reserve's addition is checked.
LEMMA DistributedType ==
  ASSUME NEW f \in FolioRecord,
         HasFeeRecipients => f.to_be_minted + RecipientsDistribute(f) <= MaxU128
  PROVE  /\ DistributedFolio(f) \in FolioRecord
         /\ DistributedFolio(f).status = f.status
         /\ DaoDistributes(f) \in Nat
         /\ RecipientsDistribute(f) \in U128
<1> DEFINE dao == f.dao_pending_fee_shares
           rec == f.fee_recipients_pending_fee_shares
           D == FromTokenAmount(DaoDistributes(f))
           R == RecipientsDistribute(f)
<1>0. dao \in U128 /\ rec \in U128 /\ f.to_be_minted \in U128 /\ MaxU128 \in Nat
  BY DecimalAssumption DEF FolioRecord
<1>1. dao \in Nat /\ rec \in Nat
  BY <1>0 DEF U128
<1>2. ToTokenFloor(dao) \in Nat /\ ToTokenFloor(rec) \in Nat
  BY <1>1, Conversions DEF U64
<1>3. DaoDistributes(f) \in Nat
  BY <1>2 DEF DaoDistributes
<1>4. D \in Nat
  BY <1>3, Conversions
<1>5. R \in Nat /\ R <= rec
  BY <1>1, <1>2, Conversions DEF RecipientsDistribute
<1>6. R \in U128 /\ rec - R \in U128
  BY <1>0, <1>5 DEF U128
<1>7. SaturatingSub(dao, D) \in U128
  <2> HIDE DEF D, dao
  <2> QED BY <1>0, <1>4 DEF SaturatingSub, U128
<1>8. HasFeeRecipients => f.to_be_minted + R \in U128
  <2> HIDE DEF R
  <2>1. HasFeeRecipients => f.to_be_minted + R <= MaxU128
    BY DEF R
  <2> QED BY <1>0, <1>5, <2>1 DEF U128
<1>9. DistributedFolio(f) =
        [f EXCEPT !.dao_pending_fee_shares = SaturatingSub(dao, D),
                  !.fee_recipients_pending_fee_shares = rec - R,
                  !.to_be_minted = IF HasFeeRecipients THEN f.to_be_minted + R
                                   ELSE f.to_be_minted]
  BY DEF DistributedFolio
<1>10. DistributedFolio(f) \in FolioRecord /\ DistributedFolio(f).status = f.status
  <2> HIDE DEF D, R, dao, rec
  <2> QED BY <1>0, <1>6, <1>7, <1>8, <1>9 DEF FolioRecord
<1> QED BY <1>3, <1>6, <1>10

\* The distribution opened takes the next index and pays the current recipients.
LEMMA DistributedDistsType ==
  ASSUME TypeOK, NEW f, RecipientsDistribute(f) \in U128,
         NEW c \in Actors \cup {Admin}
  PROVE  /\ DOMAIN DistributedDists(f, c) \subseteq 1..(recips.index + 1)
         /\ \A i \in DOMAIN DistributedDists(f, c) :
              DistributedDists(f, c)[i] \in Distributions
<1>0. /\ recips.index \in Nat /\ recips.table \in Tables(Keys)
      /\ DOMAIN dists \subseteq 1..recips.index
      /\ \A i \in DOMAIN dists : dists[i] \in Distributions
  BY FolioAssumption DEF TypeOK, FeeTypes
<1>1. CASE ~HasFeeRecipients
  BY <1>0, <1>1 DEF DistributedDists
<1>2. CASE HasFeeRecipients
  <2> DEFINE new == recips.index + 1
             unpaid == Restrict(recips.table, DOMAIN recips.table \ {NoKey})
             d == [amount |-> RecipientsDistribute(f), cranker |-> c, unpaid |-> unpaid]
  <2>1. DOMAIN recips.table \subseteq Keys
    BY <1>0, TableIs
  <2>2. DOMAIN recips.table \ {NoKey} \subseteq Recipients
    BY <2>1 DEF Keys
  <2>3. unpaid \in Tables(Recipients)
    BY <1>0, <2>2, RestrictTable
  <2>4. d \in Distributions
    <3> HIDE DEF unpaid
    <3> QED BY <2>3 DEF Distributions
  <2>5. DistributedDists(f, c) =
          [i \in DOMAIN dists \cup {new} |-> IF i # new THEN dists[i] ELSE d]
    BY <1>2 DEF DistributedDists
  <2> HIDE DEF d
  <2> QED BY <1>0, <2>4, <2>5
<1> QED BY <1>1, <1>2

-----------------------------------------------------------------------------
(* Vectors of (mint, amount) pairs *)

\* An amount of a vector, zero for a mint it does not name.
LEMMA AmountType ==
  ASSUME NEW b \in Batches \cup Donations, NEW m
  PROVE  Amount(b, m) \in U64
<1>1. 0 \in U64
  BY DecimalAssumption DEF U64
<1> QED BY <1>1, FolioAssumption DEF Amount

\* The guards of the SPL token program keep balances in u64.
LEMMA TransferTypes ==
  ASSUME AssetTypes, NEW b \in Batches \cup Donations
  PROVE  /\ CanReceive(b) => Received(b) \in [Mints -> U64]
         /\ CanSend(b) => Sent(b) \in [Mints -> U64]
<1>0. MaxU64 \in Nat
  BY DecimalAssumption
<1>1. \A m \in Mints : ata[m] \in U64 /\ Amount(b, m) \in U64
  BY AmountType DEF AssetTypes
<1>2. ASSUME CanReceive(b), NEW m \in Mints PROVE ata[m] + Amount(b, m) \in U64
  <2>1. CASE m \in DOMAIN b
    BY <1>0, <1>1, <1>2, <2>1 DEF CanReceive, Amount, U64
  <2>2. CASE m \notin DOMAIN b
    BY <1>0, <1>1, <1>2, <2>2 DEF Amount, U64
  <2> QED BY <2>1, <2>2
<1>3. ASSUME CanSend(b), NEW m \in Mints PROVE ata[m] - Amount(b, m) \in U64
  <2>1. CASE m \in DOMAIN b
    BY <1>0, <1>1, <1>3, <2>1 DEF CanSend, Amount, U64
  <2>2. CASE m \notin DOMAIN b
    BY <1>0, <1>1, <1>3, <2>2 DEF Amount, U64
  <2> QED BY <2>1, <2>2
<1> QED BY <1>2, <1>3 DEF Received, Sent

\* So they do for what arrives of a vector.
LEMMA ArrivalTypes ==
  ASSUME AssetTypes, NEW b \in Batches \cup Donations, NEW got \in Arrivals(b), CanReceive(got)
  PROVE  Received(got) \in [Mints -> U64]
<1>0. MaxU64 \in Nat
  BY DecimalAssumption
<1>1. got \in [DOMAIN b -> U64]
  BY DEF Arrivals
<1>2. \A m \in Mints : ata[m] \in U64
  BY DEF AssetTypes
<1>3. ASSUME NEW m \in Mints PROVE ata[m] + Amount(got, m) \in U64
  <2>1. CASE m \in DOMAIN got
    <3>1. got[m] \in U64 /\ ata[m] + got[m] <= MaxU64 /\ Amount(got, m) = got[m]
      BY <1>1, <2>1 DEF CanReceive, Amount
    <3> QED BY <1>0, <1>2, <3>1 DEF U64
  <2>2. CASE m \notin DOMAIN got
    BY <1>0, <1>2, <2>2 DEF Amount, U64
  <2> QED BY <2>1, <2>2
<1> QED BY <1>3 DEF Received

\* Checked additions and subtractions of a vector, as the pending baskets and the
\* basket make them slot by slot.
LEMMA VectorTypes ==
  ASSUME NEW g \in [Mints -> U64], NEW b \in Batches \cup Donations
  PROVE  /\ (\A m \in DOMAIN b : g[m] + b[m] <= MaxU64)
              => [m \in Mints |-> g[m] + Amount(b, m)] \in [Mints -> U64]
         /\ (\A m \in DOMAIN b : g[m] >= b[m])
              => [m \in Mints |-> g[m] - Amount(b, m)] \in [Mints -> U64]
<1>0. MaxU64 \in Nat
  BY DecimalAssumption
<1>1. \A m \in Mints : g[m] \in U64 /\ Amount(b, m) \in U64
  BY AmountType
<1>2. ASSUME \A m \in DOMAIN b : g[m] + b[m] <= MaxU64, NEW m \in Mints
      PROVE  g[m] + Amount(b, m) \in U64
  <2>1. CASE m \in DOMAIN b
    BY <1>0, <1>1, <1>2, <2>1 DEF Amount, U64
  <2>2. CASE m \notin DOMAIN b
    BY <1>0, <1>1, <1>2, <2>2 DEF Amount, U64
  <2> QED BY <2>1, <2>2
<1>3. ASSUME \A m \in DOMAIN b : g[m] >= b[m], NEW m \in Mints
      PROVE  g[m] - Amount(b, m) \in U64
  <2>1. CASE m \in DOMAIN b
    BY <1>0, <1>1, <1>3, <2>1 DEF Amount, U64
  <2>2. CASE m \notin DOMAIN b
    BY <1>0, <1>1, <1>3, <2>2 DEF Amount, U64
  <2> QED BY <2>1, <2>2
<1> QED BY <1>2, <1>3

\* The fee details in force.
LEMMA FeeDetailsType ==
  ASSUME TypeOK
  PROVE  GetFeeDetails \in FeeDetails
BY DEF TypeOK, FeeTypes, GetFeeDetails

-----------------------------------------------------------------------------
(* Type correctness *)

\* The rate that set_tvl_fee stores for a yearly fee.
LEMMA StoredRateType ==
  \A annual \in AnnualFees : ToScaledFloor(PerSecondRate(annual)) \in U128
<1>1. AnnualFees \subseteq U128
  BY FolioAssumption
<1>2. \A annual \in AnnualFees : annual \in Nat
  BY <1>1, DecimalAssumption DEF U128
<1> QED BY <1>2, RateNat, Conversions

\* init_folio creates well-formed accounts.
LEMMA InitType == Init => TypeOK
<1> SUFFICES ASSUME Init PROVE TypeOK
  OBVIOUS
<1>0. 0 \in U64 /\ 0 \in U128 /\ MaxU64 \in Nat /\ MaxU128 \in Nat
  BY DecimalAssumption DEF U64, U128
<1>1. now \in Nat
  BY FeeAssumption DEF Init
<1>2. folio \in FolioRecord
  <2>1. PICK annual \in AnnualFees, mf \in MintFees, len \in AuctionLengths :
          folio = [status |-> "Initializing",
                   tvl_fee |-> ToScaledFloor(PerSecondRate(annual)),
                   mint_fee |-> mf,
                   dao_pending_fee_shares |-> 0,
                   fee_recipients_pending_fee_shares |-> 0,
                   to_be_minted |-> 0,
                   auction_length |-> len,
                   last_poke |-> now]
    BY DEF Init
  <2>3. ToScaledFloor(PerSecondRate(annual)) \in U128
    BY StoredRateType
  <2>4. mf \in U128 /\ len \in Nat
    BY FolioAssumption
  <2> QED BY <1>0, <1>1, <2>1, <2>3, <2>4 DEF FolioRecord, Statuses
<1>3. supply \in U64 /\ AssetTypes
  BY <1>0 DEF Init, AssetTypes
<1>4. UserTypes
  BY <1>0 DEF Init, UserTypes
<1>5. FeeTypes
  <2>1. NoTable \in Tables(Keys)
    <3>1. NoTable \in [{} -> 0..D18]
      BY DEF NoTable
    <3> QED BY <3>1, TableIs
  <2>2. MaxDistributions \in Nat
    BY FolioAssumption
  <2>3. recips \in [init: BOOLEAN, index: 0..MaxDistributions, table: Tables(Keys)]
    BY <2>1, <2>2 DEF Init
  <2>4. DOMAIN dists = {}
    BY DEF Init
  <2>5. feeCfg \in [dao: FeeDetails, folio: FeeDetails \cup {NoFeeConfig}]
    BY DEF Init
  <2> QED BY <2>3, <2>4, <2>5 DEF FeeTypes
<1>6. roles \in [Actors -> SUBSET Roles] /\ migrated \in [Mints -> Nat]
  BY DEF Init, Roles
<1> QED BY <1>1, <1>2, <1>3, <1>4, <1>5, <1>6 DEF TypeOK

\* The users' deposits and withdrawals: each changes the caller's row by a checked
\* sum and the token accounts by a checked transfer.
LEMMA AddToPendingBasketType ==
  ASSUME TypeOK, NEW u \in Users, NEW b \in Batches, AddToPendingBasket(u, b)
  PROVE  TypeOK'
<1>1. AssetTypes'
  <2>1. PICK got \in Arrivals(b) : CanReceive(got) /\ ata' = Received(got)
    BY DEF AddToPendingBasket
  <2>2. ata' \in [Mints -> U64]
    BY <2>1, ArrivalTypes DEF TypeOK
  <2> QED BY <2>2 DEF TypeOK, AddToPendingBasket, AssetTypes
<1>2. UserTypes'
  <2> DEFINE row == [m \in Mints |-> minting[u][m] + Amount(b, m)]
  <2>1. row \in [Mints -> U64]
    <3>1. minting[u] \in [Mints -> U64]
      BY DEF TypeOK, UserTypes
    <3> QED BY <3>1, VectorTypes DEF AddToPendingBasket
  <2>2. minting' = [minting EXCEPT ![u] = row]
    BY DEF AddToPendingBasket
  <2>3. DOMAIN b \subseteq Mints
    BY FolioAssumption
  <2> HIDE DEF row
  <2> QED BY <2>1, <2>2, <2>3 DEF TypeOK, UserTypes, AddToPendingBasket
<1> QED BY <1>1, <1>2 DEF TypeOK, FeeTypes, feeVars, AddToPendingBasket

LEMMA RemoveFromPendingBasketType ==
  ASSUME TypeOK, NEW u \in Users, NEW b \in Batches, RemoveFromPendingBasket(u, b)
  PROVE  TypeOK'
<1>1. AssetTypes'
  BY TransferTypes DEF TypeOK, RemoveFromPendingBasket, AssetTypes
<1>2. UserTypes'
  <2> DEFINE row == [m \in Mints |-> minting[u][m] - Amount(b, m)]
  <2>1. row \in [Mints -> U64]
    <3>1. minting[u] \in [Mints -> U64]
      BY DEF TypeOK, UserTypes
    <3> QED BY <3>1, VectorTypes DEF RemoveFromPendingBasket
  <2>2. minting' = [minting EXCEPT ![u] = row]
    BY DEF RemoveFromPendingBasket
  <2>3. PICK S : pendMints' = [pendMints EXCEPT ![u] = pendMints[u] \ S]
    BY DEF RemoveFromPendingBasket, SlotsLeft
  <2> HIDE DEF row
  <2> QED BY <2>1, <2>2, <2>3 DEF TypeOK, UserTypes, RemoveFromPendingBasket
<1> QED BY <1>1, <1>2 DEF TypeOK, FeeTypes, feeVars, RemoveFromPendingBasket

LEMMA RedeemFromPendingBasketType ==
  ASSUME TypeOK, NEW u \in Users, NEW b \in Batches, RedeemFromPendingBasket(u, b)
  PROVE  TypeOK'
<1>1. AssetTypes'
  BY TransferTypes DEF TypeOK, RedeemFromPendingBasket, AssetTypes
<1>2. UserTypes'
  <2> DEFINE row == [m \in Mints |-> redeeming[u][m] - Amount(b, m)]
  <2>1. row \in [Mints -> U64]
    <3>1. redeeming[u] \in [Mints -> U64]
      BY DEF TypeOK, UserTypes
    <3> QED BY <3>1, VectorTypes DEF RedeemFromPendingBasket
  <2>2. redeeming' = [redeeming EXCEPT ![u] = row]
    BY DEF RedeemFromPendingBasket
  <2>3. PICK S : pendMints' = [pendMints EXCEPT ![u] = pendMints[u] \ S]
    BY DEF RedeemFromPendingBasket, SlotsLeft
  <2> HIDE DEF row
  <2> QED BY <2>1, <2>2, <2>3 DEF TypeOK, UserTypes, RedeemFromPendingBasket
<1> QED BY <1>1, <1>2 DEF TypeOK, FeeTypes, feeVars, RedeemFromPendingBasket

LEMMA CloseUserPendingTokenAmountType ==
  ASSUME TypeOK, NEW u \in Users, CloseUserPendingTokenAmount(u)
  PROVE  TypeOK'
<1>0. 0 \in U64
  BY DecimalAssumption DEF U64
<1>1. UserTypes'
  BY <1>0 DEF TypeOK, UserTypes, CloseUserPendingTokenAmount
<1> QED BY <1>1 DEF TypeOK, AssetTypes, FeeTypes, assetVars, feeVars,
                    CloseUserPendingTokenAmount

\* mint_folio_token: fees accrue, the charge of every basket token moves from the
\* caller's row to the basket, the mint fee is booked and the rest is minted.
LEMMA MintFolioTokenType ==
  ASSUME TypeOK, NEW u \in Users, NEW shares \in ShareAmounts, MintFolioToken(u, shares)
  PROVE  /\ TypeOK'
         /\ \E moved \in [Mints -> U64] :
              /\ \A m \in Mints : m \notin basketMints => moved[m] = 0
              /\ minting' = [minting EXCEPT ![u] = [m \in Mints |-> minting[u][m] - moved[m]]]
              /\ basket' = [m \in Mints |-> basket[m] + moved[m]]
<1> DEFINE fee == GetFeeDetails
           f == Poke(folio, supply, now, fee)
           total == GetTotalSupply(f, supply)
           charge == [m \in Mints |-> IF m \in basketMints
                                      THEN MintCharge(shares, basket[m], total) ELSE 0]
           withheld == MintFeeShares(f, shares, fee)
<1>0. MaxU64 \in Nat /\ shares \in U64 /\ supply \in U64 /\ fee \in FeeDetails
  BY DecimalAssumption, FolioAssumption, FeeDetailsType DEF TypeOK
<1>1. f \in FolioRecord
  BY PokeType DEF TypeOK, MintFolioToken
<1>2. total \in Nat
  BY <1>0, <1>1, TotalSupplyNat
<1>3. /\ \A m \in basketMints :
           total # 0 /\ minting[u][m] >= charge[m] /\ basket[m] + charge[m] <= MaxU64
      /\ MintFeesOk(f, shares, fee)
      /\ shares >= withheld /\ supply + (shares - withheld) <= MaxU64
      /\ minting' = [minting EXCEPT ![u] = [m \in Mints |-> minting[u][m] - charge[m]]]
      /\ basket' = [m \in Mints |-> basket[m] + charge[m]]
      /\ folio' = CalculateFeesForMinting(f, shares, fee)
      /\ supply' = supply + (shares - withheld)
  BY DEF MintFolioToken
<1>4. folio' \in FolioRecord /\ withheld \in U64
  BY <1>0, <1>1, <1>3, MintFeeType
<1>5. supply' \in U64
  <2> HIDE DEF withheld
  <2> QED BY <1>0, <1>3, <1>4 DEF U64
<1>6. \A m \in Mints : charge[m] \in U64 /\ (m \notin basketMints => charge[m] = 0)
  <2> TAKE m \in Mints
  <2>1. CASE m \notin basketMints
    BY <1>0, <2>1 DEF U64
  <2>2. CASE m \in basketMints
    <3>1. basket[m] \in U64 /\ total # 0
      BY <1>3, <2>2 DEF TypeOK, AssetTypes
    <3>2. FromTokenAmount(shares) \in Nat /\ FromTokenAmount(basket[m]) \in Nat
      BY <1>0, <3>1, Conversions DEF U64
    <3>3. FromTokenAmount(shares) * FromTokenAmount(basket[m]) \in Nat
      BY <3>2, NatOps
    <3>4. (FromTokenAmount(shares) * FromTokenAmount(basket[m])) \div total \in Nat
      <4>1. \A p \in Nat : p \div total \in Nat
        <5> HIDE DEF total
        <5> QED BY <1>2, <3>1
      <4> QED BY <3>3, <4>1
    <3>5. MintCharge(shares, basket[m], total) \in U64
      BY <3>4, Conversions DEF MintCharge
    <3> QED BY <2>2, <3>5
  <2> QED BY <2>1, <2>2
<1> HIDE DEF charge
<1>7. AssetTypes'
  <2>1. \A m \in Mints : basket[m] + charge[m] \in U64
    BY <1>0, <1>3, <1>6 DEF TypeOK, AssetTypes, U64
  <2> QED BY <1>3, <2>1 DEF TypeOK, AssetTypes, MintFolioToken
<1>8. UserTypes'
  <2>1. \A m \in Mints : minting[u][m] - charge[m] \in U64
    BY <1>0, <1>3, <1>6 DEF TypeOK, UserTypes, U64
  <2> QED BY <1>3, <2>1 DEF TypeOK, UserTypes, MintFolioToken
<1>9. TypeOK'
  BY <1>4, <1>5, <1>7, <1>8 DEF TypeOK, FeeTypes, feeVars, MintFolioToken
<1>10. charge \in [Mints -> U64]
  BY <1>6 DEF charge
<1> QED BY <1>3, <1>6, <1>9, <1>10

\* burn_folio_token: the share of every basket token moves to the caller's row.
LEMMA BurnFolioTokenType ==
  ASSUME TypeOK, NEW u \in Users, NEW shares \in ShareAmounts, BurnFolioToken(u, shares)
  PROVE  /\ TypeOK'
         /\ \E moved \in [Mints -> U64] :
              /\ \A m \in Mints : m \notin basketMints => moved[m] = 0
              /\ redeeming' =
                   [redeeming EXCEPT ![u] = [m \in Mints |-> redeeming[u][m] + moved[m]]]
              /\ basket' = [m \in Mints |-> basket[m] - moved[m]]
<1> DEFINE fee == GetFeeDetails
           f == Poke(folio, supply, now, fee)
           total == GetTotalSupply(f, supply)
           share == [m \in Mints |-> IF m \in basketMints
                                     THEN RedeemShare(shares, basket[m], total) ELSE 0]
<1>0. MaxU64 \in Nat /\ shares \in U64 /\ supply \in U64
  BY DecimalAssumption, FolioAssumption DEF TypeOK
<1>1. f \in FolioRecord
  BY PokeType DEF TypeOK, BurnFolioToken
<1>2. total \in Nat
  BY <1>0, <1>1, TotalSupplyNat
<1>3. /\ \A m \in basketMints :
           total # 0 /\ redeeming[u][m] + share[m] <= MaxU64 /\ basket[m] >= share[m]
      /\ supply >= shares
      /\ redeeming' = [redeeming EXCEPT ![u] = [m \in Mints |-> redeeming[u][m] + share[m]]]
      /\ basket' = [m \in Mints |-> basket[m] - share[m]]
      /\ folio' = f /\ supply' = supply - shares
      /\ pendMints' = [pendMints EXCEPT ![u] = @ \cup basketMints]
  BY DEF BurnFolioToken
<1>4. folio' \in FolioRecord /\ supply' \in U64
  BY <1>0, <1>1, <1>3 DEF U64
<1>5. \A m \in Mints : share[m] \in U64 /\ (m \notin basketMints => share[m] = 0)
  <2> TAKE m \in Mints
  <2>1. CASE m \notin basketMints
    BY <1>0, <2>1 DEF U64
  <2>2. CASE m \in basketMints
    <3>1. basket[m] \in U64 /\ total # 0
      BY <1>3, <2>2 DEF TypeOK, AssetTypes
    <3>2. FromTokenAmount(shares) \in Nat /\ FromTokenAmount(basket[m]) \in Nat
      BY <1>0, <3>1, Conversions DEF U64
    <3>3. FromTokenAmount(shares) * FromTokenAmount(basket[m]) \in Nat
      BY <3>2, NatOps
    <3>4. (FromTokenAmount(shares) * FromTokenAmount(basket[m])) \div total \in Nat
      <4>1. \A p \in Nat : p \div total \in Nat
        <5> HIDE DEF total
        <5> QED BY <1>2, <3>1
      <4> QED BY <3>3, <4>1
    <3>5. RedeemShare(shares, basket[m], total) \in U64
      BY <3>4, Conversions DEF RedeemShare
    <3> QED BY <2>2, <3>5
  <2> QED BY <2>1, <2>2
<1> HIDE DEF share
<1>6. AssetTypes'
  <2>1. \A m \in Mints : basket[m] - share[m] \in U64
    BY <1>0, <1>3, <1>5 DEF TypeOK, AssetTypes, U64
  <2> QED BY <1>3, <2>1 DEF TypeOK, AssetTypes, BurnFolioToken
<1>7. UserTypes'
  <2>1. \A m \in Mints : redeeming[u][m] + share[m] \in U64
    BY <1>0, <1>3, <1>5 DEF TypeOK, UserTypes, U64
  <2> QED BY <1>3, <2>1 DEF TypeOK, UserTypes, AssetTypes, BurnFolioToken
<1>8. TypeOK'
  BY <1>4, <1>6, <1>7 DEF TypeOK, FeeTypes, feeVars, BurnFolioToken
<1>9. share \in [Mints -> U64]
  BY <1>5 DEF share
<1> QED BY <1>3, <1>5, <1>8, <1>9

\* The owner's basket instructions and the end of the folio's life.
LEMMA AddToBasketType ==
  ASSUME TypeOK, NEW a, NEW b \in Batches, NEW initial \in ShareAmounts \cup {NoShares},
         AddToBasket(a, b, initial)
  PROVE  TypeOK'
<1>0. MaxU64 \in Nat /\ DOMAIN b \subseteq Mints
  BY DecimalAssumption, FolioAssumption
<1>1. AssetTypes'
  <2>1. ata' \in [Mints -> U64]
    BY TransferTypes DEF TypeOK, AddToBasket
  <2>2. basket' \in [Mints -> U64]
    BY VectorTypes DEF TypeOK, AssetTypes, AddToBasket
  <2> QED BY <1>0, <2>1, <2>2 DEF TypeOK, AssetTypes, AddToBasket
<1>2. folio' \in FolioRecord
  BY DEF TypeOK, AddToBasket, FolioRecord, Statuses
<1>3. supply' \in U64
  <2>1. CASE UNCHANGED supply
    BY <2>1 DEF TypeOK
  <2>2. CASE initial # NoShares /\ supply' = supply + initial /\ supply + initial <= MaxU64
    <3>1. initial \in U64
      BY <2>2, FolioAssumption
    <3> QED BY <1>0, <2>2, <3>1 DEF TypeOK, U64
  <2> QED BY <2>1, <2>2 DEF AddToBasket
<1> QED BY <1>1, <1>2, <1>3 DEF TypeOK, UserTypes, FeeTypes, userVars, feeVars, AddToBasket

LEMMA RemoveFromBasketType ==
  ASSUME TypeOK, NEW a, NEW m \in Mints, RemoveFromBasket(a, m)
  PROVE  TypeOK'
<1>0. 0 \in U64
  BY DecimalAssumption DEF U64
<1>1. AssetTypes'
  BY <1>0 DEF TypeOK, AssetTypes, RemoveFromBasket
<1> QED BY <1>1 DEF TypeOK, UserTypes, FeeTypes, userVars, feeVars, RemoveFromBasket

LEMMA KillFolioType ==
  ASSUME TypeOK, NEW a, KillFolio(a)
  PROVE  TypeOK'
<1>1. folio' \in FolioRecord
  BY DEF TypeOK, KillFolio, FolioRecord, Statuses
<1> QED BY <1>1 DEF TypeOK, AssetTypes, UserTypes, FeeTypes, assetVars, userVars,
                    feeVars, KillFolio

LEMMA StartFolioMigrationType ==
  ASSUME TypeOK, NEW a, NEW x, StartFolioMigration(a, x)
  PROVE  TypeOK'
<1>1. folio' \in FolioRecord
  BY DEF TypeOK, StartFolioMigration, FolioRecord, Statuses
<1> QED BY <1>1 DEF TypeOK, AssetTypes, UserTypes, FeeTypes, assetVars, userVars,
                    feeVars, StartFolioMigration

LEMMA MigrateFolioTokensType ==
  ASSUME TypeOK, NEW S \in SUBSET Mints, MigrateFolioTokens(S)
  PROVE  TypeOK'
<1>0. 0 \in U64 /\ MaxU64 \in Nat
  BY DecimalAssumption DEF U64
<1>1. AssetTypes'
  <2>1. \A m \in Mints : ata[m] - (IF m \in S THEN MigratedAmount(m) ELSE 0) \in U64
    BY <1>0 DEF TypeOK, AssetTypes, MigrateFolioTokens, MigratedAmount, U64
  <2>2. ata' \in [Mints -> U64]
    BY <2>1 DEF MigrateFolioTokens
  <2>3. basket' \in [Mints -> U64] /\ basketMints' \subseteq Mints
    BY <1>0 DEF TypeOK, AssetTypes, MigrateFolioTokens
  <2> QED BY <2>2, <2>3 DEF AssetTypes
<1>2. migrated' \in [Mints -> Nat]
  <2>1. \A m \in Mints : migrated[m] + (IF m \in S THEN MigratedAmount(m) ELSE 0) \in Nat
    BY <1>0 DEF TypeOK, AssetTypes, MigratedAmount, U64
  <2> QED BY <2>1 DEF MigrateFolioTokens
<1> QED BY <1>1, <1>2 DEF TypeOK, UserTypes, FeeTypes, userVars, feeVars,
                          MigrateFolioTokens

\* Fees: accrual, distribution and crank.
LEMMA PokeFolioType ==
  ASSUME TypeOK, PokeFolio
  PROVE  TypeOK'
<1>1. folio' \in FolioRecord
  BY PokeType DEF TypeOK, PokeFolio
<1> QED BY <1>1 DEF TypeOK, AssetTypes, UserTypes, FeeTypes, assetVars, userVars,
                    feeVars, PokeFolio

\* What a distribution, whoever starts it, leaves behind.
LEMMA DistributionStep ==
  ASSUME TypeOK, NEW c \in Actors \cup {Admin},
         DistributeFeesOk(Poke(folio, supply, now, GetFeeDetails))
  PROVE  LET f == Poke(folio, supply, now, GetFeeDetails)
         IN  /\ DistributedFolio(f) \in FolioRecord
             /\ DistributedFolio(f).status = folio.status
             /\ supply + DaoDistributes(f) \in U64
             /\ recips.index + 1 \in 0..MaxDistributions
             /\ DOMAIN DistributedDists(f, c) \subseteq 1..(recips.index + 1)
             /\ \A i \in DOMAIN DistributedDists(f, c) :
                  DistributedDists(f, c)[i] \in Distributions
<1> DEFINE f == Poke(folio, supply, now, GetFeeDetails)
<1>1. /\ PokeOk(folio, supply, now, GetFeeDetails)
      /\ recips.index < MaxDistributions
      /\ DaoDistributes(f) + supply <= MaxU64
      /\ HasFeeRecipients => f.to_be_minted + RecipientsDistribute(f) <= MaxU128
  BY DEF DistributeFeesOk
<1>2. f \in FolioRecord /\ f.status = folio.status
  BY <1>1, PokeType DEF TypeOK
<1> HIDE DEF f
<1>3. /\ DistributedFolio(f) \in FolioRecord /\ DistributedFolio(f).status = f.status
      /\ DaoDistributes(f) \in Nat /\ RecipientsDistribute(f) \in U128
  BY <1>1, <1>2, DistributedType
<1>4. supply + DaoDistributes(f) \in U64
  BY <1>1, <1>3, DecimalAssumption DEF TypeOK, U64
<1>5. recips.index + 1 \in 0..MaxDistributions
  BY <1>1, FolioAssumption DEF TypeOK, FeeTypes
<1>6. /\ DOMAIN DistributedDists(f, c) \subseteq 1..(recips.index + 1)
      /\ \A i \in DOMAIN DistributedDists(f, c) :
           DistributedDists(f, c)[i] \in Distributions
  BY <1>3, DistributedDistsType
<1> QED BY <1>2, <1>3, <1>4, <1>5, <1>6 DEF f

LEMMA DistributeFeesType ==
  ASSUME TypeOK, NEW c \in Crankers, DistributeFees(c)
  PROVE  TypeOK'
<1>0. c \in Actors \cup {Admin}
  BY DEF Crankers
<1>1. folio' \in FolioRecord /\ supply' \in U64
  BY <1>0, DistributionStep DEF DistributeFees
<1>2. FeeTypes'
  <2>1. recips' \in [init: BOOLEAN, index: 0..MaxDistributions, table: Tables(Keys)]
    BY <1>0, DistributionStep DEF DistributeFees, TypeOK, FeeTypes
  <2>2. recips'.index = recips.index + 1
    BY DEF DistributeFees, TypeOK, FeeTypes
  <2>3. DOMAIN dists' \subseteq 1..recips'.index
    BY <1>0, <2>2, DistributionStep DEF DistributeFees
  <2>4. \A i \in DOMAIN dists' : dists'[i] \in Distributions
    BY <1>0, DistributionStep DEF DistributeFees
  <2> QED BY <2>1, <2>3, <2>4 DEF DistributeFees, TypeOK, FeeTypes
<1> QED BY <1>1, <1>2 DEF TypeOK, AssetTypes, UserTypes, assetVars, userVars,
                          DistributeFees

\* What a crank mints is a natural number of base units.
LEMMA PaymentsNat ==
  ASSUME NEW d \in Distributions, NEW S, S \subseteq DOMAIN d.unpaid
  PROVE  PaymentsTo(d, S) \in Nat
<1> DEFINE g == [r \in Recipients |-> IF r \in S THEN RecipientPayment(d.amount, d.unpaid[r])
                                      ELSE 0]
<1>1. d.amount \in Nat /\ d.unpaid \in Tables(Recipients)
  BY DEF Distributions, U128
<1>2. \A r \in DOMAIN d.unpaid : d.unpaid[r] \in Nat
  BY <1>1, TableIs
<1>3. \A r \in S : RecipientPayment(d.amount, d.unpaid[r]) \in Nat
  <2> TAKE r \in S
  <2>1. d.amount * d.unpaid[r] \in Nat
    BY <1>1, <1>2, NatOps
  <2>2. (d.amount * d.unpaid[r]) \div D18 \in Nat
    BY <2>1, NatOps, D18Pos
  <2> QED BY <2>2, Conversions DEF RecipientPayment, U64
<1>4. g \in [1..NRecipients -> Nat] /\ NRecipients \in Nat
  BY <1>3, FolioAssumption DEF Recipients
<1>5. Total(g, NRecipients) \in Nat
  <2> HIDE DEF g
  <2> QED BY <1>4, TotalNat
<1> QED BY <1>5 DEF PaymentsTo

LEMMA CrankFeeDistributionType ==
  ASSUME TypeOK, NEW c, NEW i \in DOMAIN dists,
         NEW S \in SUBSET DOMAIN dists[i].unpaid, CrankFeeDistribution(c, i, S)
  PROVE  TypeOK'
<1> DEFINE d == dists[i]
           paid == PaymentsTo(d, S)
           left == DOMAIN d.unpaid \ S
<1>0. d \in Distributions /\ MaxU64 \in Nat /\ MaxU128 \in Nat
  BY DecimalAssumption DEF TypeOK, FeeTypes
<1>1. paid \in Nat /\ FromTokenAmount(paid) \in Nat
  BY <1>0, PaymentsNat, Conversions
<1>2. /\ supply + paid <= MaxU64 /\ folio.to_be_minted >= FromTokenAmount(paid)
      /\ supply' = supply + paid
      /\ folio' = [folio EXCEPT !.to_be_minted = @ - FromTokenAmount(paid)]
      /\ dists' = IF left = {} THEN Restrict(dists, DOMAIN dists \ {i})
                  ELSE [dists EXCEPT ![i].unpaid = Restrict(@, left)]
      /\ recips' = recips /\ feeCfg' = feeCfg
  BY DEF CrankFeeDistribution
<1> HIDE DEF paid
<1>3. supply' \in U64
  BY <1>0, <1>1, <1>2 DEF TypeOK, U64
<1>4. folio' \in FolioRecord
  <2>1. folio.to_be_minted - FromTokenAmount(paid) \in U128
    BY <1>0, <1>1, <1>2 DEF TypeOK, FolioRecord, U128
  <2> QED BY <1>2, <2>1 DEF TypeOK, FolioRecord
<1>5. /\ DOMAIN dists' \subseteq DOMAIN dists
      /\ \A j \in DOMAIN dists' : dists'[j] \in Distributions
  <2>1. CASE left = {}
    <3>1. dists' = Restrict(dists, DOMAIN dists \ {i})
      BY <1>2, <2>1
    <3> QED BY <3>1 DEF TypeOK, FeeTypes, Restrict
  <2>2. CASE left # {}
    <3>1. dists' = [dists EXCEPT ![i].unpaid = Restrict(d.unpaid, left)]
      BY <1>2, <2>2
    <3>2. d.unpaid \in Tables(Recipients)
      BY <1>0 DEF Distributions
    <3>3. DOMAIN d.unpaid \subseteq Recipients
      BY <3>2, TableIs
    <3>4. Restrict(d.unpaid, left) \in Tables(Recipients)
      BY <3>2, <3>3, RestrictTable
    <3> DEFINE rest == Restrict(d.unpaid, left)
    <3>5. [d EXCEPT !.unpaid = rest] \in Distributions
      <4> HIDE DEF rest, d
      <4> QED BY <1>0, <3>4 DEF Distributions, rest
    <3>6. /\ DOMAIN dists' = DOMAIN dists
          /\ dists'[i] = [d EXCEPT !.unpaid = rest]
          /\ \A j \in DOMAIN dists : j # i => dists'[j] = dists[j]
      BY <3>1
    <3> QED BY <3>5, <3>6 DEF TypeOK, FeeTypes
  <2> QED BY <2>1, <2>2
<1>6. FeeTypes'
  BY <1>2, <1>5 DEF TypeOK, FeeTypes
<1> QED BY <1>3, <1>4, <1>6 DEF TypeOK, AssetTypes, UserTypes, assetVars, userVars,
                                CrankFeeDistribution

\* The recipients kept and the ones added make up a table.
LEMMA NewTableType ==
  ASSUME TypeOK, NEW add \in Tables(Keys), NEW remove
  PROVE  NewTable(add, remove) \in Tables(Keys)
<1> DEFINE kept == DOMAIN recips.table \ (remove \cup {NoKey})
           added == DOMAIN add \ remove
<1>1. recips.table \in Tables(Keys)
  BY DEF TypeOK, FeeTypes
<1>2. /\ DOMAIN recips.table \subseteq Keys
      /\ \A r \in DOMAIN recips.table : recips.table[r] \in 0..D18
  BY <1>1, TableIs
<1>3. DOMAIN add \subseteq Keys /\ \A r \in DOMAIN add : add[r] \in 0..D18
  BY TableIs
<1>4. NewTable(add, remove) \in [kept \cup added -> 0..D18]
  BY <1>2, <1>3 DEF NewTable
<1>5. kept \cup added \in SUBSET Keys
  BY <1>2, <1>3
<1> QED BY <1>4, <1>5, TableIs

\* update_folio: with or without a distribution, then the new settings.
LEMMA UpdateFolioType ==
  ASSUME TypeOK, NEW a \in Actors, NEW x \in Updates, UpdateFolio(a, x)
  PROVE  TypeOK'
<1> DEFINE touchesTable == x.add # NoTable \/ x.remove # {}
           touchesFees == x.annual # NoFee \/ x.mint_fee # NoFee \/ touchesTable
           distributes == /\ recips.init /\ touchesFees
                          /\ InStatus({"Initialized", "Killed"})
           p == Poke(folio, supply, now, GetFeeDetails)
           f == IF distributes THEN DistributedFolio(p) ELSE folio
           tvl == IF x.annual # NoFee THEN ToScaledFloor(PerSecondRate(x.annual))
                  ELSE f.tvl_fee
           mf == IF x.mint_fee # NoFee THEN x.mint_fee ELSE f.mint_fee
           len == IF x.length # NoFee THEN x.length ELSE f.auction_length
<1>0. /\ x.annual \in AnnualFees \cup {NoFee} /\ x.mint_fee \in MintFees \cup {NoFee}
      /\ x.add \in Tables(Keys) /\ x.length \in AuctionLengths \cup {NoFee}
  BY FolioAssumption
<1>1. /\ distributes => DistributeFeesOk(p)
      /\ folio' = [f EXCEPT !.tvl_fee = tvl, !.mint_fee = mf, !.auction_length = len]
      /\ supply' = supply + (IF distributes THEN DaoDistributes(p) ELSE 0)
      /\ dists' = IF distributes THEN DistributedDists(p, a) ELSE dists
      /\ recips' = [init |-> TRUE,
                    index |-> recips.index + (IF distributes THEN 1 ELSE 0),
                    table |-> IF touchesTable THEN NewTable(x.add, x.remove)
                              ELSE recips.table]
      /\ feeCfg' = feeCfg
  BY DEF UpdateFolio
<1>2. distributes =>
        /\ DistributedFolio(p) \in FolioRecord
        /\ supply + DaoDistributes(p) \in U64
        /\ recips.index + 1 \in 0..MaxDistributions
        /\ DOMAIN DistributedDists(p, a) \subseteq 1..(recips.index + 1)
        /\ \A i \in DOMAIN DistributedDists(p, a) :
             DistributedDists(p, a)[i] \in Distributions
  BY <1>1, DistributionStep
<1> HIDE DEF distributes, p
<1>3. f \in FolioRecord
  BY <1>2 DEF TypeOK
<1>4. tvl \in U128 /\ mf \in U128 /\ len \in Nat
  <2>1. f.tvl_fee \in U128 /\ f.mint_fee \in U128 /\ f.auction_length \in Nat
    <3> HIDE DEF f
    <3> QED BY <1>3 DEF FolioRecord
  <2>2. x.annual # NoFee => ToScaledFloor(PerSecondRate(x.annual)) \in U128
    BY <1>0, StoredRateType
  <2>3. /\ x.mint_fee # NoFee => x.mint_fee \in U128
        /\ x.length # NoFee => x.length \in Nat
    BY <1>0, FolioAssumption
  <2> HIDE DEF f
  <2> QED BY <2>1, <2>2, <2>3
<1>5. folio' \in FolioRecord
  <2> HIDE DEF f, tvl, mf, len
  <2> QED BY <1>1, <1>3, <1>4 DEF FolioRecord
<1>6. supply' \in U64
  <2>1. CASE distributes
    BY <1>1, <1>2, <2>1
  <2>2. CASE ~distributes
    BY <1>1, <2>2 DEF TypeOK, U64
  <2> QED BY <2>1, <2>2
<1>7. FeeTypes'
  <2>1. (IF touchesTable THEN NewTable(x.add, x.remove) ELSE recips.table) \in Tables(Keys)
    BY <1>0, NewTableType DEF TypeOK, FeeTypes
  <2>2. recips.index \in 0..MaxDistributions
    BY DEF TypeOK, FeeTypes
  <2> HIDE DEF touchesTable
  <2>3. CASE distributes
    <3>1. recips'.index = recips.index + 1
      BY <1>1, <2>3
    <3>2. recips' \in [init: BOOLEAN, index: 0..MaxDistributions, table: Tables(Keys)]
      BY <1>1, <1>2, <2>1, <2>3
    <3>3. dists' = DistributedDists(p, a)
      BY <1>1, <2>3
    <3> QED BY <1>1, <1>2, <2>3, <3>1, <3>2, <3>3 DEF TypeOK, FeeTypes
  <2>4. CASE ~distributes
    <3>1. recips'.index = recips.index
      BY <1>1, <2>2, <2>4
    <3>2. recips' \in [init: BOOLEAN, index: 0..MaxDistributions, table: Tables(Keys)]
      BY <1>1, <2>1, <2>2, <2>4
    <3>3. dists' = dists
      BY <1>1, <2>4
    <3> QED BY <1>1, <3>1, <3>2, <3>3 DEF TypeOK, FeeTypes
  <2> QED BY <2>3, <2>4
<1> QED BY <1>5, <1>6, <1>7 DEF TypeOK, AssetTypes, UserTypes, assetVars, userVars,
                                UpdateFolio

\* The admin's configurations stay within the limits of the folio-admin program.
LEMMA NewFeeConfigType ==
  ASSUME NEW old \in FeeDetails, NEW fd \in FeeDetailInputs, FeeInputOk(fd)
  PROVE  NewFeeConfig(old, fd) \in FeeDetails
<1>1. fd.numerator \in U128 \cup {NoFee} /\ fd.floor \in U128 \cup {NoFee}
  BY FolioAssumption
<1>2. MaxDaoFee \in Nat /\ MaxFeeFloor \in Nat
  BY FeeAssumption, D18Pos
<1>3. /\ fd.numerator # NoFee => fd.numerator \in 0..MaxDaoFee
      /\ fd.floor # NoFee => fd.floor \in 0..MaxFeeFloor
  BY <1>1, <1>2, DecimalAssumption DEF FeeInputOk, U128
<1> QED BY <1>3 DEF NewFeeConfig, FeeDetails

LEMMA SetDaoFeeConfigType ==
  ASSUME TypeOK, NEW fd \in FeeDetailInputs, SetDaoFeeConfig(fd)
  PROVE  TypeOK'
<1>1. NewFeeConfig(feeCfg.dao, fd) \in FeeDetails
  BY NewFeeConfigType DEF TypeOK, FeeTypes, SetDaoFeeConfig
<1>2. FeeTypes'
  BY <1>1 DEF TypeOK, FeeTypes, SetDaoFeeConfig
<1> QED BY <1>2 DEF TypeOK, AssetTypes, UserTypes, assetVars, userVars, SetDaoFeeConfig

LEMMA SetFolioFeeConfigType ==
  ASSUME TypeOK, NEW fd \in FeeDetailInputs, SetFolioFeeConfig(fd)
  PROVE  TypeOK'
<1>0. Admin \in Actors \cup {Admin}
  OBVIOUS
<1>1. folio' \in FolioRecord /\ supply' \in U64
  BY <1>0, DistributionStep DEF SetFolioFeeConfig
<1>2. NewFeeConfig(GetFeeDetails, fd) \in FeeDetails
  BY NewFeeConfigType, FeeDetailsType DEF SetFolioFeeConfig
<1>3. FeeTypes'
  <2>1. recips' \in [init: BOOLEAN, index: 0..MaxDistributions, table: Tables(Keys)]
    BY <1>0, DistributionStep DEF SetFolioFeeConfig, TypeOK, FeeTypes
  <2>2. recips'.index = recips.index + 1
    BY DEF SetFolioFeeConfig, TypeOK, FeeTypes
  <2>3. DOMAIN dists' \subseteq 1..recips'.index
    BY <1>0, <2>2, DistributionStep DEF SetFolioFeeConfig
  <2>4. \A i \in DOMAIN dists' : dists'[i] \in Distributions
    BY <1>0, DistributionStep DEF SetFolioFeeConfig
  <2>5. feeCfg' \in [dao: FeeDetails, folio: FeeDetails \cup {NoFeeConfig}]
    BY <1>2 DEF SetFolioFeeConfig, TypeOK, FeeTypes
  <2> QED BY <2>1, <2>3, <2>4, <2>5 DEF FeeTypes
<1> QED BY <1>1, <1>3 DEF TypeOK, AssetTypes, UserTypes, assetVars, userVars,
                          SetFolioFeeConfig

\* Steps that touch the roles, the clock or a token account only.
LEMMA SmallStepTypes ==
  ASSUME TypeOK
  PROVE  /\ Tick => TypeOK'
         /\ \A b \in Donations : Donate(b) => TypeOK'
         /\ \A a, b \in Actors, r \in Grants : InitOrUpdateActor(a, b, r) => TypeOK'
         /\ \A a, b \in Actors : \A R : RemoveActor(a, b, R) => TypeOK'
         /\ UNCHANGED vars => TypeOK'
<1> USE DEF TypeOK, UserTypes, FeeTypes, userVars, feeVars
<1>1. Tick => TypeOK'
  BY DEF Tick, AssetTypes, assetVars
<1>2. ASSUME NEW b \in Donations, Donate(b) PROVE TypeOK'
  <2>1. PICK got \in Arrivals(b) : CanReceive(got) /\ ata' = Received(got)
    BY <1>2 DEF Donate
  <2>2. ata' \in [Mints -> U64]
    BY <2>1, ArrivalTypes
  <2> QED BY <1>2, <2>2 DEF Donate, AssetTypes
<1>3. ASSUME NEW a \in Actors, NEW b \in Actors, NEW r \in Grants,
             InitOrUpdateActor(a, b, r)
      PROVE  TypeOK'
  <2>1. r \in Roles
    BY FolioAssumption
  <2> QED BY <1>3, <2>1 DEF InitOrUpdateActor, AssetTypes, assetVars
<1>4. ASSUME NEW a \in Actors, NEW b \in Actors, NEW R, RemoveActor(a, b, R)
      PROVE  TypeOK'
  BY <1>4 DEF RemoveActor, AssetTypes, assetVars
<1>5. UNCHANGED vars => TypeOK'
  BY DEF vars, AssetTypes, assetVars
<1> QED BY <1>1, <1>2, <1>3, <1>4, <1>5

\* Every instruction preserves the types.
LEMMA TypeStep == TypeOK /\ [Next]_vars => TypeOK'
<1> SUFFICES ASSUME TypeOK, [Next]_vars PROVE TypeOK'
  OBVIOUS
<1>1. CASE UserNext
  BY <1>1, AddToPendingBasketType, RemoveFromPendingBasketType,
     RedeemFromPendingBasketType, MintFolioTokenType, BurnFolioTokenType,
     CloseUserPendingTokenAmountType DEF UserNext
<1>2. CASE OwnerNext
  BY <1>2, AddToBasketType, RemoveFromBasketType, KillFolioType, UpdateFolioType,
     SmallStepTypes, StartFolioMigrationType DEF OwnerNext
<1>3. CASE CrankNext
  BY <1>3, PokeFolioType, DistributeFeesType, CrankFeeDistributionType,
     MigrateFolioTokensType DEF CrankNext
<1>4. CASE AdminNext
  BY <1>4, SetDaoFeeConfigType, SetFolioFeeConfigType DEF AdminNext
<1>5. CASE Tick \/ (\E b \in Donations : Donate(b)) \/ UNCHANGED vars
  BY <1>5, SmallStepTypes
<1> QED BY <1>1, <1>2, <1>3, <1>4, <1>5 DEF Next

\* The accounts of a folio keep their types, whatever instructions are issued with
\* whatever arguments: no amount, fee, reserve or index ever leaves its width.
THEOREM TypeCorrect == Spec => []TypeOK
<1>1. Init => TypeOK
  BY InitType
<1>2. TypeOK /\ [Next]_vars => TypeOK'
  BY TypeStep
<1> QED BY <1>1, <1>2, PTL DEF Spec

=============================================================================
