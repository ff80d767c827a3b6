----------------------------- MODULE FolioFees -----------------------------
(***************************************************************************)
(* The fee arithmetic of the Folio account                                 *)
(* (programs/folio/src/utils/accounts/folio.rs): functions of a Folio      *)
(* record, the raw supply of the folio token, the time and the fee details *)
(* of the folio-admin program.  Each partial function F of the code has a  *)
(* predicate FOk that holds when the code returns no error, and an         *)
(* operator F for the value or the account it then leaves behind.          *)
(***************************************************************************)
EXTENDS Decimal

CONSTANTS DAY,          \* DAY_IN_SECONDS
          MaxTvlFee,    \* MAX_TVL_FEE, D18 per year
          MaxMintFee,   \* MAX_MINT_FEE, D18
          MaxDaoFee,    \* MAX_DAO_FEE, D18
          MaxFeeFloor   \* MAX_FEE_FLOOR, D18 per year

ASSUME FeeAssumption ==
  /\ DAY \in Nat \ {0}
  /\ MaxTvlFee \in 0..(D18 - 1)
  /\ MaxMintFee \in 0..D18
  /\ MaxDaoFee \in 0..D18
  /\ MaxFeeFloor \in 0..(D18 - 1)

Statuses == {"Initializing", "Initialized", "Killed", "Migrating"}

\* The fields of the Folio account that its instructions read and write.
FolioRecord ==
  [status: Statuses,
   tvl_fee: U128, mint_fee: U128,
   dao_pending_fee_shares: U128,
   fee_recipients_pending_fee_shares: U128,
   to_be_minted: U128,       \* fee_recipients_pending_fee_shares_to_be_minted
   auction_length: Nat,
   last_poke: Nat]

\* What get_fee_details returns; the denominator is always D18.
FeeDetails == [numerator: 0..MaxDaoFee, floor: 0..MaxFeeFloor]

-----------------------------------------------------------------------------
GetTotalSupply(f, supply) ==
  FromTokenAmount(supply) + f.dao_pending_fee_shares
    + f.fee_recipients_pending_fee_shares + f.to_be_minted

\* Fees accrue up to the last day boundary only.
GetAccountFeeUntil(t) == (t \div DAY) * DAY

SetTvlFeeOk(annual) ==
  /\ annual <= MaxTvlFee
  /\ annual # 0 => PerSecondRate(annual) # 0

-----------------------------------------------------------------------------
(* get_pending_fee_shares and poke *)

\* The DAO's floor is charged even when the folio's own rate is lower.
RateToUse(f, fee) ==
  LET floorRate == PerSecondRate(fee.floor)
  IN  IF floorRate > f.tvl_fee THEN floorRate ELSE f.tvl_fee

Decay(f, until, fee) ==
  Pow(D18 - RateToUse(f, fee), SaturatingSub(until, f.last_poke))

\* The shares whose creation dilutes every holder by the fee.
PendingFeeShares(f, supply, until, fee) ==
  (GetTotalSupply(f, supply) * D18) \div Decay(f, until, fee)
    - GetTotalSupply(f, supply)

Correction(f, fee) == CeilDiv(PerSecondRate(fee.floor) * D18, RateToUse(f, fee))

\* The DAO takes the larger of its ratio and the floor's part of the rate.
DaoShares(f, shares, fee) ==
  LET correction == Correction(f, fee)
  IN  CeilDiv(shares * (IF correction > fee.numerator
                        THEN correction ELSE fee.numerator), D18)

NeedsPoke(f, t) == GetAccountFeeUntil(t) > f.last_poke

\* No error: no division by zero, no underflow, no overflow.
PokeOk(f, supply, t, fee) ==
  NeedsPoke(f, t) =>
    LET until == GetAccountFeeUntil(t)
        shares == PendingFeeShares(f, supply, until, fee)
        dao == DaoShares(f, shares, fee)
    IN  /\ RateToUse(f, fee) # 0
        /\ Decay(f, until, fee) \in 1..MaxU256
        /\ shares >= 0
        /\ dao \in 0..shares
        /\ f.dao_pending_fee_shares + ToScaledFloor(dao) <= MaxU128
        /\ f.fee_recipients_pending_fee_shares
             + ToScaledFloor(shares - dao) <= MaxU128

Poke(f, supply, t, fee) ==
  IF ~NeedsPoke(f, t) THEN f
  ELSE LET until == GetAccountFeeUntil(t)
           shares == PendingFeeShares(f, supply, until, fee)
           dao == DaoShares(f, shares, fee)
       IN  [f EXCEPT !.dao_pending_fee_shares = @ + ToScaledFloor(dao),
                     !.fee_recipients_pending_fee_shares =
                         @ + ToScaledFloor(shares - dao),
                     !.last_poke = until]

-----------------------------------------------------------------------------
(* calculate_fees_for_minting *)

MintDaoFee(f, shares, fee) ==
  LET total == CeilDiv(FromTokenAmount(shares) * f.mint_fee, D18)
      dao   == CeilDiv(total * fee.numerator, D18)
      least == CeilDiv(FromTokenAmount(shares) * fee.floor, D18)
  IN  IF dao < least THEN least ELSE dao

MintTotalFee(f, shares, fee) ==
  LET total == CeilDiv(FromTokenAmount(shares) * f.mint_fee, D18)
  IN  IF total < MintDaoFee(f, shares, fee)
      THEN MintDaoFee(f, shares, fee) ELSE total

MintFeesOk(f, shares, fee) ==
  LET dao == MintDaoFee(f, shares, fee)
      total == MintTotalFee(f, shares, fee)
  IN  /\ f.dao_pending_fee_shares + ToScaledFloor(dao) <= MaxU128
      /\ f.fee_recipients_pending_fee_shares
           + ToScaledFloor(total - dao) <= MaxU128

\* The account after the fees of a mint have been booked...
CalculateFeesForMinting(f, shares, fee) ==
  LET dao == MintDaoFee(f, shares, fee)
      total == MintTotalFee(f, shares, fee)
  IN  [f EXCEPT !.dao_pending_fee_shares = @ + ToScaledFloor(dao),
                !.fee_recipients_pending_fee_shares =
                    @ + ToScaledFloor(total - dao)]

\* ... and the raw shares withheld from the minter.
MintFeeShares(f, shares, fee) == ToTokenCeil(MintTotalFee(f, shares, fee))

=============================================================================
