------------------------------ MODULE Decimal ------------------------------
(***************************************************************************)
(* The fixed-point arithmetic of shared/src/utils/math_util.rs.            *)
(*                                                                         *)
(* A Decimal wraps a U256.  A token amount is "raw" (a u64 of base units)  *)
(* or "scaled" (raw * D9); a ratio, price or fee is scaled by D18.  Every  *)
(* operation of the code is checked: it returns MathOverflow when a result *)
(* leaves the type or a divisor is zero.  Those errors are guards of the   *)
(* modules that use these operators; the operators give the result of the  *)
(* successful case.  The saturation of the conversions is not an error in  *)
(* the code and is part of the operators here.                             *)
(***************************************************************************)
EXTENDS Integers

CONSTANTS
  D9,        \* 10^9 in the code
  MaxU64,    \* 2^64 - 1 in the code
  MaxU128,   \* 2^128 - 1 in the code
  MaxU256,   \* 2^256 - 1 in the code
  YEAR       \* YEAR_IN_SECONDS

ASSUME DecimalAssumption ==
  /\ D9 \in Nat \ {0}
  /\ MaxU64 \in Nat \ {0} /\ MaxU128 \in Nat /\ MaxU256 \in Nat
  /\ MaxU64 * D9 <= MaxU128 /\ MaxU128 <= MaxU256
  /\ YEAR \in Nat \ {0, 1}

D18 == D9 * D9

U64 == 0..MaxU64
U128 == 0..MaxU128
U256 == 0..MaxU256

\* The rounding-up idiom a.add(b).sub(ONE).div(b) of the fee code.
CeilDiv(a, b) == (a + b - 1) \div b

SatU64(x) == IF x > MaxU64 THEN MaxU64 ELSE x
SatU128(x) == IF x > MaxU128 THEN MaxU128 ELSE x

\* Slip: a plain subtraction.
PlainSub(a, b) == a - b

\* Checked and saturating subtraction on unsigned integers.
SaturatingSub(a, b) == IF a >= b THEN a - b ELSE 0

FromTokenAmount(raw) == raw * D9

\* to_token_amount: scaled to raw, capped at u64::MAX.
ToTokenFloor(scaled) == SatU64(scaled \div D9)
ToTokenCeil(scaled) == SatU64(CeilDiv(scaled, D9))

\* to_scaled(Ceiling) works on an already truncated value: it adds one unless
\* the value is a whole multiple of D18.
ToScaledFloor(x) == SatU128(x)
ToScaledCeil(x) == SatU128(IF x % D18 = 0 THEN x ELSE x + 1)

\* pow: square-and-multiply, truncating to D18 after every product.
PowLoop[e \in Nat, base \in Nat, result \in Nat] ==
  IF e = 0
  THEN result
  ELSE PowLoop[e \div 2,
               (base * base) \div D18,
               IF e % 2 = 1 THEN (result * base) \div D18 ELSE result]

Pow(base, e) == PowLoop[e, base, D18]

\* ONE_E18 - nth_root(ONE_E18 - fee, YEAR): the yearly fee per second.  The
\* root of the code is a three-term Taylor expansion around one (its branch
\* for n > 1_000_000, which YEAR_IN_SECONDS takes), each term truncated.
PerSecondRate(fee) ==
  IF fee = D18 THEN D18
  ELSE LET n == YEAR IN
       fee \div n
       + (((fee * fee * (n - 1)) \div D18) \div (n * n)) \div 2
       + ((((fee * fee * fee * (n - 1) * (n - 2)) \div D18) \div D18)
            \div (n * n * n)) \div 6

=============================================================================
