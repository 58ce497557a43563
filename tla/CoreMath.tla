------------------------------ MODULE CoreMath ------------------------------
(***************************************************************************)
(* The integer arithmetic of Core: unsigned words that never wrap (every   *)
(* operation of the source is a checked_* call, whose failure refuses the  *)
(* transaction) and the protocol fee, rounded up.                          *)
(***************************************************************************)
EXTENDS Integers

CONSTANTS U64Max,                 \* u64::MAX, small in a model
          ProtocolFeeBps,         \* PROTOCOL_FEE_BPS_V0
          BasisPoints             \* BASIS_POINTS_DENOMINATOR

ASSUME MathAssumption ==
  /\ U64Max \in Nat
  /\ ProtocolFeeBps \in Nat \ {0}
  /\ BasisPoints \in Nat \ {0}

U64 == 0 .. U64Max

\* u64::checked_add and u64::checked_sub succeed.
AddFits(x, y) == x + y <= U64Max
SubFits(x, y) == x >= y

\* Faulty variant of fee_ceil: rounds down.
fee_floor(amount, fee_bps) == (amount * fee_bps) \div BasisPoints

\* fee_ceil on the values for which it returns Ok: a positive amount, a
\* positive rate, and a quotient that u64::try_from accepts.  The numerator is
\* a u128, which amount * rate + (denominator - 1) cannot overflow.
fee_ceil(amount, fee_bps) == (amount * fee_bps + (BasisPoints - 1)) \div BasisPoints
fee_ceil_ok(amount, fee_bps) ==
  /\ amount > 0
  /\ fee_bps > 0
  /\ fee_ceil(amount, fee_bps) \in U64

\* The reference: the least fee that is at least fee_bps / BasisPoints of the amount.
IsLeastFee(fee, amount, fee_bps) ==
  /\ fee * BasisPoints >= amount * fee_bps
  /\ \A lower \in 0 .. (fee - 1) : lower * BasisPoints < amount * fee_bps
=============================================================================
