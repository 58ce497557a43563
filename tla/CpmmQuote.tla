----------------------------- MODULE CpmmQuote ------------------------------
(***************************************************************************)
(* quote_exact_in, which the two engines of the experiments share: the     *)
(* constant-product quote for an exact input, rounded down twice.          *)
(***************************************************************************)
EXTENDS CoreMath

effective_input(gross_input, lp_fee_bps) ==
  (gross_input * (BasisPoints - lp_fee_bps)) \div BasisPoints

\* Faulty variant of quote_amount_out: the spot price.
spot_price_amount_out(reserve_in, reserve_out, gross_input, lp_fee_bps) ==
  (reserve_out * effective_input(gross_input, lp_fee_bps)) \div reserve_in

quote_amount_out(reserve_in, reserve_out, gross_input, lp_fee_bps) ==
  (reserve_out * effective_input(gross_input, lp_fee_bps))
    \div (reserve_in + effective_input(gross_input, lp_fee_bps))

\* The function returns Ok.
quote_exact_in_ok(reserve_in, reserve_out, gross_input, lp_fee_bps) ==
  /\ reserve_in > 0 /\ reserve_out > 0
  /\ gross_input > 0
  /\ lp_fee_bps < BasisPoints
  /\ AddFits(reserve_in, gross_input)
  /\ effective_input(gross_input, lp_fee_bps) > 0
  /\ quote_amount_out(reserve_in, reserve_out, gross_input, lp_fee_bps) > 0
  /\ quote_amount_out(reserve_in, reserve_out, gross_input, lp_fee_bps) < reserve_out
=============================================================================
