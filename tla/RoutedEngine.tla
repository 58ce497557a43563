---------------------------- MODULE RoutedEngine ----------------------------
(***************************************************************************)
(* The programs Core calls in the routed experiment's tests: the routed    *)
(* plan engine, a constant-product market maker that answers in one phase  *)
(* or in two, and the callback capability probe ("helper"), which the      *)
(* engine may call on the way and which trusts one callback authority.     *)
(*                                                                         *)
(* A program runs to its end or fails the transaction, so a call is a      *)
(* condition for success, the accounts it leaves and the data it returns.  *)
(***************************************************************************)
EXTENDS RoutedWire, CpmmQuote

CONSTANTS
  RoutedPlanEngine,    \* the routed plan engine's program id
  HelperProgram,       \* DISPOSABLE_HELPER_PROGRAM_ID
  LpFees,              \* lp_fee_bps arguments
  ModesUsed,           \* the modes set_mode is called with
  AllowedCallbacks     \* the callback authorities a helper is created for

ASSUME EngineAssumption ==
  /\ RoutedPlanEngine \in Programs \ {CoreProgram}
  /\ HelperProgram \in Programs \ {CoreProgram, RoutedPlanEngine}
  /\ LpFees \subseteq Nat
  /\ AllowedCallbacks \cap (EngineStates \cup Programs) = {}

(***************************************************************************)
(* The helper.                                                             *)
(***************************************************************************)
IsHelperState(k) == k \in EngineStates /\ StateOwner[k] = HelperProgram /\ engine[k] # None

helper_initialize ==
  /\ RunInstruction("open")
  /\ \E h \in EngineStates, allowed_callback \in AllowedCallbacks :
       /\ StateOwner[h] = HelperProgram
       /\ engine[h] = None
       /\ engine' = [engine EXCEPT ![h] =
            [allowed_callback |-> allowed_callback, calls |-> 0, value |-> 0]]
  /\ UNCHANGED <<token, market, domain, fee_ledger, donated, settled>>

\* A callback authority as the callee sees it: an address and whether it signed.
Callback(key, is_signer) == [key |-> key, is_signer |-> is_signer]

\* Faulty variant of validate_increment: the signature is not required.
increment_without_signature(h, callback, amount) ==
  /\ IsHelperState(h)
  /\ amount > 0
  /\ callback.key = engine[h].allowed_callback

\* Faulty variant of validate_increment: any signature will do.
increment_any_signer(h, callback, amount) ==
  /\ IsHelperState(h)
  /\ amount > 0
  /\ callback.is_signer

validate_increment(h, callback, amount) ==
  /\ IsHelperState(h)
  /\ amount > 0
  /\ callback.key = engine[h].allowed_callback
  /\ callback.is_signer
  /\ callback.key # h

\* Faulty variant of increment_fits: the additions are not checked.
increment_unchecked(h, amount) == TRUE

increment_fits(h, amount) ==
  /\ AddFits(engine[h].calls, 1)
  /\ AddFits(engine[h].value, amount)

apply_increment(e, h, amount) ==
  [e EXCEPT ![h].calls = @ + 1, ![h].value = @ + amount]

HelperReturn == EngineReceipt(HelperProgram, FALSE, PHASE_TRANSITION, None, None, 0, 0)

(***************************************************************************)
(* The engine's configuration.                                             *)
(***************************************************************************)
EngineModes ==
  {"ACCEPT", "MISSING_RECEIPT", "WRONG_INTENT_DIGEST", "WRONG_EXECUTION_DIGEST",
   "MALFORMED_RECEIPT", "ZERO_OUTPUT", "OVERSIZED_OUTPUT", "WRONG_RECEIPT_MAGIC",
   "WRONG_RECEIPT_VERSION", "TRAILING_RECEIPT_BYTE", "WRONG_RECEIPT_PHASE",
   "LATE_COMMIT_FAILURE"}

IsRoutedState(k) == k \in EngineStates /\ StateOwner[k] = RoutedPlanEngine /\ engine[k] # None

NewEngineState(authority, m, revision, lp_fee_bps, timing_mode) ==
  [authority |-> authority, market |-> m, revision |-> revision, lp_fee_bps |-> lp_fee_bps,
   timing_mode |-> timing_mode, sequence |-> 0, last_intent_digest |-> None,
   last_phase_context_digest |-> None, last_execution_digest |-> None,
   last_amount_out |-> 0, last_phase |-> None, mode |-> "ACCEPT"]

engine_initialize ==
  /\ RunInstruction("open")
  /\ \E es \in EngineStates, authority \in signers, m \in Markets, revision \in Revisions,
        lp_fee_bps \in LpFees, timing_mode \in TimingModes :
       /\ StateOwner[es] = RoutedPlanEngine
       /\ engine[es] = None
       /\ revision # 0
       /\ lp_fee_bps < BasisPoints
       /\ engine' = [engine EXCEPT ![es] =
            NewEngineState(authority, m, revision, lp_fee_bps, timing_mode)]
  /\ UNCHANGED <<token, market, domain, fee_ledger, donated, settled>>

set_mode ==
  /\ RunInstruction("open")
  /\ \E es \in EngineStates, mode \in ModesUsed :
       /\ IsRoutedState(es)
       /\ engine[es].authority \in signers
       /\ mode \in EngineModes
       /\ engine' = [engine EXCEPT ![es].mode = mode]
  /\ UNCHANGED <<token, market, domain, fee_ledger, donated, settled>>

(***************************************************************************)
(* evaluate_phase.  A call has the engine account passed and whether it is *)
(* writable, the callback authority, the other accounts and the request.   *)
(***************************************************************************)
EngineCall(engine_state, callback, descriptors, binding) ==
  [engine_state |-> engine_state, callback |-> callback,
   state_is_writable |-> descriptors[1].is_writable, accounts |-> Tail(Observed(descriptors)),
   binding |-> binding]

validate_fixed_account_privileges(call) ==
  /\ call.engine_state \notin Programs
  /\ call.callback.is_signer
  /\ call.callback.key # call.engine_state
  /\ call.state_is_writable <=> (call.binding.phase # PHASE_PREPARE)
  /\ \A i \in DOMAIN call.accounts :
       /\ call.accounts[i].key # call.callback.key
       /\ call.binding.phase = PHASE_PREPARE => ~call.accounts[i].is_writable

\* Faulty variant of authenticate_callback_authority: any signer will do.
any_callback_authority(call) == TRUE

authenticate_callback_authority(call) ==
  call.callback.key =
    canonical_callback(RoutedPlanEngine, call.engine_state, call.binding.market,
                       call.binding.domain, call.binding.intent_digest, call.binding.phase)

\* The helper is called in a mutating phase when the payload has its tag (a
\* payload 0 stands for every command the engine or the helper refuses).
CallsHelper(call) == call.binding.phase # PHASE_PREPARE /\ call.binding.payload # None

helper_call_ok(call) ==
  /\ Len(call.accounts) \in 2 .. MaxOpaqueAccounts
  /\ call.accounts[1].key = HelperProgram
  /\ ~call.accounts[1].is_writable
  /\ call.accounts[2].is_writable
  /\ ~call.accounts[2].is_executable
  /\ call.accounts[2].owner = HelperProgram
  /\ call.accounts[2].key # call.engine_state
  /\ validate_increment(call.accounts[2].key, call.callback, call.binding.payload)
  /\ increment_fits(call.accounts[2].key, call.binding.payload)

EvaluateSucceeds(call) ==
  LET b == call.binding
      state == engine[call.engine_state]
  IN
  /\ validate_execution_binding(b)
  /\ Len(call.accounts) = b.opaque_account_count
  /\ validate_fixed_account_privileges(call)
  /\ IsRoutedState(call.engine_state)
  /\ state.market = b.market
  /\ state.revision = b.engine_revision
  /\ validate_phase_for_timing(state.timing_mode, b.phase)
  /\ state.sequence = b.pre_sequence
  /\ authenticate_callback_authority(call)
  /\ b.phase_capability_hash = compute_capability_hash(RoutedPlanEngine,
       <<Descriptor(call.engine_state, RoutedPlanEngine, call.state_is_writable)>>
         \o call.accounts)
  /\ quote_exact_in_ok(b.accounted_input_before, b.accounted_output_before, b.amount_in,
                       state.lp_fee_bps)
  /\ CallsHelper(call) => helper_call_ok(call)
  /\ b.phase # PHASE_PREPARE => AddFits(state.sequence, 1)
  /\ ~(state.mode = "LATE_COMMIT_FAILURE" /\ b.phase = PHASE_COMMIT)

\* The output the mode makes of the quote.
EvaluateAmountOut(call) ==
  LET b == call.binding
      state == engine[call.engine_state]
  IN  CASE state.mode = "ZERO_OUTPUT" -> 0
        [] state.mode = "OVERSIZED_OUTPUT" -> U64Max
        [] OTHER -> quote_amount_out(b.accounted_input_before, b.accounted_output_before,
                                     b.amount_in, state.lp_fee_bps)

\* The engine-owned accounts after the call: PREPARE writes nothing; the other
\* phases let the helper count and then record the execution.
EvaluatedEngine(call) ==
  LET b == call.binding
      helped == IF CallsHelper(call)
                THEN apply_increment(engine, call.accounts[2].key, b.payload) ELSE engine
      es == call.engine_state
  IN  IF b.phase = PHASE_PREPARE THEN engine
      ELSE [helped EXCEPT ![es].sequence = @ + 1,
                          ![es].last_intent_digest = b.intent_digest,
                          ![es].last_phase_context_digest = b.phase_context_digest,
                          ![es].last_execution_digest = compute_execution_digest(b),
                          ![es].last_amount_out = EvaluateAmountOut(call),
                          ![es].last_phase = b.phase]

\* emit_receipt, after every nested call: what each mode leaves as return data.
EvaluateReturn(call) ==
  LET b == call.binding
      state == engine[call.engine_state]
      good == EngineReceipt(RoutedPlanEngine, TRUE, b.phase, b.intent_digest,
                compute_execution_digest(b), EvaluateAmountOut(call),
                IF b.phase = PHASE_PREPARE THEN state.sequence ELSE state.sequence + 1)
  IN  CASE state.mode = "MISSING_RECEIPT" -> IF CallsHelper(call) THEN HelperReturn ELSE None
        [] state.mode = "WRONG_INTENT_DIGEST" -> [good EXCEPT !.intent_digest = OtherHash]
        [] state.mode = "WRONG_EXECUTION_DIGEST" -> [good EXCEPT !.execution_digest = OtherHash]
        [] state.mode = "WRONG_RECEIPT_PHASE" ->
             [good EXCEPT !.phase = IF @ = PHASE_TRANSITION THEN PHASE_PREPARE
                                    ELSE PHASE_TRANSITION]
        [] state.mode \in {"MALFORMED_RECEIPT", "WRONG_RECEIPT_MAGIC",
                           "WRONG_RECEIPT_VERSION", "TRAILING_RECEIPT_BYTE"} ->
             [good EXCEPT !.well_formed = FALSE]
        [] OTHER -> good
=============================================================================
