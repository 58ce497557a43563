-------------------------- MODULE GeneratedEngine ---------------------------
(***************************************************************************)
(* The programs Core calls in the tests of engine-generated settlement:    *)
(* the generated plan engine, a constant-product market maker that decides *)
(* the output of an execution, and the opaque capability probe ("helper"), *)
(* which the engine may call on the way, signing with an authority that    *)
(* belongs to its own state.                                               *)
(*                                                                         *)
(* A program runs to its end or fails the transaction, so a call is a      *)
(* condition for success, the accounts it leaves and the data it returns.  *)
(***************************************************************************)
EXTENDS Capabilities, CpmmQuote

CONSTANTS
  GeneratedPlanEngine,   \* the engine's program id
  HelperProgram,         \* DISPOSABLE_HELPER_PROGRAM_ID
  LpFees,                \* lp_fee_bps arguments
  ModesUsed,             \* the modes set_mode is called with
  InstructionsSysvar,    \* the account that shows the transaction's instructions
  HelperAuthorities      \* the authorities a helper is created for

\* The address that only the engine can sign for, one for each of its states.
\* Its account, the marker, is the engine's too.
CapabilityAuthority(engine_state) == <<"capability-authority-v0", engine_state>>
Markers == {CapabilityAuthority(es) : es \in EngineStates} \cap EngineStates

ASSUME EngineAssumption ==
  /\ GeneratedPlanEngine \in Programs \ {CoreProgram}
  /\ HelperProgram \in Programs \ {CoreProgram, GeneratedPlanEngine}
  /\ LpFees \subseteq Nat
  /\ \A k \in Markers : StateOwner[k] = GeneratedPlanEngine
  /\ \A es \in EngineStates \ Markers :
       StateOwner[es] = GeneratedPlanEngine => CapabilityAuthority(es) \in Markers
  /\ Markers \cap (Users \cup EnginePdas) = {}

(***************************************************************************)
(* The wire format.                                                        *)
(***************************************************************************)
\* SHA-256, each under a separator of its own.
compute_payload_hash(payload) == [payload |-> payload]
compute_request_hash(binding) == [request |-> binding]

\* The codec accepts a request whose counts are within their limits.
validate_engine_request(request) == request.opaque_account_count <= MaxOpaqueAccounts

\* Return data: the program that set it, whether decode_receipt accepts the
\* bytes (length, magic, version), and the receipt they encode.
EngineReceipt(setter, well_formed, request_hash, amount_out, state_sequence) ==
  [setter |-> setter, well_formed |-> well_formed, request_hash |-> request_hash,
   amount_out |-> amount_out, state_sequence |-> state_sequence]

(***************************************************************************)
(* The helper.                                                             *)
(***************************************************************************)
IsHelperState(k) == k \in EngineStates /\ StateOwner[k] = HelperProgram /\ engine[k] # None

helper_initialize ==
  /\ RunInstruction("open")
  /\ \E f \in CallFrames : ensure_no_remaining_accounts(f)
  /\ \E h \in EngineStates, authority \in HelperAuthorities :
       /\ StateOwner[h] = HelperProgram
       /\ engine[h] = None
       /\ engine' = [engine EXCEPT ![h] = [authority |-> authority, calls |-> 0, value |-> 0]]
  /\ UNCHANGED <<token, market, domain, fee_ledger, donated, settled>>

\* Faulty variant of increment_ok: the signer need not be the stored authority.
increment_any_signer(h, authority, is_signer, amount) ==
  /\ IsHelperState(h)
  /\ is_signer
  /\ AddFits(engine[h].calls, 1)
  /\ AddFits(engine[h].value, amount)

\* Faulty variant of increment_ok: the counter wraps.
increment_unchecked(h, authority, is_signer, amount) ==
  /\ IsHelperState(h)
  /\ engine[h].authority = authority
  /\ is_signer

increment_ok(h, authority, is_signer, amount) ==
  /\ IsHelperState(h)
  /\ engine[h].authority = authority
  /\ is_signer
  /\ AddFits(engine[h].calls, 1)
  /\ AddFits(engine[h].value, amount)

apply_increment(e, h, amount) ==
  [e EXCEPT ![h].calls = @ + 1, ![h].value = @ + amount]

HelperReturn == EngineReceipt(HelperProgram, FALSE, None, 0, 0)

(***************************************************************************)
(* The engine's configuration.                                             *)
(***************************************************************************)
EngineModes ==
  {"ACCEPT", "MISSING_RECEIPT", "WRONG_REQUEST_HASH", "MALFORMED_RECEIPT", "ZERO_OUTPUT",
   "OVERSIZED_OUTPUT", "HOSTILE_READONLY_ESCALATION", "WRONG_RECEIPT_MAGIC",
   "WRONG_RECEIPT_VERSION", "TRAILING_RECEIPT_BYTE"}

IsGeneratedState(k) ==
  /\ k \in EngineStates \ Markers
  /\ StateOwner[k] = GeneratedPlanEngine
  /\ engine[k] # None

NewEngineState(authority, m, revision, lp_fee_bps) ==
  [authority |-> authority, market |-> m, revision |-> revision, lp_fee_bps |-> lp_fee_bps,
   sequence |-> 0, last_request_hash |-> None, last_amount_out |-> 0, mode |-> "ACCEPT"]

engine_initialize ==
  /\ RunInstruction("open")
  /\ \E f \in CallFrames : ensure_no_remaining_accounts(f)
  /\ \E es \in EngineStates \ Markers, authority \in signers, m \in Markets,
        revision \in Revisions, lp_fee_bps \in LpFees :
       /\ StateOwner[es] = GeneratedPlanEngine
       /\ engine[es] = None
       /\ revision # 0
       /\ lp_fee_bps < BasisPoints
       /\ engine' = [engine EXCEPT
            ![es] = NewEngineState(authority, m, revision, lp_fee_bps),
            ![CapabilityAuthority(es)] = [engine_state |-> es]]
  /\ UNCHANGED <<token, market, domain, fee_ledger, donated, settled>>

set_mode ==
  /\ RunInstruction("open")
  /\ \E f \in CallFrames : ensure_no_remaining_accounts(f)
  /\ \E es \in EngineStates, mode \in ModesUsed :
       /\ IsGeneratedState(es)
       /\ engine[es].authority \in signers
       /\ mode \in EngineModes
       /\ engine' = [engine EXCEPT ![es].mode = mode]
  /\ UNCHANGED <<token, market, domain, fee_ledger, donated, settled>>

(***************************************************************************)
(* evaluate.  A call has the depth it runs at, the transaction's current   *)
(* top-level instruction as the sysvar shows it, the accounts passed after *)
(* the engine's own and the sysvar, and the request.                       *)
(***************************************************************************)
TopLevelInstructions == {"core_execute", "other"}

EngineCall(stack_height, top_level, engine_state, opaque_descriptors, request) ==
  [stack_height |-> stack_height, top_level |-> top_level, engine_state |-> engine_state,
   accounts |-> Observed(opaque_descriptors), request |-> request]

\* The capability closure: the engine's own account, the sysvar, the opaque accounts.
capability_descriptors(engine_state, opaque_descriptors) ==
  <<Descriptor(engine_state, OwnerOf(engine_state), TRUE),
    Descriptor(InstructionsSysvar, None, FALSE)>> \o opaque_descriptors

\* Faulty variant of require_direct_core_cpi: any depth below Core's instruction.
any_depth_below_core(call) == call.top_level = "core_execute"

\* Faulty variant of require_direct_core_cpi: the depth alone, whoever calls.
any_caller_at_depth(call) == call.stack_height = 2

require_direct_core_cpi(call) ==
  /\ call.stack_height = 2
  /\ call.top_level = "core_execute"

\* The helper is called when the payload has its tag (a payload 0 stands for
\* every tagged command that the engine refuses).
CallsHelper(call) == call.request.payload # None

helper_call_ok(call) ==
  LET authority == call.accounts[3].key
  IN
  /\ Len(call.accounts) \in 3 .. MaxOpaqueAccounts
  /\ call.accounts[1].key = HelperProgram
  /\ ~call.accounts[1].is_writable
  /\ call.accounts[2].is_writable
  /\ ~call.accounts[2].is_executable
  /\ call.accounts[2].owner = HelperProgram
  /\ ~call.accounts[3].is_writable
  /\ ~call.accounts[3].is_executable
  /\ call.accounts[3].owner = GeneratedPlanEngine
  /\ authority = CapabilityAuthority(call.engine_state)
  /\ engine[authority].engine_state = call.engine_state
  /\ call.request.payload > 0
  /\ increment_ok(call.accounts[2].key, authority, TRUE, call.request.payload)

EvaluateSucceeds(call) ==
  LET r == call.request
      state == engine[call.engine_state]
  IN
  /\ require_direct_core_cpi(call)
  /\ validate_engine_request(r)
  /\ Len(call.accounts) = r.opaque_account_count
  /\ IsGeneratedState(call.engine_state)
  /\ state.market = r.market
  /\ state.revision = r.engine_revision
  /\ r.capability_hash = compute_capability_hash(GeneratedPlanEngine,
                           capability_descriptors(call.engine_state, call.accounts))
  /\ quote_exact_in_ok(r.accounted_input_before, r.accounted_output_before, r.amount_in,
                       state.lp_fee_bps)
  /\ CallsHelper(call) => helper_call_ok(call)
  /\ AddFits(state.sequence, 1)
  /\ state.mode # "HOSTILE_READONLY_ESCALATION"   \* the runtime refuses its own CPI

\* The output the mode makes of the quote.
EvaluateAmountOut(call) ==
  LET r == call.request
      state == engine[call.engine_state]
  IN  CASE state.mode = "ZERO_OUTPUT" -> 0
        [] state.mode = "OVERSIZED_OUTPUT" -> U64Max
        [] OTHER -> quote_amount_out(r.accounted_input_before, r.accounted_output_before,
                                     r.amount_in, state.lp_fee_bps)

\* The engine-owned accounts after the call.
EvaluatedEngine(call) ==
  LET helped == IF CallsHelper(call)
                THEN apply_increment(engine, call.accounts[2].key, call.request.payload)
                ELSE engine
      es == call.engine_state
  IN  [helped EXCEPT ![es].sequence = @ + 1,
                     ![es].last_request_hash = call.request.request_hash,
                     ![es].last_amount_out = EvaluateAmountOut(call)]

\* What each mode leaves as return data, after the helper's.
EvaluateReturn(call) ==
  LET state == engine[call.engine_state]
      good == EngineReceipt(GeneratedPlanEngine, TRUE, call.request.request_hash,
                            EvaluateAmountOut(call), state.sequence + 1)
  IN  CASE state.mode = "MISSING_RECEIPT" -> IF CallsHelper(call) THEN HelperReturn ELSE None
        [] state.mode = "WRONG_REQUEST_HASH" -> [good EXCEPT !.request_hash = OtherHash]
        [] state.mode \in {"MALFORMED_RECEIPT", "WRONG_RECEIPT_MAGIC",
                           "WRONG_RECEIPT_VERSION", "TRAILING_RECEIPT_BYTE"} ->
             [good EXCEPT !.well_formed = FALSE]
        [] OTHER -> good
=============================================================================
