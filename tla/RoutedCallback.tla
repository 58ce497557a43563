--------------------------- MODULE RoutedCallback ---------------------------
(***************************************************************************)
(* The routed experiment's Core (programs/routed-callback-core).  A user   *)
(* approves one intent-bound Core address as the delegate of a token       *)
(* account; later anybody, from any program, has Core execute the intent.  *)
(* Core asks the engine for the output, signing the call with an authority *)
(* of this intent and phase, settles with the delegate's allowance and, in *)
(* the two-phase mode, has the engine commit the settlement.               *)
(*                                                                         *)
(* execute_callback_authenticated_probe_v0 is split where it calls another *)
(* program: validation, the engine's first phase ("primary"), its receipt  *)
(* ("receipt"), three token transfers ("input", "fee", "output"), the      *)
(* balance checks ("settle"), the engine's COMMIT ("commit"), its receipt  *)
(* ("commit_receipt") and the accounting ("finalize").                     *)
(***************************************************************************)
EXTENDS RoutedEngine

CONSTANTS
  Intents,            \* the intents users may authorize
  RouteArgs,          \* arguments of execute_callback_authenticated_probe_v0
  ForeignAmounts,     \* outputs such an engine may claim
  ForgedAmount,       \* the reserves and input of a request Core did not build
  Opaque              \* the state of an engine of unknown code

VARIABLES
  ix,                 \* the execution in flight, as Core's handler holds it
  ret                 \* the runtime's return data

vars == <<ledgerVars, ix, ret>>

ExecuteArgsType ==
  [amount_in : U64, max_total_input_debit : U64, min_output_credit : U64,
   max_protocol_fee : U64, expires_at_slot : U64, authorization_nonce : Nonces,
   expected_engine_sequence : U64, timing_mode : TimingModes, opaque_payload : Payloads]

SpendAuthorities ==
  {canonical_spend_authority(i.user_input, compute_intent_digest(i)) : i \in Intents}

\* What an intent binds, and the addresses Core derives from one.
Descriptors ==
  [key : AccountKeys, owner : Programs \cup {None}, is_writable : BOOLEAN,
   is_executable : BOOLEAN]
CapabilityHashes == [capabilities : Programs \X Seq(Descriptors)]

IntentBindings ==
  [timing_mode : TimingModes, market : Markets, engine_program : Programs,
   engine_state : EngineStates, engine_revision : Revisions,
   user_authority : Users \cup Domains \cup FeeLedgers, user_input : TokenAccounts,
   user_output : TokenAccounts, mint_in : Mints, mint_out : Mints, amount_in : U64,
   protocol_fee : U64, max_total_input_debit : U64, min_output_credit : U64,
   max_protocol_fee : U64, expires_at_slot : U64, authorization_nonce : Nonces,
   authorized_capability_hash : CapabilityHashes, payload : Payloads]
IntentDigests == [intent : IntentBindings]

SpendKeys == {"spend:v0"} \X TokenAccounts \X IntentDigests
CallbackKeys ==
  {"engine-callback:v0"} \X Programs \X EngineStates \X Markets \X Domains
    \X (IntentDigests \cup {OtherHash}) \X EnginePhases

ASSUME RoutedAssumption ==
  /\ RouteArgs \subseteq ExecuteArgsType
  /\ Intents \subseteq {i \in IntentBindings : i.user_input \in UserAccounts}
  /\ SpendAuthorities \cup EnginePdas \subseteq Delegates
  /\ Delegates \cap SpendKeys \subseteq SpendAuthorities
  /\ EnginePdas \cap (Users \cup SpendAuthorities) = {}
  /\ Users \cap CallbackKeys = {}
  /\ None \notin SpendKeys \cup EnginePhases
  /\ \A a \in UserAccounts : InitialAccount[a].delegate \notin SpendAuthorities
  /\ ForeignAmounts \subseteq U64
  /\ ForgedAmount \in U64
  /\ Opaque # None

(***************************************************************************)
(* Authorization, and SPL Token's own approvals.                           *)
(***************************************************************************)
\* Approving a delegate replaces the previous one.
Approved(a, delegate, amount) ==
  [token EXCEPT ![a].delegate = delegate, ![a].delegated_amount = amount]

\* The source must not have a delegate yet; the checks are those of a vault.
validate_user_source_before_authorization(a, expected_mint, expected_authority) ==
  validate_protected_token_account(a, expected_mint, expected_authority)

\* History: the intent an account's owner has approved and nobody has executed yet.
Pending(a, intent) == [settled EXCEPT !.pending[a] = intent]

authorize_spend_v0 ==
  /\ RunInstruction("open")
  /\ \E f \in CallFrames : /\ top_level_only(f)
                           /\ ensure_no_remaining_accounts(f)
                           /\ no_unexpected_writable(f)
  /\ \E intent \in Intents, user \in signers, source \in UserAccounts :
       LET exact_total_debit == intent.amount_in + intent.protocol_fee
           spend == canonical_spend_authority(source, compute_intent_digest(intent))
       IN
       /\ intent.amount_in > 0
       /\ intent.protocol_fee <= intent.max_protocol_fee
       /\ AddFits(intent.amount_in, intent.protocol_fee)
       /\ exact_total_debit <= intent.max_total_input_debit
       /\ slot <= intent.expires_at_slot
       /\ intent.user_authority = user
       /\ intent.user_input = source
       /\ ensure_distinct_roles(<<user, source, intent.mint_in, spend, CoreProgram>>)
       /\ validate_classic_mint(intent.mint_in)
       /\ validate_user_source_before_authorization(source, intent.mint_in, user)
       /\ token[source].amount >= exact_total_debit
       /\ token' = Approved(source, spend, exact_total_debit)
       /\ settled' = Pending(source, intent)
  /\ UNCHANGED <<market, domain, fee_ledger, engine, donated>>

\* The owner approves any delegate, a spend authority included, or revokes.
SplApprove ==
  /\ RunInstruction("open")
  /\ \E a \in UserAccounts, delegate \in Delegates, amount \in TokenAmounts :
       /\ token[a].owner \in signers
       /\ token[a].state = "Initialized"
       /\ token' = Approved(a, delegate, amount)
       /\ \/ \E i \in Intents :
               /\ delegate = canonical_spend_authority(a, compute_intent_digest(i))
               /\ settled' = Pending(a, i)
          \/ /\ \A i \in Intents :
                  delegate # canonical_spend_authority(a, compute_intent_digest(i))
             /\ settled' = Pending(a, None)
  /\ UNCHANGED <<market, domain, fee_ledger, engine, donated>>

SplRevoke ==
  /\ RunInstruction("open")
  /\ \E a \in UserAccounts :
       /\ token[a].owner \in signers
       /\ token[a].delegate # None
       /\ token' = Approved(a, None, 0)
       /\ settled' = Pending(a, None)
  /\ UNCHANGED <<market, domain, fee_ledger, engine, donated>>

(***************************************************************************)
(* execute_callback_authenticated_probe_v0: validation.                    *)
(***************************************************************************)
primary_phase(timing_mode) ==
  IF timing_mode = TIMING_SINGLE THEN PHASE_TRANSITION ELSE PHASE_PREPARE

validate_delegated_spend_source(a, expected_mint, expected_spend_authority, exact_total_debit) ==
  /\ validate_common_token_account(a, expected_mint)
  /\ token[a].delegate = expected_spend_authority
  /\ token[a].delegated_amount = exact_total_debit
  /\ token[a].close_authority = None

\* Lines 166-216: the user's limits, against the fee and the accounted liquidity.
arguments_within_limits(args, m, d, source) ==
  LET fee == fee_ceil(args.amount_in, market[m].fee_bps)
  IN
  /\ args.amount_in > 0
  /\ slot <= args.expires_at_slot
  /\ fee_ceil_ok(args.amount_in, market[m].fee_bps)
  /\ fee <= args.max_protocol_fee
  /\ AddFits(args.amount_in, fee)
  /\ args.amount_in + fee <= args.max_total_input_debit
  /\ token[source].amount >= args.amount_in + fee
  /\ domain[d].accounted_b >= args.min_output_credit

\* The handler's values once it has validated; output and post-settlement
\* accounting come with the receipt.
Planned(m, d, l, va, vb, fv, source, destination, args, closure) ==
  LET es == market[m].engine_state
      fee == fee_ceil(args.amount_in, market[m].fee_bps)
      opaque == OpaqueDescriptors(closure)
      authorized_hash == compute_capability_hash(market[m].engine_program,
                           capability_descriptors(es, opaque, TRUE))
  IN
  [market |-> m, domain |-> d, fee_ledger |-> l, vault_a |-> va, vault_b |-> vb,
   fee_vault |-> fv, source |-> source, destination |-> destination,
   engine_program |-> market[m].engine_program, engine_state |-> es, args |-> args,
   opaque |-> opaque, authorized_capability_hash |-> authorized_hash,
   protocol_fee |-> fee, total_input_debit |-> args.amount_in + fee,
   intent_digest |-> compute_intent_digest(
     IntentBinding(args.timing_mode, m, market[m], token[source].owner, source, destination,
                   args, fee, authorized_hash, args.opaque_payload)),
   accounted_a |-> domain[d].accounted_a, accounted_b |-> domain[d].accounted_b,
   accounted_fee_a |-> fee_ledger[l].accounted_fee_a,
   source_before |-> token[source].amount, destination_before |-> token[destination].amount,
   vault_a_before |-> token[va].amount, vault_b_before |-> token[vb].amount,
   fee_vault_before |-> token[fv].amount,
   amount_out |-> 0, primary_sequence |-> 0, primary_receipt |-> None, settlement |-> None]

spend_authority(x) == canonical_spend_authority(x.source, x.intent_digest)
callback_of(x, p) ==
  canonical_callback(x.engine_program, x.engine_state, x.market, x.domain, x.intent_digest, p)

FixedEnvelopeKeys(x) ==
  <<x.market, x.domain, x.fee_ledger, market[x.market].mint_a, market[x.market].mint_b,
    x.source, x.destination, x.vault_a, x.vault_b, x.fee_vault, x.engine_program,
    x.engine_state, spend_authority(x), callback_of(x, primary_phase(x.args.timing_mode)),
    callback_of(x, PHASE_COMMIT), TokenProgram, CoreProgram>>

\* What a phase of the engine is called with.
phase_descriptors(x, p) == capability_descriptors(x.engine_state, x.opaque, p # PHASE_PREPARE)

build_engine_request(x, p, phase_context_digest, pre_sequence) ==
  [phase |-> p, intent_digest |-> x.intent_digest,
   phase_context_digest |-> phase_context_digest, market |-> x.market, domain |-> x.domain,
   engine_revision |-> market[x.market].engine_revision, amount_in |-> x.args.amount_in,
   protocol_fee |-> x.protocol_fee, accounted_input_before |-> x.accounted_a,
   accounted_output_before |-> x.accounted_b, accounted_fee_before |-> x.accounted_fee_a,
   pre_sequence |-> pre_sequence,
   authorized_capability_hash |-> x.authorized_capability_hash,
   phase_capability_hash |-> compute_capability_hash(x.engine_program, phase_descriptors(x, p)),
   opaque_account_count |-> Len(x.opaque), payload |-> x.args.opaque_payload]

primary_request(x) ==
  build_engine_request(x, primary_phase(x.args.timing_mode), None,
                       x.args.expected_engine_sequence)

\* Faulty variant of commit_request: the reserves after the settlement.
commit_request_after_settlement(x) ==
  [build_engine_request(x, PHASE_COMMIT, x.settlement, x.primary_sequence)
     EXCEPT !.accounted_input_before = x.accounted_a + x.args.amount_in,
            !.accounted_output_before = x.accounted_b - x.amount_out]

commit_request(x) == build_engine_request(x, PHASE_COMMIT, x.settlement, x.primary_sequence)

request_in_flight ==
  IF phase \in {"primary", "receipt"} THEN primary_request(ix) ELSE commit_request(ix)

\* Nobody has to sign, and any program may be the caller.  (The caller also
\* names the capability hash it expects; any other is refused.)
execute_callback_authenticated_probe_v0 ==
  /\ RunInstruction("primary")
  /\ \E f \in CallFrames : no_unexpected_writable(f)
  /\ \E m \in Markets, d \in Domains, l \in FeeLedgers :
     /\ validate_execution_envelope(m, d, l)
     /\ \E va \in TokenAccounts :
          vault_is(va, canonical_domain_vault(d, ASSET_A_INDEX_V0), market[m].mint_a, d,
                   domain[d].accounted_a) /\
        \E vb \in TokenAccounts :
          vault_is(vb, canonical_domain_vault(d, ASSET_B_INDEX_V0), market[m].mint_b, d,
                   domain[d].accounted_b) /\
        \E fv \in TokenAccounts :
          vault_is(fv, canonical_fee_vault(l), market[m].mint_a, l,
                   fee_ledger[l].accounted_fee_a) /\
        \E source \in TokenAccounts :
          validate_common_token_account(source, market[m].mint_a) /\
        \E destination \in TokenAccounts :
          validate_credit_destination(destination, market[m].mint_b) /\
        \E args \in RouteArgs, closure \in Closures :
          /\ arguments_within_limits(args, m, d, source)
          /\ LET x == Planned(m, d, l, va, vb, fv, source, destination, args, closure)
             IN
             /\ validate_delegated_spend_source(source, market[m].mint_a,
                                                spend_authority(x), x.total_input_debit)
             /\ ensure_distinct_roles(FixedEnvelopeKeys(x))
             /\ validate_opaque_capabilities(closure, FixedEnvelopeKeys(x))
             /\ ix' = x
  /\ ret' = None                          \* the runtime clears it at every CPI
  /\ UNCHANGED chain

(***************************************************************************)
(* The engine runs.                                                        *)
(***************************************************************************)
\* invoke_engine_phase: Core signs for the callback authority of this phase.
CoreCall ==
  LET b == request_in_flight
  IN  EngineCall(ix.engine_state, Callback(callback_of(ix, b.phase), TRUE),
                 phase_descriptors(ix, b.phase), b)

\* A request that passes every check of the engine but the authentication.
ForgedCall(es, callback, p) ==
  LET descriptors == <<Descriptor(es, RoutedPlanEngine, p # PHASE_PREPARE)>>
  IN  EngineCall(es, callback, descriptors,
        [phase |-> p, intent_digest |-> OtherHash,
         phase_context_digest |-> IF p = PHASE_COMMIT THEN OtherHash ELSE None,
         market |-> engine[es].market, domain |-> DomainPda(engine[es].market),
         engine_revision |-> engine[es].revision, amount_in |-> ForgedAmount,
         protocol_fee |-> 0, accounted_input_before |-> ForgedAmount,
         accounted_output_before |-> ForgedAmount, accounted_fee_before |-> 0,
         pre_sequence |-> engine[es].sequence, authorized_capability_hash |-> OtherHash,
         phase_capability_hash |-> compute_capability_hash(RoutedPlanEngine, descriptors),
         opaque_account_count |-> 0, payload |-> None])

\* The callbacks a router or a client can present: an authority it forwards, which
\* did not sign, or a wallet that did.
OutsideCallbacks(es) ==
  {Callback(canonical_callback(RoutedPlanEngine, es, engine[es].market,
                               DomainPda(engine[es].market), OtherHash, p), FALSE) :
     p \in EnginePhases}
  \cup {Callback(wallet, TRUE) : wallet \in signers}

RoutedStates == {es \in EngineStates : IsRoutedState(es)}

EvaluateCalls ==
  IF phase \in {"primary", "commit"} THEN {CoreCall}
  ELSE IF phase = "open"
       THEN UNION {{ForgedCall(es, callback, p) : callback \in OutsideCallbacks(es),
                                                  p \in EnginePhases} : es \in RoutedStates}
       ELSE {}

AfterEngine == CASE phase = "primary" -> "receipt"
                 [] phase = "commit" -> "commit_receipt"
                 [] OTHER -> phase

\* transition, prepare and commit of the routed plan engine.
evaluate_phase ==
  /\ \E call \in EvaluateCalls :
       /\ EvaluateSucceeds(call)
       /\ engine' = EvaluatedEngine(call)
       /\ ret' = EvaluateReturn(call)
  /\ phase' = AfterEngine
  /\ UNCHANGED <<token, market, domain, fee_ledger, donated, settled, slot, signers, used,
                 saved, ix>>

\* increment, called with a callback that Core did not sign for.  (The probe's
\* increment_and_fail always ends in an abort.)
increment ==
  /\ RunInstruction("open")
  /\ \E h \in EngineStates, amount \in Payloads \ {None} :
       /\ IsHelperState(h)
       /\ \E callback \in {Callback(engine[h].allowed_callback, FALSE)}
                            \cup {Callback(wallet, TRUE) : wallet \in signers} :
            validate_increment(h, callback, amount)
       /\ increment_fits(h, amount)
       /\ engine' = apply_increment(engine, h, amount)
  /\ ret' = HelperReturn
  /\ UNCHANGED <<token, market, domain, fee_ledger, donated, settled, ix>>

(***************************************************************************)
(* An engine of unknown code: it may answer anything, and use whatever it  *)
(* was handed: move tokens it has power over, call the helper or another   *)
(* engine with its own callback.                                           *)
(***************************************************************************)
AcceptableReceipts(b) ==
  {EngineReceipt(ix.engine_program, TRUE, b.phase, b.intent_digest, compute_execution_digest(b),
                 c[1], c[2]) : c \in ForeignAmounts \X {b.pre_sequence, b.pre_sequence + 1}}

WithOneFault(r) ==
  {[r EXCEPT !.setter = HelperProgram], [r EXCEPT !.well_formed = FALSE],
   [r EXCEPT !.phase = IF @ = PHASE_COMMIT THEN PHASE_PREPARE ELSE PHASE_COMMIT],
   [r EXCEPT !.intent_digest = OtherHash], [r EXCEPT !.execution_digest = OtherHash]}

ForeignReceipts(b) ==
  {None} \cup AcceptableReceipts(b) \cup UNION {WithOneFault(r) : r \in AcceptableReceipts(b)}

HelperCalls(call) ==
  {[NoEffect EXCEPT !.engine = apply_increment(engine, c[1], c[2])] :
     c \in {c \in EngineStates \X (Payloads \ {None}) :
              /\ Handed(call.accounts, HelperProgram) /\ HandedWritable(call.accounts, c[1])
              /\ validate_increment(c[1], call.callback, c[2])
              /\ increment_fits(c[1], c[2])}}

EngineCalls(call) ==
  {[NoEffect EXCEPT !.engine = EvaluatedEngine(forged)] :
     forged \in {forged \in {ForgedCall(es, call.callback, p) :
                               es \in RoutedStates, p \in EnginePhases \ {PHASE_PREPARE}} :
                   /\ Handed(call.accounts, RoutedPlanEngine)
                   /\ HandedWritable(call.accounts, forged.engine_state)
                   /\ EvaluateSucceeds(forged)}}

ForeignEffects(call) ==
  {NoEffect} \cup TokenMoves(call.accounts) \cup HelperCalls(call) \cup EngineCalls(call)

foreign_engine ==
  /\ phase \in {"primary", "commit"}
  /\ ix.engine_program # RoutedPlanEngine
  /\ \E effect \in ForeignEffects(CoreCall) :
       /\ token' = effect.token
       /\ donated' = effect.donated
       /\ engine' = effect.engine
  /\ ret' \in ForeignReceipts(request_in_flight)
  /\ phase' = AfterEngine
  /\ UNCHANGED <<market, domain, fee_ledger, settled, slot, signers, used, saved, ix>>

(***************************************************************************)
(* Receipts and settlement.                                                *)
(***************************************************************************)
validate_receipt_binding(receipt, b) ==
  /\ receipt.phase = b.phase
  /\ receipt.intent_digest = b.intent_digest
  /\ receipt.execution_digest = compute_execution_digest(b)

\* What invoke_engine_phase and the check after it require of the return data.
receipt_accepted(b) ==
  /\ ret # None
  /\ ret.setter = ix.engine_program
  /\ ret.well_formed
  /\ validate_receipt_binding(ret, b)

validate_primary_sequence(p, expected, actual) ==
  IF p = PHASE_PREPARE THEN actual = expected
  ELSE AddFits(expected, 1) /\ actual = expected + 1

validate_amount_out(amount_out, minimum, accounted_liquidity) ==
  /\ amount_out > 0
  /\ amount_out >= minimum
  /\ amount_out <= accounted_liquidity

\* Faulty variant of post_accounted_a: the fee is counted as a reserve.
post_accounted_a_with_fee(x) == x.accounted_a + x.total_input_debit

\* AcceptedSettlement: the accounting to write, from the copies Core deserialized
\* before the engine ran.
post_accounted_a(x) == x.accounted_a + x.args.amount_in
post_accounted_b(x) == x.accounted_b - x.amount_out
post_accounted_fee_a(x) == x.accounted_fee_a + x.protocol_fee

accept_primary ==
  /\ phase = "receipt"
  /\ receipt_accepted(request_in_flight)
  /\ validate_primary_sequence(request_in_flight.phase, ix.args.expected_engine_sequence,
                               ret.state_sequence)
  /\ validate_amount_out(ret.amount_out, ix.args.min_output_credit, ix.accounted_b)
  /\ AddFits(ix.accounted_a, ix.args.amount_in)
  /\ AddFits(ix.accounted_fee_a, ix.protocol_fee)
  /\ ix' = [ix EXCEPT !.amount_out = ret.amount_out,
                      !.primary_sequence = ret.state_sequence,
                      !.primary_receipt = compute_receipt_digest(ret)]
  /\ phase' = "input"
  /\ UNCHANGED <<chain, slot, signers, used, saved, ret>>

\* One transfer_checked CPI of settle_authenticated_intent.
Settle(from, to, mint, amount, authority) ==
  /\ CanTransfer(token, from, to, mint, amount, authority)
  /\ token' = Transferred(token, from, to, amount, authority)
  /\ UNCHANGED <<market, domain, fee_ledger, engine, settled, slot, signers, used, saved,
                 ix, ret>>

transfer_input ==
  /\ phase = "input"
  /\ phase' = "fee"
  /\ Settle(ix.source, ix.vault_a, market[ix.market].mint_a, ix.args.amount_in,
            spend_authority(ix))
  /\ UNCHANGED donated

transfer_fee ==
  /\ phase = "fee"
  /\ phase' = "output"
  /\ Settle(ix.source, ix.fee_vault, market[ix.market].mint_a, ix.protocol_fee,
            spend_authority(ix))
  /\ UNCHANGED donated

transfer_output ==
  /\ phase = "output"
  /\ phase' = "settle"
  /\ Settle(ix.vault_b, ix.destination, market[ix.market].mint_b, ix.amount_out, ix.domain)
  /\ donated' = DonatedBy(ix.destination, ix.amount_out)

\* The balances after reload() against those read before the engine ran, and
\* the allowance used up.
exact_settlement_deltas ==
  /\ exact_debit(ix.source_before, token[ix.source].amount, ix.total_input_debit)
  /\ exact_credit(ix.vault_a_before, token[ix.vault_a].amount, ix.args.amount_in)
  /\ exact_credit(ix.fee_vault_before, token[ix.fee_vault].amount, ix.protocol_fee)
  /\ exact_debit(ix.vault_b_before, token[ix.vault_b].amount, ix.amount_out)
  /\ exact_credit(ix.destination_before, token[ix.destination].amount, ix.amount_out)
  /\ token[ix.source].delegate = None
  /\ token[ix.source].delegated_amount = 0

SettlementBinding ==
  [intent_digest |-> ix.intent_digest,
   primary_execution_digest |-> compute_execution_digest(primary_request(ix)),
   primary_receipt_digest |-> ix.primary_receipt, amount_in |-> ix.args.amount_in,
   amount_out |-> ix.amount_out, protocol_fee |-> ix.protocol_fee,
   total_input_debit |-> ix.total_input_debit,
   accounted_before |-> <<ix.accounted_a, ix.accounted_b, ix.accounted_fee_a>>,
   accounted_after |-> <<post_accounted_a(ix), post_accounted_b(ix), post_accounted_fee_a(ix)>>,
   observed_after |-> <<token[ix.source].amount, token[ix.destination].amount,
                        token[ix.vault_a].amount, token[ix.vault_b].amount,
                        token[ix.fee_vault].amount>>]

settle ==
  /\ phase = "settle"
  /\ exact_settlement_deltas
  /\ ix' = [ix EXCEPT !.settlement = compute_settlement_digest(SettlementBinding)]
  /\ phase' = IF ix.args.timing_mode = TIMING_PREPARE_COMMIT THEN "commit" ELSE "finalize"
  /\ ret' = None
  /\ UNCHANGED <<chain, slot, signers, used, saved>>

accept_commit ==
  /\ phase = "commit_receipt"
  /\ receipt_accepted(request_in_flight)
  /\ ret.amount_out = ix.amount_out
  /\ AddFits(ix.primary_sequence, 1)
  /\ ret.state_sequence = ix.primary_sequence + 1
  /\ phase' = "finalize"
  /\ UNCHANGED <<chain, slot, signers, used, saved, ix, ret>>

\* The mutating request the engine has answered, and the helper it named.
MutatingRequest == IF ix.args.timing_mode = TIMING_SINGLE
                   THEN primary_request(ix) ELSE commit_request(ix)

HelpedBy(h) ==
  /\ ix.engine_program = RoutedPlanEngine
  /\ ix.args.opaque_payload # None
  /\ ix.opaque[2].key = h

finalize ==
  /\ phase = "finalize"
  /\ domain' = [domain EXCEPT ![ix.domain].accounted_a = post_accounted_a(ix),
                              ![ix.domain].accounted_b = post_accounted_b(ix)]
  /\ fee_ledger' = [fee_ledger EXCEPT ![ix.fee_ledger].accounted_fee_a = post_accounted_fee_a(ix)]
  /\ settled' = [settled EXCEPT
       !.engines[ix.engine_state] =
         [count |-> @.count + 1, execution |-> compute_execution_digest(MutatingRequest),
          amount_out |-> ix.amount_out],
       !.helped = [h \in EngineStates |-> @[h] + IF HelpedBy(h) THEN 1 ELSE 0],
       !.pending[ix.source] = None]
  /\ phase' = "open"
  /\ ix' = None
  /\ ret' = None
  /\ UNCHANGED <<token, market, engine, donated, slot, signers, used, saved>>

(***************************************************************************)
(* The specification.                                                      *)
(***************************************************************************)
Settling == {"primary", "receipt", "input", "fee", "output", "settle", "commit",
             "commit_receipt", "finalize"}

NoneSettled ==
  [engines |-> [es \in EngineStates |-> [count |-> 0, execution |-> None, amount_out |-> 0]],
   helped |-> [es \in EngineStates |-> 0],
   pending |-> [a \in TokenAccounts |-> None]]

Init ==
  /\ LedgerInit
  /\ engine = [es \in EngineStates |->
                 IF StateOwner[es] \in {RoutedPlanEngine, HelperProgram} THEN None ELSE Opaque]
  /\ settled = NoneSettled
  /\ ix = None
  /\ ret = None

\* The runtime's own steps and the instructions without an engine.  Initialization
\* and deposit are those of the authority kernel, in a copy of their own.
initialize_market_domain == initialize_market_domain_v0 /\ UNCHANGED <<ix, ret>>
deposit == deposit_v0 /\ UNCHANGED <<ix, ret>>

Frame ==
  \/ \E S \in SUBSET Users \ {{}} : BeginTransaction(S) /\ UNCHANGED <<ix, ret>>
  \/ CommitTransaction /\ UNCHANGED <<ix, ret>>
  \/ AbortTransaction /\ ix' = None /\ ret' = None
  \/ AdvanceSlot /\ UNCHANGED <<ix, ret>>
  \/ SplTransfer /\ UNCHANGED <<ix, ret>>
  \/ SplApprove /\ UNCHANGED <<ix, ret>>
  \/ SplRevoke /\ UNCHANGED <<ix, ret>>

Setup ==
  \/ initialize_market_domain
  \/ deposit
  \/ engine_initialize /\ UNCHANGED <<ix, ret>>
  \/ helper_initialize /\ UNCHANGED <<ix, ret>>
  \/ set_mode /\ UNCHANGED <<ix, ret>>

Execution ==
  \/ execute_callback_authenticated_probe_v0
  \/ evaluate_phase
  \/ foreign_engine
  \/ accept_primary
  \/ transfer_input
  \/ transfer_fee
  \/ transfer_output
  \/ settle
  \/ accept_commit
  \/ finalize

Next ==
  \/ Frame
  \/ Setup
  \/ authorize_spend_v0 /\ UNCHANGED <<ix, ret>>
  \/ increment
  \/ Execution

Spec == Init /\ [][Next]_vars

\* An execution's steps all follow once the runtime has started it; an abort need
\* not come, and nobody has to start one.
Progress == phase \in Settling /\ Execution
FairSpec == Spec /\ WF_vars(Progress)

(***************************************************************************)
(* Properties.                                                             *)
(***************************************************************************)
\* Requests that carry a settlement digest of D, or none.
Requests(D) ==
  [phase : EnginePhases, intent_digest : IntentDigests, phase_context_digest : D \cup {None},
   market : Markets, domain : Domains, engine_revision : Revisions, amount_in : U64,
   protocol_fee : U64, accounted_input_before : U64, accounted_output_before : U64,
   accounted_fee_before : U64, pre_sequence : U64,
   authorized_capability_hash : CapabilityHashes, phase_capability_hash : CapabilityHashes,
   opaque_account_count : Nat, payload : Payloads]

PrimaryExecutions == [execution : Requests({})]

\* The digests of the receipts that Core accepts in the first phase.
PrimaryReceipts ==
  [receipt : [setter : Programs, well_formed : {TRUE}, phase : EnginePhases,
              intent_digest : IntentDigests, execution_digest : PrimaryExecutions,
              amount_out : U64, state_sequence : U64]]

Settlements ==
  [settlement : [intent_digest : IntentDigests, primary_execution_digest : PrimaryExecutions,
                 primary_receipt_digest : PrimaryReceipts, amount_in : U64, amount_out : U64,
                 protocol_fee : U64, total_input_debit : U64,
                 accounted_before : U64 \X U64 \X U64, accounted_after : U64 \X U64 \X U64,
                 observed_after : U64 \X U64 \X U64 \X U64 \X U64]]

ExecutionDigests == [execution : Requests(Settlements)]

PlanState ==
  [authority : Users, market : Markets, revision : Revisions,
   lp_fee_bps : 0 .. (BasisPoints - 1), timing_mode : TimingModes, sequence : U64,
   last_intent_digest : IntentDigests \cup {None},
   last_phase_context_digest : Settlements \cup {None},
   last_execution_digest : ExecutionDigests \cup {None}, last_amount_out : U64,
   last_phase : {PHASE_TRANSITION, PHASE_COMMIT, None}, mode : EngineModes]
HelperState == [allowed_callback : AllowedCallbacks, calls : U64, value : U64]

PlanStates == {es \in EngineStates : StateOwner[es] = RoutedPlanEngine}
HelperStates == {es \in EngineStates : StateOwner[es] = HelperProgram}

\* Only COMMIT leaves a settlement digest behind.
EngineMaps ==
  {e \in [EngineStates -> PlanState \cup HelperState \cup {None, Opaque}] :
     /\ \A es \in PlanStates :
          \/ e[es] = None
          \/ /\ e[es] \in PlanState
             /\ (e[es].last_phase_context_digest # None) <=> (e[es].last_phase = PHASE_COMMIT)
     /\ \A es \in HelperStates : e[es] \in HelperState \cup {None}}

SettledStates ==
  [engines : [EngineStates -> [count : Nat, execution : ExecutionDigests \cup {None},
                               amount_out : U64]],
   helped : [EngineStates -> Nat],
   pending : [TokenAccounts -> Intents \cup {None}]]

Chains ==
  [token : TokenStates, market : MarketStates, domain : DomainStates,
   fee_ledger : FeeLedgerStates, engine : EngineMaps, donated : DonatedStates,
   settled : SettledStates]

Executions ==
  [market : Markets, domain : Domains, fee_ledger : FeeLedgers, vault_a : TokenAccounts,
   vault_b : TokenAccounts, fee_vault : TokenAccounts, source : TokenAccounts,
   destination : TokenAccounts, engine_program : Programs, engine_state : EngineStates,
   args : RouteArgs, opaque : Seq(Descriptors), authorized_capability_hash : CapabilityHashes,
   protocol_fee : U64, total_input_debit : U64, intent_digest : IntentDigests,
   accounted_a : U64, accounted_b : U64, accounted_fee_a : U64, source_before : U64,
   destination_before : U64, vault_a_before : U64, vault_b_before : U64,
   fee_vault_before : U64, amount_out : U64, primary_sequence : U64,
   primary_receipt : PrimaryReceipts \cup {None}, settlement : Settlements \cup {None}]

\* An engine's account that exists, an intent, an execution, a settlement's digest and a
\* snapshot are not absent ones.
ASSUME PresenceAssumption ==
  None \notin PlanState \cup HelperState \cup Executions \cup Settlements \cup Chains \cup Intents

\* The type invariant: every account holds a value of its kind (a counter or a balance
\* never leaves its word), what a rollback would restore too, and an execution is in
\* flight in its phases only.
RoutedTypeOK ==
  /\ Snapshot \in Chains
  /\ slot \in 0 .. MaxSlot
  /\ phase \in Settling \cup {"idle", "open"}
  /\ signers \subseteq Users
  /\ used \in 0 .. MaxInstructions
  /\ IF phase = "idle" THEN saved = None ELSE saved \in Chains
  /\ IF phase \in Settling THEN ix \in Executions ELSE ix = None

\* When an execution completes, whoever routed it and whatever accounts and
\* arguments it named, it is the intent that the owner of the source approved last
\* and that was not executed before: that intent's market and destination, its
\* exact debit, at least its minimum output, the least fee and within its maximum,
\* not after its expiry, measured from the balances before the engine ran.
IntentHonoured ==
  [][phase = "finalize" /\ Forward =>
       LET intent == settled.pending[ix.source]
           fee == token[ix.fee_vault].amount - ix.fee_vault_before
       IN  /\ intent # None
           /\ intent.market = ix.market
           /\ intent.user_authority = token[ix.source].owner
           /\ intent.user_output = ix.destination
           /\ ix.source_before - token[ix.source].amount = intent.amount_in + intent.protocol_fee
           /\ intent.amount_in + intent.protocol_fee <= intent.max_total_input_debit
           /\ token[ix.destination].amount - ix.destination_before >= intent.min_output_credit
           /\ IsLeastFee(fee, intent.amount_in, ProtocolFeeBps)
           /\ fee <= intent.max_protocol_fee
           /\ slot <= intent.expires_at_slot
           /\ token[ix.source].delegate = None]_vars

\* Between instructions, a state of the routed engine has advanced once for every
\* execution Core settled with it, and remembers the request and the output of the
\* last: PREPARE, a refused receipt, a failed COMMIT and calls that Core did not
\* sign leave no trace.
RoutedLockstep ==
  phase \in {"idle", "open"} =>
    \A es \in RoutedStates :
      /\ engine[es].sequence = settled.engines[es].count
      /\ engine[es].last_execution_digest = settled.engines[es].execution
      /\ engine[es].last_amount_out = settled.engines[es].amount_out

\* The helper h trusts a callback authority of the routed engine.
ServesRoutedEngine(h) ==
  /\ IsHelperState(h)
  /\ engine[h].allowed_callback \notin Users
  /\ engine[h].allowed_callback[2] = RoutedPlanEngine

\* A helper created for a callback authority of the routed engine has counted one
\* call for every settled execution that named it: neither a router that forwards
\* the authority, nor another engine with an authority of its own, can call it.
HelperLockstep ==
  phase \in {"idle", "open"} =>
    \A h \in EngineStates : ServesRoutedEngine(h) => engine[h].calls = settled.helped[h]

\* An execution priced by the routed engine never lowers the product of the
\* market's reserves: quote, transfers and accounting agree on the reserves, the
\* rounding favours the pool and COMMIT cannot change the price.
\* (With a reserve of u64::MAX the test mode that claims u64::MAX empties it.)
ProductNeverDecreases ==
  [][(phase = "finalize" /\ Forward /\ ix.engine_program = RoutedPlanEngine
        /\ ix.accounted_b < U64Max) =>
       domain'[ix.domain].accounted_a * domain'[ix.domain].accounted_b
         >= domain[ix.domain].accounted_a * domain[ix.domain].accounted_b]_vars

\* Whatever an engine was handed and did, the transfers of the settlement leave
\* exactly the balances Core expects from what it read before the engine ran, and
\* the accounts Core wrote back from its copies have not changed under it.
SettlementUndisturbed ==
  /\ phase = "settle" => exact_settlement_deltas
  /\ phase \in Settling =>
       /\ ix.accounted_a = domain[ix.domain].accounted_a
       /\ ix.accounted_b = domain[ix.domain].accounted_b
       /\ ix.accounted_fee_a = fee_ledger[ix.fee_ledger].accounted_fee_a

\* Whatever accounts an instruction names, and whatever closure the engine gets,
\* an execution for one market touches no other, and any other step at most one.
RoutedIsolation ==
  [][Forward => /\ phase \in Settling => \A m \in Markets : Touched(m) => m = ix.market
                /\ \A m1, m2 \in Markets : Touched(m1) /\ Touched(m2) => m1 = m2]_vars

\* The engine of the execution in flight is the routed engine, serves this market
\* at the sequence the caller named and in its timing mode, and will approve.
HonestEngine ==
  LET state == engine[ix.engine_state]
      b == primary_request(ix)
  IN
  /\ IsRoutedState(ix.engine_state)
  /\ state.mode = "ACCEPT"
  /\ state.market = ix.market
  /\ state.revision = market[ix.market].engine_revision
  /\ state.timing_mode = ix.args.timing_mode
  /\ state.sequence = ix.args.expected_engine_sequence
  /\ state.sequence < U64Max
  /\ quote_exact_in_ok(ix.accounted_a, ix.accounted_b, ix.args.amount_in, state.lp_fee_bps)
  /\ quote_amount_out(ix.accounted_a, ix.accounted_b, ix.args.amount_in, state.lp_fee_bps)
       >= ix.args.min_output_credit
  /\ ix.args.opaque_payload = None

\* An execution that an approving engine serves is settled unless the transaction
\* is aborted from outside: in two phases, COMMIT recomputes what PREPARE answered,
\* and no later check of Core's own refuses it.
HonestIntentSettles == (phase = "primary" /\ HonestEngine) ~> (phase \in {"open", "idle"})
=============================================================================
