------------------------ MODULE GeneratedSettlement -------------------------
(***************************************************************************)
(* The Core of experiments/engine-generated-settlement.  The user signs an *)
(* input and the limits of the exchange; the market's engine, called with  *)
(* whatever accounts and payload the caller chose, decides the output;     *)
(* Core checks the answer and settles.                                     *)
(*                                                                         *)
(* execute_engine_generated_probe_v0 is split where it calls another       *)
(* program: validation, the engine ("engine"), its receipt ("receipt"),    *)
(* three token transfers ("input", "fee", "output"), and the balance       *)
(* checks with the accounting ("finalize").  The runtime lets no program   *)
(* call back into Core meanwhile.                                          *)
(***************************************************************************)
EXTENDS GeneratedEngine

CONSTANTS
  ExecuteArgs,        \* arguments of execute_engine_generated_probe_v0
  ForeignAmounts,     \* outputs an engine of unknown code may claim
  ForgedAmount,       \* the reserves and input of a request Core did not build
  Opaque              \* the state of an engine of unknown code

VARIABLES
  ix,                 \* the execution in flight, as Core's handler holds it
  ret                 \* the runtime's return data

vars == <<ledgerVars, ix, ret>>

ExecuteEngineGeneratedProbeV0Args ==
  [amount_in : U64, max_total_input_debit : U64, min_output_credit : U64,
   max_protocol_fee : U64, expires_at_slot : U64, opaque_payload : Payloads]

ASSUME GeneratedAssumption ==
  /\ ExecuteArgs \subseteq ExecuteEngineGeneratedProbeV0Args
  /\ ForeignAmounts \subseteq U64
  /\ ForgedAmount \in U64
  /\ Opaque # None

(***************************************************************************)
(* execute_engine_generated_probe_v0: validation.                          *)
(***************************************************************************)
\* Before the engine runs: the fee, the user's limits and the accounting that do not
\* depend on the output.
arguments_within_limits(args, m, d, l, source) ==
  LET fee == fee_ceil(args.amount_in, market[m].fee_bps)
  IN
  /\ args.amount_in > 0
  /\ slot <= args.expires_at_slot
  /\ fee_ceil_ok(args.amount_in, market[m].fee_bps)
  /\ fee <= args.max_protocol_fee
  /\ AddFits(args.amount_in, fee)
  /\ args.amount_in + fee <= args.max_total_input_debit
  /\ token[source].amount >= args.amount_in + fee
  /\ domain[d].accounted_b >= args.min_output_credit
  /\ AddFits(domain[d].accounted_a, args.amount_in)
  /\ AddFits(fee_ledger[l].accounted_fee_a, fee)

\* The handler's values once it has validated: the keys, and its copies of the
\* balances and the accounting as the instruction found them.
Planned(user, m, d, l, va, vb, fv, source, destination, args, closure) ==
  [user |-> user, market |-> m, domain |-> d, fee_ledger |-> l, vault_a |-> va,
   vault_b |-> vb, fee_vault |-> fv, source |-> source, destination |-> destination,
   engine_program |-> market[m].engine_program, engine_state |-> market[m].engine_state,
   args |-> args, opaque |-> OpaqueDescriptors(closure), opaque_account_count |-> Len(closure),
   protocol_fee |-> fee_ceil(args.amount_in, market[m].fee_bps),
   accounted_a |-> domain[d].accounted_a, accounted_b |-> domain[d].accounted_b,
   accounted_fee_a |-> fee_ledger[l].accounted_fee_a,
   source_before |-> token[source].amount, destination_before |-> token[destination].amount,
   vault_a_before |-> token[va].amount, vault_b_before |-> token[vb].amount,
   fee_vault_before |-> token[fv].amount, amount_out |-> 0]

total_input_debit(x) == x.args.amount_in + x.protocol_fee

FixedEnvelopeKeys(x) ==
  <<x.user, x.market, x.domain, x.fee_ledger, market[x.market].mint_a,
    market[x.market].mint_b, x.source, x.destination, x.vault_a, x.vault_b, x.fee_vault,
    x.engine_program, x.engine_state, InstructionsSysvar, TokenProgram, CoreProgram>>

capability_hash(x) ==
  compute_capability_hash(x.engine_program, capability_descriptors(x.engine_state, x.opaque))

\* Every field an execution can vary; the program ids, mints and revisions that
\* the wire also carries are functions of the market.
RequestBinding(x) ==
  [market |-> x.market, domain |-> x.domain, engine_program |-> x.engine_program,
   engine_state |-> x.engine_state, user_authority |-> x.user, user_input |-> x.source,
   user_output |-> x.destination, domain_input_vault |-> x.vault_a,
   domain_output_vault |-> x.vault_b, protocol_fee_vault |-> x.fee_vault,
   fee_ledger |-> x.fee_ledger, amount_in |-> x.args.amount_in,
   protocol_fee |-> x.protocol_fee, max_total_input_debit |-> x.args.max_total_input_debit,
   min_output_credit |-> x.args.min_output_credit,
   max_protocol_fee |-> x.args.max_protocol_fee, accounted_input_before |-> x.accounted_a,
   accounted_output_before |-> x.accounted_b, accounted_fee_before |-> x.accounted_fee_a,
   expires_at_slot |-> x.args.expires_at_slot, capability_hash |-> capability_hash(x),
   payload_hash |-> compute_payload_hash(x.args.opaque_payload)]

EngineRequest(x) ==
  [request_hash |-> compute_request_hash(RequestBinding(x)), market |-> x.market,
   domain |-> x.domain, engine_revision |-> market[x.market].engine_revision,
   amount_in |-> x.args.amount_in, accounted_input_before |-> x.accounted_a,
   accounted_output_before |-> x.accounted_b,
   opaque_account_count |-> x.opaque_account_count, capability_hash |-> capability_hash(x),
   payload |-> x.args.opaque_payload]

\* (The caller also names the capability hash it expects; any other is refused.)
execute_engine_generated_probe_v0 ==
  /\ RunInstruction("engine")
  /\ \E f \in CallFrames : top_level_only(f) /\ no_unexpected_writable(f)
  /\ \E m \in Markets, d \in Domains, l \in FeeLedgers :
     /\ validate_execution_envelope(m, d, l)
     /\ \E va \in TokenAccounts :
          vault_is(va, canonical_domain_vault(d, ASSET_A_INDEX_V0), market[m].mint_a, d,
                   domain[d].accounted_a) /\
        \E vb \in TokenAccounts :
          vault_is(vb, canonical_domain_vault(d, ASSET_B_INDEX_V0), market[m].mint_b, d,
                   domain[d].accounted_b) /\
        \E fv \in TokenAccounts :
          vault_is(fv, canonical_fee_vault(l), market[m].mint_a, l,
                   fee_ledger[l].accounted_fee_a) /\
        \E user \in signers, source \in TokenAccounts :
          validate_protected_token_account(source, market[m].mint_a, user) /\
        \E destination \in TokenAccounts :
          validate_credit_destination(destination, market[m].mint_b) /\
        \E args \in ExecuteArgs :
          arguments_within_limits(args, m, d, l, source) /\
        \E closure \in Closures :
          LET x == Planned(user, m, d, l, va, vb, fv, source, destination, args, closure)
          IN
          /\ ensure_distinct_roles(FixedEnvelopeKeys(x))
          /\ validate_opaque_capabilities(closure, FixedEnvelopeKeys(x))
          /\ ix' = x
  /\ ret' = None                          \* the runtime clears it at every CPI
  /\ UNCHANGED chain

(***************************************************************************)
(* The engine runs.                                                        *)
(***************************************************************************)
CoreCall == EngineCall(2, "core_execute", ix.engine_state, ix.opaque, EngineRequest(ix))

\* A request that passes every check of the engine but that of its caller.
ForgedCall(stack_height, top_level, es) ==
  EngineCall(stack_height, top_level, es, <<>>,
    [request_hash |-> OtherHash, market |-> engine[es].market,
     domain |-> DomainPda(engine[es].market), engine_revision |-> engine[es].revision,
     amount_in |-> ForgedAmount, accounted_input_before |-> ForgedAmount,
     accounted_output_before |-> ForgedAmount, opaque_account_count |-> 0,
     capability_hash |-> compute_capability_hash(GeneratedPlanEngine,
                           capability_descriptors(es, <<>>)),
     payload |-> None])

GeneratedStates == {es \in EngineStates : IsGeneratedState(es)}

\* Core's call; otherwise a client's own (at depth 1) or a router's (at depth 2).
EvaluateCalls ==
  IF phase = "engine" THEN {CoreCall}
  ELSE IF phase = "open"
       THEN {ForgedCall(h, "other", es) : h \in 1 .. 2, es \in GeneratedStates}
       ELSE {}

AfterEngine == IF phase = "engine" THEN "receipt" ELSE phase

evaluate ==
  /\ \E call \in EvaluateCalls :
       /\ phase = "engine" => ix.engine_program = GeneratedPlanEngine
       /\ EvaluateSucceeds(call)
       /\ engine' = EvaluatedEngine(call)
       /\ ret' = EvaluateReturn(call)
  /\ phase' = AfterEngine
  /\ UNCHANGED <<token, market, domain, fee_ledger, donated, settled, slot, signers, used,
                 saved, ix>>

\* increment, called by a wallet, or with an authority that did not sign.
increment ==
  /\ RunInstruction("open")
  /\ \E f \in CallFrames : ensure_no_remaining_accounts(f)
  /\ \E h \in EngineStates, amount \in Payloads \ {None}, authority \in HelperAuthorities :
       /\ increment_ok(h, authority, authority \in signers, amount)
       /\ engine' = apply_increment(engine, h, amount)
  /\ ret' = HelperReturn
  /\ UNCHANGED <<token, market, domain, fee_ledger, donated, settled, ix>>

(***************************************************************************)
(* An engine of unknown code: it may do any number of things with what it  *)
(* was handed, and then answer anything.                                   *)
(***************************************************************************)
\* Call the helper, signing for an address of its own.
HelperCalls(accounts) ==
  {[NoEffect EXCEPT !.engine = apply_increment(engine, c.helper, c.amount)] :
     c \in {c \in [helper : EngineStates, amount : Payloads \ {None}, authority : EnginePdas] :
              /\ Handed(accounts, HelperProgram)
              /\ HandedWritable(accounts, c.helper)
              /\ increment_ok(c.helper, c.authority, TRUE, c.amount)}}

\* Call the generated plan engine while Core's instruction is the one at top level.
EngineCalls(accounts) ==
  {[NoEffect EXCEPT !.engine = EvaluatedEngine(forged)] :
     forged \in {forged \in {ForgedCall(3, "core_execute", es) : es \in GeneratedStates} :
                   /\ Handed(accounts, GeneratedPlanEngine)
                   /\ HandedWritable(accounts, forged.engine_state)
                   /\ EvaluateSucceeds(forged)}}

ForeignTurn == phase = "engine" /\ ix.engine_program # GeneratedPlanEngine

foreign_act ==
  /\ ForeignTurn
  /\ \E effect \in TokenMoves(CoreCall.accounts) \cup HelperCalls(CoreCall.accounts)
                     \cup EngineCalls(CoreCall.accounts) :
       /\ token' = effect.token
       /\ donated' = effect.donated
       /\ engine' = effect.engine
  /\ UNCHANGED <<market, domain, fee_ledger, settled, slot, phase, signers, used, saved,
                 ix, ret>>

ForeignReceipts ==
  LET hash == EngineRequest(ix).request_hash
      good == {EngineReceipt(ix.engine_program, TRUE, hash, amount, 0) :
                 amount \in ForeignAmounts}
  IN  {None} \cup good \cup UNION {
        {[r EXCEPT !.setter = HelperProgram], [r EXCEPT !.well_formed = FALSE],
         [r EXCEPT !.request_hash = OtherHash]} : r \in good}

foreign_return ==
  /\ ForeignTurn
  /\ ret' \in ForeignReceipts
  /\ phase' = "receipt"
  /\ UNCHANGED <<chain, slot, signers, used, saved, ix>>

(***************************************************************************)
(* The receipt and the settlement.                                         *)
(***************************************************************************)
\* Faulty variant of validate_amount_out: the liquidity is taken for granted.
amount_out_without_liquidity(amount_out, minimum, accounted_liquidity) ==
  amount_out > 0 /\ amount_out >= minimum

\* Faulty variant of validate_amount_out: the minimum was compared with the
\* liquidity before the engine ran.
amount_out_within_liquidity(amount_out, minimum, accounted_liquidity) ==
  amount_out > 0 /\ amount_out <= accounted_liquidity

validate_amount_out(amount_out, minimum, accounted_liquidity) ==
  /\ amount_out > 0
  /\ amount_out >= minimum
  /\ amount_out <= accounted_liquidity

\* (The receipt's state_sequence goes into an event and is checked by nobody.)
accept_receipt ==
  /\ phase = "receipt"
  /\ ret # None
  /\ ret.setter = ix.engine_program
  /\ ret.well_formed
  /\ ret.request_hash = EngineRequest(ix).request_hash
  /\ validate_amount_out(ret.amount_out, ix.args.min_output_credit, ix.accounted_b)
  /\ ix' = [ix EXCEPT !.amount_out = ret.amount_out]
  /\ phase' = "input"
  /\ UNCHANGED <<chain, slot, signers, used, saved, ret>>

\* One transfer_checked CPI of settle_engine_generated_probe.
Settle(from, to, mint, amount, authority) ==
  /\ CanTransfer(token, from, to, mint, amount, authority)
  /\ token' = Transferred(token, from, to, amount, authority)
  /\ UNCHANGED <<market, domain, fee_ledger, engine, settled, slot, signers, used, saved,
                 ix, ret>>

transfer_input ==
  /\ phase = "input"
  /\ phase' = "fee"
  /\ Settle(ix.source, ix.vault_a, market[ix.market].mint_a, ix.args.amount_in, ix.user)
  /\ UNCHANGED donated

transfer_fee ==
  /\ phase = "fee"
  /\ phase' = "output"
  /\ Settle(ix.source, ix.fee_vault, market[ix.market].mint_a, ix.protocol_fee, ix.user)
  /\ UNCHANGED donated

transfer_output ==
  /\ phase = "output"
  /\ phase' = "finalize"
  /\ Settle(ix.vault_b, ix.destination, market[ix.market].mint_b, ix.amount_out, ix.domain)
  /\ donated' = DonatedBy(ix.destination, ix.amount_out)

\* The balances after reload() against the copies from before the engine ran.
exact_settlement_deltas ==
  /\ exact_debit(ix.source_before, token[ix.source].amount, total_input_debit(ix))
  /\ exact_credit(ix.vault_a_before, token[ix.vault_a].amount, ix.args.amount_in)
  /\ exact_credit(ix.fee_vault_before, token[ix.fee_vault].amount, ix.protocol_fee)
  /\ exact_debit(ix.vault_b_before, token[ix.vault_b].amount, ix.amount_out)
  /\ exact_credit(ix.destination_before, token[ix.destination].amount, ix.amount_out)

\* AcceptedEnginePlan: the accounting to write, from the copies of before the engine ran.
post_accounted_a(x) == x.accounted_a + x.args.amount_in

\* Faulty variant of post_accounted_b: the balance stands in for the accounting.
post_accounted_b_from_raw(x) == x.vault_b_before - x.amount_out

post_accounted_b(x) == x.accounted_b - x.amount_out
post_accounted_fee_a(x) == x.accounted_fee_a + x.protocol_fee

\* The helper the generated plan engine called for this execution.
HelpedBy(h) ==
  /\ ix.engine_program = GeneratedPlanEngine
  /\ ix.args.opaque_payload # None
  /\ ix.opaque[2].key = h

finalize ==
  /\ phase = "finalize"
  /\ exact_settlement_deltas
  /\ domain' = [domain EXCEPT ![ix.domain].accounted_a = post_accounted_a(ix),
                              ![ix.domain].accounted_b = post_accounted_b(ix)]
  /\ fee_ledger' = [fee_ledger EXCEPT ![ix.fee_ledger].accounted_fee_a = post_accounted_fee_a(ix)]
  /\ settled' = [settled EXCEPT
       !.engines[ix.engine_state] =
         [count |-> @.count + 1, request |-> compute_request_hash(RequestBinding(ix)),
          amount_out |-> ix.amount_out],
       !.helped = [h \in EngineStates |-> @[h] + IF HelpedBy(h) THEN 1 ELSE 0]]
  /\ phase' = "open"
  /\ ix' = None
  /\ ret' = None
  /\ UNCHANGED <<token, market, engine, donated, slot, signers, used, saved>>

(***************************************************************************)
(* The specification.                                                      *)
(***************************************************************************)
Settling == {"engine", "receipt", "input", "fee", "output", "finalize"}

NoneSettled ==
  [engines |-> [es \in EngineStates |-> [count |-> 0, request |-> None, amount_out |-> 0]],
   helped |-> [es \in EngineStates |-> 0]]

Init ==
  /\ LedgerInit
  /\ engine = [es \in EngineStates |->
                 IF StateOwner[es] \in {GeneratedPlanEngine, HelperProgram} THEN None ELSE Opaque]
  /\ settled = NoneSettled
  /\ ix = None
  /\ ret = None

\* The runtime's own steps and the instructions without an engine.  Initialization
\* and deposit are those of the authority kernel, in a copy of their own.
initialize_market_domain == initialize_market_domain_v0 /\ UNCHANGED <<ix, ret>>
deposit == deposit_v0 /\ UNCHANGED <<ix, ret>>

Frame ==
  \/ \E S \in SUBSET Users \ {{}} : BeginTransaction(S) /\ UNCHANGED <<ix, ret>>
  \/ CommitTransaction /\ UNCHANGED <<ix, ret>>
  \/ AbortTransaction /\ ix' = None /\ ret' = None
  \/ AdvanceSlot /\ UNCHANGED <<ix, ret>>
  \/ SplTransfer /\ UNCHANGED <<ix, ret>>

Setup ==
  \/ initialize_market_domain
  \/ deposit
  \/ engine_initialize /\ UNCHANGED <<ix, ret>>
  \/ helper_initialize /\ UNCHANGED <<ix, ret>>
  \/ set_mode /\ UNCHANGED <<ix, ret>>

Settlement ==
  \/ accept_receipt
  \/ transfer_input
  \/ transfer_fee
  \/ transfer_output
  \/ finalize

Execution ==
  \/ execute_engine_generated_probe_v0
  \/ evaluate
  \/ foreign_act
  \/ foreign_return
  \/ Settlement

Next == Frame \/ Setup \/ increment \/ Execution

Spec == Init /\ [][Next]_vars

\* An execution's steps all follow once the runtime has started it; an abort need
\* not come, and nobody has to start one.  An engine of unknown code may go on as
\* long as it likes.
Progress == phase \in Settling /\ (evaluate \/ Settlement)
FairSpec == Spec /\ WF_vars(Progress)

(***************************************************************************)
(* Properties.                                                             *)
(***************************************************************************)
Descriptors ==
  [key : AccountKeys \cup {InstructionsSysvar}, owner : Programs \cup {None},
   is_writable : BOOLEAN, is_executable : BOOLEAN]

RequestBindings ==
  [market : Markets, domain : Domains, engine_program : Programs,
   engine_state : EngineStates, user_authority : Users, user_input : TokenAccounts,
   user_output : TokenAccounts, domain_input_vault : TokenAccounts,
   domain_output_vault : TokenAccounts, protocol_fee_vault : TokenAccounts,
   fee_ledger : FeeLedgers, amount_in : U64, protocol_fee : U64,
   max_total_input_debit : U64, min_output_credit : U64, max_protocol_fee : U64,
   accounted_input_before : U64, accounted_output_before : U64, accounted_fee_before : U64,
   expires_at_slot : U64, capability_hash : [capabilities : Programs \X Seq(Descriptors)],
   payload_hash : [payload : Payloads]]

Digests == [request : RequestBindings] \cup {OtherHash, None}

PlanState ==
  [authority : Users, market : Markets, revision : Revisions,
   lp_fee_bps : 0 .. (BasisPoints - 1), sequence : U64, last_request_hash : Digests,
   last_amount_out : U64, mode : EngineModes]
HelperState == [authority : HelperAuthorities, calls : U64, value : U64]
MarkerState == [engine_state : EngineStates]

PlanStates == {es \in EngineStates \ Markers : StateOwner[es] = GeneratedPlanEngine}
HelperStates == {es \in EngineStates : StateOwner[es] = HelperProgram}

EngineMaps ==
  {e \in [EngineStates -> PlanState \cup HelperState \cup MarkerState \cup {None, Opaque}] :
     /\ \A es \in PlanStates : e[es] \in PlanState \cup {None}
     /\ \A es \in HelperStates : e[es] \in HelperState \cup {None}
     /\ \A es \in Markers : e[es] = None \/ CapabilityAuthority(e[es].engine_state) = es}

SettledStates ==
  [engines : [EngineStates -> [count : Nat, request : Digests, amount_out : U64]],
   helped : [EngineStates -> Nat]]

Chains ==
  [token : TokenStates, market : MarketStates, domain : DomainStates,
   fee_ledger : FeeLedgerStates, engine : EngineMaps, donated : DonatedStates,
   settled : SettledStates]

Executions ==
  [user : Users, market : Markets, domain : Domains, fee_ledger : FeeLedgers,
   vault_a : TokenAccounts, vault_b : TokenAccounts, fee_vault : TokenAccounts,
   source : TokenAccounts, destination : TokenAccounts, engine_program : Programs,
   engine_state : EngineStates, args : ExecuteArgs, opaque : Seq(Descriptors),
   opaque_account_count : Nat, protocol_fee : U64, accounted_a : U64, accounted_b : U64,
   accounted_fee_a : U64, source_before : U64, destination_before : U64,
   vault_a_before : U64, vault_b_before : U64, fee_vault_before : U64, amount_out : U64]

\* An engine's account that exists, an execution and a snapshot are not absent ones.
ASSUME PresenceAssumption ==
  None \notin PlanState \cup HelperState \cup MarkerState \cup Executions \cup Chains

\* The type invariant: every account holds a value of its kind (a counter or a balance
\* never leaves its word), what a rollback would restore too, and an execution is in
\* flight in its phases only.
GeneratedTypeOK ==
  /\ Snapshot \in Chains
  /\ slot \in 0 .. MaxSlot
  /\ phase \in Settling \cup {"idle", "open"}
  /\ signers \subseteq Users
  /\ used \in 0 .. MaxInstructions
  /\ IF phase = "idle" THEN saved = None ELSE saved \in Chains
  /\ IF phase \in Settling THEN ix \in Executions ELSE ix = None

\* Between instructions, a state of the generated plan engine has advanced once for
\* every execution Core settled with it, and remembers the request and the output
\* of the last: a refused receipt, a failed transfer, a direct call, a router's, and
\* one that another engine makes under Core's own instruction leave no trace.
GeneratedLockstep ==
  phase \in {"idle", "open"} =>
    \A es \in GeneratedStates :
      /\ engine[es].sequence = settled.engines[es].count
      /\ engine[es].last_request_hash = settled.engines[es].request
      /\ engine[es].last_amount_out = settled.engines[es].amount_out

\* A helper created for the capability authority of an engine state has counted one
\* call for every settled execution that named it: whoever else is handed the helper
\* and that authority, in any closure, cannot call it.
GeneratedHelperLockstep ==
  phase \in {"idle", "open"} =>
    \A h \in EngineStates :
      IsHelperState(h) /\ engine[h].authority \in Markers
        => engine[h].calls = settled.helped[h]

\* Whatever the engine did with the accounts it was handed, the balances and the
\* accounting that the handler read before calling it are still current when they are
\* used: the deltas check only the three transfers, and no concurrent change of the
\* domain or the fee ledger is overwritten.
GeneratedSettlementUndisturbed ==
  /\ phase = "finalize" => exact_settlement_deltas
  /\ phase \in Settling =>
       /\ ix.accounted_a = domain[ix.domain].accounted_a
       /\ ix.accounted_b = domain[ix.domain].accounted_b
       /\ ix.accounted_fee_a = fee_ledger[ix.fee_ledger].accounted_fee_a

\* When an execution completes, whatever the engine answered and did, a wallet that
\* signed has paid at most its maximum, the destination has received at least the
\* minimum and no more than the market's accounted liquidity, and the fee is the
\* least one and within the maximum, not after the expiry; measured from the
\* balances before the engine ran.
GeneratedLimitsHonoured ==
  [][phase = "finalize" /\ Forward =>
       LET debit == ix.source_before - token[ix.source].amount
           credit == token[ix.destination].amount - ix.destination_before
           fee == token[FeeVaultOf(ix.market)].amount - ix.fee_vault_before
       IN  /\ token[ix.source].owner = ix.user /\ ix.user \in signers
           /\ debit <= ix.args.max_total_input_debit
           /\ credit >= ix.args.min_output_credit
           /\ credit <= domain[DomainPda(ix.market)].accounted_b
           /\ IsLeastFee(fee, ix.args.amount_in, ProtocolFeeBps)
           /\ fee <= ix.args.max_protocol_fee
           /\ slot <= ix.args.expires_at_slot]_vars

\* An execution priced by the generated plan engine never lowers the product of the
\* market's reserves: the reserves in the request are those Core then writes back.
\* (With a reserve of u64::MAX the test mode that claims u64::MAX empties it.)
GeneratedProductNeverDecreases ==
  [][(phase = "finalize" /\ Forward /\ ix.engine_program = GeneratedPlanEngine
        /\ ix.accounted_b < U64Max) =>
       domain'[ix.domain].accounted_a * domain'[ix.domain].accounted_b
         >= domain[ix.domain].accounted_a * domain[ix.domain].accounted_b]_vars

\* Whatever accounts an instruction names, and whatever closure the engine gets and does
\* with it, an execution for one market touches no other, and any other step at most one.
GeneratedIsolation ==
  [][Forward => /\ phase \in Settling => \A m \in Markets : Touched(m) => m = ix.market
                /\ \A m1, m2 \in Markets : Touched(m1) /\ Touched(m2) => m1 = m2]_vars

\* The engine of the execution in flight is the generated plan engine, serves this
\* market, will approve, and can call the helper if it is asked to.
HonestEngine ==
  LET state == engine[ix.engine_state]
  IN
  /\ IsGeneratedState(ix.engine_state)
  /\ state.mode = "ACCEPT"
  /\ state.market = ix.market
  /\ state.revision = market[ix.market].engine_revision
  /\ state.sequence < U64Max
  /\ quote_exact_in_ok(ix.accounted_a, ix.accounted_b, ix.args.amount_in, state.lp_fee_bps)
  /\ quote_amount_out(ix.accounted_a, ix.accounted_b, ix.args.amount_in, state.lp_fee_bps)
       >= ix.args.min_output_credit
  /\ ix.args.opaque_payload # None => helper_call_ok(CoreCall)

\* An execution that an approving engine serves is settled unless the transaction
\* is aborted from outside: the closure the engine sees, duplicates included, is the
\* one Core bound, and no later check of Core's own refuses the answer.
HonestGenerationSettles == (phase = "engine" /\ HonestEngine) ~> (phase \in {"open", "idle"})
=============================================================================
