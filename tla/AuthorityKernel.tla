-------------------------- MODULE AuthorityKernel ---------------------------
(***************************************************************************)
(* The authority kernel (programs/core) executing a plan that an arbitrary *)
(* engine program has to approve, and the spike engine the repository      *)
(* tests it with (test-programs/spike-engine).                             *)
(*                                                                         *)
(* execute_engine_probe_v0 is split where it calls another program: it     *)
(* validates and plans, the engine runs (phase "engine"), the receipt is   *)
(* read ("receipt"), three token transfers follow ("input", "fee",         *)
(* "output"), and the balances are compared and the accounting written     *)
(* ("finalize").  AbortTransaction can follow any of them.                 *)
(***************************************************************************)
EXTENDS CoreLedger

CONSTANTS
  SpikeEngine,      \* the spike engine's program id
  ExecuteArgs,      \* arguments of execute_engine_probe_v0
  OtherHash,        \* a digest no plan has
  Opaque            \* the state of an engine that is not the spike engine

VARIABLES
  ix,               \* the execution in flight, as Core's handler holds it
  ret               \* the runtime's return data: the engine's receipt

vars == <<ledgerVars, ix, ret>>

ExecuteEngineProbeV0Args ==
  [amount_in : U64, amount_out : U64, max_total_input_debit : U64,
   min_output_credit : U64, max_protocol_fee : U64, expires_at_slot : U64]

ASSUME KernelAssumption ==
  /\ SpikeEngine \in Programs \ {CoreProgram}
  /\ ExecuteArgs \subseteq ExecuteEngineProbeV0Args
  /\ Opaque # None

(***************************************************************************)
(* engine-probe-interface: the plan, its digest and the receipt.           *)
(***************************************************************************)
\* Every field an execution can vary; the program ids, mints, engine and
\* revisions that the wire also carries are functions of the market.
PlanBinding(user, m, d, l, va, vb, fv, source, destination, args) ==
  [market |-> m, domain |-> d, user_authority |-> user,
   user_input |-> source, user_output |-> destination,
   domain_input_vault |-> va, domain_output_vault |-> vb,
   protocol_fee_vault |-> fv, fee_ledger |-> l,
   args |-> args, protocol_fee |-> fee_ceil(args.amount_in, market[m].fee_bps),
   accounted_input_before |-> domain[d].accounted_a,
   accounted_output_before |-> domain[d].accounted_b,
   accounted_fee_before |-> fee_ledger[l].accounted_fee_a]

\* SHA-256 under a domain separator: equal digests come from equal bindings.
compute_plan_hash(binding) == [sha256 |-> binding]

EngineRequest(x) ==
  [plan_hash |-> x.plan_digest, market |-> x.market,
   engine_revision |-> market[x.market].engine_revision]

\* Return data: who set it, whether decode_receipt accepts the bytes (length,
\* magic, version), and the receipt they encode.
Receipt(setter, well_formed, plan_hash) ==
  [setter |-> setter, well_formed |-> well_formed, plan_hash |-> plan_hash]

(***************************************************************************)
(* The spike engine.                                                       *)
(***************************************************************************)
Modes == {"ACCEPT", "HOSTILE_READONLY_ESCALATION", "MISSING_RECEIPT",
          "WRONG_PLAN_HASH", "MALFORMED_RECEIPT"}

\* initialize: `init` creates the account, which the engine then owns.
engine_initialize ==
  /\ RunInstruction("open")
  /\ \E es \in EngineStates, authority \in signers, m \in Markets, revision \in Revisions :
       /\ StateOwner[es] = SpikeEngine
       /\ engine[es] = None
       /\ revision # 0
       /\ engine' = [engine EXCEPT ![es] =
            [authority |-> authority, market |-> m, revision |-> revision,
             sequence |-> 0, last_plan_hash |-> None, mode |-> "ACCEPT"]]
  /\ UNCHANGED <<token, market, domain, fee_ledger, donated, settled, ix, ret>>

IsSpikeState(es) == StateOwner[es] = SpikeEngine /\ engine[es] # None

set_mode ==
  /\ RunInstruction("open")
  /\ \E es \in EngineStates, mode \in Modes :
       /\ IsSpikeState(es)
       /\ engine[es].authority \in signers
       /\ engine' = [engine EXCEPT ![es].mode = mode]
  /\ UNCHANGED <<token, market, domain, fee_ledger, donated, settled, ix, ret>>

\* A call of evaluate: the engine account passed, the request, the depth, and
\* whether the transaction-level instruction is Core's execute_engine_probe_v0.
CoreCall ==
  [engine_state |-> ix.engine_state, request |-> EngineRequest(ix),
   stack_height |-> 2, top_level |-> "core_execute"]

\* What anyone can call evaluate with between Core's calls, directly or through a
\* program of their own.  (While Core's call is under way nobody else holds the
\* engine account: Core hands it to its engine only.)
ForeignCalls ==
  [engine_state : EngineStates,
   request : [plan_hash : {OtherHash}, market : Markets, engine_revision : Revisions],
   stack_height : 1 .. 2, top_level : {"other"}]

EvaluateCalls == IF phase = "engine" THEN {CoreCall}
                 ELSE IF phase = "open" THEN ForeignCalls ELSE {}

\* Faulty variant of require_direct_core_cpi: the depth alone is checked.
any_cpi(call) == call.stack_height = 2

require_direct_core_cpi(call) ==
  /\ call.stack_height = 2
  /\ call.top_level = "core_execute"

\* The receipt each mode leaves behind.  HOSTILE_READONLY_ESCALATION always
\* fails: the runtime refuses its CPI.
EvaluateReturns(mode, plan_hash) ==
  CASE mode = "ACCEPT" -> {Receipt(SpikeEngine, TRUE, plan_hash)}
    [] mode = "MISSING_RECEIPT" -> {None}
    [] mode = "WRONG_PLAN_HASH" -> {Receipt(SpikeEngine, TRUE, OtherHash)}
    [] mode = "MALFORMED_RECEIPT" -> {Receipt(SpikeEngine, FALSE, OtherHash)}
    [] OTHER -> {}

evaluate ==
  /\ \E call \in EvaluateCalls :
       LET es == call.engine_state
       IN
       /\ require_direct_core_cpi(call)
       /\ IsSpikeState(es)
       /\ engine[es].market = call.request.market
       /\ engine[es].revision = call.request.engine_revision
       /\ AddFits(engine[es].sequence, 1)
       /\ engine' = [engine EXCEPT ![es].sequence = @ + 1,
                                   ![es].last_plan_hash = call.request.plan_hash]
       /\ ret' \in EvaluateReturns(engine[es].mode, call.request.plan_hash)
  /\ phase' = IF phase = "engine" THEN "receipt" ELSE phase
  /\ UNCHANGED <<token, market, domain, fee_ledger, donated, settled,
                 slot, signers, used, saved, ix>>

\* Any other engine.  It holds one writable account, its own, which Core never
\* interprets, and can leave any return data, its own or another program's.
foreign_evaluate ==
  /\ phase = "engine"
  /\ market[ix.market].engine_program # SpikeEngine
  /\ ret' \in {None} \cup {Receipt(setter, ok, hash) :
                            setter \in Programs, ok \in BOOLEAN,
                            hash \in {ix.plan_digest, OtherHash}}
  /\ phase' = "receipt"
  /\ UNCHANGED <<chain, slot, signers, used, saved, ix>>

(***************************************************************************)
(* execute_engine_probe_v0                                                 *)
(***************************************************************************)
\* Faulty variant of amounts_within_limits: the domain's liquidity is not checked.
limits_without_liquidity(args, d, l, fee_bps) ==
  LET fee == fee_ceil(args.amount_in, fee_bps)
  IN
  /\ args.amount_in > 0 /\ args.amount_out > 0
  /\ slot <= args.expires_at_slot
  /\ args.amount_out >= args.min_output_credit
  /\ fee_ceil_ok(args.amount_in, fee_bps)
  /\ fee <= args.max_protocol_fee
  /\ AddFits(args.amount_in, fee)
  /\ args.amount_in + fee <= args.max_total_input_debit

\* Lines 246-291: the user's limits, the fee and the accounting to write.
amounts_within_limits(args, d, l, fee_bps) ==
  LET fee == fee_ceil(args.amount_in, fee_bps)
  IN
  /\ args.amount_in > 0 /\ args.amount_out > 0
  /\ slot <= args.expires_at_slot
  /\ args.amount_out >= args.min_output_credit
  /\ domain[d].accounted_b >= args.amount_out
  /\ fee_ceil_ok(args.amount_in, fee_bps)
  /\ fee <= args.max_protocol_fee
  /\ AddFits(args.amount_in, fee)
  /\ args.amount_in + fee <= args.max_total_input_debit
  /\ AddFits(domain[d].accounted_a, args.amount_in)
  /\ AddFits(fee_ledger[l].accounted_fee_a, fee)

\* The handler's locals once validation is over.
Planned(user, m, d, l, va, vb, fv, source, destination, args) ==
  [user |-> user, market |-> m, domain |-> d, fee_ledger |-> l,
   vault_a |-> va, vault_b |-> vb, fee_vault |-> fv,
   source |-> source, destination |-> destination,
   engine_state |-> market[m].engine_state, args |-> args,
   protocol_fee |-> fee_ceil(args.amount_in, market[m].fee_bps),
   post_accounted_a |-> domain[d].accounted_a + args.amount_in,
   post_accounted_b |-> domain[d].accounted_b - args.amount_out,
   post_accounted_fee_a |-> fee_ledger[l].accounted_fee_a
                              + fee_ceil(args.amount_in, market[m].fee_bps),
   plan_digest |-> compute_plan_hash(
                     PlanBinding(user, m, d, l, va, vb, fv, source, destination, args)),
   source_before |-> token[source].amount,
   destination_before |-> token[destination].amount,
   vault_a_before |-> token[va].amount,
   vault_b_before |-> token[vb].amount,
   fee_vault_before |-> token[fv].amount]

\* A vault passed to the instruction is the canonical one, protected, and holds
\* at least what Core accounts for.
canonical_vault(v, d, asset_index, mint) ==
  /\ v = canonical_domain_vault(d, asset_index)
  /\ validate_protected_token_account(v, mint, d)
  /\ require_raw_covers_accounted(token[v].amount, accounted_of(d, asset_index))

canonical_fees(v, l, mint) ==
  /\ v = canonical_fee_vault(l)
  /\ validate_protected_token_account(v, mint, l)
  /\ require_raw_covers_accounted(token[v].amount, fee_ledger[l].accounted_fee_a)

\* The keys the instruction requires to be pairwise distinct.
ExecuteRoles(user, m, d, l, va, vb, fv, source, destination) ==
  <<user, m, d, l, market[m].mint_a, market[m].mint_b, source, destination, va, vb, fv,
    market[m].engine_program, market[m].engine_state>>

execute_engine_probe_v0 ==
  /\ RunInstruction("engine")
  /\ \E f \in CallFrames : /\ ensure_no_remaining_accounts(f)
                           /\ no_unexpected_writable(f)
                           /\ top_level_only(f)
  /\ \E m \in Markets, d \in Domains, l \in FeeLedgers :
     /\ validate_market_domain(m, d)
     /\ validate_fee_ledger(m, l)
     /\ valid_engine_binding(market[m].engine_program, market[m].engine_state)
     /\ validate_classic_mint(market[m].mint_a)
     /\ validate_classic_mint(market[m].mint_b)
     /\ \E va \in TokenAccounts : canonical_vault(va, d, ASSET_A_INDEX_V0, market[m].mint_a) /\
        \E vb \in TokenAccounts : canonical_vault(vb, d, ASSET_B_INDEX_V0, market[m].mint_b) /\
        \E fv \in TokenAccounts : canonical_fees(fv, l, market[m].mint_a) /\
        \E user \in signers, source \in TokenAccounts :
           validate_protected_token_account(source, market[m].mint_a, user) /\
        \E destination \in TokenAccounts : 
           validate_credit_destination(destination, market[m].mint_b) /\
        \E args \in ExecuteArgs :
           /\ amounts_within_limits(args, d, l, market[m].fee_bps)
           /\ ensure_distinct_roles(ExecuteRoles(user, m, d, l, va, vb, fv, source, destination))
           /\ ix' = Planned(user, m, d, l, va, vb, fv, source, destination, args)
  /\ ret' = None                          \* the runtime clears it at every CPI
  /\ UNCHANGED chain

accept_receipt ==
  /\ phase = "receipt"
  /\ ret # None
  /\ ret.setter = market[ix.market].engine_program
  /\ ret.well_formed
  /\ ret.plan_hash = ix.plan_digest
  /\ phase' = "input"
  /\ UNCHANGED <<chain, slot, signers, used, saved, ix, ret>>

\* One transfer_checked CPI of the settlement.
Settle(from, to, mint, amount, authority) ==
  /\ CanTransfer(token, from, to, mint, amount, authority)
  /\ token' = Transferred(token, from, to, amount, authority)
  /\ UNCHANGED <<market, domain, fee_ledger, engine, settled, slot, signers, used, saved, ix, ret>>

transfer_input ==
  /\ phase = "input"
  /\ phase' = "fee"
  /\ Settle(ix.source, ix.vault_a, market[ix.market].mint_a, ix.args.amount_in, ix.user)
  /\ UNCHANGED donated

transfer_fee ==
  /\ phase = "fee"
  /\ phase' = "output"
  /\ Settle(ix.source, ix.fee_vault, market[ix.market].mint_a, ix.protocol_fee, ix.user)
  /\ UNCHANGED donated

\* Signed by the domain.  The destination is any account of the output mint,
\* another domain's vault included: to that domain the payment is a donation.
transfer_output ==
  /\ phase = "output"
  /\ phase' = "finalize"
  /\ Settle(ix.vault_b, ix.destination, market[ix.market].mint_b, ix.args.amount_out, ix.domain)
  /\ donated' = DonatedBy(ix.destination, ix.args.amount_out)

\* Faulty variant of total_input_debit: the fee is left out.
input_without_fee == ix.args.amount_in

total_input_debit == ix.args.amount_in + ix.protocol_fee

\* The balances after reload() against those the handler read before the engine ran.
exact_settlement_deltas ==
  /\ exact_debit(ix.source_before, token[ix.source].amount, total_input_debit)
  /\ exact_credit(ix.vault_a_before, token[ix.vault_a].amount, ix.args.amount_in)
  /\ exact_credit(ix.fee_vault_before, token[ix.fee_vault].amount, ix.protocol_fee)
  /\ exact_debit(ix.vault_b_before, token[ix.vault_b].amount, ix.args.amount_out)
  /\ exact_credit(ix.destination_before, token[ix.destination].amount, ix.args.amount_out)

\* The accounting written is what the handler computed before the engine ran.
finalize ==
  /\ phase = "finalize"
  /\ exact_settlement_deltas
  /\ domain' = [domain EXCEPT ![ix.domain].accounted_a = ix.post_accounted_a,
                              ![ix.domain].accounted_b = ix.post_accounted_b]
  /\ fee_ledger' = [fee_ledger EXCEPT ![ix.fee_ledger].accounted_fee_a = ix.post_accounted_fee_a]
  /\ settled' = [settled EXCEPT ![ix.engine_state] =
                   [count |-> @.count + 1, plan |-> ix.plan_digest]]
  /\ phase' = "open"
  /\ ix' = None
  /\ ret' = None
  /\ UNCHANGED <<token, market, engine, donated, slot, signers, used, saved>>

(***************************************************************************)
(* The specification.                                                      *)
(***************************************************************************)
Init ==
  /\ LedgerInit
  /\ engine = [es \in EngineStates |-> IF StateOwner[es] = SpikeEngine THEN None ELSE Opaque]
  /\ settled = [es \in EngineStates |-> [count |-> 0, plan |-> None]]
  /\ ix = None
  /\ ret = None

\* The runtime's own steps and the instructions without an engine.
Frame ==
  \/ \E S \in SUBSET Users \ {{}} : BeginTransaction(S) /\ UNCHANGED <<ix, ret>>
  \/ CommitTransaction /\ UNCHANGED <<ix, ret>>
  \/ AbortTransaction /\ ix' = None /\ ret' = None
  \/ AdvanceSlot /\ UNCHANGED <<ix, ret>>
  \/ SplTransfer /\ UNCHANGED <<ix, ret>>
  \/ initialize_market_domain_v0 /\ UNCHANGED <<ix, ret>>
  \/ deposit_v0 /\ UNCHANGED <<ix, ret>>

Execution ==
  \/ execute_engine_probe_v0
  \/ evaluate
  \/ foreign_evaluate
  \/ accept_receipt
  \/ transfer_input
  \/ transfer_fee
  \/ transfer_output
  \/ finalize

Next == Frame \/ Execution \/ engine_initialize \/ set_mode

Spec == Init /\ [][Next]_vars

\* A transaction's steps all follow once the runtime has loaded it; an abort need
\* not come.
FairSpec == Spec /\ WF_vars(Execution)

(***************************************************************************)
(* Properties.                                                             *)
(***************************************************************************)
Phases == {"idle", "open", "engine", "receipt", "input", "fee", "output", "finalize"}
Settling == {"engine", "receipt", "input", "fee", "output", "finalize"}

PlanBindings ==
  [market : Markets, domain : Domains, user_authority : Users, user_input : TokenAccounts,
   user_output : TokenAccounts, domain_input_vault : TokenAccounts,
   domain_output_vault : TokenAccounts, protocol_fee_vault : TokenAccounts,
   fee_ledger : FeeLedgers, args : ExecuteArgs, protocol_fee : U64,
   accounted_input_before : U64, accounted_output_before : U64, accounted_fee_before : U64]

Digests == [sha256 : PlanBindings] \cup {OtherHash, None}

EngineState ==
  [authority : Users, market : Markets, revision : Revisions, sequence : U64,
   last_plan_hash : Digests, mode : Modes]

\* An engine state that exists is not an absent one.
ASSUME EngineStateAssumption == None \notin EngineState

EngineMaps ==
  {e \in [EngineStates -> EngineState \cup {None, Opaque}] :
     \A es \in EngineStates : StateOwner[es] = SpikeEngine => e[es] \in EngineState \cup {None}}

Chains ==
  [token : TokenStates, market : MarketStates, domain : DomainStates,
   fee_ledger : FeeLedgerStates, engine : EngineMaps, donated : DonatedStates,
   settled : [EngineStates -> [count : Nat, plan : Digests]]]

Executions ==
  [user : Users, market : Markets, domain : Domains, fee_ledger : FeeLedgers,
   vault_a : TokenAccounts, vault_b : TokenAccounts, fee_vault : TokenAccounts,
   source : TokenAccounts, destination : TokenAccounts, engine_state : EngineStates,
   args : ExecuteArgs, protocol_fee : U64, post_accounted_a : U64,
   post_accounted_b : U64, post_accounted_fee_a : U64, plan_digest : Digests,
   source_before : U64, destination_before : U64, vault_a_before : U64,
   vault_b_before : U64, fee_vault_before : U64]

Receipts == [setter : Programs, well_formed : BOOLEAN, plan_hash : Digests]

\* The type invariant: every account holds a value of its kind, the accounts
\* saved for rollback too, and an execution is in flight in its phases only.
TypeOK ==
  /\ Snapshot \in Chains
  /\ slot \in 0 .. MaxSlot
  /\ phase \in Phases
  /\ signers \subseteq Users
  /\ used \in 0 .. MaxInstructions
  /\ IF phase = "idle" THEN saved = None ELSE saved \in Chains
  /\ IF phase \in Settling THEN ix \in Executions ELSE ix = None
  /\ ret \in Receipts \cup {None}

\* Once both inputs are paid, the domain can pay the output: the engine ran
\* between the check of accounted_b and this transfer, and other markets and
\* donors ran before, yet the vault is not short and still the domain's.
PayoutFunded ==
  phase = "output" =>
    /\ token[ix.vault_b].amount >= ix.args.amount_out
    /\ token[ix.vault_b].owner = ix.domain
    /\ token[ix.vault_b].mint = token[ix.destination].mint

\* The balance comparisons after the transfers never refuse an execution, and
\* the accounting computed before the engine ran is still current: the cached
\* balances and sums cannot have gone stale.
CachedValuesCurrent ==
  phase = "finalize" =>
    /\ exact_settlement_deltas
    /\ ix.post_accounted_a = domain[ix.domain].accounted_a + ix.args.amount_in
    /\ ix.post_accounted_b = domain[ix.domain].accounted_b - ix.args.amount_out
    /\ ix.post_accounted_fee_a = fee_ledger[ix.fee_ledger].accounted_fee_a + ix.protocol_fee

\* Whatever accounts an instruction names, an execution for one market touches
\* no other market, and a deposit or an initialisation touches one at most.
\* (spec/security-properties.md, property 3: another domain can only be credited.)
DomainIsolation ==
  [][Forward => /\ phase \in Settling => \A m \in Markets : Touched(m) => m = ix.market
                /\ \A m1, m2 \in Markets : Touched(m1) /\ Touched(m2) => m1 = m2]_vars

\* When an execution completes, the wallet that signed the transaction has been
\* debited at most its maximum, the destination credited at least the minimum,
\* the fee vault credited exactly the rounded-up fee and no more than the user
\* allowed, before expiry; all measured from the balances before the engine ran.
UserLimitsHonoured ==
  [][phase = "finalize" /\ Forward =>
       LET debit == ix.source_before - token'[ix.source].amount
           credit == token'[ix.destination].amount - ix.destination_before
           fee == token'[FeeVaultOf(ix.market)].amount - ix.fee_vault_before
       IN  /\ token[ix.source].owner = ix.user /\ ix.user \in signers
           /\ debit <= ix.args.max_total_input_debit
           /\ credit >= ix.args.min_output_credit
           /\ IsLeastFee(fee, ix.args.amount_in, ProtocolFeeBps)
           /\ fee <= ix.args.max_protocol_fee
           /\ slot <= ix.args.expires_at_slot]_vars

\* Between instructions, a spike engine state has advanced once for every
\* execution Core settled with it and remembers the plan settled last: a rejected
\* receipt, a failed transfer or a call that does not come from Core leaves no trace.
EngineLockstep ==
  phase \in {"idle", "open"} =>
    \A es \in EngineStates :
      IsSpikeState(es) => /\ engine[es].sequence = settled[es].count
                          /\ engine[es].last_plan_hash = settled[es].plan

\* The engine of the execution in flight is the spike engine, serves this
\* market, and approves.
HonestEngine ==
  /\ IsSpikeState(ix.engine_state)
  /\ engine[ix.engine_state].mode = "ACCEPT"
  /\ engine[ix.engine_state].market = ix.market
  /\ engine[ix.engine_state].revision = market[ix.market].engine_revision
  /\ engine[ix.engine_state].sequence < U64Max

\* An execution that an approving engine serves and the source can pay is
\* settled unless the transaction is aborted from outside: no later check of
\* Core's own can refuse it.
HonestExecutionSettles ==
  (/\ phase = "engine"
   /\ HonestEngine
   /\ token[ix.source].amount >= total_input_debit) ~> (phase \in {"open", "idle"})
=============================================================================
