----------------------------- MODULE RoutedWire -----------------------------
(***************************************************************************)
(* What Core and an engine agree on in the routed experiment               *)
(* (experiments/routed-callback-auth): intents, phases, requests, receipts *)
(* and settlements, their digests, and the authorities derived from them.  *)
(***************************************************************************)
EXTENDS Capabilities

CONSTANT Nonces        \* authorization_nonce values

(***************************************************************************)
(* Timing modes and phases.                                                *)
(***************************************************************************)
TIMING_SINGLE == "SINGLE"
TIMING_PREPARE_COMMIT == "PREPARE_COMMIT"
TimingModes == {TIMING_SINGLE, TIMING_PREPARE_COMMIT}

PHASE_TRANSITION == "TRANSITION"
PHASE_PREPARE == "PREPARE"
PHASE_COMMIT == "COMMIT"
EnginePhases == {PHASE_TRANSITION, PHASE_PREPARE, PHASE_COMMIT}

validate_phase_for_timing(timing_mode, p) ==
  <<timing_mode, p>> \in {<<TIMING_SINGLE, PHASE_TRANSITION>>,
                          <<TIMING_PREPARE_COMMIT, PHASE_PREPARE>>,
                          <<TIMING_PREPARE_COMMIT, PHASE_COMMIT>>}

(***************************************************************************)
(* Digests.  Each is SHA-256 under a separator of its own of a fixed-width *)
(* encoding, so equal digests come from equal contents of the same kind.   *)
(***************************************************************************)
compute_intent_digest(intent) == [intent |-> intent]
compute_execution_digest(binding) == [execution |-> binding]
compute_receipt_digest(receipt) == [receipt |-> receipt]
compute_settlement_digest(settlement) == [settlement |-> settlement]

\* What a user authorizes, for a market with the account mk.  (The domain, vaults and
\* ledger that the wire also carries are derived from the market's address and mint.)
IntentBinding(timing_mode, m, mk, user, input, output, args, fee, capability_hash, payload) ==
  [timing_mode |-> timing_mode, market |-> m, engine_program |-> mk.engine_program,
   engine_state |-> mk.engine_state, engine_revision |-> mk.engine_revision,
   user_authority |-> user, user_input |-> input, user_output |-> output,
   mint_in |-> mk.mint_a, mint_out |-> mk.mint_b,
   amount_in |-> args.amount_in, protocol_fee |-> fee,
   max_total_input_debit |-> args.max_total_input_debit,
   min_output_credit |-> args.min_output_credit, max_protocol_fee |-> args.max_protocol_fee,
   expires_at_slot |-> args.expires_at_slot, authorization_nonce |-> args.authorization_nonce,
   authorized_capability_hash |-> capability_hash, payload |-> payload]

\* The codec's own condition on a request: only COMMIT carries a settlement.
validate_execution_binding(binding) ==
  /\ binding.phase \in EnginePhases
  /\ (binding.phase_context_digest # None) <=> (binding.phase = PHASE_COMMIT)
  /\ binding.opaque_account_count <= MaxOpaqueAccounts

\* Return data: the program that set it, whether decode_receipt accepts the
\* bytes (length, magic, version, phase), and the receipt they encode.
EngineReceipt(setter, well_formed, p, intent_digest, execution_digest, amount_out, sequence) ==
  [setter |-> setter, well_formed |-> well_formed, phase |-> p,
   intent_digest |-> intent_digest, execution_digest |-> execution_digest,
   amount_out |-> amount_out, state_sequence |-> sequence]

(***************************************************************************)
(* Authorities: addresses only Core can sign for.                          *)
(***************************************************************************)
\* Faulty variant of canonical_spend_authority: one per source account.
spend_authority_of_source(user_input, intent_digest) ==
  <<"spend:v0", user_input, OtherHash>>

canonical_spend_authority(user_input, intent_digest) ==
  <<"spend:v0", user_input, intent_digest>>

canonical_callback(engine_program, engine_state, m, d, intent_digest, p) ==
  <<"engine-callback:v0", engine_program, engine_state, m, d, intent_digest, p>>

\* The engine's own account first; in PREPARE everything is passed read-only.
capability_descriptors(engine_state, opaque_descriptors, authorized) ==
  <<Descriptor(engine_state, OwnerOf(engine_state), authorized)>> \o
  [i \in DOMAIN opaque_descriptors |->
     [opaque_descriptors[i] EXCEPT !.is_writable = authorized /\ @]]
=============================================================================
