----------------------- MODULE AuthorityKernelProofs ------------------------
(* Proofs about AuthorityKernel, for every value of its constants. *)
EXTENDS AuthorityKernel, LedgerProofs

(***************************************************************************)
(* The inductive invariant.                                                *)
(***************************************************************************)
\* The market of the execution in flight, and what its transfers have moved so far.
InFlight == IF phase \in Settling THEN ix.market ELSE None
PaidIn == IF phase \in {"fee", "output", "finalize"} THEN ix.args.amount_in ELSE 0
PaidFee == IF phase \in {"output", "finalize"} THEN ix.protocol_fee ELSE 0
PaidOut == IF phase = "finalize" THEN ix.args.amount_out ELSE 0

LiveSound ==
  /\ Canonical(token, market, domain, fee_ledger, donated)
  /\ Backed(token, market, domain, fee_ledger, donated, InFlight,
            PaidIn, PaidFee, PaidOut)

SavedSound ==
  phase # "idle" =>
    /\ Canonical(saved.token, saved.market, saved.domain, saved.fee_ledger, saved.donated)
    /\ Backed(saved.token, saved.market, saved.domain, saved.fee_ledger, saved.donated,
              None, 0, 0, 0)

\* The execution in flight names the accounts of one market, and what its
\* handler has read is what the accounts held before the transfers.
RolesSound ==
  phase \in Settling =>
    /\ market[ix.market] # None
    /\ ix.domain = DomainPda(ix.market)
    /\ ix.fee_ledger = FeeLedgerOf(ix.market)
    /\ ix.vault_a = VaultA(ix.market)
    /\ ix.vault_b = VaultB(ix.market)
    /\ ix.fee_vault = FeeVaultOf(ix.market)
    /\ token[ix.source] # None /\ token[ix.source].owner = ix.user
    /\ token[ix.destination] # None
    /\ token[ix.destination].mint = market[ix.market].mint_b
    /\ ix.destination \notin {ix.source, ix.vault_a, ix.vault_b, ix.fee_vault}

ReadsSound ==
  phase \in Settling =>
    /\ ix.post_accounted_a = domain[ix.domain].accounted_a + ix.args.amount_in
    /\ ix.post_accounted_b = domain[ix.domain].accounted_b - ix.args.amount_out
    /\ ix.post_accounted_fee_a = fee_ledger[ix.fee_ledger].accounted_fee_a + ix.protocol_fee
    /\ token[ix.source].amount = ix.source_before - (PaidIn + PaidFee)
    /\ token[ix.vault_a].amount = ix.vault_a_before + PaidIn
    /\ token[ix.fee_vault].amount = ix.fee_vault_before + PaidFee
    /\ token[ix.vault_b].amount = ix.vault_b_before - PaidOut
    /\ token[ix.destination].amount = ix.destination_before + PaidOut

IInv == TypeOK /\ LiveSound /\ SavedSound /\ RolesSound /\ ReadsSound

\* The initial accounts satisfy the inductive invariant.
LEMMA InitSound == Init => IInv
<1> SUFFICES ASSUME Init PROVE IInv
  OBVIOUS
<1> USE KeyAssumption, InputAssumption, MathAssumption, KernelAssumption DEF Init, LedgerInit
<1>1. token \in TokenStates
  BY DEF TokenStates, TokenAccounts
<1>2. engine \in EngineMaps
  BY DEF EngineMaps
<1>3. TypeOK
  <2>1. Snapshot \in Chains
    BY <1>1, <1>2 DEF Snapshot, Chains, MarketStates, DomainStates, FeeLedgerStates,
       DonatedStates, Digests
  <2> QED BY <2>1 DEF TypeOK, Phases, Settling, U64
<1>4. \A v \in CoreVaults : token[v] = None
  BY DEF TokenAccounts
<1>5. \A m \in Markets : /\ VaultA(m) \in CoreVaults /\ VaultB(m) \in CoreVaults
                        /\ \A p \in Mints : FeeVaultAt(m, p) \in CoreVaults
  <2>1. \A m \in Markets : VaultA(m) \in CoreVaults /\ VaultB(m) \in CoreVaults
    BY DEF CoreVaults, DomainVaults, VaultA, VaultB, Domains
  <2>2. \A m \in Markets, p \in Mints : FeeVaultAt(m, p) \in CoreVaults
    BY DEF CoreVaults, FeeVaults, FeeVaultAt, FeeLedgers
  <2> QED BY <2>1, <2>2
<1>6. Canonical(token, market, domain, fee_ledger, donated)
  BY <1>4, <1>5 DEF Canonical
<1>7. LiveSound
  BY <1>6 DEF LiveSound, Backed
<1> QED BY <1>3, <1>7 DEF IInv, SavedSound, RolesSound, ReadsSound, Settling

\* Outside a settlement nothing is in flight.
LEMMA Nothing ==
  ASSUME phase \notin Settling
  PROVE  InFlight = None /\ PaidIn = 0 /\ PaidFee = 0 /\ PaidOut = 0
BY DEF InFlight, PaidIn, PaidFee, PaidOut, Settling

\* Loading a transaction saves sound accounts.
LEMMA BeginSound ==
  ASSUME IInv, NEW S \in SUBSET Users, BeginTransaction(S), UNCHANGED <<ix, ret>>
  PROVE  IInv'
<1> USE DEF BeginTransaction, chain
<1>1. TypeOK'
  BY InputAssumption DEF IInv, TypeOK, Snapshot, Phases, Settling
<1>2. InFlight = None /\ PaidIn = 0 /\ PaidFee = 0 /\ PaidOut = 0
  BY Nothing DEF Settling
<1>3. InFlight' = None /\ PaidIn' = 0 /\ PaidFee' = 0 /\ PaidOut' = 0
  BY DEF InFlight, PaidIn, PaidFee, PaidOut, Settling
<1>4. LiveSound'
  BY <1>2, <1>3 DEF IInv, LiveSound
<1>5. SavedSound'
  BY <1>2, <1>3 DEF IInv, LiveSound, SavedSound, Snapshot
<1> QED BY <1>1, <1>4, <1>5 DEF IInv, RolesSound, ReadsSound, Settling

\* Committing keeps the sound accounts the transaction left.
LEMMA CommitSound ==
  ASSUME IInv, CommitTransaction, UNCHANGED <<ix, ret>>
  PROVE  IInv'
<1> USE DEF CommitTransaction, chain
<1>1. TypeOK'
  BY InputAssumption DEF IInv, TypeOK, Snapshot, Phases, Settling
<1>2. InFlight = None /\ PaidIn = 0 /\ PaidFee = 0 /\ PaidOut = 0
  BY Nothing DEF Settling
<1>3. InFlight' = None /\ PaidIn' = 0 /\ PaidFee' = 0 /\ PaidOut' = 0
  BY DEF InFlight, PaidIn, PaidFee, PaidOut, Settling
<1>4. LiveSound'
  BY <1>2, <1>3 DEF IInv, LiveSound
<1> QED BY <1>1, <1>4 DEF IInv, SavedSound, RolesSound, ReadsSound, Settling

\* Rolling back, from any phase, restores accounts that were sound when the
\* transaction started.
LEMMA AbortSound ==
  ASSUME IInv, AbortTransaction, ix' = None, ret' = None
  PROVE  IInv'
<1> USE DEF AbortTransaction, Rollback
<1>1. TypeOK'
  <2>1. Snapshot' \in Chains
    <3>1. saved \in Chains
      BY DEF IInv, TypeOK
    <3> QED BY <3>1 DEF Snapshot, Chains
  <2> QED BY <2>1, InputAssumption DEF IInv, TypeOK, Phases, Settling
<1>2. InFlight' = None /\ PaidIn' = 0 /\ PaidFee' = 0 /\ PaidOut' = 0
  BY DEF InFlight, PaidIn, PaidFee, PaidOut, Settling
<1>3. LiveSound'
  BY <1>2 DEF IInv, LiveSound, SavedSound
<1> QED BY <1>1, <1>3 DEF IInv, SavedSound, RolesSound, ReadsSound, Settling

\* The clock is no part of the accounting.
LEMMA SlotSound ==
  ASSUME IInv, AdvanceSlot, UNCHANGED <<ix, ret>>
  PROVE  IInv'
<1> USE DEF AdvanceSlot, chain
<1>1. TypeOK'
  BY InputAssumption DEF IInv, TypeOK, Snapshot, Settling, U64
<1>2. InFlight' = InFlight /\ PaidIn' = PaidIn /\ PaidFee' = PaidFee /\ PaidOut' = PaidOut
  BY DEF InFlight, PaidIn, PaidFee, PaidOut
<1>3. LiveSound'
  BY <1>2 DEF IInv, LiveSound
<1> QED BY <1>1, <1>3 DEF IInv, SavedSound, RolesSound, ReadsSound, Settling

\* The frame of an instruction that ends in phase p keeps the frame's types.
LEMMA FrameTyped ==
  ASSUME TypeOK, NEW p \in Phases \ {"idle"}, RunInstruction(p), Snapshot' \in Chains,
         ret' \in Receipts \cup {None},
         IF p \in Settling THEN ix' \in Executions ELSE ix' = None
  PROVE  TypeOK'
<1>1. used' \in 0 .. MaxInstructions
  BY InputAssumption DEF TypeOK, RunInstruction
<1>2. phase = "open" /\ phase' = p /\ saved' \in Chains /\ slot' = slot /\ signers' = signers
  BY DEF TypeOK, RunInstruction
<1> QED BY <1>1, <1>2 DEF TypeOK

\* An instruction that starts and ends between executions is sound when the
\* accounts it leaves are.
LEMMA OpenSound ==
  ASSUME IInv, RunInstruction("open"), UNCHANGED <<ix, ret>>, Snapshot' \in Chains,
         Canonical(token', market', domain', fee_ledger', donated'),
         Backed(token', market', domain', fee_ledger', donated', None, 0, 0, 0)
  PROVE  IInv'
<1>1. TypeOK'
  <2>1. ret' \in Receipts \cup {None} /\ ix' = None
    BY DEF IInv, TypeOK, RunInstruction, Settling
  <2> QED BY <2>1, FrameTyped DEF IInv, Phases, Settling
<1>2. InFlight' = None /\ PaidIn' = 0 /\ PaidFee' = 0 /\ PaidOut' = 0
  BY DEF InFlight, PaidIn, PaidFee, PaidOut, Settling, RunInstruction
<1>3. LiveSound'
  BY <1>2 DEF LiveSound
<1>4. SavedSound'
  BY DEF IInv, SavedSound, RunInstruction
<1> QED BY <1>1, <1>3, <1>4 DEF IInv, RolesSound, ReadsSound, Settling, RunInstruction

\* What holds of the accounts when an instruction starts.
LEMMA OpenFacts ==
  ASSUME IInv, phase = "open"
  PROVE  /\ token \in TokenStates /\ market \in MarketStates /\ domain \in DomainStates
         /\ fee_ledger \in FeeLedgerStates /\ donated \in DonatedStates
         /\ engine \in EngineMaps
         /\ settled \in [EngineStates -> [count : Nat, plan : Digests]]
         /\ signers \subseteq Users
         /\ Canonical(token, market, domain, fee_ledger, donated)
         /\ Backed(token, market, domain, fee_ledger, donated, None, 0, 0, 0)
<1>1. InFlight = None /\ PaidIn = 0 /\ PaidFee = 0 /\ PaidOut = 0
  BY Nothing DEF Settling
<1> QED BY <1>1 DEF IInv, TypeOK, LiveSound, Snapshot, Chains

\* The engines' own accounts are no part of the accounting.
LEMMA EngineOnlySound ==
  ASSUME IInv, RunInstruction("open"), engine' \in EngineMaps,
         UNCHANGED <<token, market, domain, fee_ledger, donated, settled, ix, ret>>
  PROVE  IInv'
<1>1. phase = "open"
  BY DEF RunInstruction
<1>2. Snapshot' \in Chains
  BY <1>1, OpenFacts DEF Snapshot, Chains
<1>3. /\ Canonical(token', market', domain', fee_ledger', donated')
      /\ Backed(token', market', domain', fee_ledger', donated', None, 0, 0, 0)
  BY <1>1, OpenFacts
<1> QED BY <1>2, <1>3, OpenSound

\* The spike engine's initialize touches its own account only.
LEMMA EngineInitializeSound ==
  ASSUME IInv, engine_initialize
  PROVE  IInv'
<1>1. RunInstruction("open") /\ phase = "open"
  BY DEF engine_initialize, RunInstruction
<1>2. engine' \in EngineMaps
  <2>1. PICK es \in EngineStates, authority \in signers, m \in Markets, revision \in Revisions :
          engine' = [engine EXCEPT ![es] =
            [authority |-> authority, market |-> m, revision |-> revision,
             sequence |-> 0, last_plan_hash |-> None, mode |-> "ACCEPT"]]
    BY DEF engine_initialize
  <2> DEFINE e == [authority |-> authority, market |-> m, revision |-> revision,
                   sequence |-> 0, last_plan_hash |-> None, mode |-> "ACCEPT"]
  <2>2. e \in EngineState
    BY <1>1, OpenFacts, MathAssumption DEF EngineState, Digests, Modes, U64
  <2>3. engine' = [engine EXCEPT ![es] = e]
    BY <2>1
  <2> HIDE DEF e
  <2> QED BY <1>1, <2>2, <2>3, OpenFacts DEF EngineMaps
<1> QED BY <1>1, <1>2, EngineOnlySound DEF engine_initialize

\* The spike engine's set_mode touches its own account only.
LEMMA SetModeSound ==
  ASSUME IInv, set_mode
  PROVE  IInv'
<1>1. RunInstruction("open") /\ phase = "open"
  BY DEF set_mode, RunInstruction
<1>2. engine' \in EngineMaps
  <2>1. PICK es \in EngineStates, mode \in Modes :
          IsSpikeState(es) /\ engine' = [engine EXCEPT ![es].mode = mode]
    BY DEF set_mode
  <2>2. engine[es] \in EngineState
    BY <1>1, <2>1, OpenFacts DEF EngineMaps, IsSpikeState
  <2>3. [engine[es] EXCEPT !.mode = mode] \in EngineState
    BY <2>2 DEF EngineState
  <2>4. engine' = [engine EXCEPT ![es] = [engine[es] EXCEPT !.mode = mode]]
    BY <2>1
  <2> QED BY <1>1, <2>3, <2>4, OpenFacts, KernelAssumption DEF EngineMaps
<1> QED BY <1>1, <1>2, EngineOnlySound DEF set_mode

\* Between instructions the shared accounts are sound.
LEMMA LedgerOpen ==
  ASSUME IInv, phase = "open"
  PROVE  LedgerSound
BY OpenFacts DEF LedgerSound

\* An instruction without an engine that leaves the shared accounts sound keeps the
\* invariant.
LEMMA LedgerStep ==
  ASSUME IInv, RunInstruction("open"), UNCHANGED <<engine, settled, ix, ret>>, LedgerSound'
  PROVE  IInv'
<1>1. phase = "open"
  BY DEF RunInstruction
<1>2. Snapshot' \in Chains
  BY <1>1, OpenFacts DEF LedgerSound, Snapshot, Chains
<1> QED BY <1>2, OpenSound DEF LedgerSound

\* Plain transfers, donations among them, keep the invariant.
LEMMA SplTransferSound ==
  ASSUME IInv, SplTransfer, UNCHANGED <<ix, ret>>
  PROVE  IInv'
<1>1. RunInstruction("open") /\ phase = "open" /\ UNCHANGED <<engine, settled>>
  BY DEF SplTransfer, RunInstruction
<1>2. LedgerSound'
  BY <1>1, LedgerOpen, SplTransferEffect
<1> QED BY <1>1, <1>2, LedgerStep

\* Deposits keep the invariant.
LEMMA DepositSound ==
  ASSUME IInv, deposit_v0, UNCHANGED <<ix, ret>>
  PROVE  IInv'
<1>1. RunInstruction("open") /\ phase = "open" /\ UNCHANGED <<engine, settled>>
  BY DEF deposit_v0, RunInstruction
<1>2. LedgerSound'
  BY <1>1, LedgerOpen, DepositEffect
<1> QED BY <1>1, <1>2, LedgerStep

\* Creating a market keeps the invariant.
LEMMA InitializeSound ==
  ASSUME IInv, initialize_market_domain_v0, UNCHANGED <<ix, ret>>
  PROVE  IInv'
<1>1. RunInstruction("open") /\ phase = "open" /\ UNCHANGED <<engine, settled>>
  BY DEF initialize_market_domain_v0, RunInstruction
<1>2. LedgerSound'
  BY <1>1, LedgerOpen, InitializeEffect
<1> QED BY <1>1, <1>2, LedgerStep

(***************************************************************************)
(* The steps of an execution.                                              *)
(***************************************************************************)
\* What holds of the accounts during an execution.
LEMMA SettlingFacts ==
  ASSUME IInv, phase \in Settling
  PROVE  /\ token \in TokenStates /\ market \in MarketStates /\ domain \in DomainStates
         /\ fee_ledger \in FeeLedgerStates /\ donated \in DonatedStates
         /\ engine \in EngineMaps
         /\ settled \in [EngineStates -> [count : Nat, plan : Digests]]
         /\ signers \subseteq Users /\ saved \in Chains /\ ix \in Executions
         /\ ret \in Receipts \cup {None}
         /\ Canonical(token, market, domain, fee_ledger, donated)
         /\ Backed(token, market, domain, fee_ledger, donated, ix.market, PaidIn, PaidFee, PaidOut)
<1>1. InFlight = ix.market
  BY DEF InFlight
<1> QED BY <1>1 DEF IInv, TypeOK, LiveSound, Snapshot, Chains, Settling

\* A step of the engine, or of Core reading its answer, moves no tokens.
LEMMA AnswerSound ==
  ASSUME IInv, phase \in {"engine", "receipt"}, phase' \in {"receipt", "input"},
         UNCHANGED <<token, market, domain, fee_ledger, donated, settled,
                     slot, signers, used, saved, ix>>,
         engine' \in EngineMaps, ret' \in Receipts \cup {None}
  PROVE  IInv'
<1>1. /\ phase \in Settling /\ phase' \in Settling
      /\ PaidIn = 0 /\ PaidFee = 0 /\ PaidOut = 0
      /\ PaidIn' = 0 /\ PaidFee' = 0 /\ PaidOut' = 0
  BY DEF Settling, PaidIn, PaidFee, PaidOut
<1>2. InFlight = ix.market /\ InFlight' = ix.market
  BY <1>1 DEF InFlight
<1>3. TypeOK'
  <2>1. Snapshot' \in Chains
    BY <1>1, SettlingFacts DEF Snapshot, Chains
  <2>2. phase' \in Phases /\ phase' # "idle" /\ phase # "idle"
    BY DEF Phases
  <2> QED BY <1>1, <2>1, <2>2 DEF IInv, TypeOK
<1>4. LiveSound'
  BY <1>1, <1>2 DEF IInv, LiveSound
<1>5. SavedSound'
  BY DEF IInv, SavedSound
<1>6. RolesSound'
  BY <1>1 DEF IInv, RolesSound, FeeLedgerOf, FeeVaultOf
<1>7. ReadsSound'
  BY <1>1 DEF IInv, ReadsSound
<1> QED BY <1>3, <1>4, <1>5, <1>6, <1>7 DEF IInv

\* The spike engine's evaluate moves no tokens, whoever calls it.
LEMMA EvaluateSound ==
  ASSUME IInv, evaluate
  PROVE  IInv'
<1>1. PICK call \in EvaluateCalls :
        /\ require_direct_core_cpi(call)
        /\ IsSpikeState(call.engine_state)
        /\ AddFits(engine[call.engine_state].sequence, 1)
        /\ engine' = [engine EXCEPT ![call.engine_state].sequence = @ + 1,
                                    ![call.engine_state].last_plan_hash = call.request.plan_hash]
        /\ ret' \in EvaluateReturns(engine[call.engine_state].mode, call.request.plan_hash)
  BY DEF evaluate
<1>2. phase = "engine" /\ call = CoreCall
  <2>1. ASSUME phase = "open" PROVE FALSE
    <3>1. call \in ForeignCalls
      BY <2>1 DEF EvaluateCalls
    <3> QED BY <1>1, <3>1 DEF ForeignCalls, require_direct_core_cpi
  <2> QED BY <1>1, <2>1 DEF EvaluateCalls
<1>3. /\ phase' = "receipt"
      /\ UNCHANGED <<token, market, domain, fee_ledger, donated, settled,
                     slot, signers, used, saved, ix>>
  BY <1>2 DEF evaluate
<1>4. ix \in Executions /\ engine \in EngineMaps
  BY <1>2, SettlingFacts DEF Settling
<1> DEFINE es == ix.engine_state
           hash == ix.plan_digest
<1>5. /\ call.engine_state = es /\ call.request.plan_hash = hash
      /\ es \in EngineStates /\ hash \in Digests
  BY <1>2, <1>4 DEF CoreCall, EngineRequest, Executions
<1>6. engine' \in EngineMaps
  <2>1. engine[es] \in EngineState
    BY <1>1, <1>4, <1>5 DEF IsSpikeState, EngineMaps
  <2> DEFINE new == [engine[es] EXCEPT !.sequence = @ + 1, !.last_plan_hash = hash]
  <2>2. new \in EngineState
    <3>1. engine[es].sequence + 1 \in U64
      BY <1>1, <1>5, <2>1, MathAssumption DEF EngineState, AddFits, U64
    <3> HIDE DEF es, hash
    <3> QED BY <1>5, <2>1, <3>1 DEF EngineState
  <2>3. engine' = [engine EXCEPT ![es] = new]
    BY <1>1, <1>4, <1>5 DEF EngineMaps
  <2> HIDE DEF new, es, hash
  <2> QED BY <1>4, <2>2, <2>3 DEF EngineMaps
<1>7. ret' \in Receipts \cup {None}
  <2> HIDE DEF es, hash
  <2>1. \A x \in EvaluateReturns(engine[es].mode, hash) : x \in Receipts \cup {None}
    <3>1. \A h \in {hash, OtherHash}, ok \in BOOLEAN : Receipt(SpikeEngine, ok, h) \in Receipts
      BY <1>5, KernelAssumption DEF Receipt, Receipts, Digests
    <3>2. \A x \in EvaluateReturns(engine[es].mode, hash) :
            \/ x = None
            \/ \E h \in {hash, OtherHash}, ok \in BOOLEAN : x = Receipt(SpikeEngine, ok, h)
      BY DEF EvaluateReturns
    <3> QED BY <3>1, <3>2
  <2> QED BY <1>1, <1>5, <2>1
<1> QED BY <1>2, <1>3, <1>6, <1>7, AnswerSound

\* An arbitrary engine, whatever it returns, moves no tokens.
LEMMA ForeignEvaluateSound ==
  ASSUME IInv, foreign_evaluate
  PROVE  IInv'
<1> USE DEF foreign_evaluate, chain
<1>1. ix \in Executions /\ engine \in EngineMaps /\ engine' = engine
  BY SettlingFacts DEF Settling
<1>2. ret' \in Receipts \cup {None}
  BY <1>1 DEF Receipt, Receipts, Executions, Digests
<1> QED BY <1>1, <1>2, AnswerSound

\* Reading the receipt changes the phase only.
LEMMA AcceptReceiptSound ==
  ASSUME IInv, accept_receipt
  PROVE  IInv'
<1>1. /\ phase = "receipt" /\ phase' = "input"
      /\ UNCHANGED <<token, market, domain, fee_ledger, donated, settled,
                     slot, signers, used, saved, ix, engine, ret>>
  BY DEF accept_receipt, chain
<1>2. engine' \in EngineMaps /\ ret' \in Receipts \cup {None}
  BY <1>1, SettlingFacts DEF Settling
<1> QED BY <1>1, <1>2, AnswerSound

\* The accounts an execution names, as validation leaves them.
ValidRoles(m, d, l, va, vb, fv, user, source, destination) ==
  /\ market[m] # None /\ domain[d] # None /\ fee_ledger[l] # None
  /\ d = DomainPda(m) /\ l = FeeLedgerOf(m)
  /\ va = VaultA(m) /\ vb = VaultB(m) /\ fv = FeeVaultOf(m)
  /\ token[source] # None /\ token[source].owner = user
  /\ token[destination] # None /\ token[destination].mint = market[m].mint_b
  /\ destination \notin {source, va, vb, fv}

\* What execute_engine_probe_v0 validates and caches satisfies the invariant of an
\* execution in flight.
LEMMA ExecuteSound ==
  ASSUME IInv, execute_engine_probe_v0
  PROVE  IInv'
<1>1. RunInstruction("engine") /\ phase = "open" /\ phase' = "engine" /\ ret' = None /\ UNCHANGED chain
  BY DEF execute_engine_probe_v0, RunInstruction
<1>2. PICK m \in Markets, d \in Domains, l \in FeeLedgers, va \in TokenAccounts,
           vb \in TokenAccounts, fv \in TokenAccounts, user \in signers, source \in TokenAccounts,
           destination \in TokenAccounts, args \in ExecuteArgs :
        /\ validate_market_domain(m, d)
        /\ validate_fee_ledger(m, l)
        /\ valid_engine_binding(market[m].engine_program, market[m].engine_state)
        /\ canonical_vault(va, d, ASSET_A_INDEX_V0, market[m].mint_a)
        /\ canonical_vault(vb, d, ASSET_B_INDEX_V0, market[m].mint_b)
        /\ canonical_fees(fv, l, market[m].mint_a)
        /\ validate_protected_token_account(source, market[m].mint_a, user)
        /\ validate_credit_destination(destination, market[m].mint_b)
        /\ amounts_within_limits(args, d, l, market[m].fee_bps)
        /\ ensure_distinct_roles(ExecuteRoles(user, m, d, l, va, vb, fv, source, destination))
        /\ ix' = Planned(user, m, d, l, va, vb, fv, source, destination, args)
  BY DEF execute_engine_probe_v0
<1>3. ValidRoles(m, d, l, va, vb, fv, user, source, destination)
  <2>1. destination \notin {source, va, vb, fv}
    <3> DEFINE keys == ExecuteRoles(user, m, d, l, va, vb, fv, source, destination)
    <3>1. /\ 7 \in DOMAIN keys /\ 8 \in DOMAIN keys /\ 9 \in DOMAIN keys
          /\ 10 \in DOMAIN keys /\ 11 \in DOMAIN keys
          /\ keys[7] = source /\ keys[8] = destination /\ keys[9] = va
          /\ keys[10] = vb /\ keys[11] = fv
      BY DEF ExecuteRoles
    <3>2. ensure_distinct_roles(keys)
      BY <1>2
    <3> HIDE DEF keys
    <3> QED BY <3>1, <3>2 DEF ensure_distinct_roles
  <2>2. /\ market[m] # None /\ domain[d] # None /\ d = DomainPda(m)
        /\ fee_ledger[l] # None /\ l = FeeLedgerOf(m)
    BY <1>2 DEF validate_market_domain, validate_fee_ledger, FeeLedgerOf
  <2>3. va = VaultA(m) /\ vb = VaultB(m) /\ fv = FeeVaultOf(m)
    BY <1>2, <2>2 DEF canonical_vault, canonical_fees, VaultA, VaultB, FeeVaultOf
  <2>4. /\ token[source] # None /\ token[source].owner = user
        /\ token[destination] # None /\ token[destination].mint = market[m].mint_b
    BY <1>2 DEF validate_protected_token_account, validate_credit_destination,
       validate_common_token_account
  <2> QED BY <2>1, <2>2, <2>3, <2>4 DEF ValidRoles
<1> DEFINE fee == fee_ceil(args.amount_in, market[m].fee_bps)
           plan == PlanBinding(user, m, d, l, va, vb, fv, source, destination, args)
<1>4. /\ market[m] \in MarketV0 /\ domain[d] \in DomainV0 /\ fee_ledger[l] \in FeeLedgerV0
      /\ token[source] \in TokenAccount /\ token[destination] \in TokenAccount
      /\ token[va] \in TokenAccount /\ token[vb] \in TokenAccount /\ token[fv] \in TokenAccount
  <2>1. token[va] # None /\ token[vb] # None /\ token[fv] # None
    BY <1>2 DEF canonical_vault, canonical_fees, validate_protected_token_account,
       validate_common_token_account
  <2> QED BY <1>1, <1>3, <2>1, OpenFacts DEF ValidRoles, MarketStates, DomainStates,
             FeeLedgerStates, TokenStates
<1>5. args \in ExecuteEngineProbeV0Args /\ user \in Users /\ market[m].engine_state \in EngineStates
  BY <1>1, <1>4, KernelAssumption, OpenFacts DEF MarketV0
<1>6. /\ fee \in U64
      /\ domain[d].accounted_a + args.amount_in \in U64
      /\ domain[d].accounted_b - args.amount_out \in U64
      /\ fee_ledger[l].accounted_fee_a + fee \in U64
  <2>1. /\ fee_ceil_ok(args.amount_in, market[m].fee_bps)
        /\ AddFits(domain[d].accounted_a, args.amount_in)
        /\ domain[d].accounted_b >= args.amount_out
        /\ AddFits(fee_ledger[l].accounted_fee_a, fee)
    BY <1>2 DEF amounts_within_limits
  <2>2. fee \in U64
    BY <2>1 DEF fee_ceil_ok
  <2>3. /\ domain[d].accounted_a \in U64 /\ domain[d].accounted_b \in U64
        /\ fee_ledger[l].accounted_fee_a \in U64 /\ args.amount_in \in U64 /\ args.amount_out \in U64
    BY <1>4, <1>5 DEF DomainV0, FeeLedgerV0, ExecuteEngineProbeV0Args
  <2> HIDE DEF fee
  <2>4. domain[d].accounted_a + args.amount_in \in U64
    BY <2>1, <2>3, MathAssumption DEF AddFits, U64
  <2>5. domain[d].accounted_b - args.amount_out \in U64
    BY <2>1, <2>3, MathAssumption DEF U64
  <2>6. fee_ledger[l].accounted_fee_a + fee \in U64
    BY <2>1, <2>2, <2>3, MathAssumption DEF AddFits, U64
  <2> QED BY <2>2, <2>4, <2>5, <2>6
<1>7. compute_plan_hash(plan) \in Digests
  <2>1. domain[d].accounted_a \in U64 /\ domain[d].accounted_b \in U64
        /\ fee_ledger[l].accounted_fee_a \in U64
    BY <1>4 DEF DomainV0, FeeLedgerV0
  <2>2. plan \in PlanBindings
    BY <1>5, <1>6, <2>1 DEF PlanBinding, PlanBindings
  <2> HIDE DEF plan
  <2> QED BY <2>2 DEF compute_plan_hash, Digests
<1>8. ix' \in Executions
  <2>1. /\ token[source].amount \in U64 /\ token[destination].amount \in U64
        /\ token[va].amount \in U64 /\ token[vb].amount \in U64 /\ token[fv].amount \in U64
    BY <1>4 DEF TokenAccount
  <2>2. Planned(user, m, d, l, va, vb, fv, source, destination, args) \in Executions
    <3> HIDE DEF plan
    <3> QED BY <1>5, <1>6, <1>7, <2>1 DEF Planned, Executions, plan
  <2> QED BY <1>2, <2>2
<1>9. TypeOK'
  <2>1. Snapshot' \in Chains
    BY <1>1 DEF IInv, TypeOK, Snapshot, chain
  <2> QED BY <1>1, <1>8, <2>1, FrameTyped DEF IInv, Phases, Settling
<1>10. /\ ix'.market = m /\ ix'.domain = d /\ ix'.fee_ledger = l /\ ix'.vault_a = va
       /\ ix'.vault_b = vb /\ ix'.fee_vault = fv /\ ix'.source = source
       /\ ix'.destination = destination /\ ix'.user = user /\ ix'.args = args
       /\ ix'.protocol_fee = fee
       /\ ix'.post_accounted_a = domain[d].accounted_a + args.amount_in
       /\ ix'.post_accounted_b = domain[d].accounted_b - args.amount_out
       /\ ix'.post_accounted_fee_a = fee_ledger[l].accounted_fee_a + fee
       /\ ix'.source_before = token[source].amount
       /\ ix'.destination_before = token[destination].amount
       /\ ix'.vault_a_before = token[va].amount
       /\ ix'.vault_b_before = token[vb].amount
       /\ ix'.fee_vault_before = token[fv].amount
  BY <1>2 DEF Planned
<1>11. PaidIn' = 0 /\ PaidFee' = 0 /\ PaidOut' = 0 /\ InFlight' = m
  BY <1>1, <1>10 DEF PaidIn, PaidFee, PaidOut, InFlight, Settling
<1>12. LiveSound'
  <2>1. Backed(token, market, domain, fee_ledger, donated, m, 0, 0, 0)
    BY <1>1, OpenFacts DEF Backed
  <2> QED BY <1>1, <1>11, <2>1, OpenFacts DEF LiveSound, chain
<1>13. SavedSound'
  BY <1>1 DEF IInv, SavedSound, RunInstruction
<1>14. RolesSound'
  <2>1. FeeLedgerOf(m)' = FeeLedgerOf(m) /\ FeeVaultOf(m)' = FeeVaultOf(m)
    BY <1>1 DEF FeeLedgerOf, FeeVaultOf, chain
  <2> QED BY <1>1, <1>3, <1>10, <2>1 DEF RolesSound, ValidRoles, chain, FeeLedgerOf, FeeVaultOf
<1>15. ReadsSound'
  <2>1. /\ token[source].amount \in Int /\ token[destination].amount \in Int
        /\ token[va].amount \in Int /\ token[vb].amount \in Int /\ token[fv].amount \in Int
    BY <1>4, MathAssumption DEF TokenAccount, U64
  <2> HIDE DEF fee
  <2> QED BY <1>1, <1>10, <1>11, <2>1 DEF ReadsSound, chain
<1> QED BY <1>9, <1>12, <1>13, <1>14, <1>15 DEF IInv

\* The keys of the execution in flight are what validation found them to be.
LEMMA FlightFacts ==
  ASSUME IInv, phase \in Settling
  PROVE  /\ ix.market \in Markets /\ market[ix.market] # None
         /\ market[ix.market].mint_a \in Mints
         /\ ix.vault_a = VaultA(ix.market) /\ ix.vault_a \in CoreVaults
         /\ ix.vault_b = VaultB(ix.market) /\ ix.vault_b \in CoreVaults
         /\ ix.fee_vault = FeeVaultAt(ix.market, market[ix.market].mint_a)
         /\ ix.fee_vault \in CoreVaults
         /\ ix.vault_a # ix.vault_b /\ ix.fee_vault # ix.vault_a /\ ix.fee_vault # ix.vault_b
         /\ ix.source \in TokenAccounts /\ ix.source \notin CoreVaults
         /\ ix.destination \in TokenAccounts
         /\ ix.destination \notin {ix.source, ix.vault_a, ix.vault_b, ix.fee_vault}
         /\ ix.user # None /\ ix.domain # None
         /\ ix.args.amount_in \in U64 /\ ix.args.amount_out \in U64 /\ ix.protocol_fee \in U64
<1>1. /\ ix \in Executions /\ market \in MarketStates
      /\ Canonical(token, market, domain, fee_ledger, donated)
  BY SettlingFacts
<1>2. /\ ix.market \in Markets /\ ix.user \in Users /\ ix.args \in ExecuteArgs
      /\ ix.source \in TokenAccounts /\ ix.destination \in TokenAccounts
      /\ ix.protocol_fee \in U64 /\ ix.domain \in Domains
  BY <1>1 DEF Executions
<1>3. /\ market[ix.market] # None
      /\ ix.vault_a = VaultA(ix.market) /\ ix.vault_b = VaultB(ix.market)
      /\ ix.fee_vault = FeeVaultAt(ix.market, market[ix.market].mint_a)
      /\ ix.destination \notin {ix.source, ix.vault_a, ix.vault_b, ix.fee_vault}
      /\ token[ix.source] # None /\ token[ix.source].owner = ix.user
  BY DEF IInv, RolesSound, FeeVaultOf, FeeLedgerOf, FeeVaultAt
<1>4. market[ix.market].mint_a \in Mints
  BY <1>1, <1>2, <1>3 DEF MarketStates, MarketV0
<1>5. /\ ix.vault_a \in CoreVaults /\ ix.vault_b \in CoreVaults /\ ix.fee_vault \in CoreVaults
      /\ ix.vault_a # ix.vault_b /\ ix.fee_vault # ix.vault_a /\ ix.fee_vault # ix.vault_b
  BY <1>2, <1>3, <1>4, Addresses
<1>6. ix.source \notin CoreVaults
  BY <1>1, <1>2, <1>3 DEF Canonical
<1>7. ix.args.amount_in \in U64 /\ ix.args.amount_out \in U64
  BY <1>2, KernelAssumption DEF ExecuteEngineProbeV0Args
<1>8. ix.user # None /\ ix.domain # None
  BY <1>2, KeyAssumption
<1> QED BY <1>2, <1>3, <1>4, <1>5, <1>6, <1>7, <1>8


\* A transfer of the settlement leaves the execution's accounts what they were but
\* for the two balances it changes.
LEMMA SettleKeeps ==
  ASSUME IInv, phase \in Settling, phase' \in Settling,
         NEW from \in TokenAccounts, NEW to \in TokenAccounts, from # to,
         NEW mint, NEW amount \in U64, NEW authority, authority # None,
         Settle(from, to, mint, amount, authority),
         donated' \in DonatedStates,
         \A v \in CoreVaults : token[v] = None => donated'[v] = donated[v]
  PROVE  /\ TypeOK' /\ SavedSound' /\ RolesSound'
         /\ token' \in TokenStates
         /\ Moved(token, token', from, to, amount)
         /\ Canonical(token', market, domain, fee_ledger, donated')
<1>1. /\ CanTransfer(token, from, to, mint, amount, authority)
      /\ token' = Transferred(token, from, to, amount, authority)
      /\ UNCHANGED <<market, domain, fee_ledger, engine, settled, slot, signers, used, saved, ix, ret>>
  BY DEF Settle
<1>2. token \in TokenStates /\ Canonical(token, market, domain, fee_ledger, donated)
      /\ market \in MarketStates
  BY SettlingFacts
<1>3. token' \in TokenStates /\ Moved(token, token', from, to, amount) /\ Kept(token, token')
  BY <1>1, <1>2, TransferEffect
<1>4. Canonical(token', market, domain, fee_ledger, donated')
  BY <1>1, <1>2, TransferKeepsCanonical
<1>5. TypeOK'
  <2>1. Snapshot' \in Chains
    BY <1>1, <1>3, SettlingFacts DEF Snapshot, Chains
  <2>2. phase' \in Phases /\ phase' # "idle" /\ phase # "idle"
    BY DEF Phases, Settling
  <2> QED BY <1>1, <2>1, <2>2 DEF IInv, TypeOK
<1>6. SavedSound'
  <2>1. phase # "idle"
    BY DEF Settling
  <2> QED BY <1>1, <2>1 DEF IInv, SavedSound
<1>7. RolesSound'
  <2>1. /\ token'[ix.source] # None /\ token'[ix.source].owner = token[ix.source].owner
        /\ token'[ix.destination] # None
        /\ token'[ix.destination].mint = token[ix.destination].mint
    <3>1. /\ ix.source \in TokenAccounts /\ ix.destination \in TokenAccounts
      BY FlightFacts
    <3> QED BY <1>3, <3>1 DEF Kept, IInv, RolesSound
  <2>2. FeeLedgerOf(ix.market)' = FeeLedgerOf(ix.market) /\ FeeVaultOf(ix.market)' = FeeVaultOf(ix.market)
    BY <1>1 DEF FeeLedgerOf, FeeVaultOf
  <2> QED BY <1>1, <2>1, <2>2 DEF IInv, RolesSound
<1> QED BY <1>3, <1>4, <1>5, <1>6, <1>7

\* The vaults of a market that is not being settled are none of the execution's.
LEMMA OtherVaults ==
  ASSUME IInv, phase \in Settling, NEW m \in Markets, m # ix.market, NEW p \in Mints
  PROVE  {VaultA(m), VaultB(m), FeeVaultAt(m, p)}
           \cap {ix.source, ix.vault_a, ix.vault_b, ix.fee_vault} = {}
<1>1. /\ VaultA(m) \in CoreVaults /\ VaultB(m) \in CoreVaults /\ FeeVaultAt(m, p) \in CoreVaults
  BY Addresses
<1>2. /\ ix.market \in Markets /\ market[ix.market].mint_a \in Mints
      /\ ix.vault_a = VaultA(ix.market) /\ ix.vault_b = VaultB(ix.market)
      /\ ix.fee_vault = FeeVaultAt(ix.market, market[ix.market].mint_a)
      /\ ix.source \notin CoreVaults
  BY FlightFacts
<1>3. VaultA(m) \notin {ix.source, ix.vault_a, ix.vault_b, ix.fee_vault}
  BY <1>1, <1>2, Addresses
<1>4. VaultB(m) \notin {ix.source, ix.vault_a, ix.vault_b, ix.fee_vault}
  BY <1>1, <1>2, Addresses
<1>5. FeeVaultAt(m, p) \notin {ix.source, ix.vault_a, ix.vault_b, ix.fee_vault}
  BY <1>1, <1>2, Addresses
<1> QED BY <1>3, <1>4, <1>5

\* The other markets balance after a payment of the user's: none of their vaults moved.
LEMMA OthersUntouched ==
  ASSUME IInv, phase \in Settling, NEW to \in {ix.vault_a, ix.fee_vault}, NEW amount,
         Moved(token, token', ix.source, to, amount), donated' = donated,
         NEW m \in Markets, m # ix.market, market[m] # None
  PROVE  Balanced(token', market, domain, fee_ledger, donated', m, 0, 0, 0)
<1> DEFINE p == market[m].mint_a
<1>1. /\ p \in Mints
      /\ VaultA(m) \in CoreVaults /\ VaultB(m) \in CoreVaults /\ FeeVaultAt(m, p) \in CoreVaults
  BY SettlingFacts, MarketNumbers
<1>2. /\ token'[VaultA(m)] = token[VaultA(m)] /\ token'[VaultB(m)] = token[VaultB(m)]
      /\ token'[FeeVaultAt(m, p)] = token[FeeVaultAt(m, p)]
  BY <1>1, OtherVaults DEF Moved, TokenAccounts
<1>3. Balanced(token, market, domain, fee_ledger, donated, m, 0, 0, 0)
  BY SettlingFacts DEF Backed
<1> QED BY <1>2, <1>3 DEF Balanced

\* After the input transfer the domain's input vault is ahead of its accounting by
\* exactly the input.
LEMMA TransferInputSound ==
  ASSUME IInv, transfer_input
  PROVE  IInv'
<1> DEFINE amount == ix.args.amount_in
           n == ix.market
           v == FeeVaultAt(n, market[n].mint_a)
<1>1. /\ phase = "input" /\ phase' = "fee" /\ donated' = donated
      /\ Settle(ix.source, ix.vault_a, market[n].mint_a, amount, ix.user)
      /\ UNCHANGED <<market, domain, fee_ledger, ix>>
  BY DEF transfer_input, Settle
<1>2. phase \in Settling /\ phase' \in Settling
  BY <1>1 DEF Settling
<1>3. /\ PaidIn = 0 /\ PaidFee = 0 /\ PaidOut = 0 /\ InFlight' = n
      /\ PaidIn' = amount /\ PaidFee' = 0 /\ PaidOut' = 0
  BY <1>1 DEF PaidIn, PaidFee, PaidOut, InFlight, Settling
<1>4. ix.source # ix.vault_a /\ ix.vault_a \in TokenAccounts
  BY <1>2, FlightFacts DEF TokenAccounts
<1>5. /\ TypeOK' /\ SavedSound' /\ RolesSound' /\ token' \in TokenStates
      /\ Moved(token, token', ix.source, ix.vault_a, amount)
      /\ Canonical(token', market, domain, fee_ledger, donated')
  <2>1. donated \in DonatedStates
    BY <1>2, SettlingFacts
  <2> QED BY <1>1, <1>2, <1>4, <2>1, FlightFacts, SettleKeeps
<1>6. /\ token'[ix.source].amount = token[ix.source].amount - amount
      /\ token'[ix.vault_a].amount = token[ix.vault_a].amount + amount
      /\ token'[ix.vault_b] = token[ix.vault_b]
      /\ token'[ix.fee_vault] = token[ix.fee_vault]
      /\ token'[ix.destination] = token[ix.destination]
  BY <1>2, <1>5, FlightFacts DEF Moved, TokenAccounts
<1>7. Balanced(token', market, domain, fee_ledger, donated', n, amount, 0, 0)
  <2>1. Balanced(token, market, domain, fee_ledger, donated, n, 0, 0, 0)
    BY <1>2, <1>3, SettlingFacts, FlightFacts DEF Backed
  <2>2. MarketInts(token, market, domain, fee_ledger, donated, n)
    BY <1>2, SettlingFacts, FlightFacts, MarketNumbers
  <2>3. amount \in Int
    BY <1>2, FlightFacts, MathAssumption DEF U64
  <2>4. token'[VaultA(n)].amount = domain[DomainPda(n)].accounted_a + donated[VaultA(n)] + amount
    BY <1>2, <1>6, <2>1, <2>2, <2>3, FlightFacts DEF Balanced, MarketInts
  <2>5. token'[VaultB(n)] = token[VaultB(n)] /\ token'[v] = token[v]
    BY <1>2, <1>6, FlightFacts
  <2> QED BY <1>1, <2>1, <2>4, <2>5 DEF Balanced
<1>8. LiveSound'
  <2>1. Backed(token', market, domain, fee_ledger, donated', n, amount, 0, 0)
    <3>1. ASSUME NEW m \in Markets, m # n, market[m] # None
          PROVE  Balanced(token', market, domain, fee_ledger, donated', m, 0, 0, 0)
      BY <1>1, <1>2, <1>5, <3>1, OthersUntouched
    <3> QED BY <1>7, <3>1 DEF Backed
  <2> QED BY <1>1, <1>3, <1>5, <2>1 DEF LiveSound
<1>9. ReadsSound'
  <2>1. /\ token[ix.source].amount = ix.source_before - 0
        /\ token[ix.vault_a].amount = ix.vault_a_before + 0
        /\ token[ix.fee_vault].amount = ix.fee_vault_before + 0
        /\ token[ix.vault_b].amount = ix.vault_b_before - 0
        /\ token[ix.destination].amount = ix.destination_before + 0
    BY <1>2, <1>3 DEF IInv, ReadsSound
  <2>2. ix.source_before \in Int /\ ix.vault_a_before \in Int /\ amount \in Int
    BY <1>2, SettlingFacts, FlightFacts, MathAssumption DEF Executions, U64
  <2>3. /\ token'[ix.source].amount = ix.source_before - (amount + 0)
        /\ token'[ix.vault_a].amount = ix.vault_a_before + amount
    BY <1>6, <2>1, <2>2
  <2>4. /\ ix.post_accounted_a = domain[ix.domain].accounted_a + ix.args.amount_in
        /\ ix.post_accounted_b = domain[ix.domain].accounted_b - ix.args.amount_out
        /\ ix.post_accounted_fee_a = fee_ledger[ix.fee_ledger].accounted_fee_a + ix.protocol_fee
    BY <1>2 DEF IInv, ReadsSound
  <2> QED BY <1>1, <1>3, <1>6, <2>1, <2>3, <2>4 DEF ReadsSound
<1> QED BY <1>5, <1>8, <1>9 DEF IInv

\* After the fee transfer the fee vault is ahead of its ledger by exactly the fee.
LEMMA TransferFeeSound ==
  ASSUME IInv, transfer_fee
  PROVE  IInv'
<1> DEFINE amount == ix.args.amount_in
           fee == ix.protocol_fee
           n == ix.market
           v == FeeVaultAt(n, market[n].mint_a)
<1>1. /\ phase = "fee" /\ phase' = "output" /\ donated' = donated
      /\ Settle(ix.source, ix.fee_vault, market[n].mint_a, fee, ix.user)
      /\ UNCHANGED <<market, domain, fee_ledger, ix>>
  BY DEF transfer_fee, Settle
<1>2. phase \in Settling /\ phase' \in Settling
  BY <1>1 DEF Settling
<1>3. /\ PaidIn = amount /\ PaidFee = 0 /\ PaidOut = 0 /\ InFlight' = n
      /\ PaidIn' = amount /\ PaidFee' = fee /\ PaidOut' = 0
  BY <1>1 DEF PaidIn, PaidFee, PaidOut, InFlight, Settling
<1>4. ix.source # ix.fee_vault /\ ix.fee_vault \in TokenAccounts
  BY <1>2, FlightFacts DEF TokenAccounts
<1>5. /\ TypeOK' /\ SavedSound' /\ RolesSound' /\ token' \in TokenStates
      /\ Moved(token, token', ix.source, ix.fee_vault, fee)
      /\ Canonical(token', market, domain, fee_ledger, donated')
  <2>1. donated \in DonatedStates
    BY <1>2, SettlingFacts
  <2> QED BY <1>1, <1>2, <1>4, <2>1, FlightFacts, SettleKeeps
<1>6. /\ token'[ix.source].amount = token[ix.source].amount - fee
      /\ token'[ix.fee_vault].amount = token[ix.fee_vault].amount + fee
      /\ token'[ix.vault_b] = token[ix.vault_b]
      /\ token'[ix.vault_a] = token[ix.vault_a]
      /\ token'[ix.destination] = token[ix.destination]
  BY <1>2, <1>5, FlightFacts DEF Moved, TokenAccounts
<1>7. Balanced(token', market, domain, fee_ledger, donated', n, amount, fee, 0)
  <2>1. Balanced(token, market, domain, fee_ledger, donated, n, amount, 0, 0)
    BY <1>2, <1>3, SettlingFacts, FlightFacts DEF Backed
  <2>2. MarketInts(token, market, domain, fee_ledger, donated, n)
    BY <1>2, SettlingFacts, FlightFacts, MarketNumbers
  <2>3. fee \in Int
    BY <1>2, FlightFacts, MathAssumption DEF U64
  <2>4. token'[v].amount = fee_ledger[FeeLedgerPda(n, market[n].mint_a)].accounted_fee_a
                             + donated[v] + fee
    BY <1>2, <1>6, <2>1, <2>2, <2>3, FlightFacts DEF Balanced, MarketInts
  <2>5. token'[VaultB(n)] = token[VaultB(n)] /\ token'[VaultA(n)] = token[VaultA(n)]
    BY <1>2, <1>6, FlightFacts
  <2> QED BY <1>1, <2>1, <2>4, <2>5 DEF Balanced
<1>8. LiveSound'
  <2>1. Backed(token', market, domain, fee_ledger, donated', n, amount, fee, 0)
    <3>1. ASSUME NEW m \in Markets, m # n, market[m] # None
          PROVE  Balanced(token', market, domain, fee_ledger, donated', m, 0, 0, 0)
      BY <1>1, <1>2, <1>5, <3>1, OthersUntouched
    <3> QED BY <1>7, <3>1 DEF Backed
  <2> QED BY <1>1, <1>3, <1>5, <2>1 DEF LiveSound
<1>9. ReadsSound'
  <2>1. /\ token[ix.source].amount = ix.source_before - (amount + 0)
        /\ token[ix.vault_a].amount = ix.vault_a_before + amount
        /\ token[ix.fee_vault].amount = ix.fee_vault_before + 0
        /\ token[ix.vault_b].amount = ix.vault_b_before - 0
        /\ token[ix.destination].amount = ix.destination_before + 0
    BY <1>2, <1>3 DEF IInv, ReadsSound
  <2>2. /\ ix.source_before \in Int /\ ix.fee_vault_before \in Int /\ amount \in Int /\ fee \in Int
    BY <1>2, SettlingFacts, FlightFacts, MathAssumption DEF Executions, U64
  <2>3. /\ token'[ix.source].amount = ix.source_before - (amount + fee)
        /\ token'[ix.fee_vault].amount = ix.fee_vault_before + fee
    BY <1>6, <2>1, <2>2
  <2>4. /\ ix.post_accounted_a = domain[ix.domain].accounted_a + ix.args.amount_in
        /\ ix.post_accounted_b = domain[ix.domain].accounted_b - ix.args.amount_out
        /\ ix.post_accounted_fee_a = fee_ledger[ix.fee_ledger].accounted_fee_a + ix.protocol_fee
    BY <1>2 DEF IInv, ReadsSound
  <2> QED BY <1>1, <1>3, <1>6, <2>1, <2>3, <2>4 DEF ReadsSound
<1> QED BY <1>5, <1>8, <1>9 DEF IInv

\* After the output transfer the domain's output vault is behind its accounting by
\* exactly the output, and a credited vault records a donation.
LEMMA TransferOutputSound ==
  ASSUME IInv, transfer_output
  PROVE  IInv'
<1> DEFINE amount == ix.args.amount_in
           fee == ix.protocol_fee
           out == ix.args.amount_out
           n == ix.market
           v == FeeVaultAt(n, market[n].mint_a)
<1>1. /\ phase = "output" /\ phase' = "finalize" /\ donated' = DonatedBy(ix.destination, out)
      /\ Settle(ix.vault_b, ix.destination, market[n].mint_b, out, ix.domain)
      /\ CanTransfer(token, ix.vault_b, ix.destination, market[n].mint_b, out, ix.domain)
      /\ token' = Transferred(token, ix.vault_b, ix.destination, out, ix.domain)
      /\ UNCHANGED <<market, domain, fee_ledger, ix>>
  BY DEF transfer_output, Settle
<1>2. phase \in Settling /\ phase' \in Settling
  BY <1>1 DEF Settling
<1>3. /\ PaidIn = amount /\ PaidFee = fee /\ PaidOut = 0 /\ InFlight' = n
      /\ PaidIn' = amount /\ PaidFee' = fee /\ PaidOut' = out
  BY <1>1 DEF PaidIn, PaidFee, PaidOut, InFlight, Settling
<1>4. ix.vault_b # ix.destination /\ ix.vault_b \in TokenAccounts
  BY <1>2, FlightFacts DEF TokenAccounts
<1>5. donated' \in DonatedStates /\ OnlyDonations(token, donated, token', donated', ix.vault_b)
  <2>1. token \in TokenStates /\ donated \in DonatedStates
    BY <1>2, SettlingFacts
  <2> QED BY <1>1, <1>2, <1>4, <2>1, FlightFacts, DonationRecorded
<1>6. /\ TypeOK' /\ SavedSound' /\ RolesSound' /\ token' \in TokenStates
      /\ Moved(token, token', ix.vault_b, ix.destination, out)
      /\ Canonical(token', market, domain, fee_ledger, donated')
  <2>1. \A x \in CoreVaults : token[x] = None => donated'[x] = donated[x]
    BY <1>5 DEF OnlyDonations
  <2> QED BY <1>1, <1>2, <1>4, <1>5, <2>1, FlightFacts, SettleKeeps
<1>7. /\ token'[ix.vault_b].amount = token[ix.vault_b].amount - out
      /\ token'[ix.destination].amount = token[ix.destination].amount + out
      /\ token'[ix.vault_a] = token[ix.vault_a]
      /\ token'[ix.fee_vault] = token[ix.fee_vault]
      /\ token'[ix.source] = token[ix.source]
  BY <1>2, <1>6, FlightFacts DEF Moved, TokenAccounts
\* The payee is no vault of this market: its donations are what they were.
<1>8. \A x \in {ix.vault_a, ix.vault_b, ix.fee_vault} : donated'[x] = donated[x]
  BY <1>1, <1>2, FlightFacts DEF DonatedBy
<1>9. Balanced(token', market, domain, fee_ledger, donated', n, amount, fee, out)
  <2>1. Balanced(token, market, domain, fee_ledger, donated, n, amount, fee, 0)
    BY <1>2, <1>3, SettlingFacts, FlightFacts DEF Backed
  <2>2. MarketInts(token, market, domain, fee_ledger, donated, n)
    BY <1>2, SettlingFacts, FlightFacts, MarketNumbers
  <2>3. out \in Int
    BY <1>2, FlightFacts, MathAssumption DEF U64
  <2>4. token'[VaultB(n)].amount + out = domain[DomainPda(n)].accounted_b + donated[VaultB(n)]
    <3>1. token[VaultB(n)].amount + 0 = domain[DomainPda(n)].accounted_b + donated[VaultB(n)]
      BY <2>1 DEF Balanced
    <3>2. /\ token[VaultB(n)].amount \in Int /\ domain[DomainPda(n)].accounted_b \in Int
          /\ donated[VaultB(n)] \in Int
      BY <2>2 DEF MarketInts
    <3>3. token'[VaultB(n)].amount = token[VaultB(n)].amount - out
      BY <1>2, <1>7, FlightFacts
    <3> QED BY <2>3, <3>1, <3>2, <3>3
  <2>5. token'[VaultA(n)] = token[VaultA(n)] /\ token'[v] = token[v]
    BY <1>2, <1>7, FlightFacts
  <2>6. donated'[VaultA(n)] = donated[VaultA(n)] /\ donated'[VaultB(n)] = donated[VaultB(n)]
        /\ donated'[v] = donated[v]
    BY <1>2, <1>8, FlightFacts
  <2> QED BY <1>1, <2>1, <2>4, <2>5, <2>6 DEF Balanced
<1>10. ASSUME NEW m \in Markets, m # n, market[m] # None
       PROVE  Balanced(token', market, domain, fee_ledger, donated', m, 0, 0, 0)
  <2> DEFINE w == FeeVaultAt(m, market[m].mint_a)
  <2>1. Balanced(token, market, domain, fee_ledger, donated, m, 0, 0, 0)
    BY <1>2, <1>10, SettlingFacts DEF Backed
  <2>2. MarketInts(token, market, domain, fee_ledger, donated, m)
    BY <1>2, <1>10, SettlingFacts, MarketNumbers
  <2>3. MarketInts(token', market, domain, fee_ledger, donated', m)
    BY <1>2, <1>5, <1>6, <1>10, SettlingFacts, MarketNumbers
  <2>4. /\ market[m].mint_a \in Mints
        /\ VaultA(m) \in CoreVaults /\ VaultB(m) \in CoreVaults /\ w \in CoreVaults
        /\ token[VaultA(m)] # None /\ token[VaultB(m)] # None /\ token[w] # None
    BY <1>2, <1>10, SettlingFacts, MarketNumbers, KeyAssumption
  <2>5. VaultA(m) # ix.vault_b /\ VaultB(m) # ix.vault_b /\ w # ix.vault_b
    BY <1>2, <1>10, <2>4, OtherVaults
  <2>6. /\ token'[VaultA(m)].amount - donated'[VaultA(m)] = token[VaultA(m)].amount - donated[VaultA(m)]
        /\ token'[VaultB(m)].amount - donated'[VaultB(m)] = token[VaultB(m)].amount - donated[VaultB(m)]
        /\ token'[w].amount - donated'[w] = token[w].amount - donated[w]
    BY <1>5, <2>4, <2>5 DEF OnlyDonations
  <2> QED BY <2>1, <2>2, <2>3, <2>6, VaultShift
<1>11. LiveSound'
  <2>1. Backed(token', market, domain, fee_ledger, donated', n, amount, fee, out)
    BY <1>9, <1>10 DEF Backed
  <2> QED BY <1>1, <1>3, <1>6, <2>1 DEF LiveSound
<1>12. ReadsSound'
  <2>1. /\ token[ix.source].amount = ix.source_before - (amount + fee)
        /\ token[ix.vault_a].amount = ix.vault_a_before + amount
        /\ token[ix.fee_vault].amount = ix.fee_vault_before + fee
        /\ token[ix.vault_b].amount = ix.vault_b_before - 0
        /\ token[ix.destination].amount = ix.destination_before + 0
    BY <1>2, <1>3 DEF IInv, ReadsSound
  <2>2. ix.vault_b_before \in Int /\ ix.destination_before \in Int /\ out \in Int
    BY <1>2, SettlingFacts, FlightFacts, MathAssumption DEF Executions, U64
  <2>3. /\ token'[ix.vault_b].amount = ix.vault_b_before - out
        /\ token'[ix.destination].amount = ix.destination_before + out
    BY <1>7, <2>1, <2>2
  <2>4. /\ ix.post_accounted_a = domain[ix.domain].accounted_a + ix.args.amount_in
        /\ ix.post_accounted_b = domain[ix.domain].accounted_b - ix.args.amount_out
        /\ ix.post_accounted_fee_a = fee_ledger[ix.fee_ledger].accounted_fee_a + ix.protocol_fee
    BY <1>2 DEF IInv, ReadsSound
  <2> QED BY <1>1, <1>3, <1>7, <2>1, <2>3, <2>4 DEF ReadsSound
<1> QED BY <1>6, <1>11, <1>12 DEF IInv

\* Writing the accounting computed before the engine ran closes the books: what
\* the transfers moved is now accounted for.
LEMMA FinalizeSound ==
  ASSUME IInv, finalize
  PROVE  IInv'
<1> DEFINE n == ix.market
           d == DomainPda(n)
           l == FeeLedgerPda(n, market[n].mint_a)
           v == FeeVaultAt(n, market[n].mint_a)
           newDomain == [domain[d] EXCEPT !.accounted_a = ix.post_accounted_a,
                                          !.accounted_b = ix.post_accounted_b]
           newLedger == [fee_ledger[l] EXCEPT !.accounted_fee_a = ix.post_accounted_fee_a]
<1>1. /\ phase = "finalize" /\ phase' = "open" /\ ix' = None /\ ret' = None
      /\ UNCHANGED <<token, market, engine, donated, slot, signers, used, saved>>
  BY DEF finalize
<1>2. phase \in Settling
  BY <1>1 DEF Settling
<1>3. ix.domain = d /\ ix.fee_ledger = l
  BY <1>2 DEF IInv, RolesSound, FeeLedgerOf
<1>4. /\ d \in Domains /\ l \in FeeLedgers /\ domain[d] \in DomainV0 /\ fee_ledger[l] \in FeeLedgerV0
      /\ n \in Markets /\ market[n] # None /\ market[n].mint_a \in Mints
  BY <1>2, SettlingFacts, FlightFacts, MarketNumbers
<1>5. /\ ix.post_accounted_a \in U64 /\ ix.post_accounted_b \in U64
      /\ ix.post_accounted_fee_a \in U64 /\ ix.engine_state \in EngineStates
      /\ ix.plan_digest \in Digests
  BY <1>2, SettlingFacts DEF Executions
<1>6. newDomain \in DomainV0 /\ newLedger \in FeeLedgerV0
  BY <1>4, <1>5 DEF DomainV0, FeeLedgerV0
<1>7. /\ newDomain.accounted_a = ix.post_accounted_a /\ newDomain.accounted_b = ix.post_accounted_b
      /\ newLedger.accounted_fee_a = ix.post_accounted_fee_a
  BY <1>4 DEF DomainV0, FeeLedgerV0
<1>8. domain' = [domain EXCEPT ![d] = newDomain] /\ fee_ledger' = [fee_ledger EXCEPT ![l] = newLedger]
  <2>1. domain \in [Domains -> DomainV0 \cup {None}] /\ fee_ledger \in [FeeLedgers -> FeeLedgerV0 \cup {None}]
    BY <1>2, SettlingFacts DEF DomainStates, FeeLedgerStates
  <2> QED BY <1>3, <1>4, <2>1 DEF finalize
<1> HIDE DEF newDomain, newLedger
<1>9. /\ domain' \in DomainStates /\ domain'[d] = newDomain
      /\ \A x \in Domains : x # d => domain'[x] = domain[x]
      /\ fee_ledger' \in FeeLedgerStates /\ fee_ledger'[l] = newLedger
      /\ \A x \in FeeLedgers : x # l => fee_ledger'[x] = fee_ledger[x]
  BY <1>2, <1>4, <1>6, <1>8, SettlingFacts DEF DomainStates, FeeLedgerStates
<1>10. settled' \in [EngineStates -> [count : Nat, plan : Digests]]
  <2>1. settled \in [EngineStates -> [count : Nat, plan : Digests]]
    BY <1>2, SettlingFacts
  <2>2. [count |-> settled[ix.engine_state].count + 1, plan |-> ix.plan_digest]
           \in [count : Nat, plan : Digests]
    BY <1>5, <2>1
  <2>3. settled' = [settled EXCEPT ![ix.engine_state] =
                      [count |-> settled[ix.engine_state].count + 1, plan |-> ix.plan_digest]]
    BY DEF finalize
  <2> QED BY <2>1, <2>2, <2>3
<1>11. TypeOK'
  <2>1. Snapshot' \in Chains
    BY <1>1, <1>2, <1>9, <1>10, SettlingFacts DEF Snapshot, Chains
  <2> QED BY <1>1, <2>1 DEF IInv, TypeOK, Phases, Settling
<1>12. Canonical(token', market', domain', fee_ledger', donated')
  <2>1. /\ \A x \in Domains : domain[x] # None => domain'[x] # None
        /\ \A x \in FeeLedgers : fee_ledger[x] # None => fee_ledger'[x] # None
    BY <1>6, <1>9, KeyAssumption
  <2>2. \A m \in Markets : market[m] # None =>
          DomainPda(m) \in Domains /\ FeeLedgerPda(m, market[m].mint_a) \in FeeLedgers
    BY <1>2, SettlingFacts, MarketNumbers
  <2>3. Canonical(token, market, domain, fee_ledger, donated)
    BY <1>2, SettlingFacts
  <2> QED BY <1>1, <2>1, <2>2, <2>3 DEF Canonical
<1>13. Balanced(token, market, domain', fee_ledger', donated, n, 0, 0, 0)
  <2>1. Balanced(token, market, domain, fee_ledger, donated, n,
                 ix.args.amount_in, ix.protocol_fee, ix.args.amount_out)
    <3>1. /\ PaidIn = ix.args.amount_in /\ PaidFee = ix.protocol_fee /\ PaidOut = ix.args.amount_out
      BY <1>1 DEF PaidIn, PaidFee, PaidOut
    <3> QED BY <1>2, <1>4, <3>1, SettlingFacts DEF Backed
  <2>2. MarketInts(token, market, domain, fee_ledger, donated, n)
    BY <1>2, <1>4, SettlingFacts, MarketNumbers
  <2>3. /\ ix.args.amount_in \in Int /\ ix.args.amount_out \in Int /\ ix.protocol_fee \in Int
    BY <1>2, FlightFacts, MathAssumption DEF U64
  <2>4. /\ domain'[d].accounted_a = domain[d].accounted_a + ix.args.amount_in
        /\ domain'[d].accounted_b = domain[d].accounted_b - ix.args.amount_out
        /\ fee_ledger'[l].accounted_fee_a = fee_ledger[l].accounted_fee_a + ix.protocol_fee
    BY <1>2, <1>3, <1>7, <1>9 DEF IInv, ReadsSound
  <2>5. token[VaultA(n)].amount = domain'[d].accounted_a + donated[VaultA(n)] + 0
    <3>1. token[VaultA(n)].amount = domain[d].accounted_a + donated[VaultA(n)] + ix.args.amount_in
      BY <2>1 DEF Balanced
    <3>2. domain[d].accounted_a \in Int /\ donated[VaultA(n)] \in Int
      BY <2>2 DEF MarketInts
    <3> QED BY <2>3, <2>4, <3>1, <3>2
  <2>6. token[VaultB(n)].amount + 0 = domain'[d].accounted_b + donated[VaultB(n)]
    <3>1. token[VaultB(n)].amount + ix.args.amount_out = domain[d].accounted_b + donated[VaultB(n)]
      BY <2>1 DEF Balanced
    <3>2. /\ domain[d].accounted_b \in Int /\ donated[VaultB(n)] \in Int
          /\ token[VaultB(n)].amount \in Int
      BY <2>2 DEF MarketInts
    <3> QED BY <2>3, <2>4, <3>1, <3>2
  <2>7. token[v].amount = fee_ledger'[l].accounted_fee_a + donated[v] + 0
    <3>1. token[v].amount = fee_ledger[l].accounted_fee_a + donated[v] + ix.protocol_fee
      BY <2>1 DEF Balanced
    <3>2. fee_ledger[l].accounted_fee_a \in Int /\ donated[v] \in Int
      BY <2>2 DEF MarketInts
    <3> QED BY <2>3, <2>4, <3>1, <3>2
  <2> QED BY <2>5, <2>6, <2>7 DEF Balanced
<1>14. ASSUME NEW m \in Markets, m # n, market[m] # None
       PROVE  Balanced(token, market, domain', fee_ledger', donated, m, 0, 0, 0)
  <2>1. market[m].mint_a \in Mints
    BY <1>2, <1>14, SettlingFacts, MarketNumbers
  <2>2. /\ DomainPda(m) \in Domains /\ DomainPda(m) # d
        /\ FeeLedgerPda(m, market[m].mint_a) \in FeeLedgers
        /\ FeeLedgerPda(m, market[m].mint_a) # l
    BY <1>4, <1>14, <2>1, Addresses
  <2>3. Balanced(token, market, domain, fee_ledger, donated, m, 0, 0, 0)
    BY <1>2, <1>14, SettlingFacts DEF Backed
  <2> QED BY <1>9, <2>2, <2>3 DEF Balanced
<1>15. InFlight' = None /\ PaidIn' = 0 /\ PaidFee' = 0 /\ PaidOut' = 0
  BY <1>1 DEF InFlight, PaidIn, PaidFee, PaidOut, Settling
<1>16. LiveSound'
  <2>1. Backed(token, market, domain', fee_ledger', donated, None, 0, 0, 0)
    BY <1>13, <1>14 DEF Backed
  <2> QED BY <1>1, <1>12, <1>15, <2>1 DEF LiveSound
<1>17. SavedSound'
  BY <1>1 DEF IInv, SavedSound
<1> QED BY <1>1, <1>11, <1>16, <1>17 DEF IInv, RolesSound, ReadsSound, Settling

(***************************************************************************)
(* The theorems.                                                           *)
(***************************************************************************)
\* A step that changes nothing keeps the invariant.
LEMMA StutterSound ==
  ASSUME IInv, UNCHANGED vars
  PROVE  IInv'
<1> USE DEF vars, ledgerVars, chain
<1>1. TypeOK'
  BY DEF IInv, TypeOK, Snapshot
<1>2. LiveSound'
  BY DEF IInv, LiveSound, InFlight, PaidIn, PaidFee, PaidOut
<1>3. SavedSound'
  BY DEF IInv, SavedSound
<1>4. RolesSound'
  BY DEF IInv, RolesSound, FeeLedgerOf, FeeVaultOf
<1>5. ReadsSound'
  BY DEF IInv, ReadsSound, PaidIn, PaidFee, PaidOut
<1> QED BY <1>1, <1>2, <1>3, <1>4, <1>5 DEF IInv

\* Every step of the kernel keeps the inductive invariant.
LEMMA StepSound == IInv /\ [Next]_vars => IInv'
<1> SUFFICES ASSUME IInv, [Next]_vars PROVE IInv'
  OBVIOUS
<1>1. CASE Frame
  <2>1. ASSUME NEW S \in SUBSET Users \ {{}}, BeginTransaction(S), UNCHANGED <<ix, ret>>
        PROVE  IInv'
    BY <2>1, BeginSound
  <2>2. CASE CommitTransaction /\ UNCHANGED <<ix, ret>>
    BY <2>2, CommitSound
  <2>3. CASE AbortTransaction /\ ix' = None /\ ret' = None
    BY <2>3, AbortSound
  <2>4. CASE AdvanceSlot /\ UNCHANGED <<ix, ret>>
    BY <2>4, SlotSound
  <2>5. CASE SplTransfer /\ UNCHANGED <<ix, ret>>
    BY <2>5, SplTransferSound
  <2>6. CASE initialize_market_domain_v0 /\ UNCHANGED <<ix, ret>>
    BY <2>6, InitializeSound
  <2>7. CASE deposit_v0 /\ UNCHANGED <<ix, ret>>
    BY <2>7, DepositSound
  <2> QED BY <1>1, <2>1, <2>2, <2>3, <2>4, <2>5, <2>6, <2>7 DEF Frame
<1>2. CASE Execution
  BY <1>2, ExecuteSound, EvaluateSound, ForeignEvaluateSound, AcceptReceiptSound,
     TransferInputSound, TransferFeeSound, TransferOutputSound, FinalizeSound DEF Execution
<1>3. CASE engine_initialize
  BY <1>3, EngineInitializeSound
<1>4. CASE set_mode
  BY <1>4, SetModeSound
<1>5. CASE UNCHANGED vars
  BY <1>5, StutterSound
<1> QED BY <1>1, <1>2, <1>3, <1>4, <1>5 DEF Next

\* The inductive invariant holds throughout every behaviour.
THEOREM Sound == Spec => []IInv
<1>1. Init => IInv
  BY InitSound
<1>2. IInv /\ [Next]_vars => IInv'
  BY StepSound
<1> QED BY <1>1, <1>2, PTL DEF Spec

\* Every account Core, SPL Token and the spike engine keep holds a value of its
\* kind in every reachable state, so none of the u64 fields the checked
\* operations guard ever leaves its range.
THEOREM TypeCorrect == Spec => []TypeOK
<1>1. IInv => TypeOK
  BY DEF IInv
<1> QED BY <1>1, Sound, PTL

\* For any number of users, markets and instructions: between instructions the
\* raw balance of each vault is Core's accounting plus the donations to it
\* (deposit_v0, execute_engine_probe_v0 and every rollback).
THEOREM AccountingExact == Spec => []VaultAccounting
<1>1. IInv => VaultAccounting
  <2> SUFFICES ASSUME IInv, phase \in {"idle", "open"}, NEW m \in Created
               PROVE  /\ token[VaultA(m)].amount = domain[DomainPda(m)].accounted_a + donated[VaultA(m)]
                      /\ token[VaultB(m)].amount = domain[DomainPda(m)].accounted_b + donated[VaultB(m)]
                      /\ token[FeeVaultOf(m)].amount
                           = fee_ledger[FeeLedgerOf(m)].accounted_fee_a + donated[FeeVaultOf(m)]
    BY DEF VaultAccounting
  <2> DEFINE v == FeeVaultAt(m, market[m].mint_a)
             l == FeeLedgerPda(m, market[m].mint_a)
             d == DomainPda(m)
  <2>1. phase \notin Settling
    BY DEF Settling
  <2>2. Balanced(token, market, domain, fee_ledger, donated, m, 0, 0, 0)
    BY <2>1, Nothing DEF IInv, LiveSound, Backed, Created
  <2>3. MarketInts(token, market, domain, fee_ledger, donated, m)
    BY MarketNumbers DEF IInv, TypeOK, Snapshot, Chains, LiveSound, Created
  <2>4. v = FeeVaultOf(m) /\ l = FeeLedgerOf(m)
    BY DEF FeeVaultOf, FeeLedgerOf, FeeVaultAt
  <2>5. token[VaultA(m)].amount = domain[d].accounted_a + donated[VaultA(m)]
    <3>1. token[VaultA(m)].amount = domain[d].accounted_a + donated[VaultA(m)] + 0
      BY <2>2 DEF Balanced
    <3>2. domain[d].accounted_a \in Int /\ donated[VaultA(m)] \in Int
      BY <2>3 DEF MarketInts
    <3> QED BY <3>1, <3>2
  <2>6. token[VaultB(m)].amount = domain[d].accounted_b + donated[VaultB(m)]
    <3>1. token[VaultB(m)].amount + 0 = domain[d].accounted_b + donated[VaultB(m)]
      BY <2>2 DEF Balanced
    <3>2. token[VaultB(m)].amount \in Int
      BY <2>3 DEF MarketInts
    <3> QED BY <3>1, <3>2
  <2>7. token[v].amount = fee_ledger[l].accounted_fee_a + donated[v]
    <3>1. token[v].amount = fee_ledger[l].accounted_fee_a + donated[v] + 0
      BY <2>2 DEF Balanced
    <3>2. fee_ledger[l].accounted_fee_a \in Int /\ donated[v] \in Int
      BY <2>3 DEF MarketInts
    <3> QED BY <3>1, <3>2
  <2> QED BY <2>4, <2>5, <2>6, <2>7
<1> QED BY <1>1, Sound, PTL

\* An execution whose receipt was accepted and whose inputs were paid can always
\* pay its output: the domain's output vault holds it, whatever engine ran.
THEOREM PayoutAlwaysFunded == Spec => []PayoutFunded
<1>1. IInv => PayoutFunded
  <2> SUFFICES ASSUME IInv, phase = "output"
               PROVE  /\ token[ix.vault_b].amount >= ix.args.amount_out
                      /\ token[ix.vault_b].owner = ix.domain
                      /\ token[ix.vault_b].mint = token[ix.destination].mint
    BY DEF PayoutFunded
  <2> DEFINE n == ix.market
             b == VaultB(n)
             d == DomainPda(n)
             out == ix.args.amount_out
  <2>1. phase \in Settling /\ PaidOut = 0
    BY DEF Settling, PaidOut
  <2>2. /\ n \in Markets /\ market[n] # None /\ ix.vault_b = b
    BY <2>1, FlightFacts
  <2>3. ix.domain = d
    BY <2>1 DEF IInv, RolesSound
  <2>4. token[b].owner = d /\ token[b].mint = market[n].mint_b
    BY <2>1, <2>2, SettlingFacts DEF Canonical, IsVault
  <2>5. token[ix.destination].mint = market[n].mint_b
    BY <2>1 DEF IInv, RolesSound
  <2>6. token[b].amount >= out
    <3>1. MarketInts(token, market, domain, fee_ledger, donated, n)
      BY <2>1, <2>2, SettlingFacts, MarketNumbers
    <3>2. token[b].amount \in Int /\ domain[d].accounted_b \in Int
      BY <3>1 DEF MarketInts
    <3>3. token[b].amount + 0 = domain[d].accounted_b + donated[b]
      <4>1. Balanced(token, market, domain, fee_ledger, donated, n, PaidIn, PaidFee, 0)
        BY <2>1, <2>2, SettlingFacts DEF Backed
      <4> QED BY <4>1 DEF Balanced
    <3>4. donated[b] \in Nat
      BY <2>1, <2>2, SettlingFacts, FlightFacts DEF DonatedStates
    <3>5. ix.post_accounted_b \in Nat /\ out \in Nat
      BY <2>1, SettlingFacts, FlightFacts, MathAssumption DEF Executions, U64
    <3>6. ix.post_accounted_b = domain[d].accounted_b - out
      BY <2>1, <2>3 DEF IInv, ReadsSound
    <3> QED BY <3>2, <3>3, <3>4, <3>5, <3>6
  <2> QED BY <2>2, <2>3, <2>4, <2>5, <2>6
<1> QED BY <1>1, Sound, PTL

\* The balance comparisons execute_engine_probe_v0 makes after its transfers never
\* refuse an execution, and what it writes is current: the values it cached
\* before calling the engine cannot have gone stale.
THEOREM CachedNeverStale == Spec => []CachedValuesCurrent
<1>1. IInv => CachedValuesCurrent
  <2> SUFFICES ASSUME IInv, phase = "finalize"
               PROVE  /\ exact_settlement_deltas
                      /\ ix.post_accounted_a = domain[ix.domain].accounted_a + ix.args.amount_in
                      /\ ix.post_accounted_b = domain[ix.domain].accounted_b - ix.args.amount_out
                      /\ ix.post_accounted_fee_a
                           = fee_ledger[ix.fee_ledger].accounted_fee_a + ix.protocol_fee
    BY DEF CachedValuesCurrent
  <2>1. phase \in Settling
    BY DEF Settling
  <2>2. /\ PaidIn = ix.args.amount_in /\ PaidFee = ix.protocol_fee /\ PaidOut = ix.args.amount_out
    BY DEF PaidIn, PaidFee, PaidOut
  <2>3. /\ ix.args.amount_in \in Nat /\ ix.args.amount_out \in Nat /\ ix.protocol_fee \in Nat
    BY <2>1, FlightFacts, MathAssumption DEF U64
  <2>4. /\ ix.source_before \in Int /\ ix.destination_before \in Int /\ ix.vault_a_before \in Int
        /\ ix.vault_b_before \in Int /\ ix.fee_vault_before \in Int
    BY <2>1, SettlingFacts, MathAssumption DEF Executions, U64
  <2>5. exact_debit(ix.source_before, token[ix.source].amount, total_input_debit)
    <3>1. token[ix.source].amount = ix.source_before - (ix.args.amount_in + ix.protocol_fee)
      BY <2>1, <2>2 DEF IInv, ReadsSound
    <3> QED BY <2>3, <2>4, <3>1 DEF exact_debit, SubFits, total_input_debit
  <2>6. /\ exact_credit(ix.vault_a_before, token[ix.vault_a].amount, ix.args.amount_in)
        /\ exact_credit(ix.fee_vault_before, token[ix.fee_vault].amount, ix.protocol_fee)
        /\ exact_credit(ix.destination_before, token[ix.destination].amount, ix.args.amount_out)
    <3>1. /\ token[ix.vault_a].amount = ix.vault_a_before + ix.args.amount_in
          /\ token[ix.fee_vault].amount = ix.fee_vault_before + ix.protocol_fee
          /\ token[ix.destination].amount = ix.destination_before + ix.args.amount_out
      BY <2>1, <2>2 DEF IInv, ReadsSound
    <3> QED BY <2>3, <2>4, <3>1 DEF exact_credit, SubFits
  <2>7. exact_debit(ix.vault_b_before, token[ix.vault_b].amount, ix.args.amount_out)
    <3>1. token[ix.vault_b].amount = ix.vault_b_before - ix.args.amount_out
      BY <2>1, <2>2 DEF IInv, ReadsSound
    <3> QED BY <2>3, <2>4, <3>1 DEF exact_debit, SubFits
  <2> QED BY <2>1, <2>5, <2>6, <2>7 DEF exact_settlement_deltas, IInv, ReadsSound
<1> QED BY <1>1, Sound, PTL

(***************************************************************************)
(* What the user agreed to stays true while the engine and the transfers   *)
(* run.                                                                    *)
(***************************************************************************)
Terms ==
  phase \in Settling =>
    /\ ix.user \in signers
    /\ token[ix.source].mint = market[ix.market].mint_a
    /\ ix.protocol_fee = fee_ceil(ix.args.amount_in, ProtocolFeeBps)
    /\ ix.args.amount_in > 0 /\ ix.args.amount_out > 0
    /\ ix.args.amount_in + ix.protocol_fee <= ix.args.max_total_input_debit
    /\ ix.args.amount_out >= ix.args.min_output_credit
    /\ ix.protocol_fee <= ix.args.max_protocol_fee
    /\ slot <= ix.args.expires_at_slot

(***************************************************************************)
(* The engine state of the execution in flight exists and belongs to the   *)
(* market's engine.  A spike state is one step ahead of Core from its       *)
(* answer to the end of the execution, and at every other moment in step.   *)
(***************************************************************************)
Bound ==
  phase \in Settling =>
    /\ engine[ix.engine_state] # None
    /\ StateOwner[ix.engine_state] = market[ix.market].engine_program

InStep(e, s, es) ==
  IF e[es] = None THEN s[es] = [count |-> 0, plan |-> None]
  ELSE e[es].sequence = s[es].count /\ e[es].last_plan_hash = s[es].plan

Ahead(e, s, es, digest) ==
  e[es].sequence = s[es].count + 1 /\ e[es].last_plan_hash = digest

Answered(es) == phase \in Settling \ {"engine"} /\ es = ix.engine_state

LockLive ==
  \A es \in EngineStates : StateOwner[es] = SpikeEngine =>
    IF Answered(es) THEN Ahead(engine, settled, es, ix.plan_digest)
    ELSE InStep(engine, settled, es)

LockSaved ==
  phase # "idle" =>
    \A es \in EngineStates :
      StateOwner[es] = SpikeEngine => InStep(saved.engine, saved.settled, es)

SInv == IInv /\ Terms /\ Bound /\ LockLive /\ LockSaved

(***************************************************************************)
(* What the steps of an execution do.                                      *)
(***************************************************************************)
\* evaluate answers Core's call only, with the state bound to the market: require_direct_core_cpi.
LEMMA EvaluateFacts ==
  ASSUME IInv, evaluate
  PROVE  /\ phase = "engine" /\ phase' = "receipt"
         /\ ix.engine_state \in EngineStates
         /\ StateOwner[ix.engine_state] = SpikeEngine
         /\ engine[ix.engine_state] \in EngineState
         /\ engine'[ix.engine_state] \in EngineState
         /\ engine'[ix.engine_state].sequence = engine[ix.engine_state].sequence + 1
         /\ engine'[ix.engine_state].last_plan_hash = ix.plan_digest
         /\ \A es \in EngineStates : es # ix.engine_state => engine'[es] = engine[es]
         /\ UNCHANGED <<token, market, domain, fee_ledger, donated, settled,
                        slot, signers, used, saved, ix>>
<1>1. PICK call \in EvaluateCalls :
        /\ require_direct_core_cpi(call)
        /\ IsSpikeState(call.engine_state)
        /\ AddFits(engine[call.engine_state].sequence, 1)
        /\ engine' = [engine EXCEPT ![call.engine_state].sequence = @ + 1,
                                    ![call.engine_state].last_plan_hash = call.request.plan_hash]
  BY DEF evaluate
<1>2. phase = "engine" /\ call = CoreCall
  <2>1. ASSUME phase = "open" PROVE FALSE
    <3>1. call \in ForeignCalls
      BY <2>1 DEF EvaluateCalls
    <3> QED BY <1>1, <3>1 DEF ForeignCalls, require_direct_core_cpi
  <2> QED BY <1>1, <2>1 DEF EvaluateCalls
<1>3. /\ phase' = "receipt"
      /\ UNCHANGED <<token, market, domain, fee_ledger, donated, settled,
                     slot, signers, used, saved, ix>>
  BY <1>2 DEF evaluate
<1>4. ix \in Executions /\ engine \in EngineMaps
  BY <1>2, SettlingFacts DEF Settling
<1>5. /\ call.engine_state = ix.engine_state /\ call.request.plan_hash = ix.plan_digest
      /\ ix.engine_state \in EngineStates
  BY <1>2, <1>4 DEF CoreCall, EngineRequest, Executions
<1>6. StateOwner[ix.engine_state] = SpikeEngine /\ engine[ix.engine_state] \in EngineState
  BY <1>1, <1>4, <1>5 DEF IsSpikeState, EngineMaps
<1>7. AddFits(engine[ix.engine_state].sequence, 1)
  BY <1>1, <1>5
<1> DEFINE es == ix.engine_state
           new == [engine[es] EXCEPT !.sequence = @ + 1, !.last_plan_hash = ix.plan_digest]
<1>8. new \in EngineState /\ new.sequence = engine[es].sequence + 1 /\ new.last_plan_hash = ix.plan_digest
  <2>1. engine[es].sequence + 1 \in U64
    BY <1>6, <1>7, MathAssumption DEF EngineState, AddFits, U64
  <2>2. ix.plan_digest \in Digests
    BY <1>4 DEF Executions
  <2> HIDE DEF es
  <2> QED BY <1>6, <2>1, <2>2 DEF EngineState, es
<1>9. engine' = [engine EXCEPT ![es] = new]
  BY <1>1, <1>4, <1>5 DEF EngineMaps
<1> HIDE DEF new
<1>10. engine'[es] = new /\ \A s \in EngineStates : s # es => engine'[s] = engine[s]
  BY <1>4, <1>5, <1>9 DEF EngineMaps
<1> QED BY <1>2, <1>3, <1>5, <1>6, <1>8, <1>10

\* One of the three transfers of a settlement.
Payment == transfer_input \/ transfer_fee \/ transfer_output

\* A transfer of the settlement leaves everything but balances as it was.
LEMMA PaymentFacts ==
  ASSUME IInv, Payment
  PROVE  /\ phase \in Settling \ {"engine"} /\ phase' \in Settling \ {"engine"}
         /\ UNCHANGED <<market, domain, fee_ledger, engine, settled, slot, signers, used, saved, ix>>
         /\ token' \in TokenStates /\ Kept(token, token')
<1>1. ASSUME NEW from \in TokenAccounts, NEW to \in TokenAccounts, from # to, NEW mint,
             NEW amount \in U64, NEW authority, authority # None, phase \in Settling,
             Settle(from, to, mint, amount, authority)
      PROVE  /\ UNCHANGED <<market, domain, fee_ledger, engine, settled, slot, signers, used,
                            saved, ix>>
             /\ token' \in TokenStates /\ Kept(token, token')
  <2>1. /\ CanTransfer(token, from, to, mint, amount, authority)
        /\ token' = Transferred(token, from, to, amount, authority)
        /\ UNCHANGED <<market, domain, fee_ledger, engine, settled, slot, signers, used, saved, ix>>
    BY <1>1 DEF Settle
  <2>2. token \in TokenStates
    BY <1>1, SettlingFacts
  <2> QED BY <1>1, <2>1, <2>2, TransferEffect
<1>2. CASE transfer_input
  <2>1. /\ phase = "input" /\ phase' = "fee"
        /\ Settle(ix.source, ix.vault_a, market[ix.market].mint_a, ix.args.amount_in, ix.user)
    BY <1>2 DEF transfer_input
  <2>2. phase \in Settling \ {"engine"} /\ phase' \in Settling \ {"engine"}
    BY <2>1 DEF Settling
  <2>3. /\ ix.source \in TokenAccounts /\ ix.vault_a \in TokenAccounts /\ ix.source # ix.vault_a
        /\ ix.args.amount_in \in U64 /\ ix.user # None
    BY <2>2, FlightFacts DEF TokenAccounts
  <2> QED BY <1>1, <2>1, <2>2, <2>3
<1>3. CASE transfer_fee
  <2>1. /\ phase = "fee" /\ phase' = "output"
        /\ Settle(ix.source, ix.fee_vault, market[ix.market].mint_a, ix.protocol_fee, ix.user)
    BY <1>3 DEF transfer_fee
  <2>2. phase \in Settling \ {"engine"} /\ phase' \in Settling \ {"engine"}
    BY <2>1 DEF Settling
  <2>3. /\ ix.source \in TokenAccounts /\ ix.fee_vault \in TokenAccounts /\ ix.source # ix.fee_vault
        /\ ix.protocol_fee \in U64 /\ ix.user # None
    BY <2>2, FlightFacts DEF TokenAccounts
  <2> QED BY <1>1, <2>1, <2>2, <2>3
<1>4. CASE transfer_output
  <2>1. /\ phase = "output" /\ phase' = "finalize"
        /\ Settle(ix.vault_b, ix.destination, market[ix.market].mint_b, ix.args.amount_out, ix.domain)
    BY <1>4 DEF transfer_output
  <2>2. phase \in Settling \ {"engine"} /\ phase' \in Settling \ {"engine"}
    BY <2>1 DEF Settling
  <2>3. /\ ix.vault_b \in TokenAccounts /\ ix.destination \in TokenAccounts
        /\ ix.vault_b # ix.destination /\ ix.args.amount_out \in U64 /\ ix.domain # None
    BY <2>2, FlightFacts DEF TokenAccounts
  <2> QED BY <1>1, <2>1, <2>2, <2>3
<1> QED BY <1>2, <1>3, <1>4 DEF Payment

\* The instructions without an engine, and the runtime's steps, are outside executions.
LEMMA FrameOutside ==
  ASSUME IInv, Frame \/ engine_initialize \/ set_mode
  PROVE  phase' \in {"idle", "open"}
BY DEF Frame, engine_initialize, set_mode, BeginTransaction, CommitTransaction,
   AbortTransaction, AdvanceSlot, SplTransfer, initialize_market_domain_v0, deposit_v0, RunInstruction

\* What execute_engine_probe_v0 has checked when the engine is called.
LEMMA ExecuteFacts ==
  ASSUME IInv, execute_engine_probe_v0
  PROVE  /\ phase = "open" /\ phase' = "engine" /\ UNCHANGED <<chain, slot, signers, saved>>
         /\ ix'.user \in signers
         /\ token[ix'.source].mint = market[ix'.market].mint_a
         /\ ix'.protocol_fee = fee_ceil(ix'.args.amount_in, ProtocolFeeBps)
         /\ ix'.args.amount_in > 0 /\ ix'.args.amount_out > 0
         /\ ix'.args.amount_in + ix'.protocol_fee <= ix'.args.max_total_input_debit
         /\ ix'.args.amount_out >= ix'.args.min_output_credit
         /\ ix'.protocol_fee <= ix'.args.max_protocol_fee
         /\ slot <= ix'.args.expires_at_slot
         /\ engine[ix'.engine_state] # None
         /\ StateOwner[ix'.engine_state] = market[ix'.market].engine_program
<1>1. phase = "open" /\ phase' = "engine" /\ UNCHANGED <<chain, slot, signers, saved>>
  BY DEF execute_engine_probe_v0, RunInstruction
<1>2. PICK m \in Markets, d \in Domains, l \in FeeLedgers, va \in TokenAccounts,
           vb \in TokenAccounts, fv \in TokenAccounts, user \in signers, source \in TokenAccounts,
           destination \in TokenAccounts, args \in ExecuteArgs :
        /\ validate_market_domain(m, d)
        /\ valid_engine_binding(market[m].engine_program, market[m].engine_state)
        /\ validate_protected_token_account(source, market[m].mint_a, user)
        /\ amounts_within_limits(args, d, l, market[m].fee_bps)
        /\ ix' = Planned(user, m, d, l, va, vb, fv, source, destination, args)
  BY DEF execute_engine_probe_v0
<1>3. /\ ix'.user = user /\ ix'.source = source /\ ix'.market = m /\ ix'.args = args
      /\ ix'.protocol_fee = fee_ceil(args.amount_in, market[m].fee_bps)
      /\ ix'.engine_state = market[m].engine_state
  BY <1>2 DEF Planned
<1>4. market[m].fee_bps = ProtocolFeeBps
  BY <1>2 DEF validate_market_domain
<1>5. /\ args.amount_in > 0 /\ args.amount_out > 0
      /\ slot <= args.expires_at_slot
      /\ args.amount_out >= args.min_output_credit
      /\ fee_ceil(args.amount_in, market[m].fee_bps) <= args.max_protocol_fee
      /\ args.amount_in + fee_ceil(args.amount_in, market[m].fee_bps) <= args.max_total_input_debit
  BY <1>2 DEF amounts_within_limits
<1>6. token[source].mint = market[m].mint_a
  BY <1>2 DEF validate_protected_token_account, validate_common_token_account
<1>7. /\ engine[market[m].engine_state] # None
      /\ StateOwner[market[m].engine_state] = market[m].engine_program
  <2>1. market[m].engine_program # None /\ OwnerOf(market[m].engine_state) = market[m].engine_program
    BY <1>2, KeyAssumption DEF valid_engine_binding
  <2> QED BY <2>1 DEF OwnerOf
<1> QED BY <1>1, <1>2, <1>3, <1>4, <1>5, <1>6, <1>7

(***************************************************************************)
(* The three parts of the invariant, over each step.                       *)
(***************************************************************************)
\* The user's terms: set by execute_engine_probe_v0, then nobody changes them.
LEMMA TermsStep ==
  ASSUME IInv, Terms, [Next]_vars
  PROVE  Terms'
<1>0. ASSUME phase \in Settling, phase' \in Settling, UNCHANGED <<market, slot, signers, ix>>,
             token'[ix.source].mint = token[ix.source].mint
      PROVE  Terms'
  BY <1>0 DEF Terms
<1>1. CASE Frame \/ engine_initialize \/ set_mode
  BY <1>1, FrameOutside DEF Terms, Settling
<1>2. CASE execute_engine_probe_v0
  BY <1>2, ExecuteFacts DEF Terms, chain
<1>3. CASE evaluate
  <2>1. phase \in Settling /\ phase' \in Settling
    BY <1>3, EvaluateFacts DEF Settling
  <2> QED BY <1>0, <1>3, <2>1, EvaluateFacts
<1>4. CASE foreign_evaluate
  BY <1>0, <1>4 DEF foreign_evaluate, chain, Settling
<1>5. CASE accept_receipt
  BY <1>0, <1>5 DEF accept_receipt, chain, Settling
<1>6. CASE Payment
  <2>1. /\ phase \in Settling /\ phase' \in Settling /\ Kept(token, token')
        /\ UNCHANGED <<market, slot, signers, ix>>
    BY <1>6, PaymentFacts
  <2>2. ix.source \in TokenAccounts
    BY <2>1, FlightFacts
  <2>3. token'[ix.source].mint = token[ix.source].mint
    BY <2>1, <2>2 DEF Kept
  <2> QED BY <1>0, <2>1, <2>3
<1>7. CASE finalize
  BY <1>7 DEF finalize, Terms, Settling
<1>8. CASE UNCHANGED vars
  BY <1>8 DEF vars, ledgerVars, chain, Terms
<1> QED BY <1>1, <1>2, <1>3, <1>4, <1>5, <1>6, <1>7, <1>8 DEF Next, Execution, Payment

\* The engine state stays bound while the execution lasts: no step deletes one.
LEMMA BoundStep ==
  ASSUME IInv, Bound, [Next]_vars
  PROVE  Bound'
<1>0. ASSUME phase \in Settling, phase' \in Settling, UNCHANGED <<market, engine, ix>>
      PROVE  Bound'
  BY <1>0 DEF Bound
<1>1. CASE Frame \/ engine_initialize \/ set_mode
  BY <1>1, FrameOutside DEF Bound, Settling
<1>2. CASE execute_engine_probe_v0
  BY <1>2, ExecuteFacts DEF Bound, chain
<1>3. CASE evaluate
  <2>1. phase \in Settling /\ engine \in EngineMaps
    BY <1>3, EvaluateFacts, SettlingFacts DEF Settling
  <2>2. engine'[ix.engine_state] # None
    BY <1>3, EvaluateFacts, EngineStateAssumption
  <2> QED BY <1>3, <2>1, <2>2, EvaluateFacts DEF Bound
<1>4. CASE foreign_evaluate
  BY <1>0, <1>4 DEF foreign_evaluate, chain, Settling
<1>5. CASE accept_receipt
  BY <1>0, <1>5 DEF accept_receipt, chain, Settling
<1>6. CASE Payment
  BY <1>0, <1>6, PaymentFacts
<1>7. CASE finalize
  BY <1>7 DEF finalize, Bound, Settling
<1>8. CASE UNCHANGED vars
  BY <1>8 DEF vars, ledgerVars, chain, Bound
<1> QED BY <1>1, <1>2, <1>3, <1>4, <1>5, <1>6, <1>7, <1>8 DEF Next, Execution, Payment

\* An instruction that touches no engine state keeps the lockstep.
LEMMA LockKept ==
  ASSUME LockLive, UNCHANGED <<engine, settled, ix>>,
         (phase' \in Settling \ {"engine"}) <=> (phase \in Settling \ {"engine"})
  PROVE  LockLive'
BY DEF LockLive, Answered, InStep, Ahead

\* A new engine state starts in step with Core, which has settled nothing with it;
\* set_mode leaves its sequence alone.
LEMMA LockEngineOwner ==
  ASSUME IInv, LockLive, engine_initialize \/ set_mode
  PROVE  LockLive'
<1>1. /\ phase = "open" /\ phase' = "open" /\ UNCHANGED <<settled, ix>>
  BY DEF engine_initialize, set_mode, RunInstruction
<1>2. engine \in EngineMaps
  BY <1>1, OpenFacts
<1>3. \A es \in EngineStates : ~Answered(es) /\ ~Answered(es)'
  BY <1>1 DEF Answered, Settling
<1>4. ASSUME NEW es \in EngineStates, StateOwner[es] = SpikeEngine
      PROVE  InStep(engine', settled, es)
  <2>0. InStep(engine, settled, es)
    BY <1>3, <1>4 DEF LockLive
  <2>1. CASE engine_initialize
    <3>1. PICK new \in EngineStates, authority \in signers, m \in Markets, revision \in Revisions :
            /\ engine[new] = None
            /\ engine' = [engine EXCEPT ![new] =
                 [authority |-> authority, market |-> m, revision |-> revision,
                  sequence |-> 0, last_plan_hash |-> None, mode |-> "ACCEPT"]]
      BY <2>1 DEF engine_initialize
    <3>2. CASE es = new
      <4>1. settled[es] = [count |-> 0, plan |-> None]
        BY <2>0, <3>1, <3>2 DEF InStep
      <4>2. engine'[es].sequence = 0 /\ engine'[es].last_plan_hash = None
        BY <1>2, <3>1, <3>2 DEF EngineMaps
      <4> QED BY <4>1, <4>2 DEF InStep
    <3>3. CASE es # new
      BY <1>2, <2>0, <3>1, <3>3 DEF InStep, EngineMaps
    <3> QED BY <3>2, <3>3
  <2>2. CASE set_mode
    <3>1. PICK old \in EngineStates, mode \in Modes :
            /\ IsSpikeState(old)
            /\ engine' = [engine EXCEPT ![old].mode = mode]
      BY <2>2 DEF set_mode
    <3>2. CASE es = old
      <4>1. engine[es] # None /\ engine[es] \in EngineState
        BY <1>2, <3>1, <3>2 DEF IsSpikeState, EngineMaps
      <4>2. engine'[es] = [engine[es] EXCEPT !.mode = mode]
        BY <1>2, <3>1, <3>2 DEF EngineMaps
      <4>3. /\ engine'[es] \in EngineState
            /\ engine'[es].sequence = engine[es].sequence
            /\ engine'[es].last_plan_hash = engine[es].last_plan_hash
        BY <4>1, <4>2 DEF EngineState
      <4> QED BY <2>0, <4>1, <4>3, EngineStateAssumption DEF InStep
    <3>3. CASE es # old
      BY <1>2, <2>0, <3>1, <3>3 DEF InStep, EngineMaps
    <3> QED BY <3>2, <3>3
  <2> QED BY <2>1, <2>2
<1> QED BY <1>1, <1>3, <1>4 DEF LockLive

\* The engine moves one ahead when it answers, and Core catches up when it settles.
LEMMA LockExecution ==
  ASSUME IInv, Bound, LockLive, Execution
  PROVE  LockLive'
<1>1. CASE execute_engine_probe_v0
  <2>1. phase = "open" /\ phase' = "engine" /\ UNCHANGED <<engine, settled>>
    BY <1>1, ExecuteFacts DEF chain
  <2>2. \A es \in EngineStates : ~Answered(es) /\ ~Answered(es)'
    BY <2>1 DEF Answered, Settling
  <2> QED BY <2>1, <2>2 DEF LockLive, InStep
<1>2. CASE evaluate
  <2>1. /\ phase = "engine" /\ phase' = "receipt" /\ UNCHANGED <<settled, ix>>
        /\ engine[ix.engine_state] \in EngineState
        /\ engine'[ix.engine_state].sequence = engine[ix.engine_state].sequence + 1
        /\ engine'[ix.engine_state].last_plan_hash = ix.plan_digest
        /\ \A es \in EngineStates : es # ix.engine_state => engine'[es] = engine[es]
    BY <1>2, EvaluateFacts
  <2>2. \A es \in EngineStates : ~Answered(es) /\ (Answered(es)' <=> es = ix.engine_state)
    BY <2>1 DEF Answered, Settling
  <2>3. ASSUME NEW es \in EngineStates, StateOwner[es] = SpikeEngine, es = ix.engine_state
        PROVE  Ahead(engine', settled', es, ix'.plan_digest)
    BY <2>1, <2>2, <2>3, EngineStateAssumption DEF LockLive, InStep, Ahead
  <2>4. ASSUME NEW es \in EngineStates, StateOwner[es] = SpikeEngine, es # ix.engine_state
        PROVE  InStep(engine', settled', es)
    BY <2>1, <2>2, <2>4 DEF LockLive, InStep
  <2> QED BY <2>2, <2>3, <2>4 DEF LockLive
<1>3. CASE foreign_evaluate
  <2>1. /\ phase = "engine" /\ phase' = "receipt" /\ UNCHANGED <<engine, settled, ix>>
        /\ market[ix.market].engine_program # SpikeEngine
    BY <1>3 DEF foreign_evaluate, chain
  <2>2. StateOwner[ix.engine_state] # SpikeEngine
    BY <2>1 DEF Bound, Settling
  <2>3. \A es \in EngineStates : StateOwner[es] = SpikeEngine => ~Answered(es) /\ ~Answered(es)'
    BY <2>1, <2>2 DEF Answered, Settling
  <2> QED BY <2>1, <2>3 DEF LockLive, InStep
<1>4. CASE accept_receipt
  BY <1>4, LockKept DEF accept_receipt, chain, Settling
<1>5. CASE Payment
  BY <1>5, PaymentFacts, LockKept
<1>6. CASE finalize
  <2>1. /\ phase = "finalize" /\ phase' = "open" /\ engine' = engine
        /\ settled' = [settled EXCEPT ![ix.engine_state] =
                         [count |-> @.count + 1, plan |-> ix.plan_digest]]
    BY <1>6 DEF finalize
  <2>2. settled \in [EngineStates -> [count : Nat, plan : Digests]]
    BY <2>1, SettlingFacts DEF Settling
  <2>3. \A es \in EngineStates : ~Answered(es)' /\ (Answered(es) <=> es = ix.engine_state)
    BY <2>1 DEF Answered, Settling
  <2>4. ASSUME NEW es \in EngineStates, StateOwner[es] = SpikeEngine, es = ix.engine_state
        PROVE  InStep(engine', settled', es)
    <3>1. engine[es] # None
      BY <2>1, <2>4 DEF Bound, Settling
    <3>2. engine[es].sequence = settled[es].count + 1 /\ engine[es].last_plan_hash = ix.plan_digest
      BY <2>3, <2>4 DEF LockLive, Ahead
    <3>3. settled'[es] = [count |-> settled[es].count + 1, plan |-> ix.plan_digest]
      BY <2>1, <2>2, <2>4
    <3> QED BY <2>1, <3>1, <3>2, <3>3 DEF InStep
  <2>5. ASSUME NEW es \in EngineStates, StateOwner[es] = SpikeEngine, es # ix.engine_state
        PROVE  InStep(engine', settled', es)
    <3>1. settled'[es] = settled[es]
      BY <2>1, <2>2, <2>5
    <3> QED BY <2>1, <2>3, <2>5, <3>1 DEF LockLive, InStep
  <2> QED BY <2>3, <2>4, <2>5 DEF LockLive
<1> QED BY <1>1, <1>2, <1>3, <1>4, <1>5, <1>6 DEF Execution, Payment

\* A rollback restores engine states and history that were in step together.
LEMMA LockFrame ==
  ASSUME IInv, LockLive, LockSaved, Frame
  PROVE  LockLive' /\ LockSaved'
<1>1. ASSUME NEW S \in SUBSET Users \ {{}}, BeginTransaction(S), UNCHANGED <<ix, ret>>
      PROVE  LockLive' /\ LockSaved'
  <2>1. /\ phase = "idle" /\ phase' = "open" /\ UNCHANGED <<engine, settled>>
        /\ saved'.engine = engine /\ saved'.settled = settled
    BY <1>1 DEF BeginTransaction, Snapshot, chain
  <2>2. \A es \in EngineStates : ~Answered(es) /\ ~Answered(es)'
    BY <2>1 DEF Answered, Settling
  <2> QED BY <2>1, <2>2 DEF LockLive, LockSaved, InStep
<1>2. CASE CommitTransaction /\ UNCHANGED <<ix, ret>>
  <2>1. phase = "open" /\ phase' = "idle" /\ UNCHANGED <<engine, settled, ix>>
    BY <1>2 DEF CommitTransaction, chain
  <2> QED BY <2>1, LockKept DEF LockSaved, Settling
<1>3. CASE AbortTransaction /\ ix' = None /\ ret' = None
  <2>1. phase # "idle" /\ phase' = "idle" /\ engine' = saved.engine /\ settled' = saved.settled
    BY <1>3 DEF AbortTransaction, Rollback
  <2>2. \A es \in EngineStates : ~Answered(es)'
    BY <2>1 DEF Answered, Settling
  <2> QED BY <2>1, <2>2 DEF LockLive, LockSaved
<1>4. CASE AdvanceSlot /\ UNCHANGED <<ix, ret>>
  <2>1. phase = "idle" /\ phase' = "idle" /\ UNCHANGED <<engine, settled, ix>>
    BY <1>4 DEF AdvanceSlot, chain
  <2> QED BY <2>1, LockKept DEF LockSaved, Settling
<1>5. CASE (SplTransfer \/ initialize_market_domain_v0 \/ deposit_v0) /\ UNCHANGED <<ix, ret>>
  <2>1. phase = "open" /\ phase' = "open" /\ UNCHANGED <<engine, settled, ix, saved>>
    BY <1>5 DEF SplTransfer, initialize_market_domain_v0, deposit_v0, RunInstruction
  <2> QED BY <2>1, LockKept DEF LockSaved
<1> QED BY <1>1, <1>2, <1>3, <1>4, <1>5 DEF Frame

\* Inside a transaction nobody touches what a rollback would restore.
LEMMA LockSavedStep ==
  ASSUME IInv, LockSaved, Execution \/ engine_initialize \/ set_mode
  PROVE  LockSaved'
<1>1. phase # "idle" /\ saved' = saved
  <2>1. CASE Execution
    BY <2>1, EvaluateFacts, PaymentFacts, ExecuteFacts
       DEF Execution, Payment, foreign_evaluate, accept_receipt, finalize, Settling
  <2> QED BY <2>1 DEF engine_initialize, set_mode, RunInstruction
<1> QED BY <1>1 DEF LockSaved

(***************************************************************************)
(* The theorems.                                                           *)
(***************************************************************************)
\* The stronger inductive invariant holds throughout every behaviour.
THEOREM SafetySound == Spec => []SInv
<1>1. Init => SInv
  <2> SUFFICES ASSUME Init PROVE SInv
    OBVIOUS
  <2>1. IInv
    BY InitSound
  <2>2. phase = "idle" /\ \A es \in EngineStates :
          /\ settled[es] = [count |-> 0, plan |-> None]
          /\ StateOwner[es] = SpikeEngine => engine[es] = None
    BY DEF Init, LedgerInit
  <2>3. Terms /\ Bound /\ LockSaved
    BY <2>2 DEF Terms, Bound, LockSaved, Settling
  <2>4. LockLive
    BY <2>2 DEF LockLive, Answered, InStep, Settling
  <2> QED BY <2>1, <2>3, <2>4 DEF SInv
<1>2. SInv /\ [Next]_vars => SInv'
  <2> SUFFICES ASSUME SInv, [Next]_vars PROVE SInv'
    OBVIOUS
  <2>1. IInv /\ Terms /\ Bound /\ LockLive /\ LockSaved
    BY DEF SInv
  <2>2. IInv' /\ Terms' /\ Bound'
    BY <2>1, StepSound, TermsStep, BoundStep
  <2>3. LockLive' /\ LockSaved'
    <3>1. CASE Frame
      BY <2>1, <3>1, LockFrame
    <3>2. CASE Execution
      BY <2>1, <3>2, LockExecution, LockSavedStep
    <3>3. CASE engine_initialize \/ set_mode
      BY <2>1, <3>3, LockEngineOwner, LockSavedStep
    <3>4. CASE UNCHANGED vars
      BY <2>1, <3>4, LockKept DEF vars, ledgerVars, chain, LockSaved
    <3> QED BY <3>1, <3>2, <3>3, <3>4 DEF Next
  <2> QED BY <2>2, <2>3 DEF SInv
<1> QED BY <1>1, <1>2, PTL DEF Spec

\* For any number of markets, engines and rollbacks: between instructions a spike engine
\* state has advanced once per execution Core settled with it and remembers the last
\* settled plan; a rejected receipt or a failed transfer leaves no trace in the engine.
THEOREM LockstepKept == Spec => []EngineLockstep
<1>1. SInv => EngineLockstep
  BY DEF SInv, EngineLockstep, LockLive, Answered, InStep, IsSpikeState, Settling
<1> QED BY <1>1, SafetySound, PTL

\* The step that completes an execution is finalize, and it moves no tokens.
LEMMA CompletionFacts ==
  ASSUME IInv, Next, phase = "finalize", phase' # "idle"
  PROVE  finalize
<1>1. ~Frame
  BY DEF Frame, BeginTransaction, CommitTransaction, AbortTransaction, AdvanceSlot, SplTransfer,
     initialize_market_domain_v0, deposit_v0, RunInstruction
<1>2. ~engine_initialize /\ ~set_mode
  BY DEF engine_initialize, set_mode, RunInstruction
<1>3. ~execute_engine_probe_v0 /\ ~evaluate /\ ~foreign_evaluate /\ ~accept_receipt
  BY EvaluateFacts, ExecuteFacts DEF foreign_evaluate, accept_receipt
<1>4. ~transfer_input /\ ~transfer_fee /\ ~transfer_output
  BY DEF transfer_input, transfer_fee, transfer_output
<1> QED BY <1>1, <1>2, <1>3, <1>4 DEF Next, Execution

\* Whatever the engine did in between, a completed execution debited the wallet that
\* signed by at most its maximum, credited at least the minimum and exactly the
\* rounded-up fee, no more of it than allowed, before expiry (execute_engine_probe_v0).
THEOREM LimitsHonoured == Spec => UserLimitsHonoured
<1>1. SInv /\ [Next]_vars =>
        [phase = "finalize" /\ Forward =>
           LET debit == ix.source_before - token'[ix.source].amount
               credit == token'[ix.destination].amount - ix.destination_before
               fee == token'[FeeVaultOf(ix.market)].amount - ix.fee_vault_before
           IN  /\ token[ix.source].owner = ix.user /\ ix.user \in signers
               /\ debit <= ix.args.max_total_input_debit
               /\ credit >= ix.args.min_output_credit
               /\ IsLeastFee(fee, ix.args.amount_in, ProtocolFeeBps)
               /\ fee <= ix.args.max_protocol_fee
               /\ slot <= ix.args.expires_at_slot]_vars
  <2> SUFFICES ASSUME SInv, Next, phase = "finalize", phase' # "idle"
               PROVE  /\ token[ix.source].owner = ix.user /\ ix.user \in signers
                      /\ ix.source_before - token'[ix.source].amount
                           <= ix.args.max_total_input_debit
                      /\ token'[ix.destination].amount - ix.destination_before
                           >= ix.args.min_output_credit
                      /\ IsLeastFee(token'[FeeVaultOf(ix.market)].amount - ix.fee_vault_before,
                                    ix.args.amount_in, ProtocolFeeBps)
                      /\ token'[FeeVaultOf(ix.market)].amount - ix.fee_vault_before
                           <= ix.args.max_protocol_fee
                      /\ slot <= ix.args.expires_at_slot
    BY DEF Forward
  <2>1. IInv /\ Terms /\ phase \in Settling
    BY DEF SInv, Settling
  <2>2. token' = token
    BY <2>1, CompletionFacts DEF finalize
  <2>3. PaidIn = ix.args.amount_in /\ PaidFee = ix.protocol_fee /\ PaidOut = ix.args.amount_out
    BY DEF PaidIn, PaidFee, PaidOut
  <2>4. /\ token[ix.source].owner = ix.user /\ ix.fee_vault = FeeVaultOf(ix.market)
        /\ token[ix.source].amount = ix.source_before - (ix.args.amount_in + ix.protocol_fee)
        /\ token[ix.fee_vault].amount = ix.fee_vault_before + ix.protocol_fee
        /\ token[ix.destination].amount = ix.destination_before + ix.args.amount_out
    BY <2>1, <2>3 DEF IInv, RolesSound, ReadsSound
  <2>5. /\ ix.source_before \in Int /\ ix.fee_vault_before \in Int /\ ix.destination_before \in Int
        /\ ix.args.amount_in \in Nat /\ ix.args.amount_out \in Int /\ ix.protocol_fee \in Int
    BY <2>1, SettlingFacts, FlightFacts, MathAssumption DEF Executions, U64
  <2>6. /\ ix.source_before - token[ix.source].amount = ix.args.amount_in + ix.protocol_fee
        /\ token[ix.fee_vault].amount - ix.fee_vault_before = ix.protocol_fee
        /\ token[ix.destination].amount - ix.destination_before = ix.args.amount_out
    BY <2>4, <2>5
  <2>7. IsLeastFee(ix.protocol_fee, ix.args.amount_in, ProtocolFeeBps)
    BY <2>1, <2>5, FeeIsLeast DEF Terms
  <2> QED BY <2>1, <2>2, <2>4, <2>6, <2>7 DEF Terms
<1> QED BY <1>1, SafetySound, PTL DEF Spec, UserLimitsHonoured

(***************************************************************************)
(* Isolation.                                                              *)
(***************************************************************************)
\* An instruction without an engine touches one market at most.
LEMMA FrameIsolated ==
  ASSUME IInv, Frame, phase' # "idle"
  PROVE  phase \notin Settling /\ \E n : \A m \in Markets : Touched(m) => m = n
<1>1. ASSUME NEW S \in SUBSET Users \ {{}}, BeginTransaction(S)
      PROVE  phase \notin Settling /\ \E n : \A m \in Markets : Touched(m) => m = n
  <2>1. token \in TokenStates
    BY DEF IInv, TypeOK, Snapshot, Chains
  <2> QED BY <1>1, <2>1, StillTouchesNothing DEF BeginTransaction, chain, Settling
<1>2. ~CommitTransaction /\ ~AbortTransaction /\ ~AdvanceSlot
  BY DEF CommitTransaction, AbortTransaction, AdvanceSlot
<1>3. CASE SplTransfer \/ deposit_v0 \/ initialize_market_domain_v0
  <2>1. phase = "open" /\ LedgerSound
    BY <1>3, LedgerOpen DEF SplTransfer, deposit_v0, initialize_market_domain_v0, RunInstruction
  <2> QED BY <1>3, <2>1, SharedIsolated DEF Settling
<1> QED BY <1>1, <1>2, <1>3 DEF Frame

\* An execution touches its own market only, from the call of the engine to the end.
LEMMA ExecutionIsolated ==
  ASSUME IInv, Execution
  PROVE  \E n : /\ \A m \in Markets : Touched(m) => m = n
                /\ phase \in Settling => n = ix.market
<1>0. token \in TokenStates /\ token' \in TokenStates
  <2>1. IInv'
    BY StepSound DEF Next
  <2> QED BY <2>1 DEF IInv, TypeOK, Snapshot, Chains
<1>1. CASE execute_engine_probe_v0 \/ evaluate \/ foreign_evaluate \/ accept_receipt
  <2>1. UNCHANGED <<token, market, domain, fee_ledger>>
    BY <1>1, EvaluateFacts, ExecuteFacts DEF foreign_evaluate, accept_receipt, chain
  <2> QED BY <1>0, <2>1, StillTouchesNothing
<1>2. ASSUME transfer_input \/ transfer_fee
      PROVE  \A m \in Markets : ~Touched(m)
  <2>1. phase \in Settling /\ UNCHANGED <<market, domain, fee_ledger>>
    BY <1>2, PaymentFacts DEF Payment
  <2>2. \E to \in {ix.vault_a, ix.fee_vault}, amount \in U64 :
          /\ CanTransfer(token, ix.source, to, market[ix.market].mint_a, amount, ix.user)
          /\ token' = Transferred(token, ix.source, to, amount, ix.user)
    BY <1>2, <2>1, FlightFacts DEF transfer_input, transfer_fee, Settle
  <2>3. PICK to \in {ix.vault_a, ix.fee_vault}, amount \in U64 :
          /\ CanTransfer(token, ix.source, to, market[ix.market].mint_a, amount, ix.user)
          /\ token' = Transferred(token, ix.source, to, amount, ix.user)
    BY <2>2
  <2>4. /\ ix.source \in TokenAccounts /\ ix.source \notin CoreVaults /\ ix.user # None
        /\ to \in CoreVaults /\ to \in TokenAccounts /\ ix.source # to
    BY <2>1, FlightFacts DEF TokenAccounts
  <2>5. PaidFrom(ix.source, to, amount)
    BY <1>0, <2>3, <2>4, PaidByTransfer
  <2> QED BY <1>0, <2>1, <2>5, PaymentTouchesNothing
<1>3. CASE transfer_output
  <2>1. phase \in Settling /\ UNCHANGED <<market, domain, fee_ledger>>
    BY <1>3, PaymentFacts DEF Payment
  <2>2. /\ ix.vault_b \in TokenAccounts /\ ix.destination \in TokenAccounts
        /\ ix.vault_b # ix.destination /\ ix.args.amount_out \in U64 /\ ix.domain # None
    BY <2>1, FlightFacts DEF TokenAccounts
  <2>3. Moved(token, token', ix.vault_b, ix.destination, ix.args.amount_out)
    BY <1>0, <1>3, <2>2, TransferEffect DEF transfer_output, Settle
  <2>4. ix.market \in Markets /\ ix.vault_b = VaultB(ix.market)
    BY <2>1, FlightFacts
  <2> QED BY <1>0, <2>1, <2>2, <2>3, <2>4, OutputIsolated
<1>4. CASE finalize
  <2>1. /\ phase \in Settling /\ UNCHANGED <<token, market>>
        /\ domain' = [domain EXCEPT ![ix.domain].accounted_a = ix.post_accounted_a,
                                    ![ix.domain].accounted_b = ix.post_accounted_b]
        /\ fee_ledger' =
             [fee_ledger EXCEPT ![ix.fee_ledger].accounted_fee_a = ix.post_accounted_fee_a]
    BY <1>4 DEF finalize, Settling
  <2>2. /\ ix.market \in Markets /\ market[ix.market].mint_a \in Mints
        /\ ix.domain = DomainPda(ix.market)
        /\ ix.fee_ledger = FeeLedgerPda(ix.market, market[ix.market].mint_a)
        /\ domain \in DomainStates /\ fee_ledger \in FeeLedgerStates
    BY <2>1, FlightFacts, SettlingFacts DEF IInv, RolesSound, FeeLedgerOf
  <2>3. \A d \in Domains : d # ix.domain => domain'[d] = domain[d]
    BY <2>1, <2>2 DEF DomainStates
  <2>4. \A l \in FeeLedgers : l # ix.fee_ledger => fee_ledger'[l] = fee_ledger[l]
    BY <2>1, <2>2 DEF FeeLedgerStates
  <2> QED BY <1>0, <2>1, <2>2, <2>3, <2>4, WriteIsolated
<1> QED BY <1>1, <1>2, <1>3, <1>4 DEF Execution

\* Whatever accounts an instruction names, for any number of markets: an execution
\* touches no market but its own, and every other instruction one at most.
THEOREM MarketsIsolated == Spec => DomainIsolation
<1>1. IInv /\ [Next]_vars =>
        [Forward => /\ phase \in Settling => \A m \in Markets : Touched(m) => m = ix.market
                    /\ \A m1, m2 \in Markets : Touched(m1) /\ Touched(m2) => m1 = m2]_vars
  <2> SUFFICES ASSUME IInv, Next, phase' # "idle"
               PROVE  \E n : /\ \A m \in Markets : Touched(m) => m = n
                             /\ phase \in Settling => n = ix.market
    BY DEF Forward
  <2>1. CASE Frame
    BY <2>1, FrameIsolated
  <2>2. CASE Execution
    BY <2>2, ExecutionIsolated
  <2>3. CASE engine_initialize \/ set_mode
    <3>1. phase = "open" /\ UNCHANGED <<token, market, domain, fee_ledger>>
      BY <2>3 DEF engine_initialize, set_mode, RunInstruction
    <3>2. token \in TokenStates /\ phase \notin Settling
      BY <3>1, OpenFacts DEF Settling
    <3> QED BY <3>1, <3>2, StillTouchesNothing
  <2> QED BY <2>1, <2>2, <2>3 DEF Next
<1> QED BY <1>1, Sound, PTL DEF Spec, DomainIsolation
=============================================================================
