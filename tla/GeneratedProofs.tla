-------------------------- MODULE GeneratedProofs ---------------------------
(* Proofs about GeneratedSettlement, for every value of its constants. *)
EXTENDS GeneratedExchange, ExchangeViewProofs

(***************************************************************************)
(* The engines' accounts.                                                  *)
(***************************************************************************)
\* What is known of the accounts of the two programs under test.
LEMMA EngineKinds ==
  /\ \A es \in PlanStates : es \in EngineStates /\ es \notin Markers /\ es \notin HelperStates
                            /\ CapabilityAuthority(es) \in Markers
  /\ \A h \in HelperStates : h \in EngineStates /\ h \notin Markers
  /\ Markers \subseteq EngineStates
BY EngineAssumption DEF PlanStates, HelperStates, Markers

\* A state that exists is one of its program's.
LEMMA EngineKept ==
  ASSUME NEW e \in EngineMaps
  PROVE  /\ \A es \in PlanStates : e[es] # None => e[es] \in PlanState
         /\ \A h \in HelperStates : e[h] # None => e[h] \in HelperState
BY DEF EngineMaps

\* A state that account k can hold.
OfKind(k, s) ==
  /\ k \in EngineStates
  /\ \/ k \in PlanStates /\ s \in PlanState
     \/ k \in HelperStates /\ s \in HelperState
     \/ k \in Markers /\ s \in MarkerState /\ CapabilityAuthority(s.engine_state) = k

\* From e to f, account k was given the state s of its kind and no other changed.
Puts(e, f, k, s) == e \in EngineMaps /\ OfKind(k, s) /\ f = [e EXCEPT ![k] = s]

\* Writing a state of its own kind keeps the engines' accounts typed.
LEMMA EngineWritten ==
  ASSUME NEW e, NEW f, NEW k, NEW s, Puts(e, f, k, s)
  PROVE  /\ f \in EngineMaps /\ f[k] = s /\ f[k] # None
         /\ \A j \in EngineStates : j # k => f[j] = e[j]
<1> USE DEF OfKind, Puts
<1>1. /\ k \in PlanStates => k \notin Markers /\ k \notin HelperStates
      /\ k \in HelperStates => k \notin Markers
      /\ Markers \subseteq EngineStates /\ HelperStates \subseteq EngineStates
      /\ PlanStates \subseteq EngineStates
  BY EngineKinds
<1>2. e \in [EngineStates -> PlanState \cup HelperState \cup MarkerState \cup {None, Opaque}]
  BY DEF EngineMaps
<1>3. f \in [EngineStates -> PlanState \cup HelperState \cup MarkerState \cup {None, Opaque}]
  BY <1>2
<1>4. f[k] = s /\ \A j \in EngineStates : j # k => f[j] = e[j]
  BY <1>2
<1>5. s # None
  BY PresenceAssumption
<1>6. \A es \in PlanStates : f[es] \in PlanState \cup {None}
  BY <1>1, <1>4, EngineKinds DEF EngineMaps
<1>7. \A es \in HelperStates : f[es] \in HelperState \cup {None}
  BY <1>1, <1>4, EngineKinds DEF EngineMaps
<1>8. \A es \in Markers : f[es] = None \/ CapabilityAuthority(f[es].engine_state) = es
  BY <1>1, <1>4, EngineKinds DEF EngineMaps
<1> QED BY <1>3, <1>4, <1>5, <1>6, <1>7, <1>8 DEF EngineMaps

\* What one call of the helper leaves.
Incremented(e, f, h) ==
  /\ f \in EngineMaps /\ h \in HelperStates /\ e[h] # None /\ f[h] # None
  /\ f[h].calls = e[h].calls + 1 /\ f[h].authority = e[h].authority
  /\ \A j \in EngineStates : j # h => f[j] = e[j]

\* The helper state h exists and its counters do not overflow.
CanIncrement(h, amount) ==
  /\ IsHelperState(h)
  /\ AddFits(engine[h].calls, 1) /\ AddFits(engine[h].value, amount)

\* increment counts one call and changes no other account.
LEMMA IncrementFacts ==
  ASSUME engine \in EngineMaps, NEW h, NEW amount \in Payloads, amount # None,
         CanIncrement(h, amount)
  PROVE  Incremented(engine, apply_increment(engine, h, amount), h)
<1> DEFINE s == [engine[h] EXCEPT !.calls = @ + 1, !.value = @ + amount]
<1>1. /\ h \in HelperStates /\ engine[h] # None
      /\ AddFits(engine[h].calls, 1) /\ AddFits(engine[h].value, amount)
  BY DEF CanIncrement, IsHelperState, HelperStates
<1>2. engine[h] \in HelperState /\ h \in EngineStates
  BY <1>1, EngineKept, EngineKinds
<1>3. amount \in U64
  BY CapabilityAssumption
<1>4. engine[h].calls + 1 \in U64 /\ engine[h].value + amount \in U64
  BY <1>1, <1>2, <1>3, MathAssumption DEF HelperState, AddFits, U64
<1>5. /\ s \in HelperState /\ s.calls = engine[h].calls + 1
      /\ s.authority = engine[h].authority
  BY <1>2, <1>4 DEF HelperState
<1>6. apply_increment(engine, h, amount) = [engine EXCEPT ![h] = s]
  BY <1>2 DEF apply_increment, EngineMaps
<1> HIDE DEF s
<1>7. OfKind(h, s)
  BY <1>1, <1>2, <1>5 DEF OfKind
<1> DEFINE f == apply_increment(engine, h, amount)
<1>8. Puts(engine, f, h, s)
  BY <1>6, <1>7 DEF Puts
<1> HIDE DEF f
<1>9. /\ f \in EngineMaps /\ f[h] = s /\ f[h] # None
      /\ \A j \in EngineStates : j # h => f[j] = engine[j]
  BY <1>8, EngineWritten
<1>10. Incremented(engine, f, h)
  BY <1>1, <1>5, <1>9 DEF Incremented
<1> QED BY <1>10 DEF f

\* A call whose request has the types of one Core builds.
Asked(call) ==
  /\ call.request.payload \in Payloads
  /\ call.request.request_hash \in Digests
  /\ call.request.accounted_input_before \in U64
  /\ call.request.accounted_output_before \in U64
  /\ call.request.amount_in \in U64

\* What one successful call of the engine leaves in the engines' accounts e, as f: its
\* own state one step ahead, the helper it called, and nothing else.
Evaluated(e, f, call) ==
  LET es == call.engine_state
      h == call.accounts[2].key
  IN
  /\ f \in EngineMaps /\ es \in PlanStates /\ e[es] # None
  /\ f[es].sequence = e[es].sequence + 1
  /\ f[es].last_request_hash = call.request.request_hash
  /\ CallsHelper(call) =>
       /\ h \in HelperStates /\ e[h] # None
       /\ e[h].authority = CapabilityAuthority(es) /\ f[h].authority = e[h].authority
       /\ f[h].calls = e[h].calls + 1
  /\ \A j \in EngineStates : j = es \/ (CallsHelper(call) /\ j = h) \/ f[j] = e[j]
  /\ \A j \in EngineStates : (f[j] = None) <=> (e[j] = None)

\* The output a call answers with is a word, and its quote keeps the product.
LEMMA AmountOutFacts ==
  ASSUME engine \in EngineMaps, NEW call, Asked(call), EvaluateSucceeds(call)
  PROVE  LET r == call.request
             a == r.accounted_input_before
             b == r.accounted_output_before
             q == EvaluateAmountOut(call)
         IN  /\ q \in U64
             /\ q = 0 \/ q = U64Max \/ (a + r.amount_in) * (b - q) >= a * b
<1> DEFINE r == call.request
           s == engine[call.engine_state]
           a == r.accounted_input_before
           b == r.accounted_output_before
           q == EvaluateAmountOut(call)
<1>1. /\ a \in U64 /\ b \in U64 /\ r.amount_in \in U64
      /\ quote_exact_in_ok(a, b, r.amount_in, s.lp_fee_bps)
      /\ IsGeneratedState(call.engine_state)
  BY DEF Asked, EvaluateSucceeds
<1>2. s \in PlanState
  BY <1>1, EngineKept DEF IsGeneratedState, PlanStates
<1>3. s.lp_fee_bps \in 0 .. (BasisPoints - 1)
  BY <1>2 DEF PlanState
<1> DEFINE quote == quote_amount_out(a, b, r.amount_in, s.lp_fee_bps)
<1>4. q = 0 \/ q = U64Max \/ q = quote
  BY DEF EvaluateAmountOut
<1>5. quote \in U64 /\ (a + r.amount_in) * (b - quote) >= a * b
  BY <1>1, <1>3, QuoteBounds
<1>6. 0 \in U64 /\ U64Max \in U64
  BY MathAssumption DEF U64
<1> HIDE DEF q, quote, a, b, r
<1>7. q \in U64 /\ (q = 0 \/ q = U64Max \/ (a + r.amount_in) * (b - q) >= a * b)
  BY <1>4, <1>5, <1>6
<1> QED BY <1>7 DEF q, a, b, r

\* evaluate advances its own state once and, if it calls the helper, that one once.
LEMMA EvaluatedFacts ==
  ASSUME engine \in EngineMaps, NEW call, Asked(call), EvaluateSucceeds(call)
  PROVE  /\ Evaluated(engine, EvaluatedEngine(call), call)
         /\ EvaluatedEngine(call)[call.engine_state].last_amount_out = EvaluateAmountOut(call)
<1> DEFINE es == call.engine_state
           h == call.accounts[2].key
           n == call.request.payload
           e == IF CallsHelper(call) THEN apply_increment(engine, h, n) ELSE engine
           q == EvaluateAmountOut(call)
           hash == call.request.request_hash
           s == [engine[es] EXCEPT !.sequence = @ + 1, !.last_request_hash = hash,
                                   !.last_amount_out = q]
           f == EvaluatedEngine(call)
<1>1. /\ IsGeneratedState(es) /\ AddFits(engine[es].sequence, 1)
      /\ CallsHelper(call) => helper_call_ok(call)
  BY DEF EvaluateSucceeds
<1>2. es \in PlanStates /\ engine[es] # None /\ es \in EngineStates /\ es \notin HelperStates
  BY <1>1, EngineKinds DEF IsGeneratedState, PlanStates
<1>3. engine[es] \in PlanState
  BY <1>2, EngineKept
<1>4. q \in U64 /\ hash \in Digests
  BY AmountOutFacts DEF Asked
<1>5. CallsHelper(call) => /\ Incremented(engine, e, h) /\ h \in HelperStates
                           /\ engine[h].authority = CapabilityAuthority(es)
  <2>1. SUFFICES ASSUME CallsHelper(call)
                 PROVE  /\ Incremented(engine, e, h) /\ h \in HelperStates
                        /\ engine[h].authority = CapabilityAuthority(es)
    OBVIOUS
  <2>2. CanIncrement(h, n) /\ engine[h].authority = CapabilityAuthority(es)
    BY <1>1, <2>1 DEF helper_call_ok, increment_ok, CanIncrement
  <2>3. n \in Payloads /\ n # None
    BY <2>1 DEF Asked, CallsHelper
  <2>4. Incremented(engine, apply_increment(engine, h, n), h)
    BY <2>2, <2>3, IncrementFacts
  <2> QED BY <2>1, <2>2, <2>4 DEF Incremented
<1>6. e \in EngineMaps /\ e[es] = engine[es]
  <2>1. CASE CallsHelper(call)
    BY <1>2, <1>5, <2>1 DEF Incremented
  <2>2. CASE ~CallsHelper(call)
    BY <2>2
  <2> QED BY <2>1, <2>2
<1>7. f = [e EXCEPT ![es].sequence = @ + 1, ![es].last_request_hash = hash,
                    ![es].last_amount_out = q]
  BY DEF EvaluatedEngine
<1>8. f = [e EXCEPT ![es] = s]
  <2> HIDE DEF e, f, q, hash
  <2>1. e[es] = engine[es]
    BY <1>6
  <2> QED BY <1>2, <1>6, <1>7, <2>1 DEF EngineMaps
<1>9. /\ s \in PlanState /\ s.sequence = engine[es].sequence + 1
      /\ s.last_request_hash = hash /\ s.last_amount_out = q
  <2>1. engine[es].sequence + 1 \in U64
    BY <1>1, <1>3, MathAssumption DEF PlanState, AddFits, U64
  <2> HIDE DEF q, hash
  <2> QED BY <1>3, <1>4, <2>1 DEF PlanState
<1> HIDE DEF e, f, s
<1>10. Puts(e, f, es, s)
  BY <1>2, <1>6, <1>8, <1>9 DEF Puts, OfKind
<1>11. /\ f \in EngineMaps /\ f[es] = s /\ f[es] # None
       /\ \A j \in EngineStates : j # es => f[j] = e[j]
  BY <1>10, EngineWritten
<1>12. \A j \in EngineStates : j = es \/ (CallsHelper(call) /\ j = h) \/ f[j] = engine[j]
  BY <1>5, <1>11 DEF Incremented, e
<1>13. CallsHelper(call) =>
         /\ engine[h] # None /\ f[h] # None /\ f[h].authority = engine[h].authority
         /\ f[h].calls = engine[h].calls + 1
  BY <1>2, <1>5, <1>11, EngineKinds DEF Incremented
<1>14. \A j \in EngineStates : (f[j] = None) <=> (engine[j] = None)
  BY <1>2, <1>11, <1>12, <1>13
<1>15. Evaluated(engine, f, call)
  <2> HIDE DEF q, hash
  <2> QED BY <1>2, <1>5, <1>9, <1>11, <1>12, <1>13, <1>14 DEF Evaluated, hash
<1> QED BY <1>9, <1>11, <1>15 DEF f

(***************************************************************************)
(* The inductive invariant: the accounts.                                  *)
(***************************************************************************)
\* Between instructions every vault backs its market's accounting.
BooksSound ==
  phase \notin Settling =>
    /\ Canonical(token, market, domain, fee_ledger, donated)
    /\ Backed(token, market, domain, fee_ledger, donated, None, 0, 0, 0)

\* During an execution, but for the payments made.
FlightSound ==
  phase \in Settling =>
    Flight(token, market, domain, fee_ledger, donated, ix, InputMade(phase, ix),
           FeeMade(phase, ix), OutputMade(phase, ix.amount_out))

SavedSound ==
  phase # "idle" =>
    /\ Canonical(saved.token, saved.market, saved.domain, saved.fee_ledger, saved.donated)
    /\ Backed(saved.token, saved.market, saved.domain, saved.fee_ledger, saved.donated,
              None, 0, 0, 0)

\* What validation found of the wallet's limits, with the accounts t and mk, the
\* signers s and the slot n.
Agreed(t, mk, s, n, x) ==
  /\ x.user \in s /\ t[x.source].owner = x.user
  /\ t[x.source].mint = mk[x.market].mint_a
  /\ x.protocol_fee = fee_ceil(x.args.amount_in, ProtocolFeeBps)
  /\ x.args.amount_in > 0
  /\ total_input_debit(x) <= x.args.max_total_input_debit
  /\ x.protocol_fee <= x.args.max_protocol_fee
  /\ n <= x.args.expires_at_slot
  /\ x.accounted_a + x.args.amount_in <= U64Max
  /\ x.accounted_fee_a + x.protocol_fee <= U64Max

\* What the receipt was checked for.
Answered(x) ==
  /\ x.amount_out > 0
  /\ x.amount_out >= x.args.min_output_credit
  /\ x.amount_out <= x.accounted_b

Accepted == {"input", "fee", "output", "finalize"}

TermsSound ==
  /\ phase \in Settling => Agreed(token, market, signers, slot, ix)
  /\ phase \in Accepted => Answered(ix)

\* No token account was handed to the engine writable, and what it returned, if
\* anything, holds a word.
NoTokens(t, x) ==
  \A i \in DOMAIN x.opaque :
    x.opaque[i].is_writable /\ x.opaque[i].key \in TokenAccounts => t[x.opaque[i].key] = None

HandedSound ==
  /\ phase = "engine" => NoTokens(token, ix)
  /\ phase = "receipt" /\ ret # None => ret.amount_out \in U64

BaseInv ==
  GeneratedTypeOK /\ BooksSound /\ FlightSound /\ SavedSound /\ TermsSound /\ HandedSound

\* The initial accounts satisfy the inductive invariant.
LEMMA InitSound == Init => BaseInv
<1> SUFFICES ASSUME Init PROVE BaseInv
  OBVIOUS
<1> USE DEF Init, LedgerInit
<1>1. token \in TokenStates
  BY InputAssumption, KeyAssumption DEF TokenStates, TokenAccounts
<1>2. engine \in EngineMaps
  <2>1. engine \in [EngineStates -> PlanState \cup HelperState \cup MarkerState \cup {None, Opaque}]
    OBVIOUS
  <2>2. \A es \in EngineStates : StateOwner[es] \in {GeneratedPlanEngine, HelperProgram} => engine[es] = None
    OBVIOUS
  <2>3. \A es \in Markers : StateOwner[es] = GeneratedPlanEngine /\ es \in EngineStates
    BY EngineAssumption DEF Markers
  <2> QED BY <2>1, <2>2, <2>3 DEF EngineMaps, PlanStates, HelperStates
<1>3. settled \in SettledStates
  BY MathAssumption DEF NoneSettled, SettledStates, Digests, U64
<1>4. GeneratedTypeOK
  <2>1. /\ market \in MarketStates /\ domain \in DomainStates /\ fee_ledger \in FeeLedgerStates
        /\ donated \in DonatedStates
    BY DEF MarketStates, DomainStates, FeeLedgerStates, DonatedStates
  <2>2. Snapshot \in Chains
    BY <1>1, <1>2, <1>3, <2>1 DEF Snapshot, Chains
  <2>3. slot \in 0 .. MaxSlot /\ used \in 0 .. MaxInstructions
    BY InputAssumption, MathAssumption DEF U64
  <2> QED BY <2>2, <2>3 DEF GeneratedTypeOK, Settling
<1>5. \A v \in CoreVaults : token[v] = None
  BY KeyAssumption DEF TokenAccounts
<1>6. \A m \in Markets : /\ VaultA(m) \in CoreVaults /\ VaultB(m) \in CoreVaults
                        /\ \A p \in Mints : FeeVaultAt(m, p) \in CoreVaults
  <2>1. \A m \in Markets : VaultA(m) \in CoreVaults /\ VaultB(m) \in CoreVaults
    BY DEF CoreVaults, DomainVaults, VaultA, VaultB, Domains
  <2>2. \A m \in Markets, p \in Mints : FeeVaultAt(m, p) \in CoreVaults
    BY DEF CoreVaults, FeeVaults, FeeVaultAt, FeeLedgers
  <2> QED BY <2>1, <2>2
<1>7. Canonical(token, market, domain, fee_ledger, donated)
  BY <1>5, <1>6 DEF Canonical
<1>8. Backed(token, market, domain, fee_ledger, donated, None, 0, 0, 0)
  BY DEF Backed
<1> QED BY <1>4, <1>7, <1>8 DEF BaseInv, BooksSound, FlightSound, SavedSound, TermsSound,
           HandedSound, Settling, Accepted

\* What holds between instructions.
LEMMA OpenFacts ==
  ASSUME BaseInv, phase \notin Settling
  PROVE  /\ LedgerSound /\ engine \in EngineMaps /\ settled \in SettledStates /\ ix = None
BY DEF BaseInv, GeneratedTypeOK, BooksSound, LedgerSound, Snapshot, Chains

\* Loading a transaction saves sound accounts.
LEMMA BeginSound ==
  ASSUME BaseInv, NEW S \in SUBSET Users, BeginTransaction(S), UNCHANGED <<ix, ret>>
  PROVE  BaseInv'
<1> USE DEF BeginTransaction, chain
<1>1. GeneratedTypeOK'
  BY InputAssumption DEF BaseInv, GeneratedTypeOK, Snapshot, Settling
<1>2. SavedSound'
  BY DEF BaseInv, BooksSound, SavedSound, Snapshot, Settling
<1> QED BY <1>1, <1>2 DEF BaseInv, BooksSound, FlightSound, TermsSound, HandedSound,
           Settling, Accepted

\* Committing keeps the sound accounts the transaction left.
LEMMA CommitSound ==
  ASSUME BaseInv, CommitTransaction, UNCHANGED <<ix, ret>>
  PROVE  BaseInv'
<1> USE DEF CommitTransaction, chain
<1>1. GeneratedTypeOK'
  BY InputAssumption DEF BaseInv, GeneratedTypeOK, Snapshot, Settling
<1> QED BY <1>1 DEF BaseInv, BooksSound, FlightSound, SavedSound, TermsSound, HandedSound,
           Settling, Accepted

\* Rolling back, from any phase, restores accounts that were sound when the
\* transaction started.
LEMMA AbortSound ==
  ASSUME BaseInv, AbortTransaction, ix' = None, ret' = None
  PROVE  BaseInv'
<1> USE DEF AbortTransaction, Rollback
<1>1. GeneratedTypeOK'
  <2>1. saved \in Chains
    BY DEF BaseInv, GeneratedTypeOK
  <2>2. Snapshot' \in Chains
    BY <2>1 DEF Snapshot, Chains
  <2> QED BY <2>2, InputAssumption DEF BaseInv, GeneratedTypeOK, Settling
<1>2. BooksSound'
  BY DEF BaseInv, BooksSound, SavedSound
<1> QED BY <1>1, <1>2 DEF BaseInv, FlightSound, SavedSound, TermsSound, HandedSound,
           Settling, Accepted

\* The clock is no part of the accounting.
LEMMA SlotSound ==
  ASSUME BaseInv, AdvanceSlot, UNCHANGED <<ix, ret>>
  PROVE  BaseInv'
<1> USE DEF AdvanceSlot, chain
<1>1. GeneratedTypeOK'
  BY InputAssumption DEF BaseInv, GeneratedTypeOK, Snapshot, Settling, U64
<1> QED BY <1>1 DEF BaseInv, BooksSound, FlightSound, SavedSound, TermsSound, HandedSound,
           Settling, Accepted

\* An instruction that starts and ends between executions is sound when the
\* accounts it leaves are.
LEMMA OpenSound ==
  ASSUME BaseInv, RunInstruction("open"), UNCHANGED ix, LedgerSound',
         engine' \in EngineMaps, settled' = settled
  PROVE  BaseInv'
<1>1. phase = "open" /\ phase \notin Settling /\ phase' = "open" /\ ix' = None
      /\ phase' \notin Settling /\ phase' \notin Accepted /\ phase' \notin {"engine", "receipt"}
  BY OpenFacts DEF RunInstruction, Settling, Accepted
<1>2. Snapshot' \in Chains
  BY <1>1, OpenFacts DEF Snapshot, Chains, LedgerSound
<1>3. used' \in 0 .. MaxInstructions
  BY InputAssumption DEF BaseInv, GeneratedTypeOK, RunInstruction
<1>4. saved' = saved /\ saved \in Chains /\ slot' = slot /\ signers' = signers
  BY <1>1 DEF BaseInv, GeneratedTypeOK, RunInstruction
<1>5. GeneratedTypeOK'
  BY <1>1, <1>2, <1>3, <1>4 DEF BaseInv, GeneratedTypeOK
<1>6. SavedSound'
  BY <1>1, <1>4 DEF BaseInv, SavedSound
<1> QED BY <1>1, <1>5, <1>6 DEF BaseInv, BooksSound, FlightSound, TermsSound, HandedSound,
           LedgerSound

\* Instructions that leave the engines alone.
LEMMA LedgerStep ==
  ASSUME BaseInv, RunInstruction("open"), UNCHANGED <<engine, settled, ix>>, LedgerSound'
  PROVE  BaseInv'
<1>1. engine' \in EngineMaps
  BY OpenFacts DEF RunInstruction, Settling
<1> QED BY <1>1, OpenSound

\* Instructions that touch the engines' accounts only.
LEMMA EngineStep ==
  ASSUME BaseInv, RunInstruction("open"), engine' \in EngineMaps,
         UNCHANGED <<token, market, domain, fee_ledger, donated, settled, ix>>
  PROVE  BaseInv'
<1>1. LedgerSound'
  <2>1. LedgerSound
    BY OpenFacts DEF RunInstruction, Settling
  <2> QED BY <2>1 DEF LedgerSound, RunInstruction
<1> QED BY <1>1, OpenSound

\* Plain transfers, deposits and the creation of a market keep the invariant.
LEMMA SharedSound ==
  ASSUME BaseInv, SplTransfer \/ deposit_v0 \/ initialize_market_domain_v0, UNCHANGED <<ix, ret>>
  PROVE  BaseInv'
<1>1. RunInstruction("open") /\ UNCHANGED <<engine, settled>>
  BY DEF SplTransfer, deposit_v0, initialize_market_domain_v0
<1>2. LedgerSound
  BY <1>1, OpenFacts DEF RunInstruction, Settling
<1>3. LedgerSound'
  BY <1>2, SplTransferEffect, DepositEffect, InitializeEffect
<1> QED BY <1>1, <1>3, LedgerStep

(***************************************************************************)
(* Instructions of the engines' programs outside an execution.             *)
(***************************************************************************)
\* A plan state starts with no execution behind it.
NewPlan(e, f, es) ==
  /\ f \in EngineMaps /\ es \in PlanStates /\ e[es] = None /\ f[es] # None
  /\ f[es].sequence = 0 /\ f[es].last_request_hash = None /\ f[es].last_amount_out = 0
  /\ \A j \in EngineStates : j # es /\ j \notin Markers => f[j] = e[j]

\* The engine's initialize creates one state and its marker.
LEMMA EngineInitializeEffect ==
  ASSUME engine \in EngineMaps, signers \subseteq Users, engine_initialize
  PROVE  \E es \in PlanStates : NewPlan(engine, engine', es)
<1>1. PICK es \in EngineStates \ Markers, authority \in signers, m \in Markets,
           revision \in Revisions, lp \in LpFees :
        /\ StateOwner[es] = GeneratedPlanEngine
        /\ engine[es] = None
        /\ lp < BasisPoints
        /\ engine' = [engine EXCEPT
             ![es] = NewEngineState(authority, m, revision, lp),
             ![CapabilityAuthority(es)] = [engine_state |-> es]]
  BY DEF engine_initialize
<1> DEFINE k == CapabilityAuthority(es)
           s == NewEngineState(authority, m, revision, lp)
           r == [engine_state |-> es]
           e == [engine EXCEPT ![es] = s]
           f == [e EXCEPT ![k] = r]
<1>2. es \in PlanStates /\ k \in Markers /\ k \in EngineStates /\ es # k
  BY <1>1, EngineKinds DEF PlanStates
<1>3. lp \in 0 .. (BasisPoints - 1)
  BY <1>1, EngineAssumption, MathAssumption
<1>4. /\ s \in PlanState /\ s.sequence = 0 /\ s.last_request_hash = None
      /\ s.last_amount_out = 0
  BY <1>1, <1>3, MathAssumption DEF NewEngineState, PlanState, Digests, EngineModes, U64
<1>5. OfKind(es, s) /\ OfKind(k, r)
  BY <1>1, <1>2, <1>4 DEF OfKind, MarkerState
<1>6. engine' = f
  BY <1>1
<1> HIDE DEF s, r, k
<1>7. Puts(engine, e, es, s)
  BY <1>5 DEF Puts
<1> HIDE DEF e
<1>8. /\ e \in EngineMaps /\ e[es] = s /\ e[es] # None
      /\ \A j \in EngineStates : j # es => e[j] = engine[j]
  BY <1>7, EngineWritten
<1>9. Puts(e, f, k, r)
  BY <1>5, <1>8 DEF Puts
<1> HIDE DEF f
<1>10. /\ f \in EngineMaps
       /\ \A j \in EngineStates : j # k => f[j] = e[j]
  BY <1>9, EngineWritten
<1>11. NewPlan(engine, f, es)
  BY <1>1, <1>2, <1>4, <1>8, <1>10 DEF NewPlan
<1> QED BY <1>2, <1>6, <1>11

\* The helper's initialize creates one state that has counted nothing.
LEMMA HelperInitializeEffect ==
  ASSUME engine \in EngineMaps, helper_initialize
  PROVE  /\ engine' \in EngineMaps
         /\ \E h \in HelperStates :
              /\ engine[h] = None /\ engine'[h] # None /\ engine'[h].calls = 0
              /\ \A j \in EngineStates : j # h => engine'[j] = engine[j]
<1>1. PICK h \in EngineStates, authority \in HelperAuthorities :
        /\ StateOwner[h] = HelperProgram
        /\ engine[h] = None
        /\ engine' = [engine EXCEPT ![h] = [authority |-> authority, calls |-> 0, value |-> 0]]
  BY DEF helper_initialize
<1> DEFINE s == [authority |-> authority, calls |-> 0, value |-> 0]
<1>2. s \in HelperState /\ s.calls = 0 /\ h \in HelperStates
  BY <1>1, MathAssumption DEF HelperState, HelperStates, U64
<1>3. engine' = [engine EXCEPT ![h] = s]
  BY <1>1
<1> HIDE DEF s
<1>4. Puts(engine, engine', h, s)
  BY <1>2, <1>3 DEF Puts, OfKind
<1>5. /\ engine' \in EngineMaps /\ engine'[h] = s /\ engine'[h] # None
      /\ \A j \in EngineStates : j # h => engine'[j] = engine[j]
  BY <1>4, EngineWritten
<1> QED BY <1>1, <1>2, <1>5

\* set_mode changes the mode of one state.
LEMMA SetModeEffect ==
  ASSUME engine \in EngineMaps, set_mode
  PROVE  /\ engine' \in EngineMaps
         /\ \E es \in PlanStates :
              /\ engine[es] # None /\ engine'[es] # None
              /\ engine'[es].sequence = engine[es].sequence
              /\ engine'[es].last_request_hash = engine[es].last_request_hash
              /\ engine'[es].last_amount_out = engine[es].last_amount_out
              /\ \A j \in EngineStates : j # es => engine'[j] = engine[j]
<1>1. PICK es \in EngineStates, mode \in ModesUsed :
        IsGeneratedState(es) /\ mode \in EngineModes /\ engine' = [engine EXCEPT ![es].mode = mode]
  BY DEF set_mode
<1> DEFINE s == [engine[es] EXCEPT !.mode = mode]
<1>2. es \in PlanStates /\ engine[es] # None /\ engine[es] \in PlanState
  BY <1>1, EngineKept DEF IsGeneratedState, PlanStates
<1>3. /\ s \in PlanState /\ s.sequence = engine[es].sequence
      /\ s.last_request_hash = engine[es].last_request_hash
      /\ s.last_amount_out = engine[es].last_amount_out
  BY <1>1, <1>2 DEF PlanState
<1>4. engine' = [engine EXCEPT ![es] = s]
  BY <1>1
<1> HIDE DEF s
<1>5. Puts(engine, engine', es, s)
  BY <1>1, <1>2, <1>3, <1>4 DEF Puts, OfKind
<1> QED BY <1>2, <1>3, <1>5, EngineWritten

\* A call of the helper on its own: by a wallet, so not for an engine's authority.
LEMMA IncrementEffect ==
  ASSUME engine \in EngineMaps, signers \subseteq Users, increment
  PROVE  \E h \in HelperStates : Incremented(engine, engine', h) /\ engine[h].authority \notin Markers
<1>1. PICK h \in EngineStates, amount \in Payloads \ {None}, authority \in HelperAuthorities :
        /\ increment_ok(h, authority, authority \in signers, amount)
        /\ engine' = apply_increment(engine, h, amount)
  BY DEF increment
<1>2. CanIncrement(h, amount) /\ engine[h].authority = authority /\ authority \in signers
  BY <1>1 DEF increment_ok, CanIncrement
<1>3. authority \notin Markers
  BY <1>2, EngineAssumption
<1>4. Incremented(engine, engine', h)
  BY <1>1, <1>2, IncrementFacts
<1> QED BY <1>2, <1>3, <1>4 DEF Incremented

\* None of these instructions is part of the accounting.
LEMMA EngineSound ==
  ASSUME BaseInv, engine_initialize \/ helper_initialize \/ set_mode \/ increment, UNCHANGED ix
  PROVE  BaseInv'
<1>1. /\ RunInstruction("open")
      /\ UNCHANGED <<token, market, domain, fee_ledger, donated, settled>>
  BY DEF engine_initialize, helper_initialize, set_mode, increment
<1>2. engine \in EngineMaps /\ signers \subseteq Users
  BY <1>1, OpenFacts DEF RunInstruction, Settling, LedgerSound
<1>3. engine' \in EngineMaps
  BY <1>2, EngineInitializeEffect, HelperInitializeEffect, SetModeEffect, IncrementEffect
     DEF NewPlan, Incremented
<1> QED BY <1>1, <1>3, EngineStep

(***************************************************************************)
(* The start of an execution.                                              *)
(***************************************************************************)
\* The accounts an execution names, as validation leaves them.
Validated(m, d, l, va, vb, fv, user, source, destination) ==
  /\ m \in Markets /\ market[m] # None
  /\ d = DomainPda(m) /\ l = FeeLedgerPda(m, market[m].mint_a)
  /\ va = VaultA(m) /\ vb = VaultB(m) /\ fv = FeeVaultAt(m, market[m].mint_a)
  /\ source \in TokenAccounts /\ token[source] # None /\ token[source].owner = user
  /\ token[source].mint = market[m].mint_a
  /\ destination \in TokenAccounts /\ token[destination] # None
  /\ token[destination].mint = market[m].mint_b
  /\ destination \notin {source, va, vb, fv}
  /\ user \in signers
  /\ OwnerOf(market[m].engine_state) = market[m].engine_program

\* What the handler has checked when it calls the engine.
LEMMA ExecuteChecks ==
  ASSUME execute_engine_generated_probe_v0
  PROVE  \E m \in Markets, d \in Domains, l \in FeeLedgers, va, vb, fv \in TokenAccounts,
            user \in signers, source, destination \in TokenAccounts, args \in ExecuteArgs,
            closure \in Closures :
           /\ Validated(m, d, l, va, vb, fv, user, source, destination)
           /\ arguments_within_limits(args, m, d, l, source)
           /\ validate_opaque_capabilities(closure, FixedEnvelopeKeys(
                Planned(user, m, d, l, va, vb, fv, source, destination, args, closure)))
           /\ ix' = Planned(user, m, d, l, va, vb, fv, source, destination, args, closure)
<1>1. PICK m \in Markets, d \in Domains, l \in FeeLedgers, va \in TokenAccounts,
           vb \in TokenAccounts, fv \in TokenAccounts, user \in signers, source \in TokenAccounts,
           destination \in TokenAccounts, args \in ExecuteArgs, closure \in Closures :
        /\ validate_execution_envelope(m, d, l)
        /\ vault_is(va, canonical_domain_vault(d, ASSET_A_INDEX_V0), market[m].mint_a, d,
                    domain[d].accounted_a)
        /\ vault_is(vb, canonical_domain_vault(d, ASSET_B_INDEX_V0), market[m].mint_b, d,
                    domain[d].accounted_b)
        /\ vault_is(fv, canonical_fee_vault(l), market[m].mint_a, l,
                    fee_ledger[l].accounted_fee_a)
        /\ validate_protected_token_account(source, market[m].mint_a, user)
        /\ validate_credit_destination(destination, market[m].mint_b)
        /\ arguments_within_limits(args, m, d, l, source)
        /\ ensure_distinct_roles(FixedEnvelopeKeys(
             Planned(user, m, d, l, va, vb, fv, source, destination, args, closure)))
        /\ validate_opaque_capabilities(closure, FixedEnvelopeKeys(
             Planned(user, m, d, l, va, vb, fv, source, destination, args, closure)))
        /\ ix' = Planned(user, m, d, l, va, vb, fv, source, destination, args, closure)
  BY DEF execute_engine_generated_probe_v0
<1> DEFINE x == Planned(user, m, d, l, va, vb, fv, source, destination, args, closure)
           keys == FixedEnvelopeKeys(x)
<1>2. destination \notin {source, va, vb, fv}
  <2>1. /\ x.source = source /\ x.destination = destination /\ x.vault_a = va
        /\ x.vault_b = vb /\ x.fee_vault = fv
    BY DEF Planned
  <2> HIDE DEF x
  <2>2. /\ 7 \in DOMAIN keys /\ 8 \in DOMAIN keys /\ 9 \in DOMAIN keys
        /\ 10 \in DOMAIN keys /\ 11 \in DOMAIN keys
        /\ keys[7] = source /\ keys[8] = destination /\ keys[9] = va
        /\ keys[10] = vb /\ keys[11] = fv
    BY <2>1 DEF FixedEnvelopeKeys
  <2>3. ensure_distinct_roles(keys)
    BY <1>1 DEF x
  <2> HIDE DEF keys
  <2> QED BY <2>2, <2>3 DEF ensure_distinct_roles
<1>3. /\ market[m] # None /\ d = DomainPda(m) /\ l = FeeLedgerPda(m, market[m].mint_a)
      /\ OwnerOf(market[m].engine_state) = market[m].engine_program
  BY <1>1 DEF validate_execution_envelope, validate_market_domain, validate_fee_ledger,
     valid_engine_binding
<1>4. va = VaultA(m) /\ vb = VaultB(m) /\ fv = FeeVaultAt(m, market[m].mint_a)
  BY <1>1, <1>3 DEF vault_is, VaultA, VaultB, FeeVaultAt
<1>5. /\ token[source] # None /\ token[source].owner = user
      /\ token[source].mint = market[m].mint_a
      /\ token[destination] # None /\ token[destination].mint = market[m].mint_b
  BY <1>1 DEF validate_protected_token_account, validate_credit_destination,
     validate_common_token_account
<1>6. Validated(m, d, l, va, vb, fv, user, source, destination)
  BY <1>2, <1>3, <1>4, <1>5 DEF Validated
<1> QED BY <1>1, <1>6

\* The descriptors Core binds are typed, and no account of SPL Token is writable.
LEMMA DescriptorsBound ==
  ASSUME NEW closure \in Closures, NEW keys, validate_opaque_capabilities(closure, keys)
  PROVE  /\ OpaqueDescriptors(closure) \in Seq(Descriptors)
         /\ \A i \in DOMAIN OpaqueDescriptors(closure) :
              /\ OpaqueDescriptors(closure)[i].is_writable
              /\ OpaqueDescriptors(closure)[i].key \in TokenAccounts
              => token[OpaqueDescriptors(closure)[i].key] = None
<1> DEFINE o == OpaqueDescriptors(closure)
<1>1. closure \in Seq(AccountMetas)
  BY CapabilityAssumption
<1>2. \A i \in 1 .. Len(closure) : closure[i] \in AccountMetas
  BY <1>1
<1>3. Len(closure) \in Nat /\ DOMAIN closure = 1 .. Len(closure)
  BY <1>1
<1>4. \A i \in DOMAIN closure :
        o[i] = Descriptor(closure[i].key, AccountOwner(closure[i].key),
                          Effective(closure, closure[i].key, "is_writable"))
  BY DEF OpaqueDescriptors
<1>5. \A k \in AccountKeys : AccountOwner(k) \in Programs \cup {None}
  BY KeyAssumption, CapabilityAssumption DEF AccountOwner, OwnerOf
<1>6. ASSUME NEW i \in DOMAIN closure
      PROVE  o[i] \in Descriptors /\ o[i].key = closure[i].key
             /\ (o[i].is_writable => Effective(closure, closure[i].key, "is_writable"))
  <2> DEFINE k == closure[i].key
             w == Effective(closure, k, "is_writable")
             own == AccountOwner(k)
             ex == IsExecutable(k)
  <2>1. k \in AccountKeys /\ own \in Programs \cup {None}
    BY <1>2, <1>3, <1>5 DEF AccountMetas
  <2>2. w \in BOOLEAN /\ ex \in BOOLEAN
    BY DEF Effective, IsExecutable
  <2>3. o[i] = [key |-> k, owner |-> own, is_writable |-> w, is_executable |-> ex]
    BY <1>4 DEF Descriptor
  <2> HIDE DEF o, k, w, own, ex
  <2>4. o[i] \in Descriptors /\ o[i].key = k
    BY <2>1, <2>2, <2>3 DEF Descriptors
  <2>5. o[i].is_writable = w
    BY <2>3
  <2>6. o[i].is_writable => w
    BY <2>5
  <2> QED BY <2>4, <2>6 DEF k, w
<1>7. o \in [1 .. Len(closure) -> Descriptors] /\ DOMAIN o = DOMAIN closure
  BY <1>3, <1>6 DEF OpaqueDescriptors
<1>8. o \in Seq(Descriptors)
  BY <1>3, <1>7
<1>9. ASSUME NEW i \in DOMAIN o, o[i].is_writable, o[i].key \in TokenAccounts
      PROVE  token[o[i].key] = None
  <2>1. i \in DOMAIN closure /\ opaque_capability_allowed(closure, closure[i].key, keys)
    BY <1>7 DEF validate_opaque_capabilities
  <2>2. o[i].key = closure[i].key /\ Effective(closure, closure[i].key, "is_writable")
    BY <1>6, <1>9, <2>1
  <2> QED BY <1>9, <2>1, <2>2 DEF opaque_capability_allowed, TokenOwned
<1> QED BY <1>8, <1>9

\* What the handler holds when it calls the engine.
Starts(x) ==
  /\ x \in Executions
  /\ Roles(token, market, x) /\ Copies(x) /\ Reads(token, domain, fee_ledger, x, 0, 0, 0)
  /\ Agreed(token, market, signers, slot, x)
  /\ NoTokens(token, x)
  /\ x.engine_state = market[x.market].engine_state
  /\ x.engine_program = market[x.market].engine_program
  /\ OwnerOf(x.engine_state) = x.engine_program

\* execute_engine_generated_probe_v0 validates and copies what an execution needs.
LEMMA ExecuteStarts ==
  ASSUME LedgerSound, execute_engine_generated_probe_v0
  PROVE  Starts(ix')
<1>1. PICK m \in Markets, d \in Domains, l \in FeeLedgers, va \in TokenAccounts,
           vb \in TokenAccounts, fv \in TokenAccounts,
           user \in signers, source \in TokenAccounts, destination \in TokenAccounts,
           args \in ExecuteArgs, closure \in Closures :
           /\ Validated(m, d, l, va, vb, fv, user, source, destination)
           /\ arguments_within_limits(args, m, d, l, source)
           /\ validate_opaque_capabilities(closure, FixedEnvelopeKeys(
                Planned(user, m, d, l, va, vb, fv, source, destination, args, closure)))
           /\ ix' = Planned(user, m, d, l, va, vb, fv, source, destination, args, closure)
  BY ExecuteChecks
<1> DEFINE x == Planned(user, m, d, l, va, vb, fv, source, destination, args, closure)
           fee == fee_ceil(args.amount_in, market[m].fee_bps)
           fees == fee_ceil(args.amount_in, ProtocolFeeBps)
           o == OpaqueDescriptors(closure)
           n == Len(closure)
<1>2. /\ x.user = user /\ x.market = m /\ x.domain = d /\ x.fee_ledger = l
      /\ x.vault_a = va /\ x.vault_b = vb /\ x.fee_vault = fv
      /\ x.source = source /\ x.destination = destination
      /\ x.engine_program = market[m].engine_program
      /\ x.engine_state = market[m].engine_state
      /\ x.args = args /\ x.opaque = o /\ x.protocol_fee = fee
      /\ x.accounted_a = domain[d].accounted_a /\ x.accounted_b = domain[d].accounted_b
      /\ x.accounted_fee_a = fee_ledger[l].accounted_fee_a
      /\ x.source_before = token[source].amount
      /\ x.destination_before = token[destination].amount
      /\ x.vault_a_before = token[va].amount /\ x.vault_b_before = token[vb].amount
      /\ x.fee_vault_before = token[fv].amount
  BY DEF Planned
<1>3. /\ token \in TokenStates /\ market \in MarketStates /\ domain \in DomainStates
      /\ fee_ledger \in FeeLedgerStates /\ donated \in DonatedStates /\ signers \subseteq Users
      /\ Canonical(token, market, domain, fee_ledger, donated)
  BY LedgerFacts
<1>4. /\ market[m] # None /\ d = DomainPda(m) /\ l = FeeLedgerPda(m, market[m].mint_a)
      /\ va = VaultA(m) /\ vb = VaultB(m) /\ fv = FeeVaultAt(m, market[m].mint_a)
      /\ token[source] # None /\ token[destination] # None /\ token[source].owner = user
      /\ token[source].mint = market[m].mint_a
  BY <1>1 DEF Validated
<1>5. /\ market[m] \in MarketV0 /\ domain[d] \in DomainV0 /\ fee_ledger[l] \in FeeLedgerV0
      /\ token[va] \in TokenAccount /\ token[vb] \in TokenAccount /\ token[fv] \in TokenAccount
      /\ token[source] \in TokenAccount /\ token[destination] \in TokenAccount
  <2>1. token[source] \in TokenAccount /\ token[destination] \in TokenAccount
    BY <1>3, <1>4 DEF TokenStates
  <2> QED BY <1>3, <1>4, <2>1, MarketNumbers
<1>6. /\ user \in Users /\ args \in ExecuteEngineGeneratedProbeV0Args
      /\ market[m].engine_program \in Programs /\ market[m].engine_state \in EngineStates
      /\ market[m].fee_bps = ProtocolFeeBps
  BY <1>3, <1>5, GeneratedAssumption DEF MarketV0
<1>7. /\ fee \in U64 /\ args.amount_in \in U64 /\ args.amount_in > 0
      /\ slot <= args.expires_at_slot /\ fee <= args.max_protocol_fee
      /\ args.amount_in + fee <= args.max_total_input_debit
      /\ AddFits(domain[d].accounted_a, args.amount_in)
      /\ AddFits(fee_ledger[l].accounted_fee_a, fee)
  BY <1>1, <1>6 DEF arguments_within_limits, fee_ceil_ok, ExecuteEngineGeneratedProbeV0Args
<1>8. fee = fees
  BY <1>6
<1>9. /\ domain[d].accounted_a \in U64 /\ domain[d].accounted_b \in U64
      /\ fee_ledger[l].accounted_fee_a \in U64
      /\ token[source].amount \in U64 /\ token[destination].amount \in U64
      /\ token[va].amount \in U64 /\ token[vb].amount \in U64 /\ token[fv].amount \in U64
  BY <1>5 DEF DomainV0, FeeLedgerV0, TokenAccount
<1>10. o \in Seq(Descriptors) /\ n \in Nat
  BY <1>1, DescriptorsBound, CapabilityAssumption
<1>11. NoTokens(token, x)
  <2>1. \A i \in DOMAIN o : o[i].is_writable /\ o[i].key \in TokenAccounts => token[o[i].key] = None
    BY <1>1, DescriptorsBound
  <2> HIDE DEF o, x
  <2> QED BY <1>2, <2>1 DEF NoTokens
<1>12. x \in Executions
  <2>1. 0 \in U64
    BY MathAssumption DEF U64
  <2> HIDE DEF fee, o, n
  <2> QED BY <1>6, <1>7, <1>9, <1>10, <2>1 DEF Planned, Executions, fee, o, n
<1> HIDE DEF x, fee, o, fees
<1>13. Roles(token, market, x)
  <2>1. source \notin CoreVaults
    BY <1>3, <1>4, <1>6 DEF Canonical
  <2>2. destination \notin {source, va, vb, fv} /\ token[destination].mint = market[m].mint_b
    BY <1>1 DEF Validated
  <2> QED BY <1>2, <1>4, <2>1, <2>2 DEF Roles
<1>14. Copies(x) /\ Reads(token, domain, fee_ledger, x, 0, 0, 0)
  <2>1. /\ token[source].amount \in Int /\ token[destination].amount \in Int
        /\ token[va].amount \in Int /\ token[vb].amount \in Int /\ token[fv].amount \in Int
    BY <1>9, MathAssumption DEF U64
  <2> QED BY <1>2, <2>1 DEF Copies, Reads
<1>15. Agreed(token, market, signers, slot, x)
  BY <1>2, <1>4, <1>7, <1>8 DEF Agreed, total_input_debit, AddFits, fees
<1>16. OwnerOf(market[m].engine_state) = market[m].engine_program
  BY <1>1 DEF Validated
<1>17. Starts(x)
  BY <1>2, <1>11, <1>12, <1>13, <1>14, <1>15, <1>16 DEF Starts
<1> QED BY <1>1, <1>17 DEF x

\* Before the transfers nothing has been paid.
LEMMA NothingPaid ==
  ASSUME NEW p \in {"engine", "receipt", "input"}, NEW x, NEW out
  PROVE  InputMade(p, x) = 0 /\ FeeMade(p, x) = 0 /\ OutputMade(p, out) = 0
BY DEF InputMade, FeeMade, OutputMade, PaymentsMade

\* An execution starts with sound accounts.
LEMMA ExecuteSound ==
  ASSUME BaseInv, execute_engine_generated_probe_v0
  PROVE  BaseInv'
<1>1. /\ RunInstruction("engine") /\ phase = "open" /\ phase' = "engine" /\ UNCHANGED chain
      /\ signers' = signers /\ slot' = slot /\ saved' = saved
  BY DEF execute_engine_generated_probe_v0, RunInstruction
<1>2. LedgerSound
  BY <1>1, OpenFacts DEF Settling
<1>3. Starts(ix')
  BY <1>2, ExecuteStarts
<1>4. phase' \in Settling /\ phase' \notin Accepted /\ phase' # "receipt" /\ phase' # "idle"
      /\ phase # "idle"
  BY <1>1 DEF Settling, Accepted
<1>5. GeneratedTypeOK'
  <2>1. used' \in 0 .. MaxInstructions
    BY InputAssumption DEF BaseInv, GeneratedTypeOK, RunInstruction, execute_engine_generated_probe_v0
  <2>2. Snapshot' \in Chains
    BY <1>1 DEF BaseInv, GeneratedTypeOK, Snapshot, chain
  <2> QED BY <1>1, <1>3, <1>4, <2>1, <2>2 DEF BaseInv, GeneratedTypeOK, Starts
<1>6. Flight(token, market, domain, fee_ledger, donated, ix', 0, 0, 0)
  BY <1>2, <1>3, FlightOpens DEF Starts
<1>7. FlightSound'
  BY <1>1, <1>6, NothingPaid DEF FlightSound, chain
<1>8. SavedSound'
  BY <1>1 DEF BaseInv, SavedSound
<1>9. TermsSound' /\ HandedSound' /\ BooksSound'
  BY <1>1, <1>3, <1>4 DEF TermsSound, HandedSound, BooksSound, Starts, chain
<1> QED BY <1>5, <1>7, <1>8, <1>9 DEF BaseInv

(***************************************************************************)
(* The steps of an execution.                                              *)
(***************************************************************************)
\* What holds during an execution.
LEMMA SettlingFacts ==
  ASSUME BaseInv, phase \in Settling
  PROVE  /\ token \in TokenStates /\ market \in MarketStates /\ domain \in DomainStates
         /\ fee_ledger \in FeeLedgerStates /\ donated \in DonatedStates
         /\ engine \in EngineMaps /\ settled \in SettledStates
         /\ signers \subseteq Users /\ saved \in Chains /\ ix \in Executions
         /\ ix.user \in Users /\ ix.user # None /\ ix.domain # None /\ ix.protocol_fee \in U64
         /\ ix.engine_state \in EngineStates /\ ix.amount_out \in U64
         /\ ix.accounted_a \in U64 /\ ix.accounted_b \in U64 /\ ix.accounted_fee_a \in U64
         /\ ix.opaque \in Seq(Descriptors) /\ ix.args \in ExecuteEngineGeneratedProbeV0Args
         /\ ix.args.amount_in \in U64 /\ ix.args.opaque_payload \in Payloads
         /\ ix.args.min_output_credit \in U64
         /\ phase # "idle"
         /\ Flight(token, market, domain, fee_ledger, donated, ix, InputMade(phase, ix),
                   FeeMade(phase, ix), OutputMade(phase, ix.amount_out))
         /\ Agreed(token, market, signers, slot, ix)
<1>1. /\ Snapshot \in Chains /\ saved \in Chains /\ ix \in Executions /\ signers \subseteq Users
      /\ phase # "idle"
  BY DEF BaseInv, GeneratedTypeOK, Settling
<1>2. /\ token \in TokenStates /\ market \in MarketStates /\ domain \in DomainStates
      /\ fee_ledger \in FeeLedgerStates /\ donated \in DonatedStates
      /\ engine \in EngineMaps /\ settled \in SettledStates
  BY <1>1 DEF Snapshot, Chains
<1>3. /\ ix.user \in Users /\ ix.domain \in Domains /\ ix.protocol_fee \in U64
      /\ ix.engine_state \in EngineStates /\ ix.amount_out \in U64 /\ ix.args \in ExecuteArgs
      /\ ix.accounted_a \in U64 /\ ix.accounted_b \in U64 /\ ix.accounted_fee_a \in U64
      /\ ix.opaque \in Seq(Descriptors)
  BY <1>1 DEF Executions
<1>4. ix.args \in ExecuteEngineGeneratedProbeV0Args
  BY <1>3, GeneratedAssumption
<1>5. ix.args.amount_in \in U64 /\ ix.args.opaque_payload \in Payloads
      /\ ix.args.min_output_credit \in U64
  BY <1>4 DEF ExecuteEngineGeneratedProbeV0Args
<1>6. ix.user # None /\ ix.domain # None
  BY <1>3, KeyAssumption
<1> QED BY <1>1, <1>2, <1>3, <1>4, <1>5, <1>6 DEF BaseInv, FlightSound, TermsSound

\* A step inside an execution that leaves typed accounts keeps the frame.
LEMMA FrameKept ==
  ASSUME BaseInv, phase \in Settling, phase' \in Settling, UNCHANGED <<slot, signers, used, saved>>,
         ix' \in Executions, token' \in TokenStates, engine' \in EngineMaps,
         donated' \in DonatedStates, UNCHANGED <<market, domain, fee_ledger, settled>>
  PROVE  GeneratedTypeOK' /\ SavedSound' /\ BooksSound'
<1>1. phase # "idle" /\ phase' # "idle"
  BY DEF Settling
<1>2. Snapshot' \in Chains
  BY SettlingFacts DEF Snapshot, Chains
<1> QED BY <1>1, <1>2 DEF BaseInv, GeneratedTypeOK, SavedSound, BooksSound

\* The digest of the request in flight is one.
LEMMA DigestTyped ==
  ASSUME BaseInv, phase \in Settling
  PROVE  compute_request_hash(RequestBinding(ix)) \in Digests
<1> DEFINE o == capability_descriptors(ix.engine_state, ix.opaque)
           b == RequestBinding(ix)
           h == capability_hash(ix)
           p == compute_payload_hash(ix.args.opaque_payload)
<1>1. /\ ix \in Executions /\ ix.args \in ExecuteEngineGeneratedProbeV0Args
      /\ ix.opaque \in Seq(Descriptors) /\ ix.engine_state \in EngineStates
  BY SettlingFacts
<1>2. Descriptor(ix.engine_state, OwnerOf(ix.engine_state), TRUE) \in Descriptors
  BY <1>1, KeyAssumption DEF Descriptor, Descriptors, AccountKeys, OwnerOf, IsExecutable
<1>3. Descriptor(InstructionsSysvar, None, FALSE) \in Descriptors
  BY DEF Descriptor, Descriptors, IsExecutable
<1>4. o \in Seq(Descriptors)
  <2> DEFINE a == Descriptor(ix.engine_state, OwnerOf(ix.engine_state), TRUE)
             c == Descriptor(InstructionsSysvar, None, FALSE)
             w == <<a, c>>
  <2>1. a \in Descriptors /\ c \in Descriptors
    BY <1>2, <1>3
  <2> HIDE DEF a, c
  <2>2. w \in Seq(Descriptors)
    BY <2>1
  <2> HIDE DEF w
  <2>3. w \o ix.opaque \in Seq(Descriptors)
    BY <1>1, <2>2
  <2> QED BY <2>3 DEF capability_descriptors, w, a, c
<1> HIDE DEF o
<1>5. h \in [capabilities : Programs \X Seq(Descriptors)]
  <2>1. ix.engine_program \in Programs
    BY <1>1 DEF Executions
  <2> QED BY <1>4, <2>1 DEF capability_hash, compute_capability_hash, o
<1>6. p \in [payload : Payloads]
  BY <1>1 DEF compute_payload_hash, ExecuteEngineGeneratedProbeV0Args
<1> HIDE DEF h, p
<1>7. b \in RequestBindings
  BY <1>1, <1>5, <1>6 DEF RequestBinding, RequestBindings, Executions,
     ExecuteEngineGeneratedProbeV0Args, h, p
<1> HIDE DEF b
<1>8. compute_request_hash(b) \in Digests
  BY <1>7 DEF compute_request_hash, Digests
<1> QED BY <1>8 DEF b

\* Core's call is well typed.
LEMMA CallTyped ==
  ASSUME BaseInv, phase \in Settling
  PROVE  /\ Asked(CoreCall) /\ CoreCall.engine_state = ix.engine_state
         /\ CoreCall.accounts = Observed(ix.opaque)
         /\ CoreCall.request.request_hash = compute_request_hash(RequestBinding(ix))
         /\ CoreCall.request.payload = ix.args.opaque_payload
         /\ CoreCall.request.accounted_input_before = ix.accounted_a
         /\ CoreCall.request.accounted_output_before = ix.accounted_b
         /\ CoreCall.request.amount_in = ix.args.amount_in
<1>1. /\ CoreCall.engine_state = ix.engine_state /\ CoreCall.accounts = Observed(ix.opaque)
      /\ CoreCall.request = EngineRequest(ix)
  BY DEF CoreCall, EngineCall
<1>2. /\ EngineRequest(ix).request_hash = compute_request_hash(RequestBinding(ix))
      /\ EngineRequest(ix).payload = ix.args.opaque_payload
      /\ EngineRequest(ix).accounted_input_before = ix.accounted_a
      /\ EngineRequest(ix).accounted_output_before = ix.accounted_b
      /\ EngineRequest(ix).amount_in = ix.args.amount_in
  BY DEF EngineRequest
<1> QED BY <1>1, <1>2, DigestTyped, SettlingFacts DEF Asked

\* Only Core's call succeeds, at its place in the execution.
LEMMA EvaluateStep ==
  ASSUME evaluate
  PROVE  /\ phase = "engine" /\ phase' = "receipt" /\ ix.engine_program = GeneratedPlanEngine
         /\ EvaluateSucceeds(CoreCall)
         /\ engine' = EvaluatedEngine(CoreCall) /\ ret' = EvaluateReturn(CoreCall)
         /\ UNCHANGED <<token, market, domain, fee_ledger, donated, settled, slot, signers,
                        used, saved, ix>>
<1>1. PICK call \in EvaluateCalls :
        /\ phase = "engine" => ix.engine_program = GeneratedPlanEngine
        /\ EvaluateSucceeds(call)
        /\ engine' = EvaluatedEngine(call)
        /\ ret' = EvaluateReturn(call)
  BY DEF evaluate
<1>2. phase = "engine"
  <2>1. SUFFICES ASSUME phase # "engine" PROVE FALSE
    OBVIOUS
  <2>2. PICK h \in 1 .. 2, es \in GeneratedStates : call = ForgedCall(h, "other", es)
    BY <1>1, <2>1 DEF EvaluateCalls
  <2>3. call.top_level = "other"
    BY <2>2 DEF ForgedCall, EngineCall
  <2>4. call.top_level = "core_execute"
    BY <1>1 DEF EvaluateSucceeds, require_direct_core_cpi
  <2> QED BY <2>3, <2>4
<1>3. call = CoreCall
  BY <1>1, <1>2 DEF EvaluateCalls
<1> QED BY <1>1, <1>2, <1>3 DEF evaluate, AfterEngine

\* A step before the transfers: nothing of the accounting moves.
LEMMA BeforePayment ==
  ASSUME BaseInv, phase \in {"engine", "receipt"}, phase' \in {"engine", "receipt"},
         UNCHANGED <<token, market, domain, fee_ledger, donated, settled, slot, signers,
                     used, saved, ix>>,
         engine' \in EngineMaps, phase' = "engine" => phase = "engine",
         phase' = "receipt" /\ ret' # None => ret'.amount_out \in U64
  PROVE  BaseInv'
<1>1. phase \in Settling /\ phase' \in Settling /\ phase' \notin Accepted
  BY DEF Settling, Accepted
<1>2. GeneratedTypeOK' /\ SavedSound' /\ BooksSound'
  BY <1>1, FrameKept, SettlingFacts
<1>3. FlightSound'
  BY <1>1, NothingPaid DEF BaseInv, FlightSound
<1>4. TermsSound'
  BY <1>1 DEF BaseInv, TermsSound
<1>5. HandedSound'
  BY DEF BaseInv, HandedSound
<1> QED BY <1>2, <1>3, <1>4, <1>5 DEF BaseInv

\* What the engine returns for a call that succeeds: a word, and its answer if the
\* return data are its own.
LEMMA ReturnFacts ==
  ASSUME engine \in EngineMaps, NEW call, Asked(call), EvaluateSucceeds(call),
         EvaluateReturn(call) # None
  PROVE  /\ EvaluateReturn(call).amount_out \in U64
         /\ EvaluateReturn(call).setter = GeneratedPlanEngine =>
              EvaluateReturn(call).amount_out = EvaluateAmountOut(call)
<1> DEFINE q == EvaluateAmountOut(call)
           n == engine[call.engine_state].sequence + 1
           hash == call.request.request_hash
           good == EngineReceipt(GeneratedPlanEngine, TRUE, hash, q, n)
           r == EvaluateReturn(call)
<1>1. q \in U64 /\ 0 \in U64
  BY AmountOutFacts, MathAssumption DEF U64
<1>2. \/ r = HelperReturn
      \/ r = [good EXCEPT !.request_hash = OtherHash]
      \/ r = [good EXCEPT !.well_formed = FALSE]
      \/ r = good
  BY DEF EvaluateReturn
<1>3. HelperReturn.amount_out = 0 /\ HelperReturn.setter = HelperProgram
  BY DEF HelperReturn, EngineReceipt
<1> HIDE DEF q, r, n, hash
<1>4. \/ r = HelperReturn
      \/ r.amount_out = q
  BY <1>2 DEF EngineReceipt
<1>5. r.amount_out \in U64 /\ (r.setter = GeneratedPlanEngine => r.amount_out = q)
  BY <1>1, <1>3, <1>4, EngineAssumption
<1> QED BY <1>5 DEF r, q

\* The engine's call moves no tokens.
LEMMA EvaluateSound ==
  ASSUME BaseInv, evaluate
  PROVE  BaseInv'
<1>1. /\ phase = "engine" /\ phase' = "receipt" /\ EvaluateSucceeds(CoreCall)
      /\ engine' = EvaluatedEngine(CoreCall) /\ ret' = EvaluateReturn(CoreCall)
      /\ UNCHANGED <<token, market, domain, fee_ledger, donated, settled, slot, signers,
                     used, saved, ix>>
  BY EvaluateStep
<1>2. phase \in Settling
  BY <1>1 DEF Settling
<1>3. engine \in EngineMaps /\ Asked(CoreCall)
  BY <1>2, SettlingFacts, CallTyped
<1>4. engine' \in EngineMaps
  BY <1>1, <1>3, EvaluatedFacts DEF Evaluated
<1>5. ret' # None => ret'.amount_out \in U64
  BY <1>1, <1>3, ReturnFacts
<1> QED BY <1>1, <1>4, <1>5, BeforePayment

\* An account that a callee sees writable was bound writable.
LEMMA ObservedWritable ==
  ASSUME NEW o \in Seq(Descriptors), NEW k, HandedWritable(Observed(o), k)
  PROVE  \E j \in DOMAIN o : o[j].is_writable /\ o[j].key = k
<1> DEFINE w(i) == \E j \in DOMAIN o : o[j].key = o[i].key /\ o[j].is_writable
<1>1. PICK i \in DOMAIN Observed(o) : Observed(o)[i].key = k /\ Observed(o)[i].is_writable
  BY DEF HandedWritable
<1>2. i \in DOMAIN o /\ Observed(o)[i] = [o[i] EXCEPT !.is_writable = w(i)]
  BY <1>1 DEF Observed
<1>3. o[i] \in Descriptors
  BY <1>2
<1>4. w(i) \in BOOLEAN
  OBVIOUS
<1> HIDE DEF w
<1>5. Observed(o)[i].is_writable = w(i) /\ Observed(o)[i].key = o[i].key
  BY <1>2, <1>3 DEF Descriptors
<1>6. w(i) /\ o[i].key = k
  BY <1>1, <1>5
<1> QED BY <1>6 DEF w

\* Whatever an engine of unknown code does with the accounts it was handed, it moves no
\* tokens and reaches neither the generated plan engine nor a helper of its states.
LEMMA ForeignActStep ==
  ASSUME BaseInv, foreign_act
  PROVE  /\ phase = "engine" /\ ix.engine_program # GeneratedPlanEngine
         /\ UNCHANGED <<token, market, domain, fee_ledger, donated, settled, slot, phase,
                        signers, used, saved, ix, ret>>
         /\ \E h \in HelperStates :
              Incremented(engine, engine', h) /\ engine[h].authority \notin Markers
<1> DEFINE acc == CoreCall.accounts
<1>1. /\ phase = "engine" /\ ix.engine_program # GeneratedPlanEngine /\ phase \in Settling
      /\ UNCHANGED <<market, domain, fee_ledger, settled, slot, phase, signers, used, saved, ix, ret>>
  BY DEF foreign_act, ForeignTurn, Settling
<1>2. PICK effect \in TokenMoves(acc) \cup HelperCalls(acc) \cup EngineCalls(acc) :
        token' = effect.token /\ donated' = effect.donated /\ engine' = effect.engine
  BY DEF foreign_act
<1>3. ix.opaque \in Seq(Descriptors) /\ engine \in EngineMaps /\ acc = Observed(ix.opaque)
  BY <1>1, SettlingFacts, CallTyped
<1>4. effect \notin TokenMoves(acc)
  <2>1. SUFFICES ASSUME effect \in TokenMoves(acc) PROVE FALSE
    OBVIOUS
  <2>2. PICK from \in TokenAccounts : HandedWritable(acc, from) /\ token[from] # None
    BY <2>1 DEF TokenMoves, CanTransfer
  <2>3. \E j \in DOMAIN ix.opaque : ix.opaque[j].is_writable /\ ix.opaque[j].key = from
    BY <1>3, <2>2, ObservedWritable
  <2> QED BY <1>1, <2>2, <2>3 DEF BaseInv, HandedSound, NoTokens
<1>5. effect \notin EngineCalls(acc)
  <2>1. SUFFICES ASSUME effect \in EngineCalls(acc) PROVE FALSE
    OBVIOUS
  <2>2. PICK es \in GeneratedStates : EvaluateSucceeds(ForgedCall(3, "core_execute", es))
    BY <2>1 DEF EngineCalls
  <2>3. ForgedCall(3, "core_execute", es).stack_height = 2
    BY <2>2 DEF EvaluateSucceeds, require_direct_core_cpi
  <2> QED BY <2>3 DEF ForgedCall, EngineCall
<1>6. PICK c \in [helper : EngineStates, amount : Payloads \ {None}, authority : EnginePdas] :
        /\ increment_ok(c.helper, c.authority, TRUE, c.amount)
        /\ effect = [NoEffect EXCEPT !.engine = apply_increment(engine, c.helper, c.amount)]
  BY <1>2, <1>4, <1>5 DEF HelperCalls
<1>7. token' = token /\ donated' = donated /\ engine' = apply_increment(engine, c.helper, c.amount)
  BY <1>2, <1>6 DEF NoEffect
<1>8. CanIncrement(c.helper, c.amount) /\ engine[c.helper].authority \in EnginePdas
  BY <1>6 DEF increment_ok, CanIncrement
<1>9. c.amount \in Payloads /\ c.amount # None
  OBVIOUS
<1>10. Incremented(engine, engine', c.helper)
  BY <1>3, <1>7, <1>8, <1>9, IncrementFacts
<1>11. engine[c.helper].authority \notin Markers
  BY <1>8, EngineAssumption
<1> QED BY <1>1, <1>7, <1>10, <1>11 DEF Incremented

\* The acts and answers of an engine of unknown code keep the invariant.
LEMMA ForeignSound ==
  ASSUME BaseInv, foreign_act \/ foreign_return
  PROVE  BaseInv'
<1>1. CASE foreign_act
  <2>1. /\ phase = "engine"
        /\ UNCHANGED <<token, market, domain, fee_ledger, donated, settled, slot, phase,
                       signers, used, saved, ix, ret>>
        /\ engine' \in EngineMaps
    BY <1>1, ForeignActStep DEF Incremented
  <2> QED BY <2>1, BeforePayment
<1>2. CASE foreign_return
  <2>1. /\ phase = "engine" /\ phase' = "receipt" /\ ret' \in ForeignReceipts
        /\ UNCHANGED <<token, market, domain, fee_ledger, donated, settled, slot,
                       signers, used, saved, ix, engine>>
    BY <1>2 DEF foreign_return, ForeignTurn, chain
  <2>2. engine' \in EngineMaps
    BY <2>1, SettlingFacts DEF Settling
  <2>3. ret' # None => ret'.amount_out \in U64
    <3> DEFINE hash == EngineRequest(ix).request_hash
               good == {EngineReceipt(ix.engine_program, TRUE, hash, amount, 0) :
                          amount \in ForeignAmounts}
    <3>1. SUFFICES ASSUME ret' # None PROVE ret'.amount_out \in U64
      OBVIOUS
    <3>2. \A r \in good : r.amount_out \in U64 /\ r = [setter |-> r.setter,
             well_formed |-> r.well_formed, request_hash |-> r.request_hash,
             amount_out |-> r.amount_out, state_sequence |-> r.state_sequence]
      BY GeneratedAssumption DEF EngineReceipt
    <3>3. \E r \in good : \/ ret' = r
                          \/ ret' = [r EXCEPT !.setter = HelperProgram]
                          \/ ret' = [r EXCEPT !.well_formed = FALSE]
                          \/ ret' = [r EXCEPT !.request_hash = OtherHash]
      BY <2>1, <3>1 DEF ForeignReceipts
    <3> HIDE DEF good
    <3> QED BY <3>2, <3>3
  <2> QED BY <2>1, <2>2, <2>3, BeforePayment
<1> QED BY <1>1, <1>2

\* The accepted answer is the output of the settlement.
LEMMA AcceptSound ==
  ASSUME BaseInv, accept_receipt
  PROVE  /\ BaseInv'
         /\ ix'.amount_out = ret.amount_out /\ ret.amount_out \in U64
         /\ ix' \in Executions
<1>1. /\ phase = "receipt" /\ phase' = "input" /\ ret # None
      /\ validate_amount_out(ret.amount_out, ix.args.min_output_credit, ix.accounted_b)
      /\ ix' = [ix EXCEPT !.amount_out = ret.amount_out]
      /\ UNCHANGED <<token, market, domain, fee_ledger, engine, donated, settled, slot,
                     signers, used, saved, ret>>
  BY DEF accept_receipt, chain
<1>2. phase \in Settling /\ phase' \in Settling /\ phase' \in Accepted
      /\ phase' # "engine" /\ phase' # "receipt"
  BY <1>1 DEF Settling, Accepted
<1>3. ix \in Executions /\ ret.amount_out \in U64
  BY <1>1, <1>2, SettlingFacts DEF BaseInv, HandedSound
<1>4. /\ ix' \in Executions /\ ix'.amount_out = ret.amount_out
      /\ ix'.user = ix.user /\ ix'.market = ix.market /\ ix'.domain = ix.domain
      /\ ix'.fee_ledger = ix.fee_ledger /\ ix'.vault_a = ix.vault_a /\ ix'.vault_b = ix.vault_b
      /\ ix'.fee_vault = ix.fee_vault /\ ix'.source = ix.source
      /\ ix'.destination = ix.destination /\ ix'.args = ix.args
      /\ ix'.protocol_fee = ix.protocol_fee /\ ix'.accounted_a = ix.accounted_a
      /\ ix'.accounted_b = ix.accounted_b /\ ix'.accounted_fee_a = ix.accounted_fee_a
      /\ ix'.source_before = ix.source_before /\ ix'.destination_before = ix.destination_before
      /\ ix'.vault_a_before = ix.vault_a_before /\ ix'.vault_b_before = ix.vault_b_before
      /\ ix'.fee_vault_before = ix.fee_vault_before
  BY <1>1, <1>3 DEF Executions
<1>5. GeneratedTypeOK' /\ SavedSound' /\ BooksSound'
  <2>1. token' \in TokenStates /\ engine' \in EngineMaps /\ donated' \in DonatedStates
    BY <1>1, <1>2, SettlingFacts
  <2> QED BY <1>1, <1>2, <1>4, <2>1, FrameKept
<1>6. FlightSound'
  <2>1. Flight(token, market, domain, fee_ledger, donated, ix, 0, 0, 0)
    BY <1>1, <1>2, SettlingFacts, NothingPaid
  <2>2. Flight(token, market, domain, fee_ledger, donated, ix', 0, 0, 0)
    BY <1>4, <2>1 DEF Flight, Roles, Reads, Copies
  <2> QED BY <1>1, <2>2, NothingPaid DEF FlightSound
<1>7. TermsSound'
  <2>1. Agreed(token, market, signers, slot, ix')
    BY <1>2, <1>4, SettlingFacts DEF Agreed, total_input_debit
  <2>2. Answered(ix')
    BY <1>1, <1>4 DEF Answered, validate_amount_out
  <2> QED BY <1>1, <2>1, <2>2 DEF TermsSound
<1>8. HandedSound'
  BY <1>2 DEF HandedSound
<1> QED BY <1>3, <1>4, <1>5, <1>6, <1>7, <1>8 DEF BaseInv

\* What has been paid when each transfer is due.
LEMMA PaidSoFar ==
  ASSUME NEW x, NEW out
  PROVE  /\ InputMade("fee", x) = x.args.amount_in /\ FeeMade("fee", x) = 0
         /\ OutputMade("fee", out) = 0
         /\ InputMade("output", x) = x.args.amount_in /\ FeeMade("output", x) = x.protocol_fee
         /\ OutputMade("output", out) = 0
         /\ InputMade("finalize", x) = x.args.amount_in /\ FeeMade("finalize", x) = x.protocol_fee
         /\ OutputMade("finalize", out) = out
BY DEF InputMade, FeeMade, OutputMade, PaymentsMade

\* A transfer keeps what validation found of the source.
LEMMA AgreedKept ==
  ASSUME NEW t, NEW r, NEW mk, NEW s, NEW n, NEW x, Agreed(t, mk, s, n, x), Kept(t, r),
         x.source \in TokenAccounts
  PROVE  Agreed(r, mk, s, n, x)
BY DEF Agreed, Kept

\* A transfer of the settlement that leaves the payments of its next phase keeps the
\* invariant.
LEMMA PaymentSound ==
  ASSUME BaseInv, phase \in Accepted, phase' \in Accepted,
         UNCHANGED <<market, domain, fee_ledger, engine, settled, slot, signers, used, saved, ix>>,
         Kept(token, token'),
         Flight(token', market, domain, fee_ledger, donated', ix, InputMade(phase', ix),
                FeeMade(phase', ix), OutputMade(phase', ix.amount_out))
  PROVE  BaseInv'
<1>1. phase \in Settling /\ phase' \in Settling /\ phase' # "engine" /\ phase' # "receipt"
  BY DEF Settling, Accepted
<1>2. token' \in TokenStates /\ donated' \in DonatedStates
  BY DEF Flight
<1>3. GeneratedTypeOK' /\ SavedSound' /\ BooksSound'
  BY <1>1, <1>2, FrameKept, SettlingFacts
<1>4. FlightSound'
  BY <1>1 DEF FlightSound
<1>5. TermsSound'
  <2>1. ix.source \in TokenAccounts
    BY <1>1, SettlingFacts DEF Executions
  <2>2. Agreed(token', market, signers, slot, ix)
    BY <1>1, <2>1, AgreedKept, SettlingFacts
  <2> QED BY <2>2 DEF BaseInv, TermsSound
<1>6. HandedSound'
  BY <1>1 DEF HandedSound
<1> QED BY <1>3, <1>4, <1>5, <1>6 DEF BaseInv

\* What the two payments of the user's do.
LEMMA InputFeeSteps ==
  ASSUME BaseInv, transfer_input \/ transfer_fee
  PROVE  /\ BaseInv' /\ UNCHANGED <<market, domain, fee_ledger, engine, donated, settled, slot,
                                    signers, used, saved, ix>>
         /\ phase \in Accepted /\ phase' \in Accepted
         /\ Kept(token, token') /\ token' \in TokenStates
         /\ Flight(token', market, domain, fee_ledger, donated, ix, InputMade(phase', ix),
                   FeeMade(phase', ix), OutputMade(phase', ix.amount_out))
         /\ \A a \in TokenAccounts : a \notin {ix.source, ix.vault_a, ix.fee_vault} => token'[a] = token[a]
<1> DEFINE n == ix.args.amount_in
           g == ix.protocol_fee
           Others == \A a \in TokenAccounts :
                       a \notin {ix.source, ix.vault_a, ix.fee_vault} => token'[a] = token[a]
<1>1. /\ UNCHANGED <<market, domain, fee_ledger, engine, donated, settled, slot, signers, used,
                     saved, ix>>
      /\ phase \in Accepted /\ phase' \in Accepted /\ phase \in Settling
  BY DEF transfer_input, transfer_fee, Settle, Accepted, Settling
<1>2. /\ n \in U64 /\ g \in U64 /\ n \in Int /\ g \in Int /\ ix.user # None
  BY <1>1, SettlingFacts, MathAssumption DEF U64
<1>3. /\ Kept(token, token') /\ Others
      /\ Flight(token', market, domain, fee_ledger, donated, ix, InputMade(phase', ix),
                FeeMade(phase', ix), OutputMade(phase', ix.amount_out))
  <2>1. CASE transfer_input
    <3>1. /\ phase = "input" /\ phase' = "fee"
          /\ CanTransfer(token, ix.source, ix.vault_a, market[ix.market].mint_a, n, ix.user)
          /\ token' = Transferred(token, ix.source, ix.vault_a, n, ix.user)
      BY <2>1 DEF transfer_input, Settle
    <3>2. Flight(token, market, domain, fee_ledger, donated, ix, 0, 0, 0)
      BY <1>1, <3>1, SettlingFacts, NothingPaid
    <3>3. PaymentOf(token, token', ix.source, ix.vault_a, market[ix.market].mint_a, n, ix.user)
      BY <1>2, <3>1 DEF PaymentOf
    <3>4. /\ Kept(token, token') /\ Moved(token, token', ix.source, ix.vault_a, n)
          /\ Flight(token', market, domain, fee_ledger, donated, ix, 0 + n, 0, 0)
      <4> HIDE DEF n, g, Others
      <4>1. ix.vault_a \in {ix.vault_a, ix.fee_vault}
        OBVIOUS
      <4>2. Kept(token, token') /\ Moved(token, token', ix.source, ix.vault_a, n)
        BY <3>2, <3>3, <4>1, FlightPays
      <4>3. Flight(token', market, domain, fee_ledger, donated, ix, 0 + n, 0, 0)
        BY <3>2, <3>3, <4>1, FlightPays
      <4> QED BY <4>2, <4>3
    <3>5. 0 + n = n
      BY <1>2
    <3>6. Others
      BY <3>4 DEF Moved
    <3>7. Flight(token', market, domain, fee_ledger, donated, ix, InputMade(phase', ix),
                 FeeMade(phase', ix), OutputMade(phase', ix.amount_out))
      <4> HIDE DEF Others
      <4> QED BY <3>1, <3>4, <3>5, PaidSoFar
    <3> QED BY <3>4, <3>6, <3>7
  <2>2. CASE transfer_fee
    <3>1. /\ phase = "fee" /\ phase' = "output"
          /\ CanTransfer(token, ix.source, ix.fee_vault, market[ix.market].mint_a, g, ix.user)
          /\ token' = Transferred(token, ix.source, ix.fee_vault, g, ix.user)
      BY <2>2 DEF transfer_fee, Settle
    <3>2. Flight(token, market, domain, fee_ledger, donated, ix, n, 0, 0)
      BY <1>1, <3>1, SettlingFacts, PaidSoFar
    <3>3. PaymentOf(token, token', ix.source, ix.fee_vault, market[ix.market].mint_a, g, ix.user)
      BY <1>2, <3>1 DEF PaymentOf
    <3>4. /\ Kept(token, token') /\ Moved(token, token', ix.source, ix.fee_vault, g)
          /\ Flight(token', market, domain, fee_ledger, donated, ix, n, 0 + g, 0)
      BY <3>2, <3>3, FlightPays
    <3>5. 0 + g = g
      BY <1>2
    <3>6. Others
      BY <3>4 DEF Moved
    <3>7. Flight(token', market, domain, fee_ledger, donated, ix, InputMade(phase', ix),
                 FeeMade(phase', ix), OutputMade(phase', ix.amount_out))
      <4> HIDE DEF Others
      <4> QED BY <3>1, <3>4, <3>5, PaidSoFar
    <3> QED BY <3>4, <3>6, <3>7
  <2> QED BY <2>1, <2>2
<1>4. BaseInv'
  BY <1>1, <1>3, PaymentSound
<1>5. token' \in TokenStates
  BY <1>3 DEF Flight
<1> QED BY <1>1, <1>3, <1>4, <1>5

\* What the payment of the output does.
LEMMA OutputStep ==
  ASSUME BaseInv, transfer_output
  PROVE  /\ BaseInv' /\ UNCHANGED <<market, domain, fee_ledger, engine, settled, slot,
                                    signers, used, saved, ix>>
         /\ phase = "output" /\ phase' = "finalize"
         /\ Kept(token, token') /\ token' \in TokenStates
         /\ Moved(token, token', ix.vault_b, ix.destination, ix.amount_out)
<1> DEFINE n == ix.args.amount_in
           g == ix.protocol_fee
           o == ix.amount_out
<1>1. /\ UNCHANGED <<market, domain, fee_ledger, engine, settled, slot, signers, used, saved, ix>>
      /\ phase = "output" /\ phase' = "finalize"
      /\ CanTransfer(token, ix.vault_b, ix.destination, market[ix.market].mint_b, o, ix.domain)
      /\ token' = Transferred(token, ix.vault_b, ix.destination, o, ix.domain)
      /\ donated' = DonatedBy(ix.destination, o)
  BY DEF transfer_output, Settle
<1>2. phase \in Settling /\ phase \in Accepted /\ phase' \in Accepted
  BY <1>1 DEF Settling, Accepted
<1>3. /\ o \in U64 /\ ix.domain # None /\ donated \in DonatedStates /\ token \in TokenStates
  BY <1>2, SettlingFacts
<1>4. Flight(token, market, domain, fee_ledger, donated, ix, n, g, 0)
  BY <1>1, <1>2, SettlingFacts, PaidSoFar
<1>5. /\ ix.destination \in TokenAccounts /\ ix.vault_b \in TokenAccounts
      /\ ix.destination \notin {ix.source, ix.vault_a, ix.vault_b, ix.fee_vault}
      /\ ix.vault_a \in CoreVaults /\ ix.vault_b \in CoreVaults /\ ix.fee_vault \in CoreVaults
  BY <1>4, FlightKeys DEF Flight, Roles
<1>6. donated' \in DonatedStates /\ OnlyDonations(token, donated, token', donated', ix.vault_b)
  BY <1>1, <1>3, <1>5, DonationRecorded
<1>7. \A v \in {ix.vault_a, ix.vault_b, ix.fee_vault} : donated'[v] = donated[v]
  BY <1>1, <1>3, <1>5 DEF DonatedBy, DonatedStates
<1>8. /\ Kept(token, token') /\ Moved(token, token', ix.vault_b, ix.destination, o)
      /\ Flight(token', market, domain, fee_ledger, donated', ix, n, g, o)
  <2>1. PaymentOf(token, token', ix.vault_b, ix.destination, market[ix.market].mint_b, o, ix.domain)
    BY <1>1, <1>3 DEF PaymentOf
  <2>2. Donates(token, donated, token', donated', ix)
    BY <1>6, <1>7 DEF Donates
  <2> QED BY <1>4, <2>1, <2>2, FlightOutputs
<1>9. BaseInv'
  BY <1>1, <1>2, <1>8, PaidSoFar, PaymentSound
<1>10. token' \in TokenStates
  BY <1>8 DEF Flight
<1> QED BY <1>1, <1>8, <1>9, <1>10

\* The payments when the accounting is about to be written.
LEMMA PaidInFull ==
  ASSUME BaseInv, phase = "finalize"
  PROVE  /\ Flight(token, market, domain, fee_ledger, donated, ix, ix.args.amount_in,
                   ix.protocol_fee, ix.amount_out)
         /\ Agreed(token, market, signers, slot, ix) /\ Answered(ix)
<1>1. phase \in Settling /\ phase \in Accepted
  BY DEF Settling, Accepted
<1> QED BY <1>1, PaidSoFar, SettlingFacts DEF BaseInv, TermsSound

\* What finalize writes.
LEMMA FinalizeWrites ==
  ASSUME BaseInv, finalize
  PROVE  /\ phase = "finalize" /\ phase' = "open" /\ ix' = None
         /\ UNCHANGED <<token, market, engine, donated, slot, signers, used, saved>>
         /\ Written(domain, fee_ledger, domain', fee_ledger', ix, ix.args.amount_in,
                    ix.protocol_fee, ix.amount_out)
<1> DEFINE n == ix.args.amount_in
           g == ix.protocol_fee
           o == ix.amount_out
<1>1. /\ phase = "finalize" /\ phase' = "open" /\ ix' = None
      /\ UNCHANGED <<token, market, engine, donated, slot, signers, used, saved>>
      /\ domain' = [domain EXCEPT ![ix.domain].accounted_a = ix.accounted_a + n,
                                  ![ix.domain].accounted_b = ix.accounted_b - o]
      /\ fee_ledger' = [fee_ledger EXCEPT ![ix.fee_ledger].accounted_fee_a = ix.accounted_fee_a + g]
  BY DEF finalize, post_accounted_a, post_accounted_b, post_accounted_fee_a
<1>2. /\ n \in U64 /\ g \in U64 /\ o \in U64 /\ ix.accounted_a \in U64 /\ ix.accounted_b \in U64
      /\ ix.accounted_fee_a \in U64
  BY <1>1, SettlingFacts DEF Settling
<1>3. /\ ix.accounted_a + n <= U64Max /\ ix.accounted_fee_a + g <= U64Max /\ o <= ix.accounted_b
  BY <1>1, PaidInFull DEF Agreed, Answered
<1>4. /\ ix.accounted_a + n \in U64 /\ ix.accounted_b - o \in U64 /\ ix.accounted_fee_a + g \in U64
  <2> HIDE DEF n, g, o
  <2> QED BY <1>2, <1>3, MathAssumption DEF U64
<1> QED BY <1>1, <1>4 DEF Written

\* What finalize records of the settlement.
LEMMA FinalizeRecords ==
  ASSUME BaseInv, finalize
  PROVE  /\ settled' \in SettledStates
         /\ settled'.engines[ix.engine_state].count = settled.engines[ix.engine_state].count + 1
         /\ settled'.engines[ix.engine_state].request = compute_request_hash(RequestBinding(ix))
         /\ settled'.engines[ix.engine_state].amount_out = ix.amount_out
         /\ \A es \in EngineStates :
              es # ix.engine_state => settled'.engines[es] = settled.engines[es]
         /\ \A h \in EngineStates :
              settled'.helped[h] = settled.helped[h] + (IF HelpedBy(h) THEN 1 ELSE 0)
<1> DEFINE k == ix.engine_state
           hash == compute_request_hash(RequestBinding(ix))
           o == ix.amount_out
           rec == [count |-> settled.engines[k].count + 1, request |-> hash, amount_out |-> o]
           help == [h \in EngineStates |-> settled.helped[h] + IF HelpedBy(h) THEN 1 ELSE 0]
<1>1. phase \in Settling
  BY DEF finalize, Settling
<1>2. settled \in SettledStates /\ k \in EngineStates /\ o \in U64 /\ hash \in Digests
  BY <1>1, SettlingFacts, DigestTyped
<1>3. /\ settled.engines \in [EngineStates -> [count : Nat, request : Digests, amount_out : U64]]
      /\ settled.helped \in [EngineStates -> Nat]
      /\ settled = [engines |-> settled.engines, helped |-> settled.helped]
  BY <1>2 DEF SettledStates
<1>4. settled' = [settled EXCEPT
       !.engines[k] = [count |-> @.count + 1, request |-> hash, amount_out |-> o],
       !.helped = [h \in EngineStates |-> @[h] + IF HelpedBy(h) THEN 1 ELSE 0]]
  BY DEF finalize
<1> HIDE DEF hash, o
<1>5. settled' = [engines |-> [settled.engines EXCEPT ![k] = rec], helped |-> help]
  BY <1>3, <1>4
<1>6. rec \in [count : Nat, request : Digests, amount_out : U64]
      /\ rec.count = settled.engines[k].count + 1 /\ rec.request = hash /\ rec.amount_out = o
  BY <1>2, <1>3
<1>7. help \in [EngineStates -> Nat]
      /\ \A h \in EngineStates : help[h] = settled.helped[h] + (IF HelpedBy(h) THEN 1 ELSE 0)
  BY <1>3
<1> HIDE DEF rec, help
<1>8. settled' \in SettledStates
  BY <1>2, <1>3, <1>5, <1>6, <1>7 DEF SettledStates
<1>9. settled'.engines = [settled.engines EXCEPT ![k] = rec] /\ settled'.helped = help
  BY <1>5
<1>10. settled'.engines[k] = rec
       /\ \A es \in EngineStates : es # k => settled'.engines[es] = settled.engines[es]
  BY <1>2, <1>3, <1>9
<1> QED BY <1>6, <1>7, <1>8, <1>9, <1>10 DEF hash, o

\* Writing the accounting ends the execution with sound accounts.
LEMMA FinalizeSound ==
  ASSUME BaseInv, finalize
  PROVE  BaseInv'
<1>1. /\ phase = "finalize" /\ phase' = "open" /\ ix' = None
      /\ UNCHANGED <<token, market, engine, donated, slot, signers, used, saved>>
      /\ Written(domain, fee_ledger, domain', fee_ledger', ix, ix.args.amount_in,
                 ix.protocol_fee, ix.amount_out)
  BY FinalizeWrites
<1>2. /\ domain' \in DomainStates /\ fee_ledger' \in FeeLedgerStates
      /\ Canonical(token, market, domain', fee_ledger', donated)
      /\ Backed(token, market, domain', fee_ledger', donated, None, 0, 0, 0)
  BY <1>1, PaidInFull, FlightCloses
<1>3. phase \in Settling /\ phase' \notin Settling /\ phase' \notin Accepted
      /\ phase' \notin {"engine", "receipt"} /\ phase # "idle" /\ phase' # "idle"
  BY <1>1 DEF Settling, Accepted
<1>4. Snapshot' \in Chains
  BY <1>1, <1>2, <1>3, SettlingFacts, FinalizeRecords DEF Snapshot, Chains
<1>5. GeneratedTypeOK'
  BY <1>1, <1>3, <1>4 DEF BaseInv, GeneratedTypeOK
<1>6. SavedSound'
  BY <1>1, <1>3 DEF BaseInv, SavedSound
<1> QED BY <1>1, <1>2, <1>3, <1>5, <1>6 DEF BaseInv, BooksSound, FlightSound, TermsSound,
           HandedSound

(***************************************************************************)
(* The invariant holds, and what it shows.                                 *)
(***************************************************************************)
\* Every step keeps the invariant.
LEMMA StepSound ==
  ASSUME BaseInv, [Next]_vars
  PROVE  BaseInv'
<1>1. CASE Frame
  BY <1>1, BeginSound, CommitSound, AbortSound, SlotSound, SharedSound DEF Frame
<1>2. CASE Setup
  BY <1>2, SharedSound, EngineSound DEF Setup, initialize_market_domain, deposit
<1>3. CASE increment
  BY <1>3, EngineSound DEF increment
<1>4. CASE Execution
  BY <1>4, ExecuteSound, EvaluateSound, ForeignSound, AcceptSound, InputFeeSteps, OutputStep,
     FinalizeSound DEF Execution, Settlement
<1>5. CASE UNCHANGED vars
  <2>1. UNCHANGED <<token, market, domain, fee_ledger, engine, donated, settled, slot, phase,
                    signers, used, saved, ix, ret>>
    BY <1>5 DEF vars, ledgerVars, chain
  <2> QED BY <2>1 DEF BaseInv, GeneratedTypeOK, Snapshot, BooksSound, FlightSound, SavedSound,
             TermsSound, HandedSound
<1> QED BY <1>1, <1>2, <1>3, <1>4, <1>5 DEF Next

\* The inductive invariant holds throughout every behaviour.
THEOREM BaseHolds == Spec => []BaseInv
<1>1. Init => BaseInv
  BY InitSound
<1>2. BaseInv /\ [Next]_vars => BaseInv'
  BY StepSound
<1> QED BY <1>1, <1>2, PTL DEF Spec

\* Every account Core, SPL Token, the generated plan engine and the helper keep holds a
\* value of its kind in every reachable state, whatever an engine of unknown code does:
\* no counter and no balance leaves its word.
THEOREM GeneratedTyped == Spec => []GeneratedTypeOK
<1>1. BaseInv => GeneratedTypeOK
  BY DEF BaseInv
<1> QED BY <1>1, BaseHolds, PTL

\* For any engine, closure and number of markets: between instructions the raw balance of
\* each vault is Core's accounting plus the donations to it.
THEOREM GeneratedAccounting == Spec => []VaultAccounting
<1>1. BaseInv => VaultAccounting
  <2>1. SUFFICES ASSUME BaseInv PROVE VaultAccounting
    OBVIOUS
  <2>2. CASE phase \in Settling
    BY <2>2 DEF VaultAccounting, Settling
  <2>3. CASE phase \notin Settling
    BY <2>1, <2>3, OpenFacts, SoundAccounting
  <2> QED BY <2>2, <2>3
<1> QED BY <1>1, BaseHolds, PTL

\* Nothing an engine does between validation and settlement invalidates what the handler
\* read: the deltas always match and the copies of the accounting are current.
THEOREM GeneratedUndisturbed == Spec => []GeneratedSettlementUndisturbed
<1>1. BaseInv => GeneratedSettlementUndisturbed
  <2>1. SUFFICES ASSUME BaseInv PROVE GeneratedSettlementUndisturbed
    OBVIOUS
  <2>2. ASSUME phase = "finalize" PROVE exact_settlement_deltas
    BY <2>1, <2>2, PaidInFull, FlightDeltas DEF exact_settlement_deltas, total_input_debit
  <2>3. ASSUME phase \in Settling
        PROVE  /\ ix.accounted_a = domain[ix.domain].accounted_a
               /\ ix.accounted_b = domain[ix.domain].accounted_b
               /\ ix.accounted_fee_a = fee_ledger[ix.fee_ledger].accounted_fee_a
    BY <2>1, <2>3, SettlingFacts DEF Flight, Reads
  <2> QED BY <2>2, <2>3 DEF GeneratedSettlementUndisturbed
<1> QED BY <1>1, BaseHolds, PTL

\* Only finalize leaves the phase "finalize" forward.
LEMMA CompletionStep ==
  ASSUME Next, phase = "finalize", phase' # "idle"
  PROVE  finalize
<1>1. ~Frame
  BY DEF Frame, BeginTransaction, CommitTransaction, AbortTransaction, AdvanceSlot, SplTransfer,
     RunInstruction
<1>2. ~Setup /\ ~increment
  BY DEF Setup, initialize_market_domain, initialize_market_domain_v0, deposit, deposit_v0,
     engine_initialize, helper_initialize, set_mode, increment, RunInstruction
<1>3. ~execute_engine_generated_probe_v0 /\ ~evaluate /\ ~foreign_act /\ ~foreign_return
  <2>1. ~evaluate
    BY EvaluateStep
  <2> QED BY <2>1 DEF execute_engine_generated_probe_v0, foreign_act, foreign_return, ForeignTurn,
             RunInstruction
<1> QED BY <1>1, <1>2, <1>3 DEF Next, Execution, Settlement, accept_receipt, transfer_input,
           transfer_fee, transfer_output

\* Whatever the engine answered, a completed execution took from a wallet that signed at
\* most its maximum, paid at least its minimum and at most the accounted liquidity, and
\* charged the least fee, within its limit and not after the expiry.
THEOREM GeneratedLimits == Spec => GeneratedLimitsHonoured
<1> DEFINE Honoured ==
      LET debit == ix.source_before - token[ix.source].amount
          credit == token[ix.destination].amount - ix.destination_before
          fee == token[FeeVaultOf(ix.market)].amount - ix.fee_vault_before
      IN  /\ token[ix.source].owner = ix.user /\ ix.user \in signers
          /\ debit <= ix.args.max_total_input_debit
          /\ credit >= ix.args.min_output_credit
          /\ credit <= domain[DomainPda(ix.market)].accounted_b
          /\ IsLeastFee(fee, ix.args.amount_in, ProtocolFeeBps)
          /\ fee <= ix.args.max_protocol_fee
          /\ slot <= ix.args.expires_at_slot
<1>1. BaseInv /\ phase = "finalize" => Honoured
  <2> SUFFICES ASSUME BaseInv, phase = "finalize" PROVE Honoured
    OBVIOUS
  <2> DEFINE n == ix.args.amount_in
             g == ix.protocol_fee
             o == ix.amount_out
  <2>1. /\ Flight(token, market, domain, fee_ledger, donated, ix, n, g, o)
        /\ Agreed(token, market, signers, slot, ix) /\ Answered(ix)
    BY PaidInFull
  <2>2. n \in Nat /\ g \in Int /\ o \in Int
    BY SettlingFacts, MathAssumption DEF Settling, U64
  <2>3. /\ token[ix.source].amount = ix.source_before - (n + g)
        /\ token[ix.fee_vault].amount = ix.fee_vault_before + g
        /\ token[ix.destination].amount = ix.destination_before + o
        /\ ix.accounted_b = domain[ix.domain].accounted_b
        /\ ix.domain = DomainPda(ix.market)
        /\ ix.fee_vault = FeeVaultAt(ix.market, market[ix.market].mint_a)
        /\ ix.source_before \in Int /\ ix.fee_vault_before \in Int /\ ix.destination_before \in Int
    BY <2>1 DEF Flight, Reads, Roles, Copies
  <2>4. /\ ix.source_before - token[ix.source].amount = n + g
        /\ token[ix.fee_vault].amount - ix.fee_vault_before = g
        /\ token[ix.destination].amount - ix.destination_before = o
    BY <2>2, <2>3
  <2>5. ix.fee_vault = FeeVaultOf(ix.market)
    BY <2>3 DEF FeeVaultAt, FeeVaultOf, FeeLedgerOf
  <2>6. IsLeastFee(g, n, ProtocolFeeBps)
    <3>1. g = fee_ceil(n, ProtocolFeeBps)
      BY <2>1 DEF Agreed
    <3> QED BY <2>2, <3>1, FeeIsLeast
  <2>7. /\ token[ix.source].owner = ix.user /\ ix.user \in signers
        /\ n + g <= ix.args.max_total_input_debit /\ g <= ix.args.max_protocol_fee
        /\ slot <= ix.args.expires_at_slot
        /\ o >= ix.args.min_output_credit /\ o <= ix.accounted_b
    BY <2>1 DEF Agreed, Answered, total_input_debit
  <2> HIDE DEF n, g, o
  <2> QED BY <2>3, <2>4, <2>5, <2>6, <2>7 DEF n, g, o
<1>2. BaseInv /\ [Next]_vars => [phase = "finalize" /\ Forward => Honoured]_vars
  BY <1>1
<1> HIDE DEF Honoured
<1>3. Spec => [][phase = "finalize" /\ Forward => Honoured]_vars
  BY <1>2, BaseHolds, PTL DEF Spec
<1> QED BY <1>3 DEF Honoured, GeneratedLimitsHonoured

(***************************************************************************)
(* The inductive invariant: the engines.                                   *)
(***************************************************************************)
\* The state es is where the settled executions left it.
InStep(e, s, es) ==
  IF e[es] = None
  THEN s.engines[es].count = 0 /\ s.engines[es].request = None /\ s.engines[es].amount_out = 0
  ELSE /\ e[es].sequence = s.engines[es].count
       /\ e[es].last_request_hash = s.engines[es].request
       /\ e[es].last_amount_out = s.engines[es].amount_out

\* It is one execution ahead of them: the one in flight.
Ahead(e, s, es, hash) ==
  /\ es \in PlanStates /\ e[es] # None
  /\ e[es].sequence = s.engines[es].count + 1
  /\ e[es].last_request_hash = hash

Plans(e, s, A) == \A es \in PlanStates : es \notin A => InStep(e, s, es)

\* A helper created for an engine's authority has counted the settled executions that
\* called it, and the one in flight if it is in H.
Counts(e, s, H) ==
  \A h \in HelperStates :
    IF e[h] = None
    THEN s.helped[h] = 0 /\ h \notin H
    ELSE e[h].authority \in Markers =>
           e[h].calls = s.helped[h] + (IF h \in H THEN 1 ELSE 0)

\* The phases after the engine's call.
Called == {"receipt", "input", "fee", "output", "finalize"}

Served == phase \in Called /\ ix.engine_program = GeneratedPlanEngine
AheadStates == IF Served THEN {ix.engine_state} ELSE {}
HelpedNow == IF Served /\ ix.args.opaque_payload # None THEN {ix.opaque[2].key} ELSE {}

Bound == phase \in Settling => OwnerOf(ix.engine_state) = ix.engine_program

\* An output q that the engine's quote allows for the execution x.
Priced(x, q) ==
  q = 0 \/ q = U64Max
    \/ (x.accounted_a + x.args.amount_in) * (x.accounted_b - q) >= x.accounted_a * x.accounted_b

AnswerSound ==
  /\ Served /\ phase = "receipt" /\ ret # None /\ ret.setter = GeneratedPlanEngine =>
       /\ ret.amount_out = engine[ix.engine_state].last_amount_out
       /\ Priced(ix, ret.amount_out)
  /\ Served /\ phase \in Accepted =>
       /\ ix.amount_out = engine[ix.engine_state].last_amount_out
       /\ Priced(ix, ix.amount_out)

EngineInv ==
  /\ Bound
  /\ Plans(engine, settled, AheadStates)
  /\ Served => Ahead(engine, settled, ix.engine_state, compute_request_hash(RequestBinding(ix)))
  /\ Counts(engine, settled, HelpedNow)
  /\ AnswerSound
  /\ phase # "idle" => Plans(saved.engine, saved.settled, {}) /\ Counts(saved.engine, saved.settled, {})

FullInv == BaseInv /\ EngineInv

\* No state exists, and nothing is settled, at the start.
LEMMA InitEngines == Init => EngineInv
<1> SUFFICES ASSUME Init PROVE EngineInv
  OBVIOUS
<1> USE DEF Init, LedgerInit
<1>1. \A es \in EngineStates : StateOwner[es] \in {GeneratedPlanEngine, HelperProgram} => engine[es] = None
  OBVIOUS
<1>2. /\ \A es \in PlanStates : engine[es] = None /\ es \in EngineStates
      /\ \A h \in HelperStates : engine[h] = None /\ h \in EngineStates
  BY <1>1 DEF PlanStates, HelperStates
<1>3. \A es \in EngineStates : /\ settled.engines[es].count = 0 /\ settled.engines[es].request = None
                               /\ settled.engines[es].amount_out = 0 /\ settled.helped[es] = 0
  BY DEF NoneSettled
<1>4. Plans(engine, settled, {}) /\ Counts(engine, settled, {})
  BY <1>2, <1>3 DEF Plans, InStep, Counts
<1>5. ~Served /\ AheadStates = {} /\ HelpedNow = {} /\ phase \notin Settling /\ phase = "idle"
  BY DEF Served, AheadStates, HelpedNow, Called, Settling
<1> QED BY <1>4, <1>5 DEF EngineInv, Bound, AnswerSound

\* Before the engine's call nothing is ahead.
LEMMA NotServed ==
  ASSUME phase \notin Called
  PROVE  ~Served /\ AheadStates = {} /\ HelpedNow = {}
BY DEF Served, AheadStates, HelpedNow

\* A step that ends outside an execution and leaves the engines in step is sound.
LEMMA EnginesAtRest ==
  ASSUME EngineInv, phase' \notin Settling,
         Plans(engine', settled', {}), Counts(engine', settled', {}),
         phase' # "idle" => \/ saved' = saved /\ phase # "idle"
                            \/ Plans(saved'.engine, saved'.settled, {})
                               /\ Counts(saved'.engine, saved'.settled, {})
  PROVE  EngineInv'
<1>1. ~Served' /\ AheadStates' = {} /\ HelpedNow' = {}
  BY DEF Served, AheadStates, HelpedNow, Called, Settling
<1> QED BY <1>1 DEF EngineInv, Bound, AnswerSound

\* The runtime's own steps: a rollback restores engines that were in step.
LEMMA FrameEngines ==
  ASSUME FullInv, Frame
  PROVE  EngineInv'
<1>1. CASE phase = "idle" \/ phase = "open"
  <2>1. phase \notin Called /\ phase \notin Settling
    BY <1>1 DEF Called, Settling
  <2>2. Plans(engine, settled, {}) /\ Counts(engine, settled, {}) /\ EngineInv
    BY <2>1, NotServed DEF FullInv, EngineInv
  <2>3. CASE AbortTransaction
    <3>1. /\ phase # "idle" /\ phase' = "idle" /\ engine' = saved.engine /\ settled' = saved.settled
      BY <2>3 DEF AbortTransaction, Rollback
    <3>2. Plans(engine', settled', {}) /\ Counts(engine', settled', {}) /\ phase' \notin Settling
      BY <2>2, <3>1 DEF EngineInv, Settling
    <3> QED BY <2>2, <3>1, <3>2, EnginesAtRest
  <2>4. CASE \E S \in SUBSET Users \ {{}} : BeginTransaction(S)
    <3>1. /\ phase' = "open" /\ engine' = engine /\ settled' = settled
          /\ saved'.engine = engine /\ saved'.settled = settled
      BY <2>4 DEF BeginTransaction, chain, Snapshot
    <3>2. phase' \notin Settling
      BY <3>1 DEF Settling
    <3> QED BY <2>2, <3>1, <3>2, EnginesAtRest
  <2>5. CASE CommitTransaction \/ AdvanceSlot \/ SplTransfer
    <3>1. /\ phase' \notin Settling /\ engine' = engine /\ settled' = settled
          /\ phase' # "idle" => saved' = saved /\ phase # "idle"
      BY <2>5 DEF CommitTransaction, AdvanceSlot, SplTransfer, RunInstruction, chain, Settling
    <3> QED BY <2>2, <3>1, EnginesAtRest
  <2> QED BY <2>3, <2>4, <2>5 DEF Frame
<1>2. CASE phase # "idle" /\ phase # "open"
  <2>1. AbortTransaction
    BY <1>2 DEF Frame, BeginTransaction, CommitTransaction, AdvanceSlot, SplTransfer, RunInstruction
  <2>2. /\ phase' = "idle" /\ engine' = saved.engine /\ settled' = saved.settled
    BY <2>1 DEF AbortTransaction, Rollback
  <2>3. Plans(engine', settled', {}) /\ Counts(engine', settled', {}) /\ phase' \notin Settling
        /\ EngineInv
    BY <1>2, <2>2 DEF FullInv, EngineInv, Settling
  <2> QED BY <2>2, <2>3, EnginesAtRest
<1> QED BY <1>1, <1>2

\* The instructions of the engines' programs keep every state in step.
LEMMA SetupEngines ==
  ASSUME FullInv, Setup \/ increment
  PROVE  EngineInv'
<1>1. /\ phase = "open" /\ phase' = "open" /\ saved' = saved /\ settled' = settled
  BY DEF Setup, increment, initialize_market_domain, initialize_market_domain_v0, deposit,
     deposit_v0, engine_initialize, helper_initialize, set_mode, RunInstruction
<1>2. phase \notin Called /\ phase \notin Settling /\ phase' \notin Settling /\ phase # "idle"
  BY <1>1 DEF Called, Settling
<1>3. /\ Plans(engine, settled, {}) /\ Counts(engine, settled, {}) /\ EngineInv
      /\ engine \in EngineMaps /\ signers \subseteq Users /\ settled \in SettledStates
  BY <1>2, NotServed, OpenFacts DEF FullInv, EngineInv, LedgerSound
<1>4. Plans(engine', settled, {}) /\ Counts(engine', settled, {})
  <2>1. CASE initialize_market_domain \/ deposit
    <3>1. engine' = engine
      BY <2>1 DEF initialize_market_domain, deposit, initialize_market_domain_v0, deposit_v0
    <3> QED BY <1>3, <3>1
  <2>2. CASE engine_initialize
    <3>1. PICK es \in PlanStates : NewPlan(engine, engine', es)
      BY <1>3, <2>2, EngineInitializeEffect
    <3>2. /\ \A j \in PlanStates : j # es => engine'[j] = engine[j]
          /\ \A j \in HelperStates : engine'[j] = engine[j]
      BY <3>1, EngineKinds DEF NewPlan
    <3>3. Counts(engine', settled, {})
      BY <1>3, <3>2 DEF Counts
    <3>4. Plans(engine', settled, {})
      BY <1>3, <3>1, <3>2 DEF Plans, InStep, NewPlan
    <3> QED BY <3>3, <3>4
  <2>3. CASE helper_initialize
    <3>1. PICK h \in HelperStates :
            /\ engine[h] = None /\ engine'[h] # None /\ engine'[h].calls = 0
            /\ \A j \in EngineStates : j # h => engine'[j] = engine[j]
      BY <1>3, <2>3, HelperInitializeEffect
    <3>2. /\ \A j \in PlanStates : engine'[j] = engine[j]
          /\ \A j \in HelperStates : j # h => engine'[j] = engine[j]
      BY <3>1, EngineKinds
    <3>3. Counts(engine', settled, {})
      BY <1>3, <3>1, <3>2 DEF Counts
    <3>4. Plans(engine', settled, {})
      BY <1>3, <3>2 DEF Plans, InStep
    <3> QED BY <3>3, <3>4
  <2>4. CASE set_mode
    <3>1. PICK es \in PlanStates :
            /\ engine[es] # None /\ engine'[es] # None
            /\ engine'[es].sequence = engine[es].sequence
            /\ engine'[es].last_request_hash = engine[es].last_request_hash
            /\ engine'[es].last_amount_out = engine[es].last_amount_out
            /\ \A j \in EngineStates : j # es => engine'[j] = engine[j]
      BY <1>3, <2>4, SetModeEffect
    <3>2. /\ \A j \in PlanStates : j # es => engine'[j] = engine[j]
          /\ \A j \in HelperStates : engine'[j] = engine[j]
      BY <3>1, EngineKinds
    <3>3. Counts(engine', settled, {})
      BY <1>3, <3>2 DEF Counts
    <3>4. Plans(engine', settled, {})
      BY <1>3, <3>1, <3>2 DEF Plans, InStep
    <3> QED BY <3>3, <3>4
  <2>5. CASE increment
    <3>1. PICK h \in HelperStates : Incremented(engine, engine', h) /\ engine[h].authority \notin Markers
      BY <1>3, <2>5, IncrementEffect
    <3>2. /\ \A j \in PlanStates : engine'[j] = engine[j]
          /\ \A j \in HelperStates : j # h => engine'[j] = engine[j]
          /\ engine'[h] # None /\ engine'[h].authority \notin Markers
      BY <3>1, EngineKinds DEF Incremented
    <3>3. Counts(engine', settled, {})
      BY <1>3, <3>1, <3>2 DEF Counts
    <3>4. Plans(engine', settled, {})
      BY <1>3, <3>2 DEF Plans, InStep
    <3> QED BY <3>3, <3>4
  <2> QED BY <2>1, <2>2, <2>3, <2>4, <2>5 DEF Setup
<1> QED BY <1>1, <1>2, <1>3, <1>4, EnginesAtRest

\* What the binding of a request reads: the execution's fields but for the output, and
\* whether the engine's state exists.
SameRequest(x, y) ==
  /\ x.market = y.market /\ x.domain = y.domain /\ x.engine_program = y.engine_program
  /\ x.engine_state = y.engine_state /\ x.user = y.user /\ x.source = y.source
  /\ x.destination = y.destination /\ x.vault_a = y.vault_a /\ x.vault_b = y.vault_b
  /\ x.fee_vault = y.fee_vault /\ x.fee_ledger = y.fee_ledger /\ x.args = y.args
  /\ x.protocol_fee = y.protocol_fee /\ x.accounted_a = y.accounted_a
  /\ x.accounted_b = y.accounted_b /\ x.accounted_fee_a = y.accounted_fee_a
  /\ x.opaque = y.opaque

LEMMA BindingKept ==
  ASSUME SameRequest(ix', ix), (engine'[ix.engine_state] = None) <=> (engine[ix.engine_state] = None)
  PROVE  /\ OwnerOf(ix.engine_state)' = OwnerOf(ix.engine_state)
         /\ compute_request_hash(RequestBinding(ix))' = compute_request_hash(RequestBinding(ix))
<1>1. OwnerOf(ix.engine_state)' = OwnerOf(ix.engine_state)
  BY DEF SameRequest, OwnerOf
<1>2. capability_hash(ix)' = capability_hash(ix)
  <2>1. capability_descriptors(ix.engine_state, ix.opaque)'
          = capability_descriptors(ix.engine_state, ix.opaque)
    BY <1>1 DEF SameRequest, capability_descriptors, Descriptor, IsExecutable
  <2> QED BY <2>1 DEF SameRequest, capability_hash, compute_capability_hash
<1>3. RequestBinding(ix)' = RequestBinding(ix)
  BY <1>2 DEF SameRequest, RequestBinding, compute_payload_hash
<1> QED BY <1>1, <1>3 DEF compute_request_hash

\* An execution starts with every engine in step.
LEMMA ExecuteEngines ==
  ASSUME FullInv, execute_engine_generated_probe_v0
  PROVE  EngineInv'
<1>1. /\ phase = "open" /\ phase' = "engine" /\ engine' = engine /\ settled' = settled
      /\ saved' = saved
  BY DEF execute_engine_generated_probe_v0, RunInstruction, chain
<1>2. phase \notin Called /\ phase' \notin Called /\ phase # "idle" /\ phase \notin Settling
  BY <1>1 DEF Called, Settling
<1>3. Starts(ix')
  BY <1>2, OpenFacts, ExecuteStarts DEF FullInv
<1>4. OwnerOf(ix.engine_state)' = ix'.engine_program
  BY <1>1, <1>3 DEF Starts, OwnerOf
<1>5. ~Served' /\ AheadStates' = {} /\ HelpedNow' = {}
  BY <1>2 DEF Served, AheadStates, HelpedNow
<1>6. Plans(engine, settled, {}) /\ Counts(engine, settled, {})
  BY <1>2, NotServed DEF FullInv, EngineInv
<1> QED BY <1>1, <1>2, <1>4, <1>5, <1>6 DEF FullInv, EngineInv, Bound, AnswerSound

\* The acts and answers of an engine of unknown code leave every state and every helper of
\* the generated plan engine in step.
LEMMA ForeignEngines ==
  ASSUME FullInv, foreign_act \/ foreign_return
  PROVE  EngineInv'
<1>1. /\ phase = "engine" /\ phase' \in {"engine", "receipt"}
      /\ ix.engine_program # GeneratedPlanEngine
      /\ ix' = ix /\ settled' = settled /\ saved' = saved
      /\ \/ engine' = engine
         \/ \E h \in HelperStates : Incremented(engine, engine', h) /\ engine[h].authority \notin Markers
  <2>1. CASE foreign_act
    BY <2>1, ForeignActStep DEF FullInv
  <2>2. CASE foreign_return
    BY <2>2 DEF foreign_return, ForeignTurn, chain
  <2> QED BY <2>1, <2>2
<1>2. phase \notin Called /\ phase \in Settling /\ phase' \in Settling /\ phase # "idle"
  BY <1>1 DEF Called, Settling
<1>3. ~Served' /\ AheadStates' = {} /\ HelpedNow' = {}
  BY <1>1 DEF Served, AheadStates, HelpedNow
<1>4. Plans(engine, settled, {}) /\ Counts(engine, settled, {})
  BY <1>2, NotServed DEF FullInv, EngineInv
<1>5. /\ Plans(engine', settled, {}) /\ Counts(engine', settled, {})
      /\ (engine'[ix.engine_state] = None) <=> (engine[ix.engine_state] = None)
  <2>1. CASE engine' = engine
    BY <1>4, <2>1
  <2>2. CASE \E h \in HelperStates : Incremented(engine, engine', h) /\ engine[h].authority \notin Markers
    <3>1. PICK h \in HelperStates : Incremented(engine, engine', h) /\ engine[h].authority \notin Markers
      BY <2>2
    <3>2. /\ \A j \in PlanStates : engine'[j] = engine[j]
          /\ \A j \in HelperStates : j # h => engine'[j] = engine[j]
          /\ engine'[h] # None /\ engine'[h].authority \notin Markers
      BY <3>1, EngineKinds DEF Incremented
    <3>3. Counts(engine', settled, {})
      BY <1>4, <3>1, <3>2 DEF Counts
    <3>4. Plans(engine', settled, {})
      BY <1>4, <3>2 DEF Plans, InStep
    <3>5. (engine'[ix.engine_state] = None) <=> (engine[ix.engine_state] = None)
      <4>1. ix.engine_state \in EngineStates
        BY <1>2, SettlingFacts DEF FullInv
      <4> QED BY <3>1, <4>1 DEF Incremented
    <3> QED BY <3>3, <3>4, <3>5
  <2> QED BY <1>1, <2>1, <2>2
<1>6. Bound'
  <2>1. OwnerOf(ix.engine_state) = ix.engine_program
    BY <1>2 DEF FullInv, EngineInv, Bound
  <2>2. OwnerOf(ix.engine_state)' = OwnerOf(ix.engine_state)
    BY <1>1, <1>5 DEF OwnerOf
  <2> QED BY <1>1, <2>1, <2>2 DEF Bound
<1> QED BY <1>1, <1>2, <1>3, <1>5, <1>6 DEF FullInv, EngineInv, AnswerSound

\* The helper that Core's call names is the second account of the closure.
LEMMA HelperNamed ==
  ASSUME BaseInv, phase \in Settling, EvaluateSucceeds(CoreCall), CallsHelper(CoreCall)
  PROVE  CoreCall.accounts[2].key = ix.opaque[2].key
<1> DEFINE o == ix.opaque
           w(i) == \E j \in DOMAIN o : o[j].key = o[i].key /\ o[j].is_writable
<1>1. o \in Seq(Descriptors) /\ CoreCall.accounts = Observed(o)
  BY SettlingFacts, CallTyped
<1>2. Len(Observed(o)) \in 3 .. MaxOpaqueAccounts
  BY <1>1 DEF EvaluateSucceeds, helper_call_ok
<1>3. Len(Observed(o)) = Len(o)
  BY <1>1 DEF Observed
<1>4. 2 \in DOMAIN o
  BY <1>1, <1>2, <1>3, CapabilityAssumption
<1>5. Observed(o)[2] = [o[2] EXCEPT !.is_writable = w(2)]
  BY <1>1, <1>4 DEF Observed
<1>6. o[2] \in Descriptors
  BY <1>1, <1>4
<1> HIDE DEF w
<1>7. Observed(o)[2].key = o[2].key
  BY <1>5, <1>6 DEF Descriptors
<1> QED BY <1>1, <1>7

\* The engine's call puts its state, and the helper it names, one execution ahead.
LEMMA EvaluateEngines ==
  ASSUME FullInv, evaluate
  PROVE  EngineInv'
<1> DEFINE call == CoreCall
           es == ix.engine_state
           h == ix.opaque[2].key
           helped == ix.args.opaque_payload # None
           q == EvaluateAmountOut(call)
           hash == compute_request_hash(RequestBinding(ix))
<1>1. /\ phase = "engine" /\ phase' = "receipt" /\ ix.engine_program = GeneratedPlanEngine
      /\ EvaluateSucceeds(call) /\ engine' = EvaluatedEngine(call) /\ ret' = EvaluateReturn(call)
      /\ settled' = settled /\ saved' = saved /\ ix' = ix
  BY EvaluateStep
<1>2. phase \notin Called /\ phase \in Settling /\ phase' \in Settling /\ phase' \in Called
      /\ phase' \notin Accepted /\ phase # "idle" /\ BaseInv
  BY <1>1 DEF Called, Settling, Accepted, FullInv
<1>3. /\ Asked(call) /\ call.engine_state = es /\ call.request.request_hash = hash
      /\ call.request.payload = ix.args.opaque_payload
      /\ call.request.accounted_input_before = ix.accounted_a
      /\ call.request.accounted_output_before = ix.accounted_b
      /\ call.request.amount_in = ix.args.amount_in
      /\ engine \in EngineMaps /\ es \in EngineStates
  BY <1>2, CallTyped, SettlingFacts
<1>4. Evaluated(engine, engine', call) /\ engine'[es].last_amount_out = q
  BY <1>1, <1>3, EvaluatedFacts
<1>5. CallsHelper(call) <=> helped
  BY <1>3 DEF CallsHelper
<1>6. helped => call.accounts[2].key = h
  BY <1>1, <1>2, <1>5, HelperNamed
<1>7. Priced(ix, q)
  BY <1>1, <1>3, AmountOutFacts DEF Priced
<1>8. ret' # None /\ ret'.setter = GeneratedPlanEngine => ret'.amount_out = q
  BY <1>1, <1>3, ReturnFacts
<1> HIDE DEF q, call
<1>9. /\ es \in PlanStates /\ engine[es] # None
      /\ engine'[es].sequence = engine[es].sequence + 1 /\ engine'[es].last_request_hash = hash
      /\ helped => /\ h \in HelperStates /\ engine[h] # None
                   /\ engine'[h].calls = engine[h].calls + 1
                   /\ engine'[h].authority = engine[h].authority
      /\ \A j \in EngineStates : j = es \/ (helped /\ j = h) \/ engine'[j] = engine[j]
      /\ \A j \in EngineStates : (engine'[j] = None) <=> (engine[j] = None)
  BY <1>3, <1>4, <1>5, <1>6 DEF Evaluated
<1>10. Plans(engine, settled, {}) /\ Counts(engine, settled, {})
  BY <1>2, NotServed DEF FullInv, EngineInv
<1>11. Served' /\ AheadStates' = {es} /\ HelpedNow' = IF helped THEN {h} ELSE {}
  BY <1>1, <1>2 DEF Served, AheadStates, HelpedNow
<1>12. /\ OwnerOf(ix.engine_state)' = OwnerOf(ix.engine_state)
       /\ compute_request_hash(RequestBinding(ix))' = hash
  BY <1>1, <1>3, <1>9, BindingKept DEF SameRequest
<1> HIDE DEF hash, es, h, helped
<1>13. Bound'
  BY <1>1, <1>2, <1>12 DEF Bound, FullInv, EngineInv
<1>14. Plans(engine', settled, {es})
  <2>1. \A j \in PlanStates : j \in EngineStates /\ j \notin HelperStates
    BY EngineKinds
  <2>2. \A j \in PlanStates : j # es => engine'[j] = engine[j]
    BY <1>9, <2>1
  <2> QED BY <1>10, <2>2 DEF Plans, InStep
<1>15. Ahead(engine', settled, es, hash)
  <2>1. InStep(engine, settled, es)
    BY <1>9, <1>10 DEF Plans
  <2> QED BY <1>3, <1>9, <2>1 DEF Ahead, InStep
<1>16. Counts(engine', settled, IF helped THEN {h} ELSE {})
  <2>1. /\ \A j \in HelperStates : j \in EngineStates /\ j \notin PlanStates
        /\ settled.helped \in [EngineStates -> Nat]
    BY <1>2, EngineKinds, SettlingFacts DEF SettledStates
  <2>2. \A j \in HelperStates : (helped /\ j = h) \/ engine'[j] = engine[j]
    BY <1>9, <2>1
  <2>3. \A j \in HelperStates : (engine'[j] = None) <=> (engine[j] = None)
    BY <1>9, <2>1
  <2>4. CASE helped
    <3>1. \A j \in HelperStates : j # h => engine'[j] = engine[j]
      BY <2>2
    <3>2. /\ h \in HelperStates /\ engine[h] # None /\ engine'[h] # None
          /\ engine'[h].calls = engine[h].calls + 1 /\ engine'[h].authority = engine[h].authority
      BY <1>9, <2>3, <2>4
    <3>3. Counts(engine', settled, {h})
      BY <1>10, <2>1, <3>1, <3>2 DEF Counts
    <3> QED BY <2>4, <3>3
  <2>5. CASE ~helped
    <3>1. \A j \in HelperStates : engine'[j] = engine[j]
      BY <2>2, <2>5
    <3>2. Counts(engine', settled, {})
      BY <1>10, <3>1 DEF Counts
    <3> QED BY <2>5, <3>2
  <2> QED BY <2>4, <2>5
<1>17. AnswerSound'
  BY <1>1, <1>2, <1>4, <1>7, <1>8 DEF AnswerSound, Priced, es
<1>18. ix'.engine_state = es
  BY <1>1 DEF es
<1> QED BY <1>1, <1>2, <1>11, <1>12, <1>13, <1>14, <1>15, <1>16, <1>17, <1>18
        DEF FullInv, EngineInv

\* Accepting the receipt leaves the engines alone; the output settled is the engine's.
LEMMA AcceptEngines ==
  ASSUME FullInv, accept_receipt
  PROVE  EngineInv'
<1>1. /\ phase = "receipt" /\ phase' = "input" /\ ret # None /\ ret.setter = ix.engine_program
      /\ ix' = [ix EXCEPT !.amount_out = ret.amount_out]
      /\ engine' = engine /\ settled' = settled /\ saved' = saved
  BY DEF accept_receipt, chain
<1>2. phase \in Settling /\ phase' \in Settling /\ phase \in Called /\ phase' \in Called
      /\ phase' \in Accepted /\ phase' # "receipt" /\ phase # "idle" /\ BaseInv
  BY <1>1 DEF Settling, Called, Accepted, FullInv
<1>3. ix \in Executions /\ ix'.amount_out = ret.amount_out
  BY <1>2, SettlingFacts, AcceptSound
<1>4. SameRequest(ix', ix)
  BY <1>1, <1>3 DEF SameRequest, Executions
<1>5. /\ OwnerOf(ix.engine_state)' = OwnerOf(ix.engine_state)
      /\ compute_request_hash(RequestBinding(ix))' = compute_request_hash(RequestBinding(ix))
  BY <1>1, <1>4, BindingKept
<1>6. Served' = Served /\ AheadStates' = AheadStates /\ HelpedNow' = HelpedNow
  BY <1>2, <1>4 DEF SameRequest, Served, AheadStates, HelpedNow
<1>7. Bound'
  BY <1>2, <1>4, <1>5 DEF SameRequest, Bound, FullInv, EngineInv
<1>8. AnswerSound'
  <2>1. Served => /\ ret.amount_out = engine[ix.engine_state].last_amount_out
                  /\ Priced(ix, ret.amount_out)
    BY <1>1 DEF FullInv, EngineInv, AnswerSound, Served
  <2>2. Served => Priced(ix', ret.amount_out)
    BY <1>4, <2>1 DEF SameRequest, Priced
  <2>3. ix'.engine_state = ix.engine_state
    BY <1>4 DEF SameRequest
  <2> QED BY <1>1, <1>2, <1>3, <1>6, <2>1, <2>2, <2>3 DEF AnswerSound
<1>9. ix'.engine_state = ix.engine_state
  BY <1>4 DEF SameRequest
<1> QED BY <1>1, <1>2, <1>5, <1>6, <1>7, <1>8, <1>9 DEF FullInv, EngineInv

\* The transfers leave the engines alone.
LEMMA TransferEngines ==
  ASSUME FullInv, transfer_input \/ transfer_fee \/ transfer_output
  PROVE  EngineInv'
<1>1. /\ phase \in Accepted /\ phase' \in Accepted /\ engine' = engine /\ settled' = settled
      /\ saved' = saved /\ ix' = ix
  BY InputFeeSteps, OutputStep DEF FullInv, Accepted
<1>2. phase \in Settling /\ phase' \in Settling /\ phase \in Called /\ phase' \in Called
      /\ phase' # "receipt" /\ phase # "idle"
  BY <1>1 DEF Settling, Called, Accepted
<1>3. /\ OwnerOf(ix.engine_state)' = OwnerOf(ix.engine_state)
      /\ compute_request_hash(RequestBinding(ix))' = compute_request_hash(RequestBinding(ix))
  BY <1>1, BindingKept DEF SameRequest
<1>4. Served' = Served /\ AheadStates' = AheadStates /\ HelpedNow' = HelpedNow
  BY <1>1, <1>2 DEF Served, AheadStates, HelpedNow
<1>5. Bound' /\ AnswerSound'
  BY <1>1, <1>2, <1>3, <1>4 DEF FullInv, EngineInv, Bound, AnswerSound, Priced
<1> QED BY <1>1, <1>2, <1>3, <1>4, <1>5 DEF FullInv, EngineInv

\* Settling the execution brings the engines back in step.
LEMMA FinalizeEngines ==
  ASSUME FullInv, finalize
  PROVE  EngineInv'
<1> DEFINE es == ix.engine_state
           h == ix.opaque[2].key
           hash == compute_request_hash(RequestBinding(ix))
<1>1. /\ phase = "finalize" /\ phase' = "open" /\ engine' = engine /\ saved' = saved /\ BaseInv
  BY FinalizeWrites DEF FullInv
<1>2. phase \in Settling /\ phase' \notin Settling /\ phase \in Called /\ phase \in Accepted
      /\ phase # "idle"
  BY <1>1 DEF Settling, Called, Accepted
<1>3. /\ settled'.engines[es].count = settled.engines[es].count + 1
      /\ settled'.engines[es].request = hash
      /\ settled'.engines[es].amount_out = ix.amount_out
      /\ \A j \in EngineStates : j # es => settled'.engines[j] = settled.engines[j]
      /\ \A j \in EngineStates : settled'.helped[j] = settled.helped[j] + (IF HelpedBy(j) THEN 1 ELSE 0)
  BY <1>1, FinalizeRecords
<1>4. /\ settled.helped \in [EngineStates -> Nat] /\ es \in EngineStates
      /\ \A j \in PlanStates : j \in EngineStates
      /\ \A j \in HelperStates : j \in EngineStates
  BY <1>1, <1>2, SettlingFacts, EngineKinds DEF SettledStates
<1>5. CASE ix.engine_program = GeneratedPlanEngine
  <2>1. Served /\ AheadStates = {es}
    BY <1>2, <1>5 DEF Served, AheadStates
  <2>2. Ahead(engine, settled, es, hash) /\ Plans(engine, settled, {es})
        /\ ix.amount_out = engine[es].last_amount_out
    BY <1>2, <2>1 DEF FullInv, EngineInv, AnswerSound
  <2>3. \A j \in EngineStates : HelpedBy(j) <=> j \in HelpedNow
    BY <1>5, <2>1 DEF HelpedBy, HelpedNow
  <2> HIDE DEF es, hash
  <2>4. Plans(engine, settled', {})
    BY <1>3, <1>4, <2>2 DEF Plans, Ahead, InStep
  <2>5. Counts(engine, settled, HelpedNow)
    BY DEF FullInv, EngineInv
  <2>6. \A j \in HelperStates : settled'.helped[j] = settled.helped[j] + (IF j \in HelpedNow THEN 1 ELSE 0)
    BY <1>3, <1>4, <2>3
  <2>7. Counts(engine, settled', {})
    <3> SUFFICES ASSUME NEW j \in HelperStates
                 PROVE  IF engine[j] = None
                        THEN settled'.helped[j] = 0
                        ELSE engine[j].authority \in Markers => engine[j].calls = settled'.helped[j] + 0
      BY DEF Counts
    <3>1. settled.helped[j] \in Nat
      BY <1>4
    <3>2. settled'.helped[j] = settled.helped[j] + (IF j \in HelpedNow THEN 1 ELSE 0)
      BY <2>6
    <3>3. settled'.helped[j] \in Nat
      BY <3>1, <3>2
    <3>4. CASE engine[j] = None
      <4>1. settled.helped[j] = 0 /\ j \notin HelpedNow
        BY <2>5, <3>4 DEF Counts
      <4> QED BY <3>2, <3>4, <4>1
    <3>5. CASE engine[j] # None
      <4>1. engine[j].authority \in Markers =>
              engine[j].calls = settled.helped[j] + (IF j \in HelpedNow THEN 1 ELSE 0)
        BY <2>5, <3>5 DEF Counts
      <4> QED BY <3>2, <3>3, <3>5, <4>1
    <3> QED BY <3>4, <3>5
  <2> QED BY <1>1, <1>2, <2>4, <2>7, EnginesAtRest DEF FullInv
<1>6. CASE ix.engine_program # GeneratedPlanEngine
  <2>1. AheadStates = {} /\ HelpedNow = {}
    BY <1>6 DEF Served, AheadStates, HelpedNow
  <2>2. Plans(engine, settled, {}) /\ Counts(engine, settled, {})
    BY <2>1 DEF FullInv, EngineInv
  <2>3. es \notin PlanStates
    <3>1. OwnerOf(es) = ix.engine_program /\ ix.engine_program \in Programs
      BY <1>1, <1>2, SettlingFacts DEF FullInv, EngineInv, Bound, Executions
    <3>2. StateOwner[es] # GeneratedPlanEngine
      BY <1>6, <3>1, KeyAssumption DEF OwnerOf
    <3> QED BY <3>2 DEF PlanStates
  <2>4. \A j \in EngineStates : ~HelpedBy(j)
    BY <1>6 DEF HelpedBy
  <2> HIDE DEF es, hash
  <2>5. Plans(engine, settled', {})
    <3>1. \A j \in PlanStates : settled'.engines[j] = settled.engines[j]
      BY <1>3, <1>4, <2>3
    <3> QED BY <2>2, <3>1 DEF Plans, InStep
  <2>6. Counts(engine, settled', {})
    <3>1. \A j \in HelperStates : settled'.helped[j] = settled.helped[j]
      BY <1>3, <1>4, <2>4
    <3> QED BY <2>2, <3>1 DEF Counts
  <2> QED BY <1>1, <1>2, <2>5, <2>6, EnginesAtRest DEF FullInv
<1> QED BY <1>5, <1>6

\* Every step keeps the invariant of the engines.
LEMMA StepEngines ==
  ASSUME FullInv, [Next]_vars
  PROVE  EngineInv'
<1>1. CASE Frame
  BY <1>1, FrameEngines
<1>2. CASE Setup \/ increment
  BY <1>2, SetupEngines
<1>3. CASE Execution
  BY <1>3, ExecuteEngines, EvaluateEngines, ForeignEngines, AcceptEngines, TransferEngines,
     FinalizeEngines DEF Execution, Settlement
<1>4. CASE UNCHANGED vars
  <2>1. UNCHANGED <<engine, settled, phase, saved, ix, ret>>
    BY <1>4 DEF vars, ledgerVars, chain
  <2>2. /\ OwnerOf(ix.engine_state)' = OwnerOf(ix.engine_state)
        /\ compute_request_hash(RequestBinding(ix))' = compute_request_hash(RequestBinding(ix))
    BY <2>1, BindingKept DEF SameRequest
  <2>3. Served' = Served /\ AheadStates' = AheadStates /\ HelpedNow' = HelpedNow
    BY <2>1 DEF Served, AheadStates, HelpedNow
  <2>4. Bound' /\ AnswerSound'
    BY <2>1, <2>2, <2>3 DEF FullInv, EngineInv, Bound, AnswerSound, Priced
  <2> QED BY <2>1, <2>2, <2>3, <2>4 DEF FullInv, EngineInv
<1> QED BY <1>1, <1>2, <1>3, <1>4 DEF Next

\* Both invariants hold throughout every behaviour.
THEOREM FullHolds == Spec => []FullInv
<1>1. Init => FullInv
  BY InitSound, InitEngines DEF FullInv
<1>2. FullInv /\ [Next]_vars => FullInv'
  BY StepSound, StepEngines DEF FullInv
<1> QED BY <1>1, <1>2, PTL DEF Spec

\* Between instructions every state of the generated plan engine has counted exactly the
\* executions Core settled with it, and remembers the last: no direct, routed or nested
\* call, refused answer or rolled-back settlement leaves a trace.
THEOREM GeneratedInLockstep == Spec => []GeneratedLockstep
<1>1. FullInv => GeneratedLockstep
  <2>1. SUFFICES ASSUME FullInv, phase \in {"idle", "open"}, NEW es \in GeneratedStates
                 PROVE  /\ engine[es].sequence = settled.engines[es].count
                        /\ engine[es].last_request_hash = settled.engines[es].request
                        /\ engine[es].last_amount_out = settled.engines[es].amount_out
    BY DEF GeneratedLockstep
  <2>2. Plans(engine, settled, {})
    BY <2>1, NotServed DEF FullInv, EngineInv, Called
  <2>3. es \in PlanStates /\ engine[es] # None
    BY <2>1 DEF GeneratedStates, IsGeneratedState, PlanStates
  <2> QED BY <2>2, <2>3 DEF Plans, InStep
<1> QED BY <1>1, FullHolds, PTL

\* Between instructions every helper created for an engine's authority has counted exactly
\* the settled executions that named it: nobody else can make that authority sign.
THEOREM GeneratedHelpersInLockstep == Spec => []GeneratedHelperLockstep
<1>1. FullInv => GeneratedHelperLockstep
  <2>1. SUFFICES ASSUME FullInv, phase \in {"idle", "open"}, NEW h \in EngineStates,
                        IsHelperState(h), engine[h].authority \in Markers
                 PROVE  engine[h].calls = settled.helped[h]
    BY DEF GeneratedHelperLockstep
  <2>2. Counts(engine, settled, {})
    BY <2>1, NotServed DEF FullInv, EngineInv, Called
  <2>3. h \in HelperStates /\ engine[h] # None
    BY <2>1 DEF IsHelperState, HelperStates
  <2>4. engine[h].calls = settled.helped[h] + 0
    BY <2>1, <2>2, <2>3 DEF Counts
  <2>5. settled \in SettledStates
    BY <2>1 DEF FullInv, BaseInv, GeneratedTypeOK, Snapshot, Chains
  <2>6. settled.helped[h] \in Nat
    BY <2>1, <2>5 DEF SettledStates
  <2> QED BY <2>4, <2>6
<1> QED BY <1>1, FullHolds, PTL

\* Whatever mode the generated plan engine is in, an execution it priced never lowers the
\* product of the market's accounted reserves.
THEOREM GeneratedProductKept == Spec => GeneratedProductNeverDecreases
<1> DEFINE Completes == phase = "finalize" /\ Forward /\ ix.engine_program = GeneratedPlanEngine
                          /\ ix.accounted_b < U64Max
           NotLowered == domain'[ix.domain].accounted_a * domain'[ix.domain].accounted_b
                      >= domain[ix.domain].accounted_a * domain[ix.domain].accounted_b
<1>1. FullInv /\ Next /\ Completes => NotLowered
  <2> SUFFICES ASSUME FullInv, Next, Completes PROVE NotLowered
    OBVIOUS
  <2> DEFINE d == ix.domain
             n == ix.args.amount_in
             o == ix.amount_out
             a == ix.accounted_a
             b == ix.accounted_b
  <2>1. finalize /\ BaseInv /\ phase = "finalize"
    BY CompletionStep DEF FullInv, Forward
  <2>2. /\ Flight(token, market, domain, fee_ledger, donated, ix, n, ix.protocol_fee, o)
        /\ Answered(ix) /\ domain \in DomainStates
    BY <2>1, PaidInFull, SettlingFacts DEF Settling
  <2>3. domain[d].accounted_a = a /\ domain[d].accounted_b = b /\ domain[d] \in DomainV0
        /\ d \in Domains
    BY <2>2, FlightKeys DEF Flight, Reads
  <2>4. domain' = [domain EXCEPT ![d].accounted_a = a + n, ![d].accounted_b = b - o]
    BY <2>1 DEF finalize, post_accounted_a, post_accounted_b
  <2>5. domain'[d].accounted_a = a + n /\ domain'[d].accounted_b = b - o
    <3> HIDE DEF n, o, a, b, d
    <3> QED BY <2>2, <2>3, <2>4 DEF DomainStates, DomainV0
  <2>6. Served
    BY <2>1 DEF Served, Called
  <2>7. Priced(ix, o)
    BY <2>1, <2>6 DEF FullInv, EngineInv, AnswerSound, Accepted
  <2>8. o > 0 /\ o <= b /\ o \in Int /\ b \in Int /\ a \in Int /\ n \in Int /\ U64Max \in Int
    BY <2>1, <2>2, SettlingFacts, MathAssumption DEF Answered, Settling, U64
  <2>9. (a + n) * (b - o) >= a * b
    <3> HIDE DEF n, o, a, b
    <3>1. o # 0 /\ o # U64Max
      BY <2>8 DEF b
    <3> QED BY <2>7, <3>1 DEF Priced, n, a, b
  <2> HIDE DEF n, o, a, b, d
  <2> QED BY <2>3, <2>5, <2>9 DEF d
<1>2. FullInv /\ [Next]_vars => [Completes => NotLowered]_vars
  BY <1>1
<1> HIDE DEF Completes, NotLowered
<1>3. Spec => [][Completes => NotLowered]_vars
  BY <1>2, FullHolds, PTL DEF Spec
<1> QED BY <1>3 DEF Completes, NotLowered, GeneratedProductNeverDecreases

(***************************************************************************)
(* The refinement of AtomicExchange.                                       *)
(***************************************************************************)
Held == Unsettled(HoldingsOf(token), ix, ix.amount_out)
Books == BooksOf(market, domain, fee_ledger)

\* AtomicExchange's operators on the view.
LEMMA SameOperators ==
  /\ Exchange!U64 = U64 /\ \A x, y : Exchange!AddFits(x, y) <=> AddFits(x, y)
  /\ Exchange!Vaults = BookVaults(Books)
  /\ \A h, from, to, n : Exchange!Moved(h, from, to, n) = Shift(h, from, to, n)
  /\ \A f, i, bps : Exchange!IsLeastFee(f, i, bps) <=> IsLeastFee(f, i, bps)
BY DEF Exchange!U64, U64, Exchange!AddFits, AddFits, Exchange!Moved, Exchange!Add, Shift,
   Exchange!Vaults, Exchange!VaultsOf, Exchange!Open, BookVaults, Books,
   Exchange!IsLeastFee, IsLeastFee

\* The steps of the exchange on the view are AtomicExchange's.
LEMMA ExchangeSteps ==
  ASSUME CommittedView # None, UNCHANGED CommittedView,
         \/ Books' = Books /\ PayView(Held, Books, Held')
         \/ \E m \in Markets : \/ CreateView(m, Held, Books, Held', Books')
                               \/ DepositView(m, Held, Books, Held', Books')
                               \/ TradeView(m, Held, Books, Held', Books')
  PROVE  Exchange!Next
<1>1. ASSUME Books' = Books, PayView(Held, Books, Held')
      PROVE  Exchange!Pay
  BY <1>1, SameOperators
     DEF PayView, Exchange!Pay, Exchange!CanPay, Exchange!CanTake, Pays, Takes, Held, Books
<1>2. ASSUME NEW m \in Markets, CreateView(m, Held, Books, Held', Books')
      PROVE  Exchange!Create(m)
  BY <1>2 DEF CreateView, Exchange!Create, Held, Books
<1>3. ASSUME NEW m \in Markets, DepositView(m, Held, Books, Held', Books')
      PROVE  Exchange!Deposit(m)
  BY <1>3, SameOperators DEF DepositView, Exchange!Deposit, Exchange!DepositInto, Exchange!CanPay,
     Exchange!CanTake, Pays, Takes, Held, Books
<1>4. ASSUME NEW m \in Markets, TradeView(m, Held, Books, Held', Books')
      PROVE  Exchange!Trade(m)
  <2>1. PICK i \in U64 \ {0}, f \in U64, from \in TokenAccounts, to \in TokenAccounts :
          \E o \in 1 .. Books[m].b : TradedFor(m, Held, Books, Held', Books', i, f, from, to, o)
    BY <1>4 DEF TradeView
  <2>2. PICK o \in 1 .. Books[m].b : TradedFor(m, Held, Books, Held', Books', i, f, from, to, o)
    BY <2>1
  <2>3. /\ Exchange!CanPay(from, i + f) /\ Exchange!CanTake(Books[m].vault_a, from, i)
        /\ Exchange!CanTake(Books[m].fee_vault, from, f)
        /\ Exchange!CanTake(to, Books[m].vault_b, o)
    BY <2>2, SameOperators
       DEF TradedFor, Pays, Takes, Exchange!CanPay, Exchange!CanTake, Held, Books
  <2>4. Held' = Exchange!TradePayments(m, from, to, i, f, o)
    BY <2>2, SameOperators DEF TradedFor, Exchange!TradePayments, Held, Books
  <2>5. to \in TokenAccounts \ Exchange!VaultsOf(Books[m])
    BY <2>2 DEF TradedFor, Exchange!VaultsOf
  <2>6. /\ Books[m] # None /\ IsLeastFee(f, i, ProtocolFeeBps)
        /\ Books' = [Books EXCEPT ![m].a = @ + i, ![m].b = @ - o, ![m].fee = @ + f]
    BY <2>2 DEF TradedFor
  <2> QED BY <2>3, <2>4, <2>5, <2>6, SameOperators DEF Exchange!Trade, Held, Books
<1> QED BY <1>1, <1>2, <1>3, <1>4 DEF Exchange!Next, Exchange!Inside

\* The view before and after a step.
LEMMA HeldAt ==
  /\ Held = UnsettledAt(phase, HoldingsOf(token), ix, ix.amount_out)
  /\ Held' = UnsettledAt(phase', HoldingsOf(token'), ix', ix'.amount_out)
BY DEF Held, Unsettled, UnsettledAt

\* Before the first payment and after the accounting nothing is taken back.
Unpaying == {"idle", "open", "engine", "receipt", "input"}

LEMMA NothingTakenBack ==
  /\ phase \in Unpaying => Held = HoldingsOf(token)
  /\ phase' \in Unpaying => Held' = HoldingsOf(token')
<1>1. \A p \in Unpaying : PaymentsMade(p) = 0
  BY DEF PaymentsMade, Unpaying
<1> QED BY <1>1, HeldAt DEF UnsettledAt

\* Inside a transaction there is something to roll back to.
LEMMA CommittedExists ==
  ASSUME BaseInv, phase # "idle"
  PROVE  /\ CommittedView # None
         /\ CommittedView = [held |-> HoldingsOf(saved.token),
                             books |-> BooksOf(saved.market, saved.domain, saved.fee_ledger)]
<1>1. saved \in Chains
      /\ Canonical(saved.token, saved.market, saved.domain, saved.fee_ledger, saved.donated)
  BY DEF BaseInv, GeneratedTypeOK, SavedSound
<1>2. /\ saved.token \in TokenStates /\ saved.market \in MarketStates
      /\ saved.domain \in DomainStates /\ saved.fee_ledger \in FeeLedgerStates
      /\ saved.donated \in DonatedStates
  BY <1>1 DEF Chains
<1>3. HoldingsOf(saved.token) \in ViewHoldings
  BY <1>2, HoldingsView
<1>4. BooksOf(saved.market, saved.domain, saved.fee_ledger) \in ViewBooks
  BY <1>1, <1>2, BooksView
<1>5. CommittedView = [held |-> HoldingsOf(saved.token),
                       books |-> BooksOf(saved.market, saved.domain, saved.fee_ledger)]
  BY DEF CommittedView
<1> QED BY <1>3, <1>4, <1>5, ViewAssumption

\* Within a transaction what it would be rolled back to stays.
LEMMA CommittedKept ==
  ASSUME UNCHANGED saved, phase # "idle", phase' # "idle"
  PROVE  UNCHANGED CommittedView
BY DEF CommittedView

\* A step that only changes what is no part of the view.
LEMMA Unseen ==
  ASSUME UNCHANGED <<token, market, domain, fee_ledger, saved>>,
         phase \in Unpaying, phase' \in Unpaying, phase # "idle", phase' # "idle"
  PROVE  UNCHANGED <<Held, Books, CommittedView>>
BY NothingTakenBack, CommittedKept DEF Books

\* A payment of the settlement is no step of the exchange.
LEMMA PaymentStutters ==
  ASSUME BaseInv, transfer_input \/ transfer_fee \/ transfer_output
  PROVE  UNCHANGED <<Held, Books, CommittedView>>
<1> DEFINE o == ix.amount_out
<1>1. /\ BaseInv' /\ UNCHANGED <<market, domain, fee_ledger, saved, ix>>
      /\ phase \in Accepted /\ phase' \in Accepted /\ Kept(token, token')
      /\ \A a \in TokenAccounts :
           a \notin {ix.source, ix.vault_a, ix.fee_vault, ix.vault_b, ix.destination} =>
             token'[a] = token[a]
  <2>1. CASE transfer_input \/ transfer_fee
    BY <2>1, InputFeeSteps
  <2>2. CASE transfer_output
    BY <2>2, OutputStep DEF Moved, Accepted
  <2> QED BY <2>1, <2>2
<1>2. phase \in Settling /\ phase' \in Settling /\ phase # "idle" /\ phase' # "idle"
  BY <1>1 DEF Accepted, Settling
<1>3. /\ Flight(token, market, domain, fee_ledger, donated, ix, InputMade(phase, ix),
                FeeMade(phase, ix), OutputMade(phase, o))
      /\ ix.args.amount_in \in Int /\ ix.protocol_fee \in Int /\ o \in Int
  BY <1>2, SettlingFacts, MathAssumption DEF U64
<1>4. Flight(token', market, domain, fee_ledger, donated', ix, InputMade(phase', ix),
             FeeMade(phase', ix), OutputMade(phase', o))
  BY <1>1, <1>2 DEF BaseInv, FlightSound
<1>5. /\ FlightAt(token, market, domain, fee_ledger, donated, ix, phase, o)
      /\ FlightAt(token', market, domain, fee_ledger, donated', ix, phase', o)
  BY <1>3, <1>4 DEF FlightAt
<1>6. UnsettledAt(phase', HoldingsOf(token'), ix, o) = UnsettledAt(phase, HoldingsOf(token), ix, o)
  BY <1>1, <1>5, PaymentUnseen
<1>7. Held' = Held
  BY <1>1, <1>6, HeldAt
<1> QED BY <1>1, <1>2, <1>7, CommittedKept DEF Books

\* finalize, which writes the accounting of three payments made before, is a trade.
LEMMA FinalizeTrades ==
  ASSUME BaseInv, finalize
  PROVE  /\ ix.market \in Markets
         /\ TradeView(ix.market, Held, Books, Held', Books')
<1> DEFINE i == ix.args.amount_in
           f == ix.protocol_fee
           o == ix.amount_out
           h == HoldingsOf(token)
<1>1. /\ phase = "finalize" /\ phase' = "open" /\ UNCHANGED <<token, market>>
      /\ Written(domain, fee_ledger, domain', fee_ledger', ix, i, f, o)
  BY FinalizeWrites
<1>2. /\ Flight(token, market, domain, fee_ledger, donated, ix, i, f, o)
      /\ Agreed(token, market, signers, slot, ix) /\ Answered(ix)
  BY <1>1, PaidInFull
<1>3. /\ i \in U64 /\ f \in U64 /\ o \in U64 /\ i \in Nat /\ f \in Int /\ o \in Int
  BY <1>1, SettlingFacts, MathAssumption DEF Settling, U64
<1>4. IsLeastFee(f, i, ProtocolFeeBps)
  <2>1. f = fee_ceil(i, ProtocolFeeBps)
    BY <1>2 DEF Agreed
  <2> QED BY <1>3, <2>1, FeeIsLeast
<1>5. Settles(token, market, domain, fee_ledger, donated, ix, i, f, o, domain', fee_ledger')
  BY <1>1, <1>2, <1>3, <1>4 DEF Settles, Agreed, Answered
<1>6. TakenBack(h, Held, ix, i, f, o)
  <2>1. FlightAt(token, market, domain, fee_ledger, donated, ix, "finalize", o)
    BY <1>2, <1>3, PaidSoFar DEF FlightAt
  <2>2. TakenBack(h, UnsettledAt("finalize", h, ix, o), ix, i, f, o)
    BY <2>1, FlightTakenBack, PaidSoFar
  <2> QED BY <1>1, <2>2, HeldAt
<1>7. TradeView(ix.market, Held, BooksOf(market, domain, fee_ledger), HoldingsOf(token),
                BooksOf(market, domain', fee_ledger'))
  BY <1>5, <1>6, SettlementTrades
<1>8. Held' = HoldingsOf(token)
  BY <1>1, NothingTakenBack DEF Unpaying
<1>9. ix.market \in Markets
  BY <1>2 DEF Flight, Roles
<1> QED BY <1>1, <1>7, <1>8, <1>9 DEF Books

\* The runtime's own steps.
LEMMA FrameExchanges ==
  ASSUME BaseInv, Frame
  PROVE  Exchange!Next \/ UNCHANGED <<Held, Books, CommittedView>>
<1>1. ASSUME NEW S, BeginTransaction(S)
      PROVE  Exchange!Next
  <2>1. /\ phase = "idle" /\ phase' = "open" /\ saved' = Snapshot
        /\ UNCHANGED <<token, market, domain, fee_ledger>>
    BY <1>1 DEF BeginTransaction, chain
  <2>2. Held' = Held /\ Books' = Books /\ Held = HoldingsOf(token)
    BY <2>1, NothingTakenBack DEF Books, Unpaying
  <2>3. CommittedView = None
    BY <2>1 DEF CommittedView
  <2>4. CommittedView' = [held |-> Held, books |-> Books]
    BY <2>1, <2>2 DEF CommittedView, Snapshot, Books
  <2> QED BY <2>2, <2>3, <2>4 DEF Exchange!Next, Exchange!Begin, Held, Books
<1>2. ASSUME CommitTransaction
      PROVE  Exchange!Next
  <2>1. /\ phase = "open" /\ phase' = "idle" /\ UNCHANGED <<token, market, domain, fee_ledger>>
    BY <1>2 DEF CommitTransaction, chain
  <2>2. Held' = Held /\ Books' = Books
    BY <2>1, NothingTakenBack DEF Books, Unpaying
  <2>3. CommittedView # None /\ CommittedView' = None
    BY <2>1, CommittedExists DEF CommittedView
  <2> QED BY <2>2, <2>3 DEF Exchange!Next, Exchange!Commit, Held, Books
<1>3. ASSUME AbortTransaction
      PROVE  Exchange!Next
  <2>1. /\ phase # "idle" /\ phase' = "idle" /\ token' = saved.token /\ market' = saved.market
        /\ domain' = saved.domain /\ fee_ledger' = saved.fee_ledger
    BY <1>3 DEF AbortTransaction, Rollback
  <2>2. /\ CommittedView # None /\ CommittedView' = None
        /\ CommittedView.held = HoldingsOf(saved.token)
        /\ CommittedView.books = BooksOf(saved.market, saved.domain, saved.fee_ledger)
    BY <2>1, CommittedExists DEF CommittedView
  <2>3. Held' = CommittedView.held /\ Books' = CommittedView.books
    BY <2>1, <2>2, NothingTakenBack DEF Books, Unpaying
  <2> QED BY <2>2, <2>3 DEF Exchange!Next, Exchange!Abort, Held, Books
<1>4. ASSUME AdvanceSlot
      PROVE  UNCHANGED <<Held, Books, CommittedView>>
  <2>1. phase = "idle" /\ phase' = "idle" /\ UNCHANGED <<token, market, domain, fee_ledger>>
    BY <1>4 DEF AdvanceSlot, chain
  <2> QED BY <2>1, NothingTakenBack DEF Books, CommittedView, Unpaying
<1>5. ASSUME SplTransfer
      PROVE  Exchange!Next
  <2>1. phase = "open" /\ phase' = "open" /\ UNCHANGED saved
    BY <1>5 DEF SplTransfer, RunInstruction
  <2>2. /\ LedgerSound /\ CommittedView # None /\ UNCHANGED CommittedView
        /\ Held = HoldingsOf(token) /\ Held' = HoldingsOf(token')
    BY <2>1, OpenFacts, CommittedExists, CommittedKept, NothingTakenBack DEF Settling, Unpaying
  <2>3. PayView(Held, Books, Held') /\ Books' = Books
    BY <1>5, <2>2, SplTransferInView DEF Books
  <2> QED BY <2>2, <2>3, ExchangeSteps
<1> QED BY <1>1, <1>2, <1>3, <1>4, <1>5 DEF Frame

\* The instructions without an engine; the engines' own accounts are no part of the view.
LEMMA SetupExchanges ==
  ASSUME BaseInv, Setup \/ increment
  PROVE  Exchange!Next \/ UNCHANGED <<Held, Books, CommittedView>>
<1>1. phase = "open" /\ phase' = "open" /\ UNCHANGED saved
  BY DEF Setup, increment, initialize_market_domain, initialize_market_domain_v0, deposit,
     deposit_v0, engine_initialize, helper_initialize, set_mode, RunInstruction
<1>2. /\ LedgerSound /\ CommittedView # None /\ UNCHANGED CommittedView
      /\ Held = HoldingsOf(token) /\ Held' = HoldingsOf(token')
  BY <1>1, OpenFacts, CommittedExists, CommittedKept, NothingTakenBack DEF Settling, Unpaying
<1>3. CASE initialize_market_domain
  <2>1. \E m \in Markets : CreateView(m, Held, Books, Held', Books')
    BY <1>2, <1>3, InitializeInView DEF Books, initialize_market_domain
  <2> QED BY <1>2, <2>1, ExchangeSteps
<1>4. CASE deposit
  <2>1. \E m \in Markets : DepositView(m, Held, Books, Held', Books')
    BY <1>2, <1>4, DepositInView DEF Books, deposit
  <2> QED BY <1>2, <2>1, ExchangeSteps
<1>5. CASE engine_initialize \/ helper_initialize \/ set_mode \/ increment
  <2>1. UNCHANGED <<token, market, domain, fee_ledger>>
    BY <1>5 DEF engine_initialize, helper_initialize, set_mode, increment
  <2> QED BY <1>1, <2>1, Unseen DEF Unpaying
<1> QED BY <1>3, <1>4, <1>5 DEF Setup

\* An execution: the engine, whoever wrote it, and the payments are no steps; the
\* accounting is a trade.
LEMMA ExecutionExchanges ==
  ASSUME BaseInv, Execution
  PROVE  Exchange!Next \/ UNCHANGED <<Held, Books, CommittedView>>
<1>1. CASE execute_engine_generated_probe_v0 \/ evaluate \/ foreign_act \/ foreign_return \/ accept_receipt
  <2>1. /\ UNCHANGED <<token, market, domain, fee_ledger, saved>>
        /\ phase \in {"open", "engine", "receipt", "input"}
        /\ phase' \in {"open", "engine", "receipt", "input"}
    <3>1. CASE execute_engine_generated_probe_v0
      BY <3>1 DEF execute_engine_generated_probe_v0, RunInstruction, chain
    <3>2. CASE evaluate
      BY <3>2, EvaluateStep
    <3>3. CASE foreign_act
      BY <3>3, ForeignActStep
    <3>4. CASE foreign_return \/ accept_receipt
      BY <3>4 DEF foreign_return, ForeignTurn, accept_receipt, chain
    <3> QED BY <1>1, <3>1, <3>2, <3>3, <3>4
  <2> QED BY <2>1, Unseen DEF Unpaying
<1>2. CASE transfer_input \/ transfer_fee \/ transfer_output
  BY <1>2, PaymentStutters
<1>3. CASE finalize
  <2>1. phase = "finalize" /\ phase' = "open" /\ UNCHANGED saved
    BY <1>3 DEF finalize
  <2>2. CommittedView # None /\ UNCHANGED CommittedView
    BY <2>1, CommittedExists, CommittedKept
  <2>3. ix.market \in Markets /\ TradeView(ix.market, Held, Books, Held', Books')
    BY <1>3, FinalizeTrades
  <2> QED BY <2>2, <2>3, ExchangeSteps
<1> QED BY <1>1, <1>2, <1>3 DEF Execution, Settlement

\* The initial accounts are an exchange without books.
LEMMA InitExchanges ==
  ASSUME Init
  PROVE  Exchange!Init
<1>1. BaseInv
  BY InitSound
<1>2. /\ phase = "idle" /\ market = [m \in Markets |-> None]
  BY DEF Init, LedgerInit
<1>3. Held = HoldingsOf(token) /\ CommittedView = None
  BY <1>2, NothingTakenBack DEF CommittedView, Unpaying
<1>4. Held \in ViewHoldings /\ Books \in ViewBooks
  <2>1. LedgerSound
    BY <1>1, <1>2, OpenFacts DEF Settling
  <2> QED BY <1>3, <2>1, LedgerFacts, HoldingsView, BooksView DEF Books
<1>5. Books = [m \in Markets |-> None]
  BY <1>2 DEF Books, BooksOf
<1>6. /\ Held \in [TokenAccounts -> Exchange!Holding \cup {None}]
      /\ Books \in [Markets -> Exchange!Book \cup {None}]
  BY <1>4 DEF ViewHoldings, ViewBooks, Exchange!Holding, Exchange!Book, Exchange!U64, U64
<1>7. Exchange!Covered(Held, Books)
  BY <1>5 DEF Exchange!Covered, Exchange!Open
<1> QED BY <1>3, <1>6, <1>7 DEF Exchange!Init, Held, Books

\* Whatever engines decide the outputs, whatever closures they are handed and wherever a
\* transaction fails: engine-generated settlement (execute_engine_generated_probe_v0,
\* deposit_v0, initialize_market_domain_v0 and plain transfers) is an AtomicExchange.
THEOREM GeneratedRefines == Spec => GeneratedImplementsExchange
<1>1. Init => Exchange!Init
  BY InitExchanges
<1>2. BaseInv /\ [Next]_vars => [Exchange!Next]_(Exchange!vars)
  <2> SUFFICES ASSUME BaseInv, [Next]_vars
               PROVE  Exchange!Next \/ UNCHANGED <<Held, Books, CommittedView>>
    BY DEF Exchange!vars, Held, Books
  <2>1. CASE Frame
    BY <2>1, FrameExchanges
  <2>2. CASE Setup \/ increment
    BY <2>2, SetupExchanges
  <2>3. CASE Execution
    BY <2>3, ExecutionExchanges
  <2>4. CASE UNCHANGED vars
    BY <2>4 DEF vars, ledgerVars, chain, Held, Books, Unsettled, CommittedView
  <2> QED BY <2>1, <2>2, <2>3, <2>4 DEF Next
<1> QED BY <1>1, <1>2, BaseHolds, PTL DEF Spec, GeneratedImplementsExchange, Exchange!Spec

(***************************************************************************)
(* Isolation.                                                              *)
(***************************************************************************)
\* An instruction without an engine touches one market at most.
LEMMA FrameIsolated ==
  ASSUME BaseInv, phase' # "idle", Frame \/ Setup \/ increment
  PROVE  phase \notin Settling /\ \E n : \A m \in Markets : Touched(m) => m = n
<1>1. phase \in {"idle", "open"}
  BY DEF Frame, Setup, increment, BeginTransaction, CommitTransaction, AbortTransaction, AdvanceSlot,
     SplTransfer, initialize_market_domain, initialize_market_domain_v0, deposit, deposit_v0,
     engine_initialize, helper_initialize, set_mode, RunInstruction
<1>2. phase \notin Settling /\ LedgerSound /\ token \in TokenStates
  BY <1>1, OpenFacts DEF Settling, LedgerSound
<1>3. ~CommitTransaction /\ ~AbortTransaction /\ ~AdvanceSlot
  BY DEF CommitTransaction, AbortTransaction, AdvanceSlot
<1>4. CASE \/ \E S \in SUBSET Users \ {{}} : BeginTransaction(S)
           \/ engine_initialize \/ helper_initialize \/ set_mode \/ increment
  <2>1. UNCHANGED <<token, market, domain, fee_ledger>>
    BY <1>4 DEF BeginTransaction, chain, engine_initialize, helper_initialize, set_mode, increment
  <2> QED BY <1>2, <2>1, StillTouchesNothing
<1>5. CASE SplTransfer \/ deposit_v0 \/ initialize_market_domain_v0
  BY <1>2, <1>5, SharedIsolated
<1> QED BY <1>3, <1>4, <1>5 DEF Frame, Setup, initialize_market_domain, deposit

\* An execution touches its own market only, from the call of the engine to the end: however
\* often an engine of unknown code acts, it has no account with which to touch another.
LEMMA ExecutionIsolated ==
  ASSUME BaseInv, Execution
  PROVE  \E n : /\ \A m \in Markets : Touched(m) => m = n
                /\ phase \in Settling => n = ix.market
<1>0. token \in TokenStates
  BY DEF BaseInv, GeneratedTypeOK, Snapshot, Chains
<1>1. CASE \/ execute_engine_generated_probe_v0 \/ evaluate \/ foreign_act \/ foreign_return
           \/ accept_receipt
  <2>1. UNCHANGED <<token, market, domain, fee_ledger>>
    BY <1>1, EvaluateStep, ForeignActStep
       DEF execute_engine_generated_probe_v0, foreign_return, accept_receipt, chain
  <2> QED BY <1>0, <2>1, StillTouchesNothing
<1>2. ASSUME transfer_input \/ transfer_fee
      PROVE  \A m \in Markets : ~Touched(m)
  <2>1. /\ UNCHANGED <<market, domain, fee_ledger>> /\ phase \in Settling
    BY <1>2 DEF transfer_input, transfer_fee, Settle, Settling
  <2>2. /\ ix.source \in TokenAccounts /\ ix.source \notin CoreVaults /\ ix.user # None
        /\ ix.vault_a \in CoreVaults /\ ix.fee_vault \in CoreVaults
        /\ ix.vault_a \in TokenAccounts /\ ix.fee_vault \in TokenAccounts
        /\ ix.args.amount_in \in U64 /\ ix.protocol_fee \in U64
    BY <2>1, SettlingFacts, FlightKeys DEF Flight, Roles
  <2>3. PICK to \in {ix.vault_a, ix.fee_vault}, amount \in U64 :
          /\ CanTransfer(token, ix.source, to, market[ix.market].mint_a, amount, ix.user)
          /\ token' = Transferred(token, ix.source, to, amount, ix.user)
    BY <1>2, <2>2 DEF transfer_input, transfer_fee, Settle
  <2>4. PaidFrom(ix.source, to, amount)
    BY <1>0, <2>2, <2>3, PaidByTransfer
  <2> QED BY <1>0, <2>1, <2>4, PaymentTouchesNothing
<1>3. CASE transfer_output
  <2>1. /\ UNCHANGED <<market, domain, fee_ledger>> /\ phase \in Settling
        /\ Moved(token, token', ix.vault_b, ix.destination, ix.amount_out)
    BY <1>3, OutputStep DEF Settling
  <2>2. ix.market \in Markets /\ ix.vault_b = VaultB(ix.market) /\ ix.amount_out \in U64
    BY <2>1, SettlingFacts DEF Flight, Roles
  <2> QED BY <1>0, <2>1, <2>2, OutputIsolated
<1>4. CASE finalize
  <2>1. /\ phase \in Settling /\ UNCHANGED <<token, market>>
        /\ Written(domain, fee_ledger, domain', fee_ledger', ix, ix.args.amount_in,
                   ix.protocol_fee, ix.amount_out)
    BY <1>4, FinalizeWrites DEF Settling
  <2>2. /\ ix.market \in Markets /\ market[ix.market].mint_a \in Mints
        /\ ix.domain = DomainPda(ix.market)
        /\ ix.fee_ledger = FeeLedgerPda(ix.market, market[ix.market].mint_a)
        /\ domain \in DomainStates /\ fee_ledger \in FeeLedgerStates
    BY <2>1, SettlingFacts, FlightKeys DEF Flight, Roles
  <2>3. \A d \in Domains : d # ix.domain => domain'[d] = domain[d]
    BY <2>1, <2>2 DEF DomainStates, Written
  <2>4. \A l \in FeeLedgers : l # ix.fee_ledger => fee_ledger'[l] = fee_ledger[l]
    BY <2>1, <2>2 DEF FeeLedgerStates, Written
  <2> QED BY <1>0, <2>1, <2>2, <2>3, <2>4, WriteIsolated
<1> QED BY <1>1, <1>2, <1>3, <1>4 DEF Execution, Settlement

\* Whatever accounts an instruction names, whatever the engine is handed and however often
\* it acts: an execution touches no market but its own, and every other instruction one at
\* most.
THEOREM GeneratedMarketsIsolated == Spec => GeneratedIsolation
<1>1. BaseInv /\ [Next]_vars =>
        [Forward => /\ phase \in Settling => \A m \in Markets : Touched(m) => m = ix.market
                    /\ \A m1, m2 \in Markets : Touched(m1) /\ Touched(m2) => m1 = m2]_vars
  <2> SUFFICES ASSUME BaseInv, Next, phase' # "idle"
               PROVE  \E n : /\ \A m \in Markets : Touched(m) => m = n
                             /\ phase \in Settling => n = ix.market
    BY DEF Forward
  <2>1. CASE Execution
    BY <2>1, ExecutionIsolated
  <2>2. CASE ~Execution
    BY <2>2, FrameIsolated DEF Next
  <2> QED BY <2>1, <2>2
<1> QED BY <1>1, BaseHolds, PTL DEF Spec, GeneratedIsolation
=============================================================================
