---------------------------- MODULE RoutedProofs ----------------------------
(* Proofs about RoutedCallback, for every value of its constants. *)
EXTENDS RoutedExchange, ExchangeViewProofs

(***************************************************************************)
(* The engines' accounts.                                                  *)
(***************************************************************************)
\* The accounts of the two programs under test are different ones.
LEMMA EngineKinds ==
  /\ \A es \in PlanStates : es \in EngineStates /\ es \notin HelperStates
  /\ \A h \in HelperStates : h \in EngineStates /\ h \notin PlanStates
BY EngineAssumption DEF PlanStates, HelperStates

\* A state that exists is one of its program's.
LEMMA EngineKept ==
  ASSUME NEW e \in EngineMaps
  PROVE  /\ \A es \in PlanStates : e[es] # None => e[es] \in PlanState
         /\ \A h \in HelperStates : e[h] # None => e[h] \in HelperState
BY DEF EngineMaps

\* A state that account k can hold.
OfKind(k, s) ==
  \/ /\ k \in PlanStates /\ s \in PlanState
     /\ (s.last_phase_context_digest # None) <=> (s.last_phase = PHASE_COMMIT)
  \/ k \in HelperStates /\ s \in HelperState

\* From e to f, account k was given the state s of its kind and no other changed.
Puts(e, f, k, s) == e \in EngineMaps /\ OfKind(k, s) /\ f = [e EXCEPT ![k] = s]

\* Writing a state of its own kind keeps the engines' accounts typed.
LEMMA EngineWritten ==
  ASSUME NEW e, NEW f, NEW k, NEW s, Puts(e, f, k, s)
  PROVE  /\ f \in EngineMaps /\ f[k] = s /\ f[k] # None
         /\ \A j \in EngineStates : j # k => f[j] = e[j]
<1> USE DEF OfKind, Puts
<1>1. /\ k \in EngineStates /\ HelperStates \subseteq EngineStates /\ PlanStates \subseteq EngineStates
      /\ k \in PlanStates => k \notin HelperStates
  BY EngineKinds
<1>2. e \in [EngineStates -> PlanState \cup HelperState \cup {None, Opaque}]
  BY DEF EngineMaps
<1>3. f \in [EngineStates -> PlanState \cup HelperState \cup {None, Opaque}]
  BY <1>1, <1>2
<1>4. f[k] = s /\ \A j \in EngineStates : j # k => f[j] = e[j]
  BY <1>1, <1>2
<1>5. s # None
  BY PresenceAssumption
<1>6. \A es \in PlanStates :
        \/ f[es] = None
        \/ /\ f[es] \in PlanState
           /\ (f[es].last_phase_context_digest # None) <=> (f[es].last_phase = PHASE_COMMIT)
  <2> TAKE es \in PlanStates
  <2>1. CASE es = k
    BY <1>4, <2>1, EngineKinds
  <2>2. CASE es # k
    BY <1>1, <1>4, <2>2 DEF EngineMaps
  <2> QED BY <2>1, <2>2
<1>7. \A es \in HelperStates : f[es] \in HelperState \cup {None}
  BY <1>1, <1>4, EngineKinds DEF EngineMaps
<1> QED BY <1>3, <1>4, <1>5, <1>6, <1>7 DEF EngineMaps

\* What one call of the helper leaves.
Incremented(e, f, h) ==
  /\ f \in EngineMaps /\ h \in HelperStates /\ e[h] # None /\ f[h] # None
  /\ f[h].calls = e[h].calls + 1 /\ f[h].allowed_callback = e[h].allowed_callback
  /\ \A j \in EngineStates : j # h => f[j] = e[j]

\* increment counts one call and changes no other account.
LEMMA IncrementFacts ==
  ASSUME engine \in EngineMaps, NEW h, NEW amount \in Payloads, amount # None,
         IsHelperState(h), increment_fits(h, amount)
  PROVE  Incremented(engine, apply_increment(engine, h, amount), h)
<1> DEFINE s == [engine[h] EXCEPT !.calls = @ + 1, !.value = @ + amount]
<1>1. /\ h \in HelperStates /\ engine[h] # None
      /\ AddFits(engine[h].calls, 1) /\ AddFits(engine[h].value, amount)
  BY DEF IsHelperState, HelperStates, increment_fits
<1>2. engine[h] \in HelperState /\ h \in EngineStates
  BY <1>1, EngineKept, EngineKinds
<1>3. amount \in U64
  BY CapabilityAssumption
<1>4. engine[h].calls + 1 \in U64 /\ engine[h].value + amount \in U64
  BY <1>1, <1>2, <1>3, MathAssumption DEF HelperState, AddFits, U64
<1>5. /\ s \in HelperState /\ s.calls = engine[h].calls + 1
      /\ s.allowed_callback = engine[h].allowed_callback
  BY <1>2, <1>4 DEF HelperState
<1>6. apply_increment(engine, h, amount) = [engine EXCEPT ![h] = s]
  BY <1>2 DEF apply_increment, EngineMaps
<1> HIDE DEF s
<1>7. OfKind(h, s)
  BY <1>1, <1>5 DEF OfKind
<1> DEFINE f == apply_increment(engine, h, amount)
<1>8. Puts(engine, f, h, s)
  BY <1>6, <1>7 DEF Puts
<1> HIDE DEF f
<1>9. /\ f \in EngineMaps /\ f[h] = s /\ f[h] # None
      /\ \A j \in EngineStates : j # h => f[j] = engine[j]
  BY <1>8, EngineWritten
<1>10. Incremented(engine, f, h)
  BY <1>1, <1>5, <1>9 DEF Incremented
<1> QED BY <1>10 DEF f

\* The output a call answers with is a word, and its quote keeps the product.
LEMMA AmountOutFacts ==
  ASSUME engine \in EngineMaps, NEW call, call.binding \in Requests(Settlements),
         EvaluateSucceeds(call)
  PROVE  LET b == call.binding
             i == b.accounted_input_before
             o == b.accounted_output_before
             q == EvaluateAmountOut(call)
         IN  /\ q \in U64
             /\ q = 0 \/ q = U64Max \/ (i + b.amount_in) * (o - q) >= i * o
<1> DEFINE b == call.binding
           s == engine[call.engine_state]
           i == b.accounted_input_before
           o == b.accounted_output_before
           q == EvaluateAmountOut(call)
<1>1. i \in U64 /\ o \in U64 /\ b.amount_in \in U64
  BY DEF Requests
<1>2. quote_exact_in_ok(i, o, b.amount_in, s.lp_fee_bps) /\ IsRoutedState(call.engine_state)
  BY DEF EvaluateSucceeds
<1>3. s \in PlanState
  BY <1>2, EngineKept DEF IsRoutedState, PlanStates
<1>4. s.lp_fee_bps \in 0 .. (BasisPoints - 1)
  BY <1>3 DEF PlanState
<1> DEFINE quote == quote_amount_out(i, o, b.amount_in, s.lp_fee_bps)
<1>5. q = 0 \/ q = U64Max \/ q = quote
  BY DEF EvaluateAmountOut
<1>6. quote \in U64 /\ (i + b.amount_in) * (o - quote) >= i * o
  BY <1>1, <1>2, <1>4, QuoteBounds
<1>7. 0 \in U64 /\ U64Max \in U64
  BY MathAssumption DEF U64
<1> HIDE DEF q, quote, i, o, b
<1>8. q \in U64 /\ (q = 0 \/ q = U64Max \/ (i + b.amount_in) * (o - q) >= i * o)
  BY <1>5, <1>6, <1>7
<1> QED BY <1>8 DEF q, i, o, b

\* What a successful mutating call of the engine leaves in the engines' accounts e, as f:
\* its own state one step ahead, the helper it called, and nothing else.
Evaluated(e, f, call) ==
  LET es == call.engine_state
      h == call.accounts[2].key
  IN
  /\ f \in EngineMaps /\ es \in PlanStates /\ e[es] # None /\ f[es] # None
  /\ f[es].sequence = e[es].sequence + 1
  /\ f[es].last_execution_digest = compute_execution_digest(call.binding)
  /\ CallsHelper(call) =>
       /\ h \in HelperStates /\ e[h] # None
       /\ f[h].allowed_callback = e[h].allowed_callback
       /\ f[h].calls = e[h].calls + 1
  /\ \A j \in EngineStates : j = es \/ (CallsHelper(call) /\ j = h) \/ f[j] = e[j]
  /\ \A j \in EngineStates : (f[j] = None) <=> (e[j] = None)

\* A mutating phase advances its own state once and, if it calls the helper, that one once.
LEMMA EvaluatedFacts ==
  ASSUME engine \in EngineMaps, NEW call, call.binding \in Requests(Settlements),
         EvaluateSucceeds(call), call.binding.phase # PHASE_PREPARE
  PROVE  /\ Evaluated(engine, EvaluatedEngine(call), call)
         /\ EvaluatedEngine(call)[call.engine_state].last_amount_out = EvaluateAmountOut(call)
<1> DEFINE b == call.binding
           es == call.engine_state
           h == call.accounts[2].key
           n == b.payload
           e == IF CallsHelper(call) THEN apply_increment(engine, h, n) ELSE engine
           q == EvaluateAmountOut(call)
           digest == compute_execution_digest(b)
           s == [engine[es] EXCEPT !.sequence = @ + 1,
                   !.last_intent_digest = b.intent_digest,
                   !.last_phase_context_digest = b.phase_context_digest,
                   !.last_execution_digest = digest, !.last_amount_out = q, !.last_phase = b.phase]
           f == EvaluatedEngine(call)
<1>1. /\ IsRoutedState(es) /\ AddFits(engine[es].sequence, 1)
      /\ CallsHelper(call) => helper_call_ok(call)
      /\ b.phase \in EnginePhases
      /\ (b.phase_context_digest # None) <=> (b.phase = PHASE_COMMIT)
  BY DEF EvaluateSucceeds, validate_execution_binding
<1>2. es \in PlanStates /\ engine[es] # None /\ es \in EngineStates /\ es \notin HelperStates
  BY <1>1, EngineKinds DEF IsRoutedState, PlanStates
<1>3. engine[es] \in PlanState
  BY <1>2, EngineKept
<1>4. /\ q \in U64 /\ n \in Payloads /\ digest \in ExecutionDigests
      /\ b.intent_digest \in IntentDigests /\ b.phase_context_digest \in Settlements \cup {None}
      /\ b.phase \in {PHASE_TRANSITION, PHASE_COMMIT, None}
  <2>1. q \in U64
    BY AmountOutFacts
  <2>2. digest \in ExecutionDigests
    BY DEF compute_execution_digest, ExecutionDigests
  <2> QED BY <1>1, <2>1, <2>2 DEF Requests, EnginePhases
<1>5. CallsHelper(call) => Incremented(engine, e, h) /\ h \in HelperStates
  <2>1. SUFFICES ASSUME CallsHelper(call) PROVE Incremented(engine, e, h) /\ h \in HelperStates
    OBVIOUS
  <2>2. IsHelperState(h) /\ increment_fits(h, n)
    BY <1>1, <2>1 DEF helper_call_ok, validate_increment
  <2>3. n \in Payloads /\ n # None
    BY <1>4, <2>1 DEF CallsHelper
  <2>4. Incremented(engine, apply_increment(engine, h, n), h)
    BY <2>2, <2>3, IncrementFacts
  <2> QED BY <2>1, <2>4 DEF Incremented
<1>6. e \in EngineMaps /\ e[es] = engine[es]
  <2>1. CASE CallsHelper(call)
    BY <1>2, <1>5, <2>1 DEF Incremented
  <2>2. CASE ~CallsHelper(call)
    BY <2>2
  <2> QED BY <2>1, <2>2
<1>7. f = [e EXCEPT ![es].sequence = @ + 1, ![es].last_intent_digest = b.intent_digest,
                    ![es].last_phase_context_digest = b.phase_context_digest,
                    ![es].last_execution_digest = digest, ![es].last_amount_out = q,
                    ![es].last_phase = b.phase]
  BY DEF EvaluatedEngine
<1>8. f = [e EXCEPT ![es] = s]
  <2> HIDE DEF e, f, q, digest, b
  <2>1. e[es] = engine[es]
    BY <1>6
  <2> QED BY <1>2, <1>6, <1>7, <2>1 DEF EngineMaps
<1>9. /\ s \in PlanState /\ s.sequence = engine[es].sequence + 1
      /\ s.last_execution_digest = digest /\ s.last_amount_out = q
      /\ s.last_phase_context_digest = b.phase_context_digest /\ s.last_phase = b.phase
  <2>1. engine[es].sequence + 1 \in U64
    BY <1>1, <1>3, MathAssumption DEF PlanState, AddFits, U64
  <2> HIDE DEF q, digest, b
  <2> QED BY <1>3, <1>4, <2>1 DEF PlanState
<1> HIDE DEF e, f, s, b, q, digest
<1>10. Puts(e, f, es, s)
  BY <1>1, <1>2, <1>6, <1>8, <1>9 DEF Puts, OfKind
<1>11. /\ f \in EngineMaps /\ f[es] = s /\ f[es] # None
       /\ \A j \in EngineStates : j # es => f[j] = e[j]
  BY <1>10, EngineWritten
<1>12. \A j \in EngineStates : j = es \/ (CallsHelper(call) /\ j = h) \/ f[j] = engine[j]
  BY <1>5, <1>11 DEF Incremented, e
<1>13. CallsHelper(call) =>
         /\ engine[h] # None /\ f[h] # None /\ f[h].calls = engine[h].calls + 1
         /\ f[h].allowed_callback = engine[h].allowed_callback
  BY <1>2, <1>5, <1>11, EngineKinds DEF Incremented
<1>14. \A j \in EngineStates : (f[j] = None) <=> (engine[j] = None)
  BY <1>2, <1>11, <1>12, <1>13
<1>15. Evaluated(engine, f, call)
  BY <1>2, <1>5, <1>9, <1>11, <1>12, <1>13, <1>14 DEF Evaluated, digest, b
<1> QED BY <1>9, <1>11, <1>15 DEF f, q

(***************************************************************************)
(* The inductive invariant: the accounts.                                  *)
(***************************************************************************)
\* Between instructions every vault backs its market's accounting.
BooksSound ==
  phase \notin Settling =>
    /\ Canonical(token, market, domain, fee_ledger, donated)
    /\ Backed(token, market, domain, fee_ledger, donated, None, 0, 0, 0)

\* During an execution, but for the payments made.
FlightSound ==
  phase \in Settling =>
    Flight(token, market, domain, fee_ledger, donated, ix, InputMade(phase, ix),
           FeeMade(phase, ix), OutputMade(phase, ix.amount_out))

\* The delegate that is the approval of intent i for account a.
SpendOf(a, i) == canonical_spend_authority(a, compute_intent_digest(i))

\* Users' accounts exist, and one whose delegate is an approval of an intent waits for
\* that intent.
Approvals(t, s) ==
  \A a \in UserAccounts :
    /\ t[a] # None
    /\ \A i \in Intents : t[a].delegate = SpendOf(a, i) => s.pending[a] = i

SavedSound ==
  phase # "idle" =>
    /\ Canonical(saved.token, saved.market, saved.domain, saved.fee_ledger, saved.donated)
    /\ Backed(saved.token, saved.market, saved.domain, saved.fee_ledger, saved.donated,
              None, 0, 0, 0)
    /\ Approvals(saved.token, saved.settled)

\* The execution x is of the intent that its source's owner approved last.
Intended(t, s, x) ==
  LET i == s.pending[x.source]
  IN
  /\ x.source \in UserAccounts /\ i \in Intents /\ x.intent_digest = compute_intent_digest(i)
  /\ i.market = x.market /\ i.user_authority = t[x.source].owner
  /\ i.user_output = x.destination /\ i.amount_in = x.args.amount_in
  /\ i.protocol_fee = x.protocol_fee
  /\ i.max_total_input_debit = x.args.max_total_input_debit
  /\ i.min_output_credit = x.args.min_output_credit
  /\ i.max_protocol_fee = x.args.max_protocol_fee
  /\ i.expires_at_slot = x.args.expires_at_slot

\* What validation found of the limits, with the accounts t and mk at slot n.
Agreed(t, mk, n, x) ==
  /\ t[x.source].mint = mk[x.market].mint_a
  /\ x.protocol_fee = fee_ceil(x.args.amount_in, ProtocolFeeBps)
  /\ x.total_input_debit = x.args.amount_in + x.protocol_fee
  /\ x.args.amount_in > 0
  /\ x.total_input_debit <= x.args.max_total_input_debit
  /\ x.protocol_fee <= x.args.max_protocol_fee
  /\ n <= x.args.expires_at_slot

\* The allowance of the source when the settlement reaches phase p.
Allowed(t, p, x) ==
  /\ PaymentsMade(p) = 0 => /\ t[x.source].delegate = spend_authority(x)
                            /\ t[x.source].delegated_amount = x.args.amount_in + x.protocol_fee
  /\ PaymentsMade(p) = 1 => /\ t[x.source].delegate = spend_authority(x)
                            /\ t[x.source].delegated_amount = x.protocol_fee
  /\ PaymentsMade(p) >= 2 => t[x.source].delegate = None /\ t[x.source].delegated_amount = 0

\* What the receipt was checked for.
Answered(x) ==
  /\ x.amount_out > 0
  /\ x.amount_out >= x.args.min_output_credit
  /\ x.amount_out <= x.accounted_b
  /\ x.accounted_a + x.args.amount_in <= U64Max
  /\ x.accounted_fee_a + x.protocol_fee <= U64Max
  /\ x.primary_receipt \in PrimaryReceipts

Accepted == {"input", "fee", "output", "settle", "commit", "commit_receipt", "finalize"}

TermsSound ==
  /\ phase \in Settling => /\ Intended(token, settled, ix) /\ Agreed(token, market, slot, ix)
                           /\ Allowed(token, phase, ix)
  /\ phase \in Accepted => Answered(ix)

\* No token account is handed to the engine writable, nor its own account again.
NoTokens(t, x) ==
  \A i \in DOMAIN x.opaque :
    /\ x.opaque[i].key # x.engine_state
    /\ x.opaque[i].is_writable /\ x.opaque[i].key \in TokenAccounts => t[x.opaque[i].key] = None

\* Return data that holds words.
Returns ==
  [setter : Programs, well_formed : BOOLEAN, phase : EnginePhases,
   intent_digest : IntentDigests \cup {OtherHash, None},
   execution_digest : ExecutionDigests \cup {OtherHash, None},
   amount_out : U64, state_sequence : Nat]

HandedSound ==
  /\ phase \in Settling => NoTokens(token, ix)
  /\ phase \in {"receipt", "commit_receipt"} /\ ret # None => ret \in Returns

BaseInv ==
  /\ RoutedTypeOK /\ BooksSound /\ FlightSound /\ SavedSound /\ TermsSound /\ HandedSound
  /\ Approvals(token, settled)

\* An approval's delegate is a key Core derives, and determines the intent.
LEMMA SpendFacts ==
  /\ \A a \in TokenAccounts, i \in Intents : SpendOf(a, i) \in SpendKeys /\ SpendOf(a, i) # None
  /\ \A a, i, j : SpendOf(a, i) = SpendOf(a, j) => i = j
<1>1. ASSUME NEW a \in TokenAccounts, NEW i \in Intents
      PROVE  SpendOf(a, i) \in SpendKeys
  <2>1. compute_intent_digest(i) \in IntentDigests
    BY RoutedAssumption DEF compute_intent_digest, IntentDigests
  <2> QED BY <2>1 DEF SpendOf, canonical_spend_authority, SpendKeys
<1>2. ASSUME NEW a, NEW i, NEW j, SpendOf(a, i) = SpendOf(a, j)
      PROVE  i = j
  <2>1. compute_intent_digest(i) = compute_intent_digest(j)
    BY <1>2 DEF SpendOf, canonical_spend_authority
  <2>2. compute_intent_digest(i).intent = compute_intent_digest(j).intent
    BY <2>1
  <2> QED BY <2>2 DEF compute_intent_digest
<1> QED BY <1>1, <1>2, RoutedAssumption

\* The initial accounts satisfy the inductive invariant.
LEMMA InitSound == Init => BaseInv
<1> SUFFICES ASSUME Init PROVE BaseInv
  OBVIOUS
<1> USE DEF Init, LedgerInit
<1>1. token \in TokenStates
  BY InputAssumption, KeyAssumption DEF TokenStates, TokenAccounts
<1>2. engine \in EngineMaps
  <2>1. engine \in [EngineStates -> PlanState \cup HelperState \cup {None, Opaque}]
    OBVIOUS
  <2>2. \A es \in EngineStates : StateOwner[es] \in {RoutedPlanEngine, HelperProgram} => engine[es] = None
    OBVIOUS
  <2> QED BY <2>1, <2>2 DEF EngineMaps, PlanStates, HelperStates
<1>3. settled \in SettledStates
  BY MathAssumption DEF NoneSettled, SettledStates, U64
<1>4. RoutedTypeOK
  <2>1. /\ market \in MarketStates /\ domain \in DomainStates /\ fee_ledger \in FeeLedgerStates
        /\ donated \in DonatedStates
    BY DEF MarketStates, DomainStates, FeeLedgerStates, DonatedStates
  <2>2. Snapshot \in Chains
    BY <1>1, <1>2, <1>3, <2>1 DEF Snapshot, Chains
  <2>3. slot \in 0 .. MaxSlot /\ used \in 0 .. MaxInstructions
    BY InputAssumption, MathAssumption DEF U64
  <2> QED BY <2>2, <2>3 DEF RoutedTypeOK, Settling
<1>5. \A v \in CoreVaults : token[v] = None
  BY KeyAssumption DEF TokenAccounts
<1>6. \A m \in Markets : /\ VaultA(m) \in CoreVaults /\ VaultB(m) \in CoreVaults
                        /\ \A p \in Mints : FeeVaultAt(m, p) \in CoreVaults
  <2>1. \A m \in Markets : VaultA(m) \in CoreVaults /\ VaultB(m) \in CoreVaults
    BY DEF CoreVaults, DomainVaults, VaultA, VaultB, Domains
  <2>2. \A m \in Markets, p \in Mints : FeeVaultAt(m, p) \in CoreVaults
    BY DEF CoreVaults, FeeVaults, FeeVaultAt, FeeLedgers
  <2> QED BY <2>1, <2>2
<1>7. Canonical(token, market, domain, fee_ledger, donated)
  BY <1>5, <1>6 DEF Canonical
<1>8. Backed(token, market, domain, fee_ledger, donated, None, 0, 0, 0)
  BY DEF Backed
<1>9. Approvals(token, settled)
  <2> SUFFICES ASSUME NEW a \in UserAccounts
               PROVE  token[a] # None /\ \A i \in Intents : token[a].delegate # SpendOf(a, i)
    BY DEF Approvals
  <2>1. a \in TokenAccounts /\ token[a] = InitialAccount[a] /\ token[a] # None
    BY InputAssumption, KeyAssumption DEF TokenAccounts
  <2>2. token[a].delegate \in Delegates \cup {None} /\ token[a].delegate \notin SpendAuthorities
    BY <2>1, InputAssumption, RoutedAssumption DEF TokenAccount
  <2> QED BY <2>1, <2>2, RoutedAssumption, SpendFacts
<1> QED BY <1>4, <1>7, <1>8, <1>9 DEF BaseInv, BooksSound, FlightSound, SavedSound, TermsSound,
           HandedSound, Settling, Accepted

\* What holds between instructions.
LEMMA OpenFacts ==
  ASSUME BaseInv, phase \notin Settling
  PROVE  /\ LedgerSound /\ engine \in EngineMaps /\ settled \in SettledStates /\ ix = None
         /\ Approvals(token, settled)
BY DEF BaseInv, RoutedTypeOK, BooksSound, LedgerSound, Snapshot, Chains

\* Loading a transaction saves sound accounts.
LEMMA BeginSound ==
  ASSUME BaseInv, NEW S \in SUBSET Users, BeginTransaction(S), UNCHANGED <<ix, ret>>
  PROVE  BaseInv'
<1> USE DEF BeginTransaction, chain
<1>1. RoutedTypeOK'
  BY InputAssumption DEF BaseInv, RoutedTypeOK, Snapshot, Settling
<1>2. SavedSound'
  BY DEF BaseInv, BooksSound, SavedSound, Snapshot, Settling
<1> QED BY <1>1, <1>2 DEF BaseInv, BooksSound, FlightSound, TermsSound, HandedSound,
           Settling, Accepted

\* Committing keeps the sound accounts the transaction left.
LEMMA CommitSound ==
  ASSUME BaseInv, CommitTransaction, UNCHANGED <<ix, ret>>
  PROVE  BaseInv'
<1> USE DEF CommitTransaction, chain
<1>1. RoutedTypeOK'
  BY InputAssumption DEF BaseInv, RoutedTypeOK, Snapshot, Settling
<1> QED BY <1>1 DEF BaseInv, BooksSound, FlightSound, SavedSound, TermsSound, HandedSound,
           Settling, Accepted

\* Rolling back, from any phase, restores accounts that were sound when the
\* transaction started.
LEMMA AbortSound ==
  ASSUME BaseInv, AbortTransaction, ix' = None, ret' = None
  PROVE  BaseInv'
<1> USE DEF AbortTransaction, Rollback
<1>1. RoutedTypeOK'
  <2>1. saved \in Chains
    BY DEF BaseInv, RoutedTypeOK
  <2>2. Snapshot' \in Chains
    BY <2>1 DEF Snapshot, Chains
  <2> QED BY <2>2, InputAssumption DEF BaseInv, RoutedTypeOK, Settling
<1>2. BooksSound' /\ Approvals(token', settled')
  BY DEF BaseInv, BooksSound, SavedSound
<1> QED BY <1>1, <1>2 DEF BaseInv, FlightSound, SavedSound, TermsSound, HandedSound,
           Settling, Accepted

\* The clock is no part of the accounting.
LEMMA SlotSound ==
  ASSUME BaseInv, AdvanceSlot, UNCHANGED <<ix, ret>>
  PROVE  BaseInv'
<1> USE DEF AdvanceSlot, chain
<1>1. RoutedTypeOK'
  BY InputAssumption DEF BaseInv, RoutedTypeOK, Snapshot, Settling, U64
<1> QED BY <1>1 DEF BaseInv, BooksSound, FlightSound, SavedSound, TermsSound, HandedSound,
           Settling, Accepted

\* An instruction that starts and ends between executions is sound when the
\* accounts it leaves are.
LEMMA OpenSound ==
  ASSUME BaseInv, RunInstruction("open"), UNCHANGED ix, LedgerSound',
         engine' \in EngineMaps, settled' \in SettledStates, Approvals(token', settled')
  PROVE  BaseInv'
<1>1. phase = "open" /\ phase \notin Settling /\ phase' = "open" /\ ix' = None
      /\ phase' \notin Settling /\ phase' \notin Accepted
      /\ phase' \notin {"receipt", "commit_receipt"}
  BY OpenFacts DEF RunInstruction, Settling, Accepted
<1>2. Snapshot' \in Chains
  BY <1>1, OpenFacts DEF Snapshot, Chains, LedgerSound
<1>3. used' \in 0 .. MaxInstructions
  BY InputAssumption DEF BaseInv, RoutedTypeOK, RunInstruction
<1>4. saved' = saved /\ saved \in Chains /\ slot' = slot /\ signers' = signers
  BY <1>1 DEF BaseInv, RoutedTypeOK, RunInstruction
<1>5. RoutedTypeOK'
  BY <1>1, <1>2, <1>3, <1>4 DEF BaseInv, RoutedTypeOK
<1>6. SavedSound'
  BY <1>1, <1>4 DEF BaseInv, SavedSound
<1> QED BY <1>1, <1>5, <1>6 DEF BaseInv, BooksSound, FlightSound, TermsSound, HandedSound,
           LedgerSound

(***************************************************************************)
(* Instructions outside an execution.                                      *)
(***************************************************************************)
\* A transfer keeps the approvals: it gives no account another delegate.
LEMMA ApprovalsKept ==
  ASSUME NEW t, NEW r, NEW s, Approvals(t, s), Kept(t, r)
  PROVE  Approvals(r, s)
<1> SUFFICES ASSUME NEW a \in UserAccounts
             PROVE  r[a] # None /\ \A i \in Intents : r[a].delegate = SpendOf(a, i) => s.pending[a] = i
  BY DEF Approvals
<1>1. a \in TokenAccounts
  BY DEF TokenAccounts
<1>2. (r[a] = None <=> t[a] = None) /\ r[a].delegate \in {t[a].delegate, None}
  BY <1>1 DEF Kept
<1> QED BY <1>1, <1>2, SpendFacts DEF Approvals

\* Plain transfers, deposits and the creation of a market keep the invariant.
LEMMA SharedSound ==
  ASSUME BaseInv, SplTransfer \/ deposit_v0 \/ initialize_market_domain_v0, UNCHANGED <<ix, ret>>
  PROVE  BaseInv'
<1>1. RunInstruction("open") /\ UNCHANGED <<engine, settled>> /\ phase = "open"
  BY DEF SplTransfer, deposit_v0, initialize_market_domain_v0, RunInstruction
<1>2. LedgerSound /\ engine \in EngineMaps /\ settled \in SettledStates /\ Approvals(token, settled)
  BY <1>1, OpenFacts DEF Settling
<1>3. LedgerSound'
  BY <1>2, SplTransferEffect, DepositEffect, InitializeEffect
<1>4. Approvals(token', settled)
  <2>1. CASE SplTransfer
    <3>1. Kept(token, token')
      BY <1>2, <2>1, SplTransferEffect DEF PaidFrom
    <3> QED BY <1>2, <3>1, ApprovalsKept
  <2>2. CASE deposit_v0
    <3>1. Kept(token, token')
      BY <1>2, <2>2, DepositEffect DEF Deposited, PaidFrom
    <3> QED BY <1>2, <3>1, ApprovalsKept
  <2>3. CASE initialize_market_domain_v0
    <3>1. PICK m \in Markets, p \in Mints, q \in Mints : Initialized(m, p, q)
      BY <1>2, <2>3, InitializeEffect
    <3>2. \A a \in UserAccounts : a \in TokenAccounts /\ a \notin {VaultA(m), VaultB(m), FeeVaultAt(m, p)}
      BY Addresses, KeyAssumption DEF TokenAccounts
    <3>3. \A a \in UserAccounts : token'[a] = token[a]
      BY <3>1, <3>2 DEF Initialized
    <3> QED BY <1>2, <3>3 DEF Approvals
  <2> QED BY <2>1, <2>2, <2>3
<1> QED BY <1>1, <1>2, <1>3, <1>4, OpenSound

\* Approving a delegate changes one user's account, and no vault.
LEMMA ApprovedEffect ==
  ASSUME LedgerSound, Approvals(token, settled), NEW a \in UserAccounts,
         NEW d \in Delegates \cup {None}, NEW n \in U64, token' = Approved(a, d, n),
         UNCHANGED <<market, domain, fee_ledger, donated, signers>>
  PROVE  /\ LedgerSound' /\ token'[a] # None /\ token'[a].delegate = d
         /\ \A b \in TokenAccounts : b # a => token'[b] = token[b]
<1> DEFINE acc == [token[a] EXCEPT !.delegate = d, !.delegated_amount = n]
<1>1. a \in TokenAccounts /\ a \notin CoreVaults /\ token \in TokenStates /\ token[a] # None
  BY KeyAssumption DEF TokenAccounts, LedgerSound, Approvals
<1>2. token[a] \in TokenAccount
  BY <1>1 DEF TokenStates
<1>3. acc \in TokenAccount /\ acc.delegate = d
  BY <1>2 DEF TokenAccount
<1>4. token' = [token EXCEPT ![a] = acc]
  BY <1>1 DEF Approved, TokenStates
<1> HIDE DEF acc
<1>5. /\ token' \in TokenStates /\ token'[a] = acc
      /\ \A b \in TokenAccounts : b # a => token'[b] = token[b]
  BY <1>1, <1>3, <1>4 DEF TokenStates
<1>6. \A v \in CoreVaults : token'[v] = token[v]
  BY <1>1, <1>5 DEF TokenAccounts
<1>7. \A m \in Markets : /\ VaultA(m) \in CoreVaults /\ VaultB(m) \in CoreVaults
                        /\ \A p \in Mints : FeeVaultAt(m, p) \in CoreVaults
  <2>1. \A m \in Markets : VaultA(m) \in CoreVaults /\ VaultB(m) \in CoreVaults
    BY DEF CoreVaults, DomainVaults, VaultA, VaultB, Domains
  <2>2. \A m \in Markets, p \in Mints : FeeVaultAt(m, p) \in CoreVaults
    BY DEF CoreVaults, FeeVaults, FeeVaultAt, FeeLedgers
  <2> QED BY <2>1, <2>2
<1>8. \A m \in Markets : market[m] # None => market[m].mint_a \in Mints
  BY DEF LedgerSound, MarketStates, MarketV0
<1>9. \A m \in Markets :
        /\ token'[VaultA(m)] = token[VaultA(m)] /\ token'[VaultB(m)] = token[VaultB(m)]
        /\ \A p \in Mints : token'[FeeVaultAt(m, p)] = token[FeeVaultAt(m, p)]
  BY <1>6, <1>7
<1>10. Canonical(token', market, domain, fee_ledger, donated)
  <2>1. Canonical(token, market, domain, fee_ledger, donated)
    BY LedgerFacts
  <2>2. \A m \in Markets : market[m] # None =>
          token'[FeeVaultAt(m, market[m].mint_a)] = token[FeeVaultAt(m, market[m].mint_a)]
    BY <1>8, <1>9
  <2>3. \A m \in Markets : market[m] # None =>
       /\ market[m].mint_a # market[m].mint_b
       /\ domain[DomainPda(m)] # None
       /\ fee_ledger[FeeLedgerPda(m, market[m].mint_a)] # None
       /\ IsVault(token'[VaultA(m)], market[m].mint_a, DomainPda(m))
       /\ IsVault(token'[VaultB(m)], market[m].mint_b, DomainPda(m))
       /\ IsVault(token'[FeeVaultAt(m, market[m].mint_a)], market[m].mint_a,
                  FeeLedgerPda(m, market[m].mint_a))
    BY <1>9, <2>1, <2>2 DEF Canonical
  <2>4. \A m \in Markets : market[m] = None =>
       /\ token'[VaultA(m)] = None /\ token'[VaultB(m)] = None
       /\ \A p \in Mints : token'[FeeVaultAt(m, p)] = None
    BY <1>9, <2>1 DEF Canonical
  <2> QED BY <1>6, <2>1, <2>3, <2>4 DEF Canonical
<1>11. Backed(token', market, domain, fee_ledger, donated, None, 0, 0, 0)
  BY <1>8, <1>9, LedgerFacts DEF Backed, Balanced
<1> QED BY <1>3, <1>5, <1>10, <1>11, LedgerFacts, KeyAssumption DEF LedgerSound

\* An approval or a revocation that is recorded with its intent keeps the invariant.
LEMMA ApprovalSound ==
  ASSUME BaseInv, RunInstruction("open"), NEW a \in UserAccounts,
         NEW d \in Delegates \cup {None}, NEW n \in U64, NEW i \in Intents \cup {None},
         \A j \in Intents : d = SpendOf(a, j) => j = i,
         token' = Approved(a, d, n), settled' = Pending(a, i),
         UNCHANGED <<market, domain, fee_ledger, engine, donated, ix>>
  PROVE  BaseInv'
<1>1. /\ LedgerSound /\ engine \in EngineMaps /\ settled \in SettledStates /\ Approvals(token, settled)
      /\ signers' = signers
  BY OpenFacts DEF RunInstruction, Settling
<1>2. /\ LedgerSound' /\ token'[a] # None /\ token'[a].delegate = d
      /\ \A b \in TokenAccounts : b # a => token'[b] = token[b]
  BY <1>1, ApprovedEffect
<1>3. a \in TokenAccounts
  BY DEF TokenAccounts
<1>4. settled.pending \in [TokenAccounts -> Intents \cup {None}]
  BY <1>1 DEF SettledStates
<1>5. settled' \in SettledStates /\ settled'.pending = [settled.pending EXCEPT ![a] = i]
  BY <1>1, <1>3, <1>4 DEF Pending, SettledStates
<1>6. settled'.pending[a] = i
      /\ \A b \in TokenAccounts : b # a => settled'.pending[b] = settled.pending[b]
  BY <1>3, <1>4, <1>5
<1>7. Approvals(token', settled')
  <2>1. \A b \in UserAccounts : b \in TokenAccounts
    BY DEF TokenAccounts
  <2> QED BY <1>1, <1>2, <1>6, <2>1 DEF Approvals
<1> QED BY <1>1, <1>2, <1>5, <1>7, OpenSound

\* authorize_spend_v0, and SPL Token's approve and revoke.
LEMMA ApproveSound ==
  ASSUME BaseInv, authorize_spend_v0 \/ SplApprove \/ SplRevoke, UNCHANGED <<ix, ret>>
  PROVE  BaseInv'
<1>1. RunInstruction("open") /\ UNCHANGED <<market, domain, fee_ledger, engine, donated, ix>>
  BY DEF authorize_spend_v0, SplApprove, SplRevoke
<1>2. 0 \in U64 /\ \A a \in UserAccounts : a \in TokenAccounts
  BY MathAssumption DEF U64, TokenAccounts
<1>3. CASE authorize_spend_v0
  <2>1. PICK i \in Intents, a \in UserAccounts :
          /\ AddFits(i.amount_in, i.protocol_fee) /\ i.user_input = a
          /\ token' = Approved(a, SpendOf(a, i), i.amount_in + i.protocol_fee)
          /\ settled' = Pending(a, i)
    BY <1>3 DEF authorize_spend_v0, SpendOf
  <2>2. i.amount_in + i.protocol_fee \in U64
    <3>1. i.amount_in \in U64 /\ i.protocol_fee \in U64
      BY RoutedAssumption DEF IntentBindings
    <3> QED BY <2>1, <3>1, MathAssumption DEF AddFits, U64
  <2>3. SpendOf(a, i) \in Delegates
    BY <2>1, RoutedAssumption DEF SpendOf, SpendAuthorities
  <2>4. \A j \in Intents : SpendOf(a, i) = SpendOf(a, j) => j = i
    BY SpendFacts
  <2> HIDE DEF SpendOf
  <2> QED BY <1>1, <2>1, <2>2, <2>3, <2>4, ApprovalSound
<1>4. CASE SplApprove
  <2>1. PICK a \in UserAccounts, d \in Delegates, n \in TokenAmounts :
          /\ token' = Approved(a, d, n)
          /\ \/ \E i \in Intents : d = SpendOf(a, i) /\ settled' = Pending(a, i)
             \/ (\A i \in Intents : d # SpendOf(a, i)) /\ settled' = Pending(a, None)
    BY <1>4 DEF SplApprove, SpendOf
  <2>2. n \in U64
    BY InputAssumption
  <2>3. CASE \E i \in Intents : d = SpendOf(a, i) /\ settled' = Pending(a, i)
    <3>1. PICK i \in Intents : d = SpendOf(a, i) /\ settled' = Pending(a, i)
      BY <2>3
    <3>2. \A j \in Intents : d = SpendOf(a, j) => j = i
      BY <3>1, SpendFacts
    <3> QED BY <1>1, <2>1, <2>2, <3>1, <3>2, ApprovalSound
  <2>4. CASE (\A i \in Intents : d # SpendOf(a, i)) /\ settled' = Pending(a, None)
    BY <1>1, <2>1, <2>2, <2>4, ApprovalSound
  <2> QED BY <2>1, <2>3, <2>4
<1>5. CASE SplRevoke
  <2>1. PICK a \in UserAccounts : token' = Approved(a, None, 0) /\ settled' = Pending(a, None)
    BY <1>5 DEF SplRevoke
  <2>2. \A j \in Intents : None # SpendOf(a, j)
    BY <1>2, SpendFacts
  <2> QED BY <1>1, <1>2, <2>1, <2>2, ApprovalSound
<1> QED BY <1>3, <1>4, <1>5

\* Instructions that touch the engines' accounts only.
LEMMA EngineStep ==
  ASSUME BaseInv, RunInstruction("open"), engine' \in EngineMaps,
         UNCHANGED <<token, market, domain, fee_ledger, donated, settled, ix>>
  PROVE  BaseInv'
<1>1. LedgerSound /\ settled \in SettledStates /\ Approvals(token, settled)
  BY OpenFacts DEF RunInstruction, Settling
<1>2. LedgerSound'
  BY <1>1 DEF LedgerSound, RunInstruction
<1> QED BY <1>1, <1>2, OpenSound

\* A plan state starts with no execution behind it.
NewPlan(e, f, es) ==
  /\ f \in EngineMaps /\ es \in PlanStates /\ e[es] = None /\ f[es] # None
  /\ f[es].sequence = 0 /\ f[es].last_execution_digest = None /\ f[es].last_amount_out = 0
  /\ \A j \in EngineStates : j # es => f[j] = e[j]

\* The engine's initialize creates one state.
LEMMA EngineInitializeEffect ==
  ASSUME engine \in EngineMaps, signers \subseteq Users, engine_initialize
  PROVE  \E es \in PlanStates : NewPlan(engine, engine', es)
<1>1. PICK es \in EngineStates, authority \in signers, m \in Markets, revision \in Revisions,
           lp \in LpFees, timing \in TimingModes :
        /\ StateOwner[es] = RoutedPlanEngine
        /\ engine[es] = None
        /\ lp < BasisPoints
        /\ engine' = [engine EXCEPT ![es] = NewEngineState(authority, m, revision, lp, timing)]
  BY DEF engine_initialize
<1> DEFINE s == NewEngineState(authority, m, revision, lp, timing)
<1>2. es \in PlanStates
  BY <1>1 DEF PlanStates
<1>3. lp \in 0 .. (BasisPoints - 1)
  BY <1>1, EngineAssumption, MathAssumption
<1>4. /\ s \in PlanState /\ s.sequence = 0 /\ s.last_execution_digest = None
      /\ s.last_amount_out = 0 /\ s.last_phase_context_digest = None /\ s.last_phase = None
  BY <1>1, <1>3, MathAssumption DEF NewEngineState, PlanState, EngineModes, U64
<1>5. None # PHASE_COMMIT
  BY RoutedAssumption DEF EnginePhases
<1>6. OfKind(es, s)
  BY <1>2, <1>4, <1>5 DEF OfKind
<1>7. engine' = [engine EXCEPT ![es] = s]
  BY <1>1
<1> HIDE DEF s
<1>8. Puts(engine, engine', es, s)
  BY <1>6, <1>7 DEF Puts
<1>9. /\ engine' \in EngineMaps /\ engine'[es] = s /\ engine'[es] # None
      /\ \A j \in EngineStates : j # es => engine'[j] = engine[j]
  BY <1>8, EngineWritten
<1> QED BY <1>1, <1>2, <1>4, <1>9 DEF NewPlan

\* The helper's initialize creates one state that has counted nothing.
LEMMA HelperInitializeEffect ==
  ASSUME engine \in EngineMaps, helper_initialize
  PROVE  /\ engine' \in EngineMaps
         /\ \E h \in HelperStates :
              /\ engine[h] = None /\ engine'[h] # None /\ engine'[h].calls = 0
              /\ \A j \in EngineStates : j # h => engine'[j] = engine[j]
<1>1. PICK h \in EngineStates, callback \in AllowedCallbacks :
        /\ StateOwner[h] = HelperProgram
        /\ engine[h] = None
        /\ engine' = [engine EXCEPT ![h] = [allowed_callback |-> callback, calls |-> 0, value |-> 0]]
  BY DEF helper_initialize
<1> DEFINE s == [allowed_callback |-> callback, calls |-> 0, value |-> 0]
<1>2. s \in HelperState /\ s.calls = 0 /\ h \in HelperStates
  BY <1>1, MathAssumption DEF HelperState, HelperStates, U64
<1>3. engine' = [engine EXCEPT ![h] = s]
  BY <1>1
<1> HIDE DEF s
<1>4. Puts(engine, engine', h, s)
  BY <1>2, <1>3 DEF Puts, OfKind
<1>5. /\ engine' \in EngineMaps /\ engine'[h] = s /\ engine'[h] # None
      /\ \A j \in EngineStates : j # h => engine'[j] = engine[j]
  BY <1>4, EngineWritten
<1> QED BY <1>1, <1>2, <1>5

\* set_mode changes the mode of one state.
LEMMA SetModeEffect ==
  ASSUME engine \in EngineMaps, set_mode
  PROVE  /\ engine' \in EngineMaps
         /\ \E es \in PlanStates :
              /\ engine[es] # None /\ engine'[es] # None
              /\ engine'[es].sequence = engine[es].sequence
              /\ engine'[es].last_execution_digest = engine[es].last_execution_digest
              /\ engine'[es].last_amount_out = engine[es].last_amount_out
              /\ \A j \in EngineStates : j # es => engine'[j] = engine[j]
<1>1. PICK es \in EngineStates, mode \in ModesUsed :
        IsRoutedState(es) /\ mode \in EngineModes /\ engine' = [engine EXCEPT ![es].mode = mode]
  BY DEF set_mode
<1> DEFINE s == [engine[es] EXCEPT !.mode = mode]
<1>2. es \in PlanStates /\ engine[es] # None
  BY <1>1 DEF IsRoutedState, PlanStates
<1>3. /\ engine[es] \in PlanState
      /\ (engine[es].last_phase_context_digest # None) <=> (engine[es].last_phase = PHASE_COMMIT)
  BY <1>2 DEF EngineMaps
<1>4. /\ s \in PlanState /\ s.sequence = engine[es].sequence
      /\ s.last_execution_digest = engine[es].last_execution_digest
      /\ s.last_amount_out = engine[es].last_amount_out
      /\ s.last_phase_context_digest = engine[es].last_phase_context_digest
      /\ s.last_phase = engine[es].last_phase
  BY <1>1, <1>3 DEF PlanState
<1>5. engine' = [engine EXCEPT ![es] = s]
  BY <1>1
<1> HIDE DEF s
<1>6. Puts(engine, engine', es, s)
  BY <1>2, <1>3, <1>4, <1>5 DEF Puts, OfKind
<1> QED BY <1>2, <1>4, <1>6, EngineWritten

\* The helper trusts a callback authority of the routed engine.
Serves(callback) == callback \notin Users /\ callback[2] = RoutedPlanEngine

\* A call of the helper on its own: by a wallet, so not for an engine's authority.
LEMMA IncrementEffect ==
  ASSUME engine \in EngineMaps, signers \subseteq Users, increment
  PROVE  \E h \in HelperStates : /\ Incremented(engine, engine', h)
                                 /\ ~Serves(engine[h].allowed_callback)
<1>1. PICK h \in EngineStates, amount \in Payloads \ {None} :
        /\ \E callback \in {Callback(engine[h].allowed_callback, FALSE)}
                             \cup {Callback(wallet, TRUE) : wallet \in signers} :
             validate_increment(h, callback, amount)
        /\ increment_fits(h, amount)
        /\ engine' = apply_increment(engine, h, amount)
  BY DEF increment
<1>2. PICK callback \in {Callback(engine[h].allowed_callback, FALSE)}
                          \cup {Callback(wallet, TRUE) : wallet \in signers} :
        validate_increment(h, callback, amount)
  BY <1>1
<1>3. IsHelperState(h) /\ callback.is_signer /\ callback.key = engine[h].allowed_callback
  BY <1>2 DEF validate_increment
<1>4. PICK wallet \in signers : callback = Callback(wallet, TRUE)
  BY <1>2, <1>3 DEF Callback
<1>5. engine[h].allowed_callback \in Users
  BY <1>3, <1>4 DEF Callback
<1>6. Incremented(engine, engine', h)
  BY <1>1, <1>3, IncrementFacts
<1> QED BY <1>5, <1>6 DEF Incremented, Serves

\* None of these instructions is part of the accounting.
LEMMA EngineSound ==
  ASSUME BaseInv, engine_initialize \/ helper_initialize \/ set_mode \/ increment, UNCHANGED ix
  PROVE  BaseInv'
<1>1. /\ RunInstruction("open")
      /\ UNCHANGED <<token, market, domain, fee_ledger, donated, settled>>
  BY DEF engine_initialize, helper_initialize, set_mode, increment
<1>2. engine \in EngineMaps /\ signers \subseteq Users
  BY <1>1, OpenFacts DEF RunInstruction, Settling, LedgerSound
<1>3. engine' \in EngineMaps
  BY <1>2, EngineInitializeEffect, HelperInitializeEffect, SetModeEffect, IncrementEffect
     DEF NewPlan, Incremented
<1> QED BY <1>1, <1>3, EngineStep

(***************************************************************************)
(* The start of an execution.                                              *)
(***************************************************************************)
\* What validation found of the accounts that an execution names.
Validated(m, d, l, va, vb, fv, source, destination) ==
  /\ market[m] # None
  /\ d = DomainPda(m) /\ l = FeeLedgerPda(m, market[m].mint_a)
  /\ va = VaultA(m) /\ vb = VaultB(m) /\ fv = FeeVaultAt(m, market[m].mint_a)
  /\ source \in TokenAccounts /\ token[source] # None
  /\ token[source].mint = market[m].mint_a
  /\ destination \in TokenAccounts /\ token[destination] # None
  /\ token[destination].mint = market[m].mint_b
  /\ destination \notin {source, va, vb, fv}
  /\ OwnerOf(market[m].engine_state) = market[m].engine_program

\* The allowance that pays for the execution x.
Delegated(x) ==
  /\ token[x.source].delegate = spend_authority(x)
  /\ token[x.source].delegated_amount = x.total_input_debit

\* What the handler has checked when it calls the engine.
LEMMA ExecuteChecks ==
  ASSUME execute_callback_authenticated_probe_v0
  PROVE  \E m \in Markets, d \in Domains, l \in FeeLedgers, va, vb, fv \in TokenAccounts,
            source, destination \in TokenAccounts, args \in RouteArgs, closure \in Closures :
           /\ Validated(m, d, l, va, vb, fv, source, destination)
           /\ arguments_within_limits(args, m, d, source)
           /\ Delegated(Planned(m, d, l, va, vb, fv, source, destination, args, closure))
           /\ validate_opaque_capabilities(closure, FixedEnvelopeKeys(
                Planned(m, d, l, va, vb, fv, source, destination, args, closure)))
           /\ ix' = Planned(m, d, l, va, vb, fv, source, destination, args, closure)
<1>1. PICK m \in Markets, d \in Domains, l \in FeeLedgers, va \in TokenAccounts,
           vb \in TokenAccounts, fv \in TokenAccounts, source \in TokenAccounts,
           destination \in TokenAccounts, args \in RouteArgs, closure \in Closures :
        /\ validate_execution_envelope(m, d, l)
        /\ vault_is(va, canonical_domain_vault(d, ASSET_A_INDEX_V0), market[m].mint_a, d,
                    domain[d].accounted_a)
        /\ vault_is(vb, canonical_domain_vault(d, ASSET_B_INDEX_V0), market[m].mint_b, d,
                    domain[d].accounted_b)
        /\ vault_is(fv, canonical_fee_vault(l), market[m].mint_a, l,
                    fee_ledger[l].accounted_fee_a)
        /\ validate_common_token_account(source, market[m].mint_a)
        /\ validate_credit_destination(destination, market[m].mint_b)
        /\ arguments_within_limits(args, m, d, source)
        /\ validate_delegated_spend_source(source, market[m].mint_a,
             spend_authority(Planned(m, d, l, va, vb, fv, source, destination, args, closure)),
             Planned(m, d, l, va, vb, fv, source, destination, args, closure).total_input_debit)
        /\ ensure_distinct_roles(FixedEnvelopeKeys(
             Planned(m, d, l, va, vb, fv, source, destination, args, closure)))
        /\ validate_opaque_capabilities(closure, FixedEnvelopeKeys(
             Planned(m, d, l, va, vb, fv, source, destination, args, closure)))
        /\ ix' = Planned(m, d, l, va, vb, fv, source, destination, args, closure)
  BY DEF execute_callback_authenticated_probe_v0
<1> DEFINE x == Planned(m, d, l, va, vb, fv, source, destination, args, closure)
           keys == FixedEnvelopeKeys(x)
<1>2. /\ x.source = source /\ x.destination = destination /\ x.vault_a = va
      /\ x.vault_b = vb /\ x.fee_vault = fv
  BY DEF Planned
<1>3. destination \notin {source, va, vb, fv}
  <2> HIDE DEF x
  <2>2. /\ 6 \in DOMAIN keys /\ 7 \in DOMAIN keys /\ 8 \in DOMAIN keys
        /\ 9 \in DOMAIN keys /\ 10 \in DOMAIN keys
        /\ keys[6] = source /\ keys[7] = destination /\ keys[8] = va
        /\ keys[9] = vb /\ keys[10] = fv
    BY <1>2 DEF FixedEnvelopeKeys
  <2>3. ensure_distinct_roles(keys)
    BY <1>1 DEF x
  <2> HIDE DEF keys
  <2> QED BY <2>2, <2>3 DEF ensure_distinct_roles
<1>4. /\ market[m] # None /\ d = DomainPda(m) /\ l = FeeLedgerPda(m, market[m].mint_a)
      /\ OwnerOf(market[m].engine_state) = market[m].engine_program
  BY <1>1 DEF validate_execution_envelope, validate_market_domain, validate_fee_ledger,
     valid_engine_binding
<1>5. va = VaultA(m) /\ vb = VaultB(m) /\ fv = FeeVaultAt(m, market[m].mint_a)
  BY <1>1, <1>4 DEF vault_is, VaultA, VaultB, FeeVaultAt
<1>6. /\ token[source] # None /\ token[source].mint = market[m].mint_a
      /\ token[destination] # None /\ token[destination].mint = market[m].mint_b
  BY <1>1 DEF validate_credit_destination, validate_common_token_account
<1>7. Validated(m, d, l, va, vb, fv, source, destination)
  BY <1>3, <1>4, <1>5, <1>6 DEF Validated
<1>8. Delegated(x)
  <2>1. validate_delegated_spend_source(source, market[m].mint_a, spend_authority(x),
                                        x.total_input_debit)
    BY <1>1
  <2> HIDE DEF x
  <2> QED BY <1>2, <2>1 DEF Delegated, validate_delegated_spend_source
<1> QED BY <1>1, <1>7, <1>8

\* The descriptors Core binds are typed; none is a fixed role of the envelope, and no
\* account of SPL Token is writable.
LEMMA DescriptorsBound ==
  ASSUME NEW closure \in Closures, NEW keys, validate_opaque_capabilities(closure, keys)
  PROVE  /\ OpaqueDescriptors(closure) \in Seq(Descriptors)
         /\ \A i \in DOMAIN OpaqueDescriptors(closure) :
              /\ \A j \in DOMAIN keys : keys[j] # OpaqueDescriptors(closure)[i].key
              /\ (/\ OpaqueDescriptors(closure)[i].is_writable
                  /\ OpaqueDescriptors(closure)[i].key \in TokenAccounts
                 => token[OpaqueDescriptors(closure)[i].key] = None)
<1> DEFINE o == OpaqueDescriptors(closure)
<1>1. closure \in Seq(AccountMetas)
  BY CapabilityAssumption
<1>2. \A i \in 1 .. Len(closure) : closure[i] \in AccountMetas
  BY <1>1
<1>3. Len(closure) \in Nat /\ DOMAIN closure = 1 .. Len(closure)
  BY <1>1
<1>4. \A i \in DOMAIN closure :
        o[i] = Descriptor(closure[i].key, AccountOwner(closure[i].key),
                          Effective(closure, closure[i].key, "is_writable"))
  BY DEF OpaqueDescriptors
<1>5. \A k \in AccountKeys : AccountOwner(k) \in Programs \cup {None}
  BY KeyAssumption, CapabilityAssumption DEF AccountOwner, OwnerOf
<1>6. ASSUME NEW i \in DOMAIN closure
      PROVE  o[i] \in Descriptors /\ o[i].key = closure[i].key
             /\ (o[i].is_writable => Effective(closure, closure[i].key, "is_writable"))
  <2> DEFINE k == closure[i].key
             w == Effective(closure, k, "is_writable")
             own == AccountOwner(k)
             ex == IsExecutable(k)
  <2>1. k \in AccountKeys /\ own \in Programs \cup {None}
    BY <1>2, <1>3, <1>5 DEF AccountMetas
  <2>2. w \in BOOLEAN /\ ex \in BOOLEAN
    BY DEF Effective, IsExecutable
  <2>3. o[i] = [key |-> k, owner |-> own, is_writable |-> w, is_executable |-> ex]
    BY <1>4 DEF Descriptor
  <2> HIDE DEF o, k, w, own, ex
  <2>4. o[i] \in Descriptors /\ o[i].key = k
    BY <2>1, <2>2, <2>3 DEF Descriptors
  <2>5. o[i].is_writable = w
    BY <2>3
  <2>6. o[i].is_writable => w
    BY <2>5
  <2> QED BY <2>4, <2>6 DEF k, w
<1>7. o \in [1 .. Len(closure) -> Descriptors] /\ DOMAIN o = DOMAIN closure
  BY <1>3, <1>6 DEF OpaqueDescriptors
<1>8. o \in Seq(Descriptors)
  BY <1>3, <1>7
<1>9. ASSUME NEW i \in DOMAIN o
      PROVE  opaque_capability_allowed(closure, closure[i].key, keys) /\ o[i].key = closure[i].key
  BY <1>6, <1>7 DEF validate_opaque_capabilities
<1>10. ASSUME NEW i \in DOMAIN o, o[i].is_writable, o[i].key \in TokenAccounts
       PROVE  token[o[i].key] = None
  <2>1. Effective(closure, closure[i].key, "is_writable")
    BY <1>6, <1>7, <1>10
  <2> QED BY <1>9, <1>10, <2>1 DEF opaque_capability_allowed, TokenOwned
<1>11. \A i \in DOMAIN o : \A j \in DOMAIN keys : keys[j] # o[i].key
  BY <1>9 DEF opaque_capability_allowed
<1> HIDE DEF o
<1>12. /\ o \in Seq(Descriptors)
       /\ \A i \in DOMAIN o : /\ \A j \in DOMAIN keys : keys[j] # o[i].key
                              /\ o[i].is_writable /\ o[i].key \in TokenAccounts => token[o[i].key] = None
  BY <1>8, <1>10, <1>11
<1> QED BY <1>12 DEF o

\* The descriptors of an engine call are typed.
LEMMA CapabilitiesTyped ==
  ASSUME NEW es \in EngineStates, NEW o \in Seq(Descriptors), NEW authorized \in BOOLEAN
  PROVE  capability_descriptors(es, o, authorized) \in Seq(Descriptors)
<1> DEFINE first == Descriptor(es, OwnerOf(es), authorized)
           w(i) == authorized /\ o[i].is_writable
           rest == [i \in DOMAIN o |-> [o[i] EXCEPT !.is_writable = w(i)]]
           n == Len(o)
<1>1. first \in Descriptors
  <2>1. OwnerOf(es) \in Programs \cup {None}
    BY KeyAssumption DEF OwnerOf
  <2>2. IsExecutable(es) \in BOOLEAN
    BY DEF IsExecutable
  <2> QED BY <2>1, <2>2 DEF Descriptor, Descriptors, AccountKeys
<1>2. n \in Nat /\ DOMAIN o = 1 .. n /\ \A i \in 1 .. n : o[i] \in Descriptors
  OBVIOUS
<1>3. \A i \in 1 .. n : w(i) \in BOOLEAN
  OBVIOUS
<1> HIDE DEF w, n, first
<1>4. \A i \in 1 .. n : [o[i] EXCEPT !.is_writable = w(i)] \in Descriptors
  BY <1>2, <1>3 DEF Descriptors
<1>5. rest \in [1 .. n -> Descriptors]
  BY <1>2, <1>4
<1> HIDE DEF rest
<1>6. rest \in Seq(Descriptors)
  BY <1>2, <1>5
<1>7. <<first>> \in Seq(Descriptors)
  BY <1>1
<1>8. <<first>> \o rest \in Seq(Descriptors)
  BY <1>6, <1>7
<1>9. capability_descriptors(es, o, authorized) = <<first>> \o rest
  BY DEF capability_descriptors, first, rest, w
<1> QED BY <1>8, <1>9

\* What the handler holds when it calls the engine.
Starts(x) ==
  /\ x \in Executions
  /\ Roles(token, market, x) /\ Copies(x) /\ Reads(token, domain, fee_ledger, x, 0, 0, 0)
  /\ Intended(token, settled, x) /\ Agreed(token, market, slot, x) /\ Delegated(x)
  /\ NoTokens(token, x)
  /\ x.engine_state = market[x.market].engine_state
  /\ x.engine_program = market[x.market].engine_program
  /\ OwnerOf(x.engine_state) = x.engine_program

\* The intent that the handler derives from its accounts and arguments.
IntentOf(m, source, destination, args, closure) ==
  IntentBinding(args.timing_mode, m, market[m], token[source].owner, source, destination, args,
    fee_ceil(args.amount_in, market[m].fee_bps),
    compute_capability_hash(market[m].engine_program,
      capability_descriptors(market[m].engine_state, OpaqueDescriptors(closure), TRUE)),
    args.opaque_payload)

\* What one intent of these accounts and arguments binds.
IntentHas(i, m, source, destination, args, fee) ==
  /\ i \in IntentBindings
  /\ i.authorized_capability_hash \in CapabilityHashes
  /\ i.market = m /\ i.user_input = source /\ i.user_authority = token[source].owner
  /\ i.user_output = destination /\ i.amount_in = args.amount_in /\ i.protocol_fee = fee
  /\ i.max_total_input_debit = args.max_total_input_debit
  /\ i.min_output_credit = args.min_output_credit
  /\ i.max_protocol_fee = args.max_protocol_fee
  /\ i.expires_at_slot = args.expires_at_slot

\* The derived intent is typed and binds the accounts and arguments.
LEMMA IntentTyped ==
  ASSUME LedgerSound, NEW m \in Markets, market[m] # None,
         NEW source \in TokenAccounts, token[source] # None, NEW destination \in TokenAccounts,
         NEW args \in RouteArgs, fee_ceil(args.amount_in, market[m].fee_bps) \in U64,
         NEW closure, OpaqueDescriptors(closure) \in Seq(Descriptors)
  PROVE  IntentHas(IntentOf(m, source, destination, args, closure), m, source, destination, args,
                   fee_ceil(args.amount_in, market[m].fee_bps))
<1> DEFINE fee == fee_ceil(args.amount_in, market[m].fee_bps)
           o == capability_descriptors(market[m].engine_state, OpaqueDescriptors(closure), TRUE)
           hash == compute_capability_hash(market[m].engine_program, o)
           user == token[source].owner
           mk == market[m]
<1>1. mk \in MarketV0 /\ token[source] \in TokenAccount
  BY DEF LedgerSound, MarketStates, TokenStates
<1>2. mk.engine_state \in EngineStates /\ mk.engine_program \in Programs
  BY <1>1 DEF MarketV0
<1>3. o \in Seq(Descriptors)
  BY <1>2, CapabilitiesTyped
<1> HIDE DEF o
<1>4. hash \in CapabilityHashes
  BY <1>2, <1>3 DEF compute_capability_hash, CapabilityHashes
<1>5. user \in Users \cup Domains \cup FeeLedgers
  BY <1>1 DEF TokenAccount
<1>6. args \in ExecuteArgsType
  BY RoutedAssumption
<1> DEFINE i == IntentOf(m, source, destination, args, closure)
<1>7. i = IntentBinding(args.timing_mode, m, mk, user, source, destination, args, fee, hash,
                        args.opaque_payload)
  BY DEF IntentOf, o
<1> HIDE DEF i, hash, user, fee, mk
<1>8. fee \in U64
  BY DEF fee
<1>9. i \in IntentBindings
  BY <1>1, <1>4, <1>5, <1>6, <1>7, <1>8 DEF IntentBinding, IntentBindings, ExecuteArgsType, MarketV0
<1>10. /\ i.market = m /\ i.user_input = source /\ i.user_authority = user
       /\ i.user_output = destination /\ i.amount_in = args.amount_in /\ i.protocol_fee = fee
       /\ i.max_total_input_debit = args.max_total_input_debit
       /\ i.min_output_credit = args.min_output_credit
       /\ i.max_protocol_fee = args.max_protocol_fee
       /\ i.expires_at_slot = args.expires_at_slot /\ i.authorized_capability_hash = hash
  BY <1>7 DEF IntentBinding
<1> QED BY <1>4, <1>9, <1>10 DEF IntentHas, i, user, fee

\* A source that names the spend authority of intent i as its delegate is a user's account
\* that waits for i.
LEMMA DelegateMeans ==
  ASSUME token \in TokenStates, Approvals(token, settled), NEW a \in TokenAccounts,
         token[a] # None, NEW i \in IntentBindings, token[a].delegate = SpendOf(a, i)
  PROVE  a \in UserAccounts /\ i \in Intents /\ settled.pending[a] = i
<1>1. token[a].delegate \in Delegates \cup {None}
  BY DEF TokenStates, TokenAccount
<1>2. compute_intent_digest(i) \in IntentDigests
  BY DEF compute_intent_digest, IntentDigests
<1>3. SpendOf(a, i) \in SpendKeys
  BY <1>2 DEF SpendOf, canonical_spend_authority, SpendKeys
<1>4. SpendOf(a, i) \in SpendAuthorities
  BY <1>1, <1>3, RoutedAssumption
<1>5. PICK j \in Intents :
        SpendOf(a, i) = canonical_spend_authority(j.user_input, compute_intent_digest(j))
  BY <1>4 DEF SpendAuthorities
<1>6. a = j.user_input /\ compute_intent_digest(i) = compute_intent_digest(j)
  BY <1>5 DEF SpendOf, canonical_spend_authority
<1>7. compute_intent_digest(i).intent = compute_intent_digest(j).intent
  BY <1>6
<1>8. i = j
  BY <1>7 DEF compute_intent_digest
<1>9. a \in UserAccounts
  BY <1>6, RoutedAssumption
<1> QED BY <1>8, <1>9 DEF Approvals

\* execute_callback_authenticated_probe_v0 validates and copies what an execution needs.
LEMMA ExecuteStarts ==
  ASSUME LedgerSound, Approvals(token, settled), execute_callback_authenticated_probe_v0
  PROVE  Starts(ix')
<1>1. PICK m \in Markets, d \in Domains, l \in FeeLedgers, va \in TokenAccounts,
           vb \in TokenAccounts, fv \in TokenAccounts, source \in TokenAccounts,
           destination \in TokenAccounts, args \in RouteArgs, closure \in Closures :
           /\ Validated(m, d, l, va, vb, fv, source, destination)
           /\ arguments_within_limits(args, m, d, source)
           /\ Delegated(Planned(m, d, l, va, vb, fv, source, destination, args, closure))
           /\ validate_opaque_capabilities(closure, FixedEnvelopeKeys(
                Planned(m, d, l, va, vb, fv, source, destination, args, closure)))
           /\ ix' = Planned(m, d, l, va, vb, fv, source, destination, args, closure)
  BY ExecuteChecks
<1> DEFINE x == Planned(m, d, l, va, vb, fv, source, destination, args, closure)
           fee == fee_ceil(args.amount_in, market[m].fee_bps)
           fees == fee_ceil(args.amount_in, ProtocolFeeBps)
           o == OpaqueDescriptors(closure)
           i == IntentOf(m, source, destination, args, closure)
<1>2. /\ x.market = m /\ x.domain = d /\ x.fee_ledger = l
      /\ x.vault_a = va /\ x.vault_b = vb /\ x.fee_vault = fv
      /\ x.source = source /\ x.destination = destination
      /\ x.engine_program = market[m].engine_program
      /\ x.engine_state = market[m].engine_state
      /\ x.args = args /\ x.opaque = o /\ x.protocol_fee = fee
      /\ x.total_input_debit = args.amount_in + fee
      /\ x.accounted_a = domain[d].accounted_a /\ x.accounted_b = domain[d].accounted_b
      /\ x.accounted_fee_a = fee_ledger[l].accounted_fee_a
      /\ x.source_before = token[source].amount
      /\ x.destination_before = token[destination].amount
      /\ x.vault_a_before = token[va].amount /\ x.vault_b_before = token[vb].amount
      /\ x.fee_vault_before = token[fv].amount
  BY DEF Planned
<1>3. x.intent_digest = compute_intent_digest(i)
      /\ x.authorized_capability_hash = i.authorized_capability_hash
  BY DEF Planned, IntentOf, IntentBinding
<1>4. /\ token \in TokenStates /\ market \in MarketStates /\ domain \in DomainStates
      /\ fee_ledger \in FeeLedgerStates /\ donated \in DonatedStates
      /\ Canonical(token, market, domain, fee_ledger, donated)
  BY LedgerFacts
<1>5. /\ market[m] # None /\ d = DomainPda(m) /\ l = FeeLedgerPda(m, market[m].mint_a)
      /\ va = VaultA(m) /\ vb = VaultB(m) /\ fv = FeeVaultAt(m, market[m].mint_a)
      /\ token[source] # None /\ token[destination] # None
      /\ token[source].mint = market[m].mint_a
  BY <1>1 DEF Validated
<1>6. /\ market[m] \in MarketV0 /\ domain[d] \in DomainV0 /\ fee_ledger[l] \in FeeLedgerV0
      /\ token[va] \in TokenAccount /\ token[vb] \in TokenAccount /\ token[fv] \in TokenAccount
      /\ token[source] \in TokenAccount /\ token[destination] \in TokenAccount
  <2>1. token[source] \in TokenAccount /\ token[destination] \in TokenAccount
    BY <1>4, <1>5 DEF TokenStates
  <2> QED BY <1>4, <1>5, <2>1, MarketNumbers
<1>7. /\ args \in ExecuteArgsType
      /\ market[m].engine_program \in Programs /\ market[m].engine_state \in EngineStates
      /\ market[m].fee_bps = ProtocolFeeBps
  BY <1>6, RoutedAssumption DEF MarketV0
<1>8. /\ fee \in U64 /\ args.amount_in \in U64 /\ args.amount_in > 0
      /\ slot <= args.expires_at_slot /\ fee <= args.max_protocol_fee
      /\ args.amount_in + fee <= args.max_total_input_debit
      /\ AddFits(args.amount_in, fee)
  BY <1>1, <1>7 DEF arguments_within_limits, fee_ceil_ok, ExecuteArgsType
<1>9. fee = fees
  BY <1>7
<1>10. /\ domain[d].accounted_a \in U64 /\ domain[d].accounted_b \in U64
       /\ fee_ledger[l].accounted_fee_a \in U64
       /\ token[source].amount \in U64 /\ token[destination].amount \in U64
       /\ token[va].amount \in U64 /\ token[vb].amount \in U64 /\ token[fv].amount \in U64
  BY <1>6 DEF DomainV0, FeeLedgerV0, TokenAccount
<1>11. o \in Seq(Descriptors)
  BY <1>1, DescriptorsBound
<1>12. IntentHas(i, m, source, destination, args, fee)
  BY <1>5, <1>8, <1>11, IntentTyped
<1>13. i \in IntentBindings /\ compute_intent_digest(i) \in IntentDigests
       /\ i.authorized_capability_hash \in CapabilityHashes
  BY <1>12 DEF IntentHas, compute_intent_digest, IntentDigests
<1>14. args.amount_in + fee \in U64 /\ 0 \in U64
  BY <1>8, MathAssumption DEF AddFits, U64
<1>15. NoTokens(token, x)
  <2> DEFINE keys == FixedEnvelopeKeys(x)
  <2>1. \A j \in DOMAIN o :
          /\ \A k \in DOMAIN keys : keys[k] # o[j].key
          /\ o[j].is_writable /\ o[j].key \in TokenAccounts => token[o[j].key] = None
    BY <1>1, DescriptorsBound
  <2> HIDE DEF o, x
  <2>2. 12 \in DOMAIN keys /\ keys[12] = x.engine_state
    BY DEF FixedEnvelopeKeys
  <2> HIDE DEF keys
  <2> QED BY <1>2, <2>1, <2>2 DEF NoTokens
<1>16. x \in Executions
  <2> DEFINE digest == x.intent_digest
             hash == x.authorized_capability_hash
             total == x.total_input_debit
  <2>1. digest \in IntentDigests /\ hash \in CapabilityHashes /\ total \in U64
    BY <1>2, <1>3, <1>13, <1>14
  <2>2. x = [market |-> m, domain |-> d, fee_ledger |-> l, vault_a |-> va, vault_b |-> vb,
      fee_vault |-> fv, source |-> source, destination |-> destination,
      engine_program |-> market[m].engine_program, engine_state |-> market[m].engine_state,
      args |-> args, opaque |-> o, authorized_capability_hash |-> hash,
      protocol_fee |-> fee, total_input_debit |-> total, intent_digest |-> digest,
      accounted_a |-> domain[d].accounted_a, accounted_b |-> domain[d].accounted_b,
      accounted_fee_a |-> fee_ledger[l].accounted_fee_a,
      source_before |-> token[source].amount, destination_before |-> token[destination].amount,
      vault_a_before |-> token[va].amount, vault_b_before |-> token[vb].amount,
      fee_vault_before |-> token[fv].amount,
      amount_out |-> 0, primary_sequence |-> 0, primary_receipt |-> None, settlement |-> None]
    BY DEF Planned
  <2> HIDE DEF fee, o, digest, hash, total, x
  <2> QED BY <1>7, <1>8, <1>10, <1>11, <1>14, <2>1, <2>2 DEF Executions
<1> HIDE DEF x, fee, o, fees, i
<1>17. Delegated(x)
  BY <1>1 DEF x
<1>18. source \in UserAccounts /\ i \in Intents /\ settled.pending[source] = i
  <2>1. token[source].delegate = SpendOf(source, i)
    BY <1>2, <1>3, <1>17 DEF Delegated, spend_authority, SpendOf
  <2> QED BY <1>4, <1>5, <1>13, <2>1, DelegateMeans
<1>19. Roles(token, market, x)
  <2>1. source \notin CoreVaults
    BY <1>18, KeyAssumption
  <2>2. destination \notin {source, va, vb, fv} /\ token[destination].mint = market[m].mint_b
    BY <1>1 DEF Validated
  <2> QED BY <1>2, <1>5, <2>1, <2>2 DEF Roles
<1>20. Copies(x) /\ Reads(token, domain, fee_ledger, x, 0, 0, 0)
  <2>1. /\ token[source].amount \in Int /\ token[destination].amount \in Int
        /\ token[va].amount \in Int /\ token[vb].amount \in Int /\ token[fv].amount \in Int
    BY <1>10, MathAssumption DEF U64
  <2> QED BY <1>2, <2>1 DEF Copies, Reads
<1>21. Agreed(token, market, slot, x)
  BY <1>2, <1>5, <1>8, <1>9 DEF Agreed, fees
<1>22. OwnerOf(market[m].engine_state) = market[m].engine_program
  BY <1>1 DEF Validated
<1>23. Intended(token, settled, x)
  BY <1>2, <1>3, <1>12, <1>18 DEF Intended, IntentHas
<1>24. Starts(x)
  BY <1>2, <1>15, <1>16, <1>17, <1>19, <1>20, <1>21, <1>22, <1>23 DEF Starts
<1> QED BY <1>1, <1>24 DEF x

\* Before the transfers nothing has been paid.
LEMMA NothingPaid ==
  ASSUME NEW p \in {"primary", "receipt", "input"}, NEW x, NEW out
  PROVE  InputMade(p, x) = 0 /\ FeeMade(p, x) = 0 /\ OutputMade(p, out) = 0
         /\ PaymentsMade(p) = 0
BY DEF InputMade, FeeMade, OutputMade, PaymentsMade

\* An execution starts with sound accounts.
LEMMA ExecuteSound ==
  ASSUME BaseInv, execute_callback_authenticated_probe_v0
  PROVE  BaseInv' /\ Starts(ix')
<1>1. /\ RunInstruction("primary") /\ phase = "open" /\ phase' = "primary" /\ UNCHANGED chain
      /\ signers' = signers /\ slot' = slot /\ saved' = saved
  BY DEF execute_callback_authenticated_probe_v0, RunInstruction
<1>2. LedgerSound /\ Approvals(token, settled)
  BY <1>1, OpenFacts DEF Settling
<1>3. Starts(ix')
  BY <1>2, ExecuteStarts
<1>4. phase' \in Settling /\ phase' \notin Accepted /\ phase' \notin {"receipt", "commit_receipt"}
      /\ phase' # "idle" /\ phase # "idle"
  BY <1>1 DEF Settling, Accepted
<1>5. RoutedTypeOK'
  <2>1. used' \in 0 .. MaxInstructions
    BY <1>1, InputAssumption DEF BaseInv, RoutedTypeOK, RunInstruction
  <2>2. Snapshot' \in Chains
    BY <1>1 DEF BaseInv, RoutedTypeOK, Snapshot, chain
  <2> QED BY <1>1, <1>3, <1>4, <2>1, <2>2 DEF BaseInv, RoutedTypeOK, Starts
<1>6. Flight(token, market, domain, fee_ledger, donated, ix', 0, 0, 0)
  BY <1>2, <1>3, FlightOpens DEF Starts
<1>7. FlightSound'
  BY <1>1, <1>6, NothingPaid DEF FlightSound, chain
<1>8. SavedSound'
  BY <1>1 DEF BaseInv, SavedSound
<1>9. TermsSound'
  <2>1. Intended(token, settled, ix') /\ Agreed(token, market, slot, ix')
    BY <1>3 DEF Starts
  <2>2. Allowed(token, phase', ix')
    <3>1. PaymentsMade(phase') = 0
      BY <1>1, NothingPaid
    <3> QED BY <1>3, <3>1 DEF Allowed, Starts, Delegated, Agreed
  <2> QED BY <1>1, <1>4, <2>1, <2>2 DEF TermsSound, chain
<1>10. HandedSound' /\ BooksSound'
  BY <1>1, <1>3, <1>4 DEF HandedSound, BooksSound, Starts, chain
<1> QED BY <1>1, <1>2, <1>3, <1>5, <1>7, <1>8, <1>9, <1>10 DEF BaseInv, chain

(***************************************************************************)
(* The engine's turn.                                                      *)
(***************************************************************************)
\* What holds during an execution.
LEMMA SettlingFacts ==
  ASSUME BaseInv, phase \in Settling
  PROVE  /\ token \in TokenStates /\ market \in MarketStates /\ domain \in DomainStates
         /\ fee_ledger \in FeeLedgerStates /\ donated \in DonatedStates
         /\ engine \in EngineMaps /\ settled \in SettledStates
         /\ signers \subseteq Users /\ saved \in Chains /\ ix \in Executions
         /\ ix.domain # None /\ ix.protocol_fee \in U64
         /\ ix.engine_state \in EngineStates /\ ix.amount_out \in U64
         /\ ix.accounted_a \in U64 /\ ix.accounted_b \in U64 /\ ix.accounted_fee_a \in U64
         /\ ix.opaque \in Seq(Descriptors) /\ ix.args \in ExecuteArgsType
         /\ ix.args.amount_in \in U64 /\ spend_authority(ix) # None
         /\ ix.source \in TokenAccounts /\ phase # "idle"
         /\ Flight(token, market, domain, fee_ledger, donated, ix, InputMade(phase, ix),
                   FeeMade(phase, ix), OutputMade(phase, ix.amount_out))
         /\ Intended(token, settled, ix) /\ Agreed(token, market, slot, ix)
         /\ Allowed(token, phase, ix) /\ Approvals(token, settled) /\ NoTokens(token, ix)
<1>1. /\ Snapshot \in Chains /\ saved \in Chains /\ ix \in Executions /\ signers \subseteq Users
      /\ phase # "idle"
  BY DEF BaseInv, RoutedTypeOK, Settling
<1>2. /\ token \in TokenStates /\ market \in MarketStates /\ domain \in DomainStates
      /\ fee_ledger \in FeeLedgerStates /\ donated \in DonatedStates
      /\ engine \in EngineMaps /\ settled \in SettledStates
  BY <1>1 DEF Snapshot, Chains
<1>3. /\ ix.domain \in Domains /\ ix.protocol_fee \in U64
      /\ ix.engine_state \in EngineStates /\ ix.amount_out \in U64 /\ ix.args \in RouteArgs
      /\ ix.accounted_a \in U64 /\ ix.accounted_b \in U64 /\ ix.accounted_fee_a \in U64
      /\ ix.opaque \in Seq(Descriptors) /\ ix.source \in TokenAccounts
      /\ ix.intent_digest \in IntentDigests
  BY <1>1 DEF Executions
<1>4. ix.args \in ExecuteArgsType
  BY <1>3, RoutedAssumption
<1>5. ix.args.amount_in \in U64
  BY <1>4 DEF ExecuteArgsType
<1>6. spend_authority(ix) \in SpendKeys
  BY <1>3 DEF spend_authority, canonical_spend_authority, SpendKeys
<1>7. ix.domain # None /\ spend_authority(ix) # None
  BY <1>3, <1>6, KeyAssumption, RoutedAssumption
<1> QED BY <1>1, <1>2, <1>3, <1>4, <1>5, <1>7 DEF BaseInv, FlightSound, TermsSound, HandedSound

\* A step inside an execution that leaves typed accounts keeps the frame.
LEMMA FrameKept ==
  ASSUME BaseInv, phase \in Settling, phase' \in Settling, UNCHANGED <<slot, signers, used, saved>>,
         ix' \in Executions, token' \in TokenStates, engine' \in EngineMaps,
         donated' \in DonatedStates, UNCHANGED <<market, domain, fee_ledger, settled>>
  PROVE  RoutedTypeOK' /\ SavedSound' /\ BooksSound'
<1>1. phase # "idle" /\ phase' # "idle"
  BY DEF Settling
<1>2. Snapshot' \in Chains
  BY SettlingFacts DEF Snapshot, Chains
<1> QED BY <1>1, <1>2 DEF BaseInv, RoutedTypeOK, SavedSound, BooksSound

\* Requests that Core builds are typed.
LEMMA RequestTyped ==
  ASSUME BaseInv, phase \in Settling, NEW p \in EnginePhases, NEW D, NEW context \in D \cup {None},
         NEW n \in U64
  PROVE  build_engine_request(ix, p, context, n) \in Requests(D)
<1> DEFINE o == phase_descriptors(ix, p)
           hash == compute_capability_hash(ix.engine_program, o)
           len == Len(ix.opaque)
           revision == market[ix.market].engine_revision
<1>1. /\ ix \in Executions /\ ix.args \in ExecuteArgsType
      /\ ix.opaque \in Seq(Descriptors) /\ ix.engine_state \in EngineStates
      /\ Flight(token, market, domain, fee_ledger, donated, ix, InputMade(phase, ix),
                FeeMade(phase, ix), OutputMade(phase, ix.amount_out))
  BY SettlingFacts
<1>2. o \in Seq(Descriptors)
  BY <1>1, CapabilitiesTyped DEF phase_descriptors
<1> HIDE DEF o
<1>3. hash \in CapabilityHashes
  BY <1>1, <1>2 DEF compute_capability_hash, CapabilityHashes, Executions
<1>4. len \in Nat
  BY <1>1
<1>5. revision \in Revisions
  BY <1>1 DEF Flight, Roles, MarketStates, MarketV0
<1>6. build_engine_request(ix, p, context, n) =
        [phase |-> p, intent_digest |-> ix.intent_digest,
         phase_context_digest |-> context, market |-> ix.market, domain |-> ix.domain,
         engine_revision |-> revision, amount_in |-> ix.args.amount_in,
         protocol_fee |-> ix.protocol_fee, accounted_input_before |-> ix.accounted_a,
         accounted_output_before |-> ix.accounted_b, accounted_fee_before |-> ix.accounted_fee_a,
         pre_sequence |-> n, authorized_capability_hash |-> ix.authorized_capability_hash,
         phase_capability_hash |-> hash, opaque_account_count |-> len,
         payload |-> ix.args.opaque_payload]
  BY DEF build_engine_request, o
<1> HIDE DEF hash, len, revision
<1> QED BY <1>1, <1>3, <1>4, <1>5, <1>6 DEF Requests, Executions, ExecuteArgsType

\* The two requests of an execution.
LEMMA RequestsTyped ==
  ASSUME BaseInv, phase \in Settling
  PROVE  /\ primary_request(ix) \in Requests({}) /\ commit_request(ix) \in Requests(Settlements)
         /\ request_in_flight \in Requests(Settlements)
         /\ primary_request(ix).phase = primary_phase(ix.args.timing_mode)
         /\ commit_request(ix).phase = PHASE_COMMIT
         /\ primary_phase(ix.args.timing_mode) \in EnginePhases
<1>1. /\ ix \in Executions /\ ix.args \in ExecuteArgsType
  BY SettlingFacts
<1>2. primary_phase(ix.args.timing_mode) \in EnginePhases /\ PHASE_COMMIT \in EnginePhases
  BY DEF primary_phase, EnginePhases
<1>3. ix.args.expected_engine_sequence \in U64 /\ ix.primary_sequence \in U64
      /\ ix.settlement \in Settlements \cup {None}
  BY <1>1 DEF ExecuteArgsType, Executions
<1>4. primary_request(ix) \in Requests({})
  BY <1>2, <1>3, RequestTyped DEF primary_request
<1>5. commit_request(ix) \in Requests(Settlements)
  BY <1>2, <1>3, RequestTyped DEF commit_request
<1>6. primary_request(ix) \in Requests(Settlements)
  BY <1>2, <1>3, RequestTyped DEF primary_request
<1>7. primary_request(ix).phase = primary_phase(ix.args.timing_mode)
      /\ commit_request(ix).phase = PHASE_COMMIT
  BY DEF primary_request, commit_request, build_engine_request
<1> QED BY <1>2, <1>4, <1>5, <1>6, <1>7 DEF request_in_flight

\* Core's call.
LEMMA CallTyped ==
  ASSUME BaseInv, phase \in Settling
  PROVE  /\ CoreCall.binding = request_in_flight /\ CoreCall.binding \in Requests(Settlements)
         /\ CoreCall.engine_state = ix.engine_state
         /\ CoreCall.callback.key = callback_of(ix, request_in_flight.phase)
         /\ CoreCall.accounts = Tail(Observed(phase_descriptors(ix, request_in_flight.phase)))
BY RequestsTyped DEF CoreCall, EngineCall, Callback

\* An engine's callback authority names the program that it is for.
LEMMA CallbackProgram ==
  ASSUME NEW x, NEW p, NEW es, NEW m, NEW d, NEW digest, NEW q, NEW program,
         callback_of(x, p) = canonical_callback(program, es, m, d, digest, q)
  PROVE  x.engine_program = program
BY DEF callback_of, canonical_callback

\* Only Core's call succeeds, at its place in the execution.
LEMMA EvaluateStep ==
  ASSUME BaseInv, evaluate_phase
  PROVE  /\ phase \in {"primary", "commit"} /\ phase' = AfterEngine
         /\ ix.engine_program = RoutedPlanEngine
         /\ EvaluateSucceeds(CoreCall)
         /\ engine' = EvaluatedEngine(CoreCall) /\ ret' = EvaluateReturn(CoreCall)
         /\ UNCHANGED <<token, market, domain, fee_ledger, donated, settled, slot, signers,
                        used, saved, ix>>
<1>1. PICK call \in EvaluateCalls :
        /\ EvaluateSucceeds(call)
        /\ engine' = EvaluatedEngine(call)
        /\ ret' = EvaluateReturn(call)
  BY DEF evaluate_phase
<1>2. /\ authenticate_callback_authority(call) /\ call.callback.is_signer
  BY <1>1 DEF EvaluateSucceeds, validate_fixed_account_privileges
<1>3. phase \in {"primary", "commit"}
  <2>1. SUFFICES ASSUME phase \notin {"primary", "commit"} PROVE FALSE
    OBVIOUS
  <2>2. phase = "open"
    BY <1>1, <2>1 DEF EvaluateCalls
  <2>3. PICK es \in RoutedStates : \E c \in OutsideCallbacks(es), p \in EnginePhases :
          call = ForgedCall(es, c, p)
    BY <1>1, <2>2 DEF EvaluateCalls
  <2>4. PICK c \in OutsideCallbacks(es), p \in EnginePhases : call = ForgedCall(es, c, p)
    BY <2>3
  <2>5. /\ call.callback = c /\ call.engine_state = es
        /\ call.binding.market = engine[es].market
        /\ call.binding.domain = DomainPda(engine[es].market)
        /\ call.binding.intent_digest = OtherHash /\ call.binding.phase = p
    BY <2>4 DEF ForgedCall, EngineCall
  <2>6. c.is_signer /\ c.key = canonical_callback(RoutedPlanEngine, es, engine[es].market,
                                 DomainPda(engine[es].market), OtherHash, p)
    BY <1>2, <2>5 DEF authenticate_callback_authority
  <2>7. engine \in EngineMaps /\ signers \subseteq Users
    BY <2>2, OpenFacts DEF Settling, LedgerSound
  <2>8. es \in EngineStates /\ engine[es] \in PlanState
    BY <2>7, EngineKept DEF RoutedStates, IsRoutedState, PlanStates
  <2>9. engine[es].market \in Markets /\ DomainPda(engine[es].market) \in Domains
    BY <2>8 DEF PlanState, Domains
  <2>10. c.key \in CallbackKeys
    BY <2>6, <2>8, <2>9, EngineAssumption DEF canonical_callback, CallbackKeys
  <2>11. PICK wallet \in signers : c = Callback(wallet, TRUE)
    BY <2>6 DEF OutsideCallbacks, Callback
  <2>12. c.key \in Users
    BY <2>7, <2>11 DEF Callback
  <2> QED BY <2>10, <2>12, RoutedAssumption
<1>4. call = CoreCall /\ phase \in Settling
  BY <1>1, <1>3 DEF EvaluateCalls, Settling
<1>5. ix.engine_program = RoutedPlanEngine
  BY <1>2, <1>4, CallTyped, CallbackProgram DEF authenticate_callback_authority
<1> QED BY <1>1, <1>3, <1>4, <1>5 DEF evaluate_phase

\* A call of the engine that moves no tokens and returns words keeps the invariant.
LEMMA CallSound ==
  ASSUME BaseInv, phase \in {"primary", "commit"}, phase' = AfterEngine,
         UNCHANGED <<token, market, domain, fee_ledger, donated, settled, slot, signers,
                     used, saved, ix>>,
         engine' \in EngineMaps, ret' # None => ret' \in Returns
  PROVE  BaseInv'
<1>1. /\ phase \in Settling /\ phase' \in Settling
      /\ phase' \in Accepted <=> phase \in Accepted
      /\ phase' \in {"receipt", "commit_receipt"} /\ PaymentsMade(phase') = PaymentsMade(phase)
  BY DEF AfterEngine, Settling, Accepted, PaymentsMade
<1>2. RoutedTypeOK' /\ SavedSound' /\ BooksSound'
  BY <1>1, FrameKept, SettlingFacts
<1>3. FlightSound'
  BY <1>1 DEF BaseInv, FlightSound, InputMade, FeeMade, OutputMade
<1>4. TermsSound'
  BY <1>1 DEF BaseInv, TermsSound, Allowed, spend_authority
<1>5. HandedSound'
  BY <1>1 DEF BaseInv, HandedSound
<1> QED BY <1>2, <1>3, <1>4, <1>5 DEF BaseInv

\* What the engine returns for a call that succeeds: words, and its answer if the return
\* data are its own.
LEMMA ReturnFacts ==
  ASSUME engine \in EngineMaps, NEW call, call.binding \in Requests(Settlements),
         EvaluateSucceeds(call), EvaluateReturn(call) # None
  PROVE  /\ EvaluateReturn(call) \in Returns
         /\ EvaluateReturn(call).setter = RoutedPlanEngine =>
              EvaluateReturn(call).amount_out = EvaluateAmountOut(call)
<1> DEFINE q == EvaluateAmountOut(call)
           b == call.binding
           s == engine[call.engine_state]
           n == IF b.phase = PHASE_PREPARE THEN s.sequence ELSE s.sequence + 1
           digest == compute_execution_digest(b)
           p == IF b.phase = PHASE_TRANSITION THEN PHASE_PREPARE ELSE PHASE_TRANSITION
           good == EngineReceipt(RoutedPlanEngine, TRUE, b.phase, b.intent_digest, digest, q, n)
           r == EvaluateReturn(call)
<1>1. q \in U64 /\ 0 \in U64 /\ 0 \in Nat
  BY AmountOutFacts, MathAssumption DEF U64
<1>2. s \in PlanState
  BY EngineKept DEF EvaluateSucceeds, IsRoutedState, PlanStates
<1>3. n \in Nat
  BY <1>2, MathAssumption DEF PlanState, U64
<1>4. /\ b.phase \in EnginePhases /\ b.intent_digest \in IntentDigests /\ p \in EnginePhases
      /\ digest \in ExecutionDigests
  BY DEF Requests, EnginePhases, compute_execution_digest, ExecutionDigests
<1>5. \/ r = HelperReturn
      \/ r = [good EXCEPT !.intent_digest = OtherHash]
      \/ r = [good EXCEPT !.execution_digest = OtherHash]
      \/ r = [good EXCEPT !.phase = p]
      \/ r = [good EXCEPT !.well_formed = FALSE]
      \/ r = good
  <2>1. [good EXCEPT !.phase = IF @ = PHASE_TRANSITION THEN PHASE_PREPARE ELSE PHASE_TRANSITION]
          = [good EXCEPT !.phase = p]
    BY DEF EngineReceipt
  <2> DEFINE other == [good EXCEPT !.phase = IF @ = PHASE_TRANSITION THEN PHASE_PREPARE
                                             ELSE PHASE_TRANSITION]
  <2>2. r = CASE s.mode = "MISSING_RECEIPT" -> IF CallsHelper(call) THEN HelperReturn ELSE None
              [] s.mode = "WRONG_INTENT_DIGEST" -> [good EXCEPT !.intent_digest = OtherHash]
              [] s.mode = "WRONG_EXECUTION_DIGEST" -> [good EXCEPT !.execution_digest = OtherHash]
              [] s.mode = "WRONG_RECEIPT_PHASE" -> other
              [] s.mode \in {"MALFORMED_RECEIPT", "WRONG_RECEIPT_MAGIC",
                             "WRONG_RECEIPT_VERSION", "TRAILING_RECEIPT_BYTE"} ->
                   [good EXCEPT !.well_formed = FALSE]
              [] OTHER -> good
    BY DEF EvaluateReturn
  <2>3. r # None
    OBVIOUS
  <2> HIDE DEF r, good, p, other
  <2> QED BY <2>1, <2>2, <2>3 DEF other
<1>6. /\ HelperReturn \in Returns /\ HelperReturn.setter = HelperProgram
  <2>1. PHASE_TRANSITION \in EnginePhases
    BY DEF EnginePhases
  <2> QED BY <1>1, <2>1, EngineAssumption DEF HelperReturn, EngineReceipt, Returns
<1> HIDE DEF q, r, n, digest, b, p
<1>7. good \in Returns /\ good.amount_out = q
  BY <1>1, <1>3, <1>4, EngineAssumption DEF EngineReceipt, Returns
<1> HIDE DEF good
<1>8. r = HelperReturn \/ (r \in Returns /\ r.amount_out = q)
  BY <1>4, <1>5, <1>7 DEF Returns
<1>9. r \in Returns /\ (r.setter = RoutedPlanEngine => r.amount_out = q)
  BY <1>6, <1>8, EngineAssumption
<1> QED BY <1>9 DEF r, q

\* The engine's call moves no tokens.
LEMMA EvaluateSound ==
  ASSUME BaseInv, evaluate_phase
  PROVE  BaseInv'
<1>1. /\ phase \in {"primary", "commit"} /\ phase' = AfterEngine /\ EvaluateSucceeds(CoreCall)
      /\ engine' = EvaluatedEngine(CoreCall) /\ ret' = EvaluateReturn(CoreCall)
      /\ UNCHANGED <<token, market, domain, fee_ledger, donated, settled, slot, signers,
                     used, saved, ix>>
  BY EvaluateStep
<1>2. phase \in Settling
  BY <1>1 DEF Settling
<1>3. engine \in EngineMaps /\ CoreCall.binding \in Requests(Settlements)
  BY <1>2, SettlingFacts, CallTyped
<1>4. engine' \in EngineMaps
  <2>1. CASE CoreCall.binding.phase = PHASE_PREPARE
    BY <1>1, <1>3, <2>1 DEF EvaluatedEngine
  <2>2. CASE CoreCall.binding.phase # PHASE_PREPARE
    BY <1>1, <1>3, <2>2, EvaluatedFacts DEF Evaluated
  <2> QED BY <2>1, <2>2
<1>5. ret' # None => ret' \in Returns
  BY <1>1, <1>3, ReturnFacts
<1> QED BY <1>1, <1>4, <1>5, CallSound

\* The accounts seen besides the engine's own es are those of the closure o, in their
\* order, and writable only if the closure has them so.
SeenAs(seen, es, o) ==
  /\ Len(seen) = Len(o) /\ DOMAIN seen = DOMAIN o
  /\ \A i \in DOMAIN o : /\ seen[i].key = o[i].key
                         /\ seen[i].is_writable /\ o[i].key # es =>
                              \E j \in DOMAIN o : o[j].key = o[i].key /\ o[j].is_writable

\* An engine sees the accounts of the closure.
LEMMA AccountsSeen ==
  ASSUME NEW es \in EngineStates, NEW o \in Seq(Descriptors), NEW authorized \in BOOLEAN
  PROVE  SeenAs(Tail(Observed(capability_descriptors(es, o, authorized))), es, o)
<1> DEFINE d == capability_descriptors(es, o, authorized)
           first == Descriptor(es, OwnerOf(es), authorized)
           rest == [i \in DOMAIN o |-> [o[i] EXCEPT !.is_writable = authorized /\ @]]
           n == Len(o)
           w(i) == \E j \in DOMAIN d : d[j].key = d[i].key /\ d[j].is_writable
           seen == Tail(Observed(d))
<1>1. d \in Seq(Descriptors)
  BY CapabilitiesTyped
<1>2. n \in Nat /\ DOMAIN o = 1 .. n /\ \A i \in 1 .. n : o[i] \in Descriptors
  OBVIOUS
<1>3. \A i \in 1 .. n : /\ rest[i].key = o[i].key
                        /\ rest[i].is_writable => o[i].is_writable
  <2> SUFFICES ASSUME NEW i \in 1 .. n
               PROVE  rest[i].key = o[i].key /\ (rest[i].is_writable => o[i].is_writable)
    OBVIOUS
  <2> DEFINE v == authorized /\ o[i].is_writable
  <2>1. rest[i] = [o[i] EXCEPT !.is_writable = v]
    BY <1>2
  <2> HIDE DEF v, rest
  <2>2. rest[i].key = o[i].key /\ rest[i].is_writable = v
    BY <1>2, <2>1 DEF Descriptors
  <2>3. v => o[i].is_writable
    BY DEF v
  <2> QED BY <2>2, <2>3
<1>4. Len(rest) = n /\ rest \in Seq({rest[i] : i \in 1 .. n}) /\ DOMAIN rest = 1 .. n
  <2>1. DOMAIN rest = 1 .. n
    BY <1>2
  <2> HIDE DEF rest
  <2>2. rest \in [1 .. n -> {rest[i] : i \in 1 .. n}]
    BY <2>1 DEF rest
  <2> QED BY <1>2, <2>1, <2>2
<1>5. d = <<first>> \o rest
  BY DEF capability_descriptors
<1> HIDE DEF rest, first, n
<1>6. /\ Len(d) = n + 1 /\ d[1] = first /\ \A i \in 1 .. n : d[i + 1] = rest[i]
      /\ DOMAIN d = 1 .. (n + 1)
  BY <1>2, <1>4, <1>5
<1>7. d[1].key = es
  BY <1>6 DEF first, Descriptor
<1> HIDE DEF d
<1>8. \A i \in 1 .. (n + 1) : d[i] \in Descriptors /\ w(i) \in BOOLEAN
  BY <1>1, <1>6
<1>9. Observed(d) = [i \in 1 .. (n + 1) |-> [d[i] EXCEPT !.is_writable = w(i)]]
  BY <1>6 DEF Observed
<1> DEFINE s == Observed(d)
<1> HIDE DEF w
<1>10. \A i \in 1 .. (n + 1) : s[i] \in Descriptors /\ s[i].key = d[i].key /\ s[i].is_writable = w(i)
  BY <1>8, <1>9 DEF Descriptors
<1>11. s \in Seq(Descriptors) /\ Len(s) = n + 1
  <2>1. s \in [1 .. (n + 1) -> Descriptors]
    BY <1>9, <1>10
  <2> HIDE DEF s
  <2> QED BY <1>2, <2>1
<1> HIDE DEF s
<1>12. Len(seen) = n /\ DOMAIN seen = 1 .. n /\ \A i \in 1 .. n : seen[i] = s[i + 1]
  BY <1>2, <1>11 DEF s
<1> HIDE DEF seen
<1>13. ASSUME NEW i \in 1 .. n
       PROVE  seen[i].key = o[i].key /\ seen[i].is_writable = w(i + 1)
  <2>1. i + 1 \in 1 .. (n + 1) /\ seen[i] = s[i + 1] /\ d[i + 1] = rest[i]
    BY <1>2, <1>6, <1>12
  <2>2. s[i + 1].key = d[i + 1].key /\ s[i + 1].is_writable = w(i + 1)
    BY <1>10, <2>1
  <2> QED BY <1>3, <2>1, <2>2
<1>14. ASSUME NEW i \in 1 .. n, w(i + 1), o[i].key # es
       PROVE  \E j \in 1 .. n : o[j].key = o[i].key /\ o[j].is_writable
  <2>1. PICK k \in 1 .. (n + 1) : d[k].key = d[i + 1].key /\ d[k].is_writable
    BY <1>6, <1>14 DEF w
  <2>2. d[i + 1].key = o[i].key
    BY <1>3, <1>6
  <2>3. k # 1
    BY <1>7, <1>14, <2>1, <2>2
  <2>4. k - 1 \in 1 .. n /\ d[k] = rest[k - 1]
    BY <1>2, <1>6, <2>3
  <2> QED BY <1>3, <2>1, <2>2, <2>4
<1>15. \A i \in 1 .. n : seen[i].is_writable /\ o[i].key # es =>
                           \E j \in 1 .. n : o[j].key = o[i].key /\ o[j].is_writable
  BY <1>13, <1>14
<1>16. SeenAs(seen, es, o)
  BY <1>2, <1>12, <1>13, <1>15 DEF n, SeenAs
<1> QED BY <1>16 DEF seen, d

\* Whatever an engine of unknown code does with the accounts it was handed, it moves no
\* tokens and reaches neither the routed engine nor a helper of its states.
LEMMA ForeignStep ==
  ASSUME BaseInv, foreign_engine
  PROVE  /\ phase \in {"primary", "commit"} /\ phase' = AfterEngine
         /\ ix.engine_program # RoutedPlanEngine
         /\ UNCHANGED <<token, market, domain, fee_ledger, donated, settled, slot, signers,
                        used, saved, ix>>
         /\ \/ engine' = engine
            \/ \E h \in HelperStates : Incremented(engine, engine', h)
                                       /\ ~Serves(engine[h].allowed_callback)
<1> DEFINE acc == CoreCall.accounts
           p == request_in_flight.phase
           authorized == p # PHASE_PREPARE
<1>1. /\ phase \in {"primary", "commit"} /\ ix.engine_program # RoutedPlanEngine /\ phase \in Settling
      /\ phase' = AfterEngine
      /\ UNCHANGED <<market, domain, fee_ledger, settled, slot, signers, used, saved, ix>>
  BY DEF foreign_engine, Settling
<1>2. PICK effect \in ForeignEffects(CoreCall) :
        token' = effect.token /\ donated' = effect.donated /\ engine' = effect.engine
  BY DEF foreign_engine
<1>3. /\ ix.opaque \in Seq(Descriptors) /\ engine \in EngineMaps /\ ix.engine_state \in EngineStates
      /\ NoTokens(token, ix)
      /\ CoreCall.callback.key = callback_of(ix, p)
      /\ acc = Tail(Observed(capability_descriptors(ix.engine_state, ix.opaque, authorized)))
  BY <1>1, SettlingFacts, CallTyped DEF phase_descriptors
<1>4. effect \notin TokenMoves(acc)
  <2>1. SUFFICES ASSUME effect \in TokenMoves(acc) PROVE FALSE
    OBVIOUS
  <2> HIDE DEF acc
  <2>2. PICK t \in [from : TokenAccounts, to : TokenAccounts, authority : EnginePdas,
                    amount : TokenAmounts] :
          /\ HandedWritable(acc, t.from)
          /\ CanTransfer(token, t.from, t.to, token[t.from].mint, t.amount, t.authority)
    BY <2>1 DEF TokenMoves
  <2>3. PICK from \in TokenAccounts : HandedWritable(acc, from) /\ token[from] # None
    BY <2>2 DEF CanTransfer
  <2>4. PICK i \in DOMAIN acc : acc[i].key = from /\ acc[i].is_writable
    BY <2>3 DEF HandedWritable
  <2>5. authorized \in BOOLEAN
    OBVIOUS
  <2>6. i \in DOMAIN ix.opaque /\ ix.opaque[i].key = from
        /\ (ix.opaque[i].key # ix.engine_state =>
             \E j \in DOMAIN ix.opaque : ix.opaque[j].key = from /\ ix.opaque[j].is_writable)
    <3> HIDE DEF authorized
    <3>1. SeenAs(acc, ix.engine_state, ix.opaque)
      BY <1>3, <2>5, AccountsSeen
    <3> QED BY <2>4, <3>1 DEF SeenAs
  <2> QED BY <1>3, <2>3, <2>6 DEF NoTokens
<1>5. effect \notin EngineCalls(CoreCall)
  <2>1. SUFFICES ASSUME effect \in EngineCalls(CoreCall) PROVE FALSE
    OBVIOUS
  <2>2. PICK es \in RoutedStates, q \in EnginePhases :
          EvaluateSucceeds(ForgedCall(es, CoreCall.callback, q))
    BY <2>1 DEF EngineCalls
  <2>3. ForgedCall(es, CoreCall.callback, q).callback = CoreCall.callback
    BY DEF ForgedCall, EngineCall
  <2>4. authenticate_callback_authority(ForgedCall(es, CoreCall.callback, q))
    BY <2>2 DEF EvaluateSucceeds
  <2> QED BY <1>1, <1>3, <2>3, <2>4, CallbackProgram DEF authenticate_callback_authority
<1>6. CASE effect = NoEffect
  BY <1>1, <1>2, <1>6 DEF NoEffect
<1>7. CASE effect \in HelperCalls(CoreCall)
  <2>1. PICK c \in EngineStates \X (Payloads \ {None}) :
          /\ validate_increment(c[1], CoreCall.callback, c[2]) /\ increment_fits(c[1], c[2])
          /\ effect = [NoEffect EXCEPT !.engine = apply_increment(engine, c[1], c[2])]
    BY <1>7 DEF HelperCalls
  <2>2. token' = token /\ donated' = donated /\ engine' = apply_increment(engine, c[1], c[2])
    BY <1>2, <2>1 DEF NoEffect
  <2>3. IsHelperState(c[1]) /\ engine[c[1]].allowed_callback = callback_of(ix, p)
    BY <1>3, <2>1 DEF validate_increment
  <2>4. c[2] \in Payloads /\ c[2] # None
    OBVIOUS
  <2>5. Incremented(engine, engine', c[1])
    BY <1>3, <2>1, <2>2, <2>3, <2>4, IncrementFacts
  <2>6. ~Serves(engine[c[1]].allowed_callback)
    <3>1. callback_of(ix, p)[2] = ix.engine_program
      BY DEF callback_of, canonical_callback
    <3> QED BY <1>1, <2>3, <3>1 DEF Serves
  <2>7. c[1] \in HelperStates
    BY <2>5 DEF Incremented
  <2> QED BY <1>1, <2>2, <2>5, <2>6, <2>7
<1> QED BY <1>2, <1>4, <1>5, <1>6, <1>7 DEF ForeignEffects

\* What such an engine returns are words.
LEMMA ForeignReturns ==
  ASSUME NEW b \in Requests(Settlements), ix.engine_program \in Programs,
         NEW r \in ForeignReceipts(b), r # None
  PROVE  r \in Returns
<1>1. /\ b.phase \in EnginePhases /\ b.intent_digest \in IntentDigests
      /\ compute_execution_digest(b) \in ExecutionDigests /\ b.pre_sequence \in Nat
  BY MathAssumption DEF Requests, compute_execution_digest, ExecutionDigests, U64
<1>2. \A g \in AcceptableReceipts(b) : g \in Returns
  <2> SUFFICES ASSUME NEW g \in AcceptableReceipts(b) PROVE g \in Returns
    OBVIOUS
  <2>1. PICK c \in ForeignAmounts \X {b.pre_sequence, b.pre_sequence + 1} :
          g = EngineReceipt(ix.engine_program, TRUE, b.phase, b.intent_digest,
                            compute_execution_digest(b), c[1], c[2])
    BY DEF AcceptableReceipts
  <2>2. c[1] \in U64 /\ c[2] \in Nat
    BY <1>1, RoutedAssumption
  <2> QED BY <1>1, <2>1, <2>2 DEF EngineReceipt, Returns
<1>3. PICK g \in AcceptableReceipts(b) : r = g \/ r \in WithOneFault(g)
  BY DEF ForeignReceipts
<1>4. g \in Returns
  BY <1>2
<1>5. [g EXCEPT !.phase = IF @ = PHASE_COMMIT THEN PHASE_PREPARE ELSE PHASE_COMMIT] \in Returns
  BY <1>4 DEF Returns, EnginePhases
<1>6. /\ [g EXCEPT !.setter = HelperProgram] \in Returns
      /\ [g EXCEPT !.well_formed = FALSE] \in Returns
      /\ [g EXCEPT !.intent_digest = OtherHash] \in Returns
      /\ [g EXCEPT !.execution_digest = OtherHash] \in Returns
  BY <1>4, EngineAssumption DEF Returns
<1>7. \A v \in WithOneFault(g) : v \in Returns
  BY <1>5, <1>6 DEF WithOneFault
<1> QED BY <1>3, <1>4, <1>7

\* The acts and answers of an engine of unknown code keep the invariant.
LEMMA ForeignSound ==
  ASSUME BaseInv, foreign_engine
  PROVE  BaseInv'
<1>1. /\ phase \in {"primary", "commit"} /\ phase' = AfterEngine /\ phase \in Settling
      /\ UNCHANGED <<token, market, domain, fee_ledger, donated, settled, slot, signers,
                     used, saved, ix>>
  BY ForeignStep DEF Settling
<1>2. engine' \in EngineMaps
  BY <1>1, ForeignStep, SettlingFacts DEF Incremented
<1>3. ret' # None => ret' \in Returns
  <2>1. ret' \in ForeignReceipts(request_in_flight)
    BY DEF foreign_engine
  <2>2. request_in_flight \in Requests(Settlements) /\ ix.engine_program \in Programs
    BY <1>1, RequestsTyped, SettlingFacts DEF Executions
  <2> QED BY <2>1, <2>2, ForeignReturns
<1> QED BY <1>1, <1>2, <1>3, CallSound

(***************************************************************************)
(* The receipt and the settlement.                                         *)
(***************************************************************************)
\* A receipt that binds the first request has a digest of its kind.
LEMMA ReceiptTyped ==
  ASSUME NEW r \in Returns, r.well_formed, r.intent_digest \in IntentDigests,
         r.execution_digest \in PrimaryExecutions, r.state_sequence \in U64
  PROVE  compute_receipt_digest(r) \in PrimaryReceipts
<1> DEFINE S == [setter : Programs, well_formed : {TRUE}, phase : EnginePhases,
                 intent_digest : IntentDigests, execution_digest : PrimaryExecutions,
                 amount_out : U64, state_sequence : U64]
<1>1. r.well_formed = TRUE
  BY DEF Returns
<1>2. r = [setter |-> r.setter, well_formed |-> TRUE, phase |-> r.phase,
           intent_digest |-> r.intent_digest, execution_digest |-> r.execution_digest,
           amount_out |-> r.amount_out, state_sequence |-> r.state_sequence]
  BY <1>1 DEF Returns
<1>3. r.setter \in Programs /\ r.phase \in EnginePhases /\ r.amount_out \in U64
  BY DEF Returns
<1>4. r \in S
  BY <1>2, <1>3
<1> HIDE DEF S
<1>5. [receipt |-> r] \in [receipt : S]
  BY <1>4
<1> QED BY <1>5 DEF compute_receipt_digest, PrimaryReceipts, S

\* The sequence a first receipt may name is a word.
LEMMA SequenceTyped ==
  ASSUME NEW p, NEW expected \in U64, NEW actual, validate_primary_sequence(p, expected, actual)
  PROVE  actual \in U64
BY MathAssumption DEF validate_primary_sequence, AddFits, U64

\* What accept_primary stores, and what it has checked.
LEMMA AcceptFacts ==
  ASSUME BaseInv, accept_primary
  PROVE  /\ phase = "receipt" /\ phase' = "input" /\ ret \in Returns
         /\ ret.setter = ix.engine_program
         /\ ret.execution_digest = compute_execution_digest(primary_request(ix))
         /\ UNCHANGED <<token, market, domain, fee_ledger, engine, donated, settled, slot,
                        signers, used, saved, ret>>
         /\ ix' = [ix EXCEPT !.amount_out = ret.amount_out,
                             !.primary_sequence = ret.state_sequence,
                             !.primary_receipt = compute_receipt_digest(ret)]
         /\ ret.amount_out \in U64 /\ ret.state_sequence \in U64
         /\ compute_receipt_digest(ret) \in PrimaryReceipts
         /\ validate_amount_out(ret.amount_out, ix.args.min_output_credit, ix.accounted_b)
         /\ AddFits(ix.accounted_a, ix.args.amount_in)
         /\ AddFits(ix.accounted_fee_a, ix.protocol_fee)
<1>1. /\ phase = "receipt" /\ phase' = "input" /\ receipt_accepted(request_in_flight)
      /\ validate_primary_sequence(request_in_flight.phase, ix.args.expected_engine_sequence,
                                   ret.state_sequence)
      /\ validate_amount_out(ret.amount_out, ix.args.min_output_credit, ix.accounted_b)
      /\ AddFits(ix.accounted_a, ix.args.amount_in)
      /\ AddFits(ix.accounted_fee_a, ix.protocol_fee)
      /\ ix' = [ix EXCEPT !.amount_out = ret.amount_out,
                          !.primary_sequence = ret.state_sequence,
                          !.primary_receipt = compute_receipt_digest(ret)]
      /\ UNCHANGED <<token, market, domain, fee_ledger, engine, donated, settled, slot,
                     signers, used, saved, ret>>
  BY DEF accept_primary, chain
<1>2. phase \in Settling /\ request_in_flight = primary_request(ix)
  BY <1>1 DEF Settling, request_in_flight
<1>3. /\ ret # None /\ ret.setter = ix.engine_program /\ ret.well_formed
      /\ ret.intent_digest = primary_request(ix).intent_digest
      /\ ret.execution_digest = compute_execution_digest(primary_request(ix))
  BY <1>1, <1>2 DEF receipt_accepted, validate_receipt_binding
<1>4. ret \in Returns
  BY <1>1, <1>3 DEF BaseInv, HandedSound
<1>5. primary_request(ix) \in Requests({})
  BY <1>2, RequestsTyped
<1>6. /\ primary_request(ix).intent_digest \in IntentDigests
      /\ compute_execution_digest(primary_request(ix)) \in PrimaryExecutions
  BY <1>5 DEF Requests, compute_execution_digest, PrimaryExecutions
<1>7. ret.state_sequence \in U64
  <2>1. ix.args.expected_engine_sequence \in U64
    BY <1>2, SettlingFacts DEF ExecuteArgsType
  <2> QED BY <1>1, <2>1, SequenceTyped
<1>8. compute_receipt_digest(ret) \in PrimaryReceipts
  BY <1>3, <1>4, <1>6, <1>7, ReceiptTyped
<1>9. ret.amount_out \in U64
  BY <1>4 DEF Returns
<1> QED BY <1>1, <1>3, <1>4, <1>7, <1>8, <1>9

\* x and y are one execution, up to the answers of its engine and the settlement.
SameOrder(x, y) ==
  /\ y.market = x.market /\ y.domain = x.domain
  /\ y.fee_ledger = x.fee_ledger /\ y.vault_a = x.vault_a /\ y.vault_b = x.vault_b
  /\ y.fee_vault = x.fee_vault /\ y.source = x.source /\ y.destination = x.destination
  /\ y.engine_program = x.engine_program /\ y.engine_state = x.engine_state
  /\ y.args = x.args /\ y.opaque = x.opaque /\ y.intent_digest = x.intent_digest
  /\ y.authorized_capability_hash = x.authorized_capability_hash
  /\ y.protocol_fee = x.protocol_fee /\ y.total_input_debit = x.total_input_debit
  /\ y.accounted_a = x.accounted_a /\ y.accounted_b = x.accounted_b
  /\ y.accounted_fee_a = x.accounted_fee_a
  /\ y.source_before = x.source_before /\ y.destination_before = x.destination_before
  /\ y.vault_a_before = x.vault_a_before /\ y.vault_b_before = x.vault_b_before
  /\ y.fee_vault_before = x.fee_vault_before

\* What the invariant says of an execution does not depend on the rest.
LEMMA SameOrderKeeps ==
  ASSUME NEW x, NEW y, SameOrder(x, y), NEW t, NEW mk, NEW dm, NEW fl, NEW dn, NEW s, NEW n,
         NEW p, NEW paid, NEW fee, NEW out
  PROVE  /\ Flight(t, mk, dm, fl, dn, x, paid, fee, out) => Flight(t, mk, dm, fl, dn, y, paid, fee, out)
         /\ Intended(t, s, x) => Intended(t, s, y)
         /\ Agreed(t, mk, n, x) => Agreed(t, mk, n, y)
         /\ Allowed(t, p, x) => Allowed(t, p, y)
         /\ NoTokens(t, x) => NoTokens(t, y)
<1> USE DEF SameOrder
<1>1. Flight(t, mk, dm, fl, dn, x, paid, fee, out) => Flight(t, mk, dm, fl, dn, y, paid, fee, out)
  BY DEF Flight, Roles, Reads, Copies
<1>2. Intended(t, s, x) => Intended(t, s, y)
  BY DEF Intended
<1>3. Agreed(t, mk, n, x) => Agreed(t, mk, n, y)
  BY DEF Agreed
<1>4. Allowed(t, p, x) => Allowed(t, p, y)
  BY DEF Allowed, spend_authority
<1>5. NoTokens(t, x) => NoTokens(t, y)
  BY DEF NoTokens
<1> QED BY <1>1, <1>2, <1>3, <1>4, <1>5

\* The checks of accept_primary establish what the settlement relies on.
LEMMA AcceptSound ==
  ASSUME BaseInv, accept_primary
  PROVE  BaseInv' /\ SameOrder(ix, ix') /\ ix'.amount_out = ret.amount_out
         /\ ix' \in Executions /\ ix'.settlement = ix.settlement
<1>1. /\ phase = "receipt" /\ phase' = "input"
      /\ UNCHANGED <<token, market, domain, fee_ledger, engine, donated, settled, slot,
                     signers, used, saved, ret>>
      /\ ix' = [ix EXCEPT !.amount_out = ret.amount_out,
                          !.primary_sequence = ret.state_sequence,
                          !.primary_receipt = compute_receipt_digest(ret)]
      /\ ret.amount_out \in U64 /\ ret.state_sequence \in U64
      /\ compute_receipt_digest(ret) \in PrimaryReceipts
      /\ validate_amount_out(ret.amount_out, ix.args.min_output_credit, ix.accounted_b)
      /\ AddFits(ix.accounted_a, ix.args.amount_in)
      /\ AddFits(ix.accounted_fee_a, ix.protocol_fee)
  BY AcceptFacts
<1>2. phase \in Settling /\ phase' \in Settling /\ phase' \notin {"receipt", "commit_receipt"}
  BY <1>1 DEF Settling
<1>3. ix \in Executions
  BY <1>2, SettlingFacts
<1>4. SameOrder(ix, ix')
  BY <1>1, <1>3 DEF Executions, SameOrder
<1>5. /\ ix' \in Executions /\ ix'.amount_out = ret.amount_out /\ ix'.settlement = ix.settlement
      /\ ix'.primary_receipt = compute_receipt_digest(ret)
  BY <1>1, <1>3 DEF Executions
<1>6. RoutedTypeOK' /\ SavedSound' /\ BooksSound'
  <2>1. token' \in TokenStates /\ engine' \in EngineMaps /\ donated' \in DonatedStates
    BY <1>1, <1>2, SettlingFacts
  <2> QED BY <1>1, <1>2, <1>5, <2>1, FrameKept
<1>7. FlightSound'
  <2>1. Flight(token, market, domain, fee_ledger, donated, ix, 0, 0, 0)
    BY <1>1, <1>2, SettlingFacts, NothingPaid
  <2>2. Flight(token, market, domain, fee_ledger, donated, ix', 0, 0, 0)
    BY <1>4, <2>1, SameOrderKeeps
  <2> QED BY <1>1, <2>2, NothingPaid DEF FlightSound
<1>8. TermsSound'
  <2>1. Intended(token, settled, ix') /\ Agreed(token, market, slot, ix')
    BY <1>2, <1>4, SettlingFacts, SameOrderKeeps
  <2>2. Allowed(token, phase', ix')
    <3>1. Allowed(token, phase, ix)
      BY <1>2, SettlingFacts
    <3>2. PaymentsMade(phase') = PaymentsMade(phase)
      BY <1>1, NothingPaid
    <3>3. Allowed(token, phase', ix)
      BY <3>1, <3>2 DEF Allowed
    <3> QED BY <1>4, <3>3, SameOrderKeeps
  <2>3. Answered(ix')
    BY <1>1, <1>4, <1>5 DEF Answered, validate_amount_out, AddFits, SameOrder
  <2> QED BY <1>1, <2>1, <2>2, <2>3 DEF TermsSound
<1>9. HandedSound'
  <2>1. NoTokens(token, ix')
    BY <1>2, <1>4, SettlingFacts, SameOrderKeeps
  <2> QED BY <1>1, <1>2, <2>1 DEF HandedSound
<1>10. Approvals(token', settled')
  BY <1>1 DEF BaseInv
<1>11. BaseInv'
  BY <1>6, <1>7, <1>8, <1>9, <1>10 DEF BaseInv
<1> QED BY <1>4, <1>5, <1>11

\* What has been paid when each transfer is due.
LEMMA PaidSoFar ==
  ASSUME NEW x, NEW out
  PROVE  /\ InputMade("fee", x) = x.args.amount_in /\ FeeMade("fee", x) = 0
         /\ OutputMade("fee", out) = 0
         /\ InputMade("output", x) = x.args.amount_in /\ FeeMade("output", x) = x.protocol_fee
         /\ OutputMade("output", out) = 0
         /\ PaymentsMade("fee") = 1 /\ PaymentsMade("output") = 2
         /\ \A p \in {"settle", "commit", "commit_receipt", "finalize"} :
              /\ InputMade(p, x) = x.args.amount_in /\ FeeMade(p, x) = x.protocol_fee
              /\ OutputMade(p, out) = out /\ PaymentsMade(p) = 3
BY DEF InputMade, FeeMade, OutputMade, PaymentsMade

\* A transfer by the delegate uses up its allowance and, at the end, the delegation.
LEMMA AllowanceSpent ==
  ASSUME NEW t \in TokenStates, NEW from \in TokenAccounts, NEW to \in TokenAccounts, from # to,
         NEW amount \in U64, NEW authority, t[from] # None, t[from].delegate = authority,
         NEW r, r = Transferred(t, from, to, amount, authority)
  PROVE  /\ r[from].delegated_amount = t[from].delegated_amount - amount
         /\ r[from].delegate = IF t[from].delegated_amount = amount THEN None ELSE authority
<1> DEFINE rest == t[from].delegated_amount - amount
           left == IF t[from].delegated_amount = amount THEN None ELSE t[from].delegate
           after == SpendAllowance(t[from], amount)
<1>1. t[from] \in TokenAccount
  BY DEF TokenStates
<1>2. after = [t[from] EXCEPT !.delegated_amount = rest, !.delegate = left]
  BY <1>1 DEF SpendAllowance, TokenAccount
<1>3. /\ after.delegated_amount = rest /\ after.delegate = left
      /\ DOMAIN after = DOMAIN t[from]
  BY <1>1, <1>2 DEF TokenAccount
<1>4. r = [[t EXCEPT ![from] = after] EXCEPT ![from].amount = @ - amount, ![to].amount = @ + amount]
  BY DEF Transferred, ByDelegate
<1> HIDE DEF after, rest, left
<1>5. r[from] = [after EXCEPT !.amount = @ - amount]
  BY <1>4 DEF TokenStates
<1>6. r[from].delegated_amount = rest /\ r[from].delegate = left
  BY <1>1, <1>3, <1>5 DEF TokenAccount
<1> QED BY <1>6 DEF rest, left

\* Terms that a transfer keeps: it gives no account another owner or mint.
LEMMA TermsKept ==
  ASSUME NEW t, NEW r, NEW mk, NEW s, NEW n, NEW x, Kept(t, r), x.source \in TokenAccounts,
         Intended(t, s, x), Agreed(t, mk, n, x)
  PROVE  Intended(r, s, x) /\ Agreed(r, mk, n, x)
BY DEF Intended, Agreed, Kept

\* A transfer creates no account.
LEMMA NoTokensKept ==
  ASSUME NEW t, NEW r, NEW x, Kept(t, r), NoTokens(t, x)
  PROVE  NoTokens(r, x)
BY DEF NoTokens, Kept

\* A transfer of the settlement that leaves the payments and the allowance of its next
\* phase keeps the invariant.
LEMMA PaymentSound ==
  ASSUME BaseInv, phase \in Accepted, phase' \in Accepted \ {"commit_receipt"},
         UNCHANGED <<market, domain, fee_ledger, engine, settled, slot, signers, used, saved, ix>>,
         Kept(token, token'), Allowed(token', phase', ix),
         Flight(token', market, domain, fee_ledger, donated', ix, InputMade(phase', ix),
                FeeMade(phase', ix), OutputMade(phase', ix.amount_out))
  PROVE  BaseInv'
<1>1. phase \in Settling /\ phase' \in Settling /\ phase' \notin {"receipt", "commit_receipt"}
  BY DEF Settling, Accepted
<1>2. token' \in TokenStates /\ donated' \in DonatedStates
  BY DEF Flight
<1>3. RoutedTypeOK' /\ SavedSound' /\ BooksSound'
  BY <1>1, <1>2, FrameKept, SettlingFacts
<1>4. FlightSound'
  BY <1>1 DEF FlightSound
<1>5. TermsSound'
  <2>1. ix.source \in TokenAccounts /\ Intended(token, settled, ix) /\ Agreed(token, market, slot, ix)
    BY <1>1, SettlingFacts
  <2>2. Intended(token', settled, ix) /\ Agreed(token', market, slot, ix)
    BY <2>1, TermsKept
  <2> QED BY <2>2 DEF BaseInv, TermsSound
<1>6. HandedSound'
  BY <1>1, NoTokensKept, SettlingFacts DEF HandedSound
<1>7. Approvals(token', settled')
  BY ApprovalsKept DEF BaseInv
<1> QED BY <1>3, <1>4, <1>5, <1>6, <1>7 DEF BaseInv

\* The fee of an execution is not zero, so the input leaves some of the allowance.
LEMMA FeePositive ==
  ASSUME BaseInv, phase \in Settling
  PROVE  ix.protocol_fee \in Nat \ {0}
<1>1. /\ ix.args.amount_in \in Nat \ {0} /\ ix.protocol_fee \in Nat
      /\ ix.protocol_fee = fee_ceil(ix.args.amount_in, ProtocolFeeBps)
  BY SettlingFacts, MathAssumption DEF Agreed, U64
<1>2. ix.protocol_fee * BasisPoints >= ix.args.amount_in * ProtocolFeeBps
  BY <1>1, FeeIsLeast DEF IsLeastFee
<1>3. ix.args.amount_in * ProtocolFeeBps >= 1
  BY <1>1, MathAssumption
<1>4. ix.protocol_fee # 0
  <2>1. 0 * BasisPoints = 0 /\ ix.args.amount_in * ProtocolFeeBps \in Int
    BY <1>1, MathAssumption
  <2>2. ~(0 >= ix.args.amount_in * ProtocolFeeBps)
    BY <1>3, <2>1
  <2> QED BY <1>2, <2>1, <2>2
<1> QED BY <1>1, <1>4

\* What the two payments of the user's do.
LEMMA InputFeeSteps ==
  ASSUME BaseInv, transfer_input \/ transfer_fee
  PROVE  /\ BaseInv' /\ UNCHANGED <<market, domain, fee_ledger, engine, donated, settled, slot,
                                    signers, used, saved, ix>>
         /\ phase \in {"input", "fee"} /\ phase' \in {"fee", "output"}
         /\ Kept(token, token') /\ token' \in TokenStates
         /\ Flight(token', market, domain, fee_ledger, donated, ix, InputMade(phase', ix),
                   FeeMade(phase', ix), OutputMade(phase', ix.amount_out))
         /\ \A a \in TokenAccounts : a \notin {ix.source, ix.vault_a, ix.fee_vault} => token'[a] = token[a]
<1> DEFINE n == ix.args.amount_in
           g == ix.protocol_fee
           k == spend_authority(ix)
           Others == \A a \in TokenAccounts :
                       a \notin {ix.source, ix.vault_a, ix.fee_vault} => token'[a] = token[a]
<1>1. /\ UNCHANGED <<market, domain, fee_ledger, engine, donated, settled, slot, signers, used,
                     saved, ix>>
      /\ phase \in {"input", "fee"} /\ phase' \in {"fee", "output"}
      /\ phase \in Accepted /\ phase' \in Accepted \ {"commit_receipt"} /\ phase \in Settling
  BY DEF transfer_input, transfer_fee, Settle, Accepted, Settling
<1>2. /\ n \in U64 /\ g \in U64 /\ n \in Int /\ g \in Int /\ g # 0 /\ k # None
      /\ token \in TokenStates /\ Allowed(token, phase, ix) /\ ix.source \in TokenAccounts
  BY <1>1, SettlingFacts, FeePositive, MathAssumption DEF U64
<1>3. /\ ix.vault_a \in TokenAccounts /\ ix.fee_vault \in TokenAccounts
      /\ ix.source # ix.vault_a /\ ix.source # ix.fee_vault /\ token[ix.source] # None
  <2>1. Flight(token, market, domain, fee_ledger, donated, ix, InputMade(phase, ix),
               FeeMade(phase, ix), OutputMade(phase, ix.amount_out))
    BY <1>1, SettlingFacts
  <2> QED BY <2>1, FlightKeys DEF Flight, Roles
<1>4. /\ Kept(token, token') /\ Others /\ Allowed(token', phase', ix)
      /\ Flight(token', market, domain, fee_ledger, donated, ix, InputMade(phase', ix),
                FeeMade(phase', ix), OutputMade(phase', ix.amount_out))
  <2>1. CASE transfer_input
    <3>1. /\ phase = "input" /\ phase' = "fee"
          /\ CanTransfer(token, ix.source, ix.vault_a, market[ix.market].mint_a, n, k)
          /\ token' = Transferred(token, ix.source, ix.vault_a, n, k)
      BY <2>1 DEF transfer_input, Settle
    <3>2. Flight(token, market, domain, fee_ledger, donated, ix, 0, 0, 0)
      BY <1>1, <3>1, SettlingFacts, NothingPaid
    <3>3. PaymentOf(token, token', ix.source, ix.vault_a, market[ix.market].mint_a, n, k)
      BY <1>2, <3>1 DEF PaymentOf
    <3>4. /\ Kept(token, token') /\ Moved(token, token', ix.source, ix.vault_a, n)
          /\ Flight(token', market, domain, fee_ledger, donated, ix, 0 + n, 0, 0)
      <4> HIDE DEF n, g, k, Others
      <4>1. ix.vault_a \in {ix.vault_a, ix.fee_vault}
        OBVIOUS
      <4>2. Kept(token, token') /\ Moved(token, token', ix.source, ix.vault_a, n)
        BY <3>2, <3>3, <4>1, FlightPays
      <4>3. Flight(token', market, domain, fee_ledger, donated, ix, 0 + n, 0, 0)
        BY <3>2, <3>3, <4>1, FlightPays
      <4> QED BY <4>2, <4>3
    <3>5. 0 + n = n
      BY <1>2
    <3>6. Others
      BY <3>4 DEF Moved
    <3>7. Flight(token', market, domain, fee_ledger, donated, ix, InputMade(phase', ix),
                 FeeMade(phase', ix), OutputMade(phase', ix.amount_out))
      <4> HIDE DEF Others, k
      <4> QED BY <3>1, <3>4, <3>5, PaidSoFar
    <3>8. token[ix.source].delegate = k /\ token[ix.source].delegated_amount = n + g
      BY <1>2, <3>1, NothingPaid DEF Allowed
    <3>9. /\ token'[ix.source].delegated_amount = token[ix.source].delegated_amount - n
          /\ token'[ix.source].delegate =
               IF token[ix.source].delegated_amount = n THEN None ELSE k
      <4> HIDE DEF n, g, k, Others
      <4> QED BY <1>2, <1>3, <3>1, <3>8, AllowanceSpent
    <3>10. (n + g) - n = g /\ n + g # n
      BY <1>2
    <3>11. token'[ix.source].delegated_amount = g /\ token'[ix.source].delegate = k
      BY <3>8, <3>9, <3>10
    <3>12. Allowed(token', phase', ix)
      BY <3>1, <3>11, PaidSoFar DEF Allowed
    <3> QED BY <3>4, <3>6, <3>7, <3>12
  <2>2. CASE transfer_fee
    <3>1. /\ phase = "fee" /\ phase' = "output"
          /\ CanTransfer(token, ix.source, ix.fee_vault, market[ix.market].mint_a, g, k)
          /\ token' = Transferred(token, ix.source, ix.fee_vault, g, k)
      BY <2>2 DEF transfer_fee, Settle
    <3>2. Flight(token, market, domain, fee_ledger, donated, ix, n, 0, 0)
      BY <1>1, <3>1, SettlingFacts, PaidSoFar
    <3>3. PaymentOf(token, token', ix.source, ix.fee_vault, market[ix.market].mint_a, g, k)
      BY <1>2, <3>1 DEF PaymentOf
    <3>4. /\ Kept(token, token') /\ Moved(token, token', ix.source, ix.fee_vault, g)
          /\ Flight(token', market, domain, fee_ledger, donated, ix, n, 0 + g, 0)
      <4> HIDE DEF n, g, k, Others
      <4>1. ix.fee_vault \in {ix.vault_a, ix.fee_vault}
        OBVIOUS
      <4>2. Kept(token, token') /\ Moved(token, token', ix.source, ix.fee_vault, g)
        BY <3>2, <3>3, <4>1, FlightPays
      <4>3. Flight(token', market, domain, fee_ledger, donated, ix, n, 0 + g, 0)
        BY <3>2, <3>3, <4>1, FlightPays
      <4> QED BY <4>2, <4>3
    <3>5. 0 + g = g
      BY <1>2
    <3>6. Others
      BY <3>4 DEF Moved
    <3>7. Flight(token', market, domain, fee_ledger, donated, ix, InputMade(phase', ix),
                 FeeMade(phase', ix), OutputMade(phase', ix.amount_out))
      <4> HIDE DEF Others, k
      <4> QED BY <3>1, <3>4, <3>5, PaidSoFar
    <3>8. token[ix.source].delegate = k /\ token[ix.source].delegated_amount = g
      BY <1>2, <3>1, PaidSoFar DEF Allowed
    <3>9. /\ token'[ix.source].delegated_amount = token[ix.source].delegated_amount - g
          /\ token'[ix.source].delegate =
               IF token[ix.source].delegated_amount = g THEN None ELSE k
      <4> HIDE DEF n, g, k, Others
      <4> QED BY <1>2, <1>3, <3>1, <3>8, AllowanceSpent
    <3>10. token'[ix.source].delegated_amount = 0 /\ token'[ix.source].delegate = None
      BY <1>2, <3>8, <3>9
    <3>11. Allowed(token', phase', ix)
      BY <3>1, <3>10, PaidSoFar DEF Allowed
    <3> QED BY <3>4, <3>6, <3>7, <3>11
  <2> QED BY <2>1, <2>2
<1>5. BaseInv'
  BY <1>1, <1>4, PaymentSound
<1>6. token' \in TokenStates
  BY <1>4 DEF Flight
<1> QED BY <1>1, <1>4, <1>5, <1>6

\* What the payment of the output does.
LEMMA OutputStep ==
  ASSUME BaseInv, transfer_output
  PROVE  /\ BaseInv' /\ UNCHANGED <<market, domain, fee_ledger, engine, settled, slot,
                                    signers, used, saved, ix>>
         /\ phase = "output" /\ phase' = "settle"
         /\ Kept(token, token') /\ token' \in TokenStates
         /\ Moved(token, token', ix.vault_b, ix.destination, ix.amount_out)
<1> DEFINE n == ix.args.amount_in
           g == ix.protocol_fee
           o == ix.amount_out
<1>1. /\ UNCHANGED <<market, domain, fee_ledger, engine, settled, slot, signers, used, saved, ix>>
      /\ phase = "output" /\ phase' = "settle"
      /\ CanTransfer(token, ix.vault_b, ix.destination, market[ix.market].mint_b, o, ix.domain)
      /\ token' = Transferred(token, ix.vault_b, ix.destination, o, ix.domain)
      /\ donated' = DonatedBy(ix.destination, o)
  BY DEF transfer_output, Settle
<1>2. phase \in Settling /\ phase \in Accepted /\ phase' \in Accepted \ {"commit_receipt"}
  BY <1>1 DEF Settling, Accepted
<1>3. /\ o \in U64 /\ ix.domain # None /\ donated \in DonatedStates /\ token \in TokenStates
      /\ ix.source \in TokenAccounts /\ Allowed(token, phase, ix)
  BY <1>2, SettlingFacts
<1>4. Flight(token, market, domain, fee_ledger, donated, ix, n, g, 0)
  BY <1>1, <1>2, SettlingFacts, PaidSoFar
<1>5. /\ ix.destination \in TokenAccounts /\ ix.vault_b \in TokenAccounts
      /\ ix.destination \notin {ix.source, ix.vault_a, ix.vault_b, ix.fee_vault}
      /\ ix.source # ix.vault_b
      /\ ix.vault_a \in CoreVaults /\ ix.vault_b \in CoreVaults /\ ix.fee_vault \in CoreVaults
  BY <1>4, FlightKeys DEF Flight, Roles
<1>6. donated' \in DonatedStates /\ OnlyDonations(token, donated, token', donated', ix.vault_b)
  BY <1>1, <1>3, <1>5, DonationRecorded
<1>7. \A v \in {ix.vault_a, ix.vault_b, ix.fee_vault} : donated'[v] = donated[v]
  BY <1>1, <1>3, <1>5 DEF DonatedBy, DonatedStates
<1>8. /\ Kept(token, token') /\ Moved(token, token', ix.vault_b, ix.destination, o)
      /\ Flight(token', market, domain, fee_ledger, donated', ix, n, g, o)
  <2>1. PaymentOf(token, token', ix.vault_b, ix.destination, market[ix.market].mint_b, o, ix.domain)
    BY <1>1, <1>3 DEF PaymentOf
  <2>2. Donates(token, donated, token', donated', ix)
    BY <1>6, <1>7 DEF Donates
  <2> QED BY <1>4, <2>1, <2>2, FlightOutputs
<1>9. Allowed(token', phase', ix)
  <2>1. token'[ix.source] = token[ix.source]
    BY <1>3, <1>5, <1>8 DEF Moved
  <2> QED BY <1>1, <1>3, <2>1, PaidSoFar DEF Allowed
<1>10. BaseInv'
  BY <1>1, <1>2, <1>8, <1>9, PaidSoFar, PaymentSound
<1>11. token' \in TokenStates
  BY <1>8 DEF Flight
<1> QED BY <1>1, <1>8, <1>10, <1>11

\* What the invariant says while the settlement is complete and not yet accounted for.
LEMMA PaidInFull ==
  ASSUME BaseInv, phase \in {"settle", "commit", "commit_receipt", "finalize"}
  PROVE  /\ Flight(token, market, domain, fee_ledger, donated, ix, ix.args.amount_in,
                   ix.protocol_fee, ix.amount_out)
         /\ Intended(token, settled, ix) /\ Agreed(token, market, slot, ix) /\ Answered(ix)
         /\ token[ix.source].delegate = None /\ token[ix.source].delegated_amount = 0
<1>1. phase \in Settling /\ phase \in Accepted
  BY DEF Settling, Accepted
<1>2. Flight(token, market, domain, fee_ledger, donated, ix, ix.args.amount_in,
             ix.protocol_fee, ix.amount_out)
  BY <1>1, PaidSoFar, SettlingFacts
<1>3. Allowed(token, phase, ix) /\ PaymentsMade(phase) = 3
  BY <1>1, PaidSoFar, SettlingFacts
<1>4. token[ix.source].delegate = None /\ token[ix.source].delegated_amount = 0
  BY <1>3 DEF Allowed
<1> QED BY <1>1, <1>2, <1>4, SettlingFacts DEF BaseInv, TermsSound

\* The accounting that a settlement leads to fits its words.
LEMMA AccountingFits ==
  ASSUME BaseInv, phase \in {"settle", "finalize"}
  PROVE  /\ post_accounted_a(ix) \in U64 /\ post_accounted_b(ix) \in U64
         /\ post_accounted_fee_a(ix) \in U64
<1> DEFINE n == ix.args.amount_in
           g == ix.protocol_fee
           o == ix.amount_out
<1>1. /\ n \in U64 /\ g \in U64 /\ o \in U64 /\ ix.accounted_a \in U64 /\ ix.accounted_b \in U64
      /\ ix.accounted_fee_a \in U64
  BY SettlingFacts DEF Settling
<1>2. /\ ix.accounted_a + n <= U64Max /\ ix.accounted_fee_a + g <= U64Max /\ o <= ix.accounted_b
  BY PaidInFull DEF Answered
<1>3. /\ ix.accounted_a + n \in U64 /\ ix.accounted_b - o \in U64 /\ ix.accounted_fee_a + g \in U64
  <2> HIDE DEF n, g, o
  <2> QED BY <1>1, <1>2, MathAssumption DEF U64
<1> QED BY <1>3 DEF post_accounted_a, post_accounted_b, post_accounted_fee_a

\* The balances of the five accounts are words.
LEMMA BalancesTyped ==
  ASSUME BaseInv, phase \in Settling
  PROVE  \A a \in {ix.source, ix.destination, ix.vault_a, ix.vault_b, ix.fee_vault} :
           token[a].amount \in U64
<1>1. /\ token \in TokenStates
      /\ Flight(token, market, domain, fee_ledger, donated, ix, InputMade(phase, ix),
                FeeMade(phase, ix), OutputMade(phase, ix.amount_out))
  BY SettlingFacts
<1>2. \A a \in {ix.source, ix.destination, ix.vault_a, ix.vault_b, ix.fee_vault} :
        a \in TokenAccounts /\ token[a] # None
  BY <1>1, FlightKeys DEF Flight, Roles
<1>3. \A a \in TokenAccounts : token[a] # None => token[a].amount \in U64
  BY <1>1 DEF TokenStates, TokenAccount
<1> QED BY <1>2, <1>3

\* The digest that binds COMMIT to the settlement is one of its kind.
LEMMA SettlementTyped ==
  ASSUME BaseInv, phase = "settle"
  PROVE  compute_settlement_digest(SettlementBinding) \in Settlements
<1> DEFINE digest == compute_execution_digest(primary_request(ix))
           before == <<ix.accounted_a, ix.accounted_b, ix.accounted_fee_a>>
           after == <<post_accounted_a(ix), post_accounted_b(ix), post_accounted_fee_a(ix)>>
           seen == <<token[ix.source].amount, token[ix.destination].amount,
                     token[ix.vault_a].amount, token[ix.vault_b].amount,
                     token[ix.fee_vault].amount>>
           S == [intent_digest : IntentDigests, primary_execution_digest : PrimaryExecutions,
                 primary_receipt_digest : PrimaryReceipts, amount_in : U64, amount_out : U64,
                 protocol_fee : U64, total_input_debit : U64,
                 accounted_before : U64 \X U64 \X U64, accounted_after : U64 \X U64 \X U64,
                 observed_after : U64 \X U64 \X U64 \X U64 \X U64]
<1>1. phase \in Settling
  BY DEF Settling
<1>2. digest \in PrimaryExecutions
  BY <1>1, RequestsTyped DEF compute_execution_digest, PrimaryExecutions
<1>3. /\ ix.intent_digest \in IntentDigests /\ ix.amount_out \in U64 /\ ix.protocol_fee \in U64
      /\ ix.total_input_debit \in U64 /\ ix.args.amount_in \in U64
      /\ ix.accounted_a \in U64 /\ ix.accounted_b \in U64 /\ ix.accounted_fee_a \in U64
  BY <1>1, SettlingFacts DEF Executions
<1>4. ix.primary_receipt \in PrimaryReceipts
  BY PaidInFull DEF Answered
<1>5. before \in U64 \X U64 \X U64
  BY <1>3
<1>6. after \in U64 \X U64 \X U64
  BY AccountingFits
<1>7. seen \in U64 \X U64 \X U64 \X U64 \X U64
  BY <1>1, BalancesTyped
<1>8. SettlementBinding =
        [intent_digest |-> ix.intent_digest, primary_execution_digest |-> digest,
         primary_receipt_digest |-> ix.primary_receipt, amount_in |-> ix.args.amount_in,
         amount_out |-> ix.amount_out, protocol_fee |-> ix.protocol_fee,
         total_input_debit |-> ix.total_input_debit, accounted_before |-> before,
         accounted_after |-> after, observed_after |-> seen]
  BY DEF SettlementBinding
<1> HIDE DEF digest, before, after, seen
<1>9. SettlementBinding \in S
  BY <1>2, <1>3, <1>4, <1>5, <1>6, <1>7, <1>8
<1> HIDE DEF S
<1>10. [settlement |-> SettlementBinding] \in [settlement : S]
  BY <1>9
<1> QED BY <1>10 DEF compute_settlement_digest, Settlements, S

\* What settle does.
LEMMA SettleSound ==
  ASSUME BaseInv, settle
  PROVE  /\ BaseInv' /\ SameOrder(ix, ix') /\ phase = "settle" /\ phase' \in {"commit", "finalize"}
         /\ (phase' = "commit") <=> (ix.args.timing_mode = TIMING_PREPARE_COMMIT)
         /\ ix'.amount_out = ix.amount_out /\ ix'.primary_sequence = ix.primary_sequence
         /\ ret' = None
         /\ UNCHANGED <<token, market, domain, fee_ledger, engine, donated, settled, slot,
                        signers, used, saved>>
<1>1. /\ phase = "settle" /\ phase' \in {"commit", "finalize"} /\ ret' = None
      /\ (phase' = "commit") <=> (ix.args.timing_mode = TIMING_PREPARE_COMMIT)
      /\ ix' = [ix EXCEPT !.settlement = compute_settlement_digest(SettlementBinding)]
      /\ UNCHANGED <<token, market, domain, fee_ledger, engine, donated, settled, slot,
                     signers, used, saved>>
  BY DEF settle, chain
<1>2. /\ phase \in Settling /\ phase' \in Settling /\ phase' \notin {"receipt", "commit_receipt"}
      /\ phase \in {"settle", "commit", "commit_receipt", "finalize"}
      /\ phase' \in {"settle", "commit", "commit_receipt", "finalize"}
  BY <1>1 DEF Settling
<1>3. ix \in Executions /\ compute_settlement_digest(SettlementBinding) \in Settlements
  BY <1>1, <1>2, SettlingFacts, SettlementTyped
<1>4. SameOrder(ix, ix')
  BY <1>1, <1>3 DEF Executions, SameOrder
<1>5. /\ ix' \in Executions /\ ix'.amount_out = ix.amount_out
      /\ ix'.primary_sequence = ix.primary_sequence /\ ix'.primary_receipt = ix.primary_receipt
  BY <1>1, <1>3 DEF Executions
<1>6. RoutedTypeOK' /\ SavedSound' /\ BooksSound'
  <2>1. token' \in TokenStates /\ engine' \in EngineMaps /\ donated' \in DonatedStates
    BY <1>1, <1>2, SettlingFacts
  <2> QED BY <1>1, <1>2, <1>5, <2>1, FrameKept
<1>7. FlightSound'
  <2>1. Flight(token, market, domain, fee_ledger, donated, ix, ix.args.amount_in,
               ix.protocol_fee, ix.amount_out)
    BY <1>2, PaidInFull
  <2>2. Flight(token, market, domain, fee_ledger, donated, ix', ix.args.amount_in,
               ix.protocol_fee, ix.amount_out)
    BY <1>4, <2>1, SameOrderKeeps
  <2>3. ix'.args.amount_in = ix.args.amount_in /\ ix'.protocol_fee = ix.protocol_fee
    BY <1>4 DEF SameOrder
  <2>4. /\ InputMade(phase', ix') = ix.args.amount_in /\ FeeMade(phase', ix') = ix.protocol_fee
        /\ OutputMade(phase', ix'.amount_out) = ix.amount_out
    BY <1>2, <1>5, <2>3, PaidSoFar
  <2> QED BY <1>1, <2>2, <2>4 DEF FlightSound
<1>8. TermsSound'
  <2>1. Intended(token, settled, ix') /\ Agreed(token, market, slot, ix')
    BY <1>2, <1>4, SettlingFacts, SameOrderKeeps
  <2>2. Allowed(token, phase', ix')
    <3>1. PaymentsMade(phase') = 3
      BY <1>2, PaidSoFar
    <3>2. token[ix'.source].delegate = None /\ token[ix'.source].delegated_amount = 0
      BY <1>2, <1>4, PaidInFull DEF SameOrder
    <3> QED BY <3>1, <3>2 DEF Allowed
  <2>3. Answered(ix')
    BY <1>2, <1>4, <1>5, PaidInFull DEF Answered, SameOrder
  <2> QED BY <1>1, <2>1, <2>2, <2>3 DEF TermsSound
<1>9. HandedSound'
  <2>1. NoTokens(token, ix')
    BY <1>2, <1>4, SettlingFacts, SameOrderKeeps
  <2> QED BY <1>1, <1>2, <2>1 DEF HandedSound
<1>10. Approvals(token', settled')
  BY <1>1 DEF BaseInv
<1>11. BaseInv'
  BY <1>6, <1>7, <1>8, <1>9, <1>10 DEF BaseInv
<1> QED BY <1>1, <1>4, <1>5, <1>11

\* accept_commit changes nothing but the phase.
LEMMA AcceptCommitSound ==
  ASSUME BaseInv, accept_commit
  PROVE  BaseInv'
<1>1. /\ phase = "commit_receipt" /\ phase' = "finalize"
      /\ UNCHANGED <<token, market, domain, fee_ledger, engine, donated, settled, slot,
                     signers, used, saved, ix, ret>>
  BY DEF accept_commit, chain
<1>2. /\ phase \in Settling /\ phase' \in Settling /\ phase \in Accepted /\ phase' \in Accepted
      /\ phase' \notin {"receipt", "commit_receipt"}
  BY <1>1 DEF Settling, Accepted
<1>3. RoutedTypeOK' /\ SavedSound' /\ BooksSound'
  BY <1>1, <1>2, FrameKept, SettlingFacts
<1>4. PaymentsMade(phase') = PaymentsMade(phase)
  BY <1>1, PaidSoFar
<1>5. FlightSound'
  BY <1>1, <1>2, <1>4 DEF BaseInv, FlightSound, InputMade, FeeMade, OutputMade
<1>6. TermsSound'
  BY <1>1, <1>2, <1>4 DEF BaseInv, TermsSound, Allowed, spend_authority
<1>7. HandedSound'
  BY <1>1, <1>2 DEF BaseInv, HandedSound
<1> QED BY <1>1, <1>3, <1>5, <1>6, <1>7 DEF BaseInv

\* What finalize writes.
LEMMA FinalizeWrites ==
  ASSUME BaseInv, finalize
  PROVE  /\ phase = "finalize" /\ phase' = "open" /\ ix' = None
         /\ UNCHANGED <<token, market, engine, donated, slot, signers, used, saved>>
         /\ Written(domain, fee_ledger, domain', fee_ledger', ix, ix.args.amount_in,
                    ix.protocol_fee, ix.amount_out)
<1>1. /\ phase = "finalize" /\ phase' = "open" /\ ix' = None
      /\ UNCHANGED <<token, market, engine, donated, slot, signers, used, saved>>
      /\ domain' = [domain EXCEPT ![ix.domain].accounted_a = post_accounted_a(ix),
                                  ![ix.domain].accounted_b = post_accounted_b(ix)]
      /\ fee_ledger' = [fee_ledger EXCEPT ![ix.fee_ledger].accounted_fee_a = post_accounted_fee_a(ix)]
  BY DEF finalize
<1>2. /\ post_accounted_a(ix) \in U64 /\ post_accounted_b(ix) \in U64
      /\ post_accounted_fee_a(ix) \in U64
  BY <1>1, AccountingFits
<1> QED BY <1>1, <1>2 DEF Written, post_accounted_a, post_accounted_b, post_accounted_fee_a

\* What finalize records of the settlement.
LEMMA FinalizeRecords ==
  ASSUME BaseInv, finalize
  PROVE  /\ settled' \in SettledStates
         /\ settled'.engines[ix.engine_state].count = settled.engines[ix.engine_state].count + 1
         /\ settled'.engines[ix.engine_state].execution = compute_execution_digest(MutatingRequest)
         /\ settled'.engines[ix.engine_state].amount_out = ix.amount_out
         /\ \A es \in EngineStates :
              es # ix.engine_state => settled'.engines[es] = settled.engines[es]
         /\ \A h \in EngineStates :
              settled'.helped[h] = settled.helped[h] + (IF HelpedBy(h) THEN 1 ELSE 0)
         /\ \A a \in TokenAccounts :
              settled'.pending[a] = IF a = ix.source THEN None ELSE settled.pending[a]
<1> DEFINE k == ix.engine_state
           a0 == ix.source
           hash == compute_execution_digest(MutatingRequest)
           o == ix.amount_out
           rec == [count |-> settled.engines[k].count + 1, execution |-> hash, amount_out |-> o]
           help == [h \in EngineStates |-> settled.helped[h] + IF HelpedBy(h) THEN 1 ELSE 0]
           D == ExecutionDigests \cup {None}
<1>1. phase \in Settling
  BY DEF finalize, Settling
<1>2. /\ settled \in SettledStates /\ k \in EngineStates /\ o \in U64 /\ a0 \in TokenAccounts
      /\ hash \in D
  <2>1. MutatingRequest \in Requests(Settlements)
    <3>1. primary_request(ix) \in Requests({}) /\ commit_request(ix) \in Requests(Settlements)
      BY <1>1, RequestsTyped
    <3>2. primary_request(ix) \in Requests(Settlements)
      BY <3>1 DEF Requests
    <3> QED BY <3>1, <3>2 DEF MutatingRequest
  <2>2. hash \in ExecutionDigests
    BY <2>1 DEF compute_execution_digest, ExecutionDigests
  <2> QED BY <1>1, <2>2, SettlingFacts
<1>3. /\ settled.engines \in [EngineStates -> [count : Nat, execution : D, amount_out : U64]]
      /\ settled.helped \in [EngineStates -> Nat]
      /\ settled.pending \in [TokenAccounts -> Intents \cup {None}]
      /\ settled = [engines |-> settled.engines, helped |-> settled.helped,
                    pending |-> settled.pending]
  BY <1>2 DEF SettledStates
<1>4. settled' = [settled EXCEPT
       !.engines[k] = [count |-> @.count + 1, execution |-> hash, amount_out |-> o],
       !.helped = [h \in EngineStates |-> @[h] + IF HelpedBy(h) THEN 1 ELSE 0],
       !.pending[a0] = None]
  BY DEF finalize
<1> HIDE DEF hash, o, D
<1>5. settled' = [engines |-> [settled.engines EXCEPT ![k] = rec], helped |-> help,
                  pending |-> [settled.pending EXCEPT ![a0] = None]]
  BY <1>3, <1>4
<1>6. rec \in [count : Nat, execution : D, amount_out : U64]
      /\ rec.count = settled.engines[k].count + 1 /\ rec.execution = hash /\ rec.amount_out = o
  BY <1>2, <1>3
<1>7. help \in [EngineStates -> Nat]
      /\ \A h \in EngineStates : help[h] = settled.helped[h] + (IF HelpedBy(h) THEN 1 ELSE 0)
  BY <1>3
<1> HIDE DEF rec, help
<1>8. settled' \in SettledStates
  BY <1>2, <1>3, <1>5, <1>6, <1>7 DEF SettledStates, D
<1>9. settled'.engines = [settled.engines EXCEPT ![k] = rec] /\ settled'.helped = help
      /\ settled'.pending = [settled.pending EXCEPT ![a0] = None]
  BY <1>5
<1>10. settled'.engines[k] = rec
       /\ \A es \in EngineStates : es # k => settled'.engines[es] = settled.engines[es]
  BY <1>2, <1>3, <1>9
<1>11. \A a \in TokenAccounts :
         settled'.pending[a] = IF a = a0 THEN None ELSE settled.pending[a]
  BY <1>2, <1>3, <1>9
<1> QED BY <1>6, <1>7, <1>8, <1>9, <1>10, <1>11 DEF hash, o

\* Writing the accounting ends the execution with sound accounts, and its intent is spent.
LEMMA FinalizeSound ==
  ASSUME BaseInv, finalize
  PROVE  BaseInv'
<1>1. /\ phase = "finalize" /\ phase' = "open" /\ ix' = None
      /\ UNCHANGED <<token, market, engine, donated, slot, signers, used, saved>>
      /\ Written(domain, fee_ledger, domain', fee_ledger', ix, ix.args.amount_in,
                 ix.protocol_fee, ix.amount_out)
  BY FinalizeWrites
<1>2. /\ domain' \in DomainStates /\ fee_ledger' \in FeeLedgerStates
      /\ Canonical(token, market, domain', fee_ledger', donated)
      /\ Backed(token, market, domain', fee_ledger', donated, None, 0, 0, 0)
  BY <1>1, PaidInFull, FlightCloses
<1>3. phase \in Settling /\ phase' \notin Settling /\ phase' \notin Accepted
      /\ phase' \notin {"receipt", "commit_receipt"} /\ phase # "idle" /\ phase' # "idle"
  BY <1>1 DEF Settling, Accepted
<1>4. Snapshot' \in Chains
  BY <1>1, <1>2, <1>3, SettlingFacts, FinalizeRecords DEF Snapshot, Chains
<1>5. RoutedTypeOK'
  BY <1>1, <1>3, <1>4 DEF BaseInv, RoutedTypeOK
<1>6. SavedSound'
  BY <1>1, <1>3 DEF BaseInv, SavedSound
<1>7. Approvals(token', settled')
  <2>1. token[ix.source].delegate = None
    BY <1>1, PaidInFull
  <2>2. \A a \in UserAccounts : a \in TokenAccounts
    BY DEF TokenAccounts
  <2>3. \A a \in UserAccounts : a # ix.source => settled'.pending[a] = settled.pending[a]
    BY <2>2, FinalizeRecords
  <2>4. \A a \in UserAccounts, i \in Intents : SpendOf(a, i) # None
    BY <2>2, SpendFacts
  <2> QED BY <1>1, <2>1, <2>3, <2>4 DEF BaseInv, Approvals
<1> QED BY <1>1, <1>2, <1>3, <1>5, <1>6, <1>7 DEF BaseInv, BooksSound, FlightSound, TermsSound,
           HandedSound

(***************************************************************************)
(* The invariant holds, and what it shows.                                 *)
(***************************************************************************)
\* Every step keeps the invariant.
LEMMA StepSound ==
  ASSUME BaseInv, [Next]_vars
  PROVE  BaseInv'
<1>1. CASE Frame
  BY <1>1, BeginSound, CommitSound, AbortSound, SlotSound, SharedSound, ApproveSound DEF Frame
<1>2. CASE Setup
  BY <1>2, SharedSound, EngineSound DEF Setup, initialize_market_domain, deposit
<1>3. CASE authorize_spend_v0 /\ UNCHANGED <<ix, ret>>
  BY <1>3, ApproveSound
<1>4. CASE increment
  BY <1>4, EngineSound DEF increment
<1>5. CASE Execution
  BY <1>5, ExecuteSound, EvaluateSound, ForeignSound, AcceptSound, InputFeeSteps, OutputStep,
     SettleSound, AcceptCommitSound, FinalizeSound DEF Execution
<1>6. CASE UNCHANGED vars
  <2>1. UNCHANGED <<token, market, domain, fee_ledger, engine, donated, settled, slot, phase,
                    signers, used, saved, ix, ret>>
    BY <1>6 DEF vars, ledgerVars, chain
  <2> QED BY <2>1 DEF BaseInv, RoutedTypeOK, Snapshot, BooksSound, FlightSound, SavedSound,
             TermsSound, HandedSound, Allowed, spend_authority
<1> QED BY <1>1, <1>2, <1>3, <1>4, <1>5, <1>6 DEF Next

\* The inductive invariant holds throughout every behaviour.
THEOREM BaseHolds == Spec => []BaseInv
<1>1. Init => BaseInv
  BY InitSound
<1>2. BaseInv /\ [Next]_vars => BaseInv'
  BY StepSound
<1> QED BY <1>1, <1>2, PTL DEF Spec

\* Every account that Core, SPL Token, the routed plan engine and the helper keep holds a
\* value of its kind in every reachable state, whoever routes an execution and whatever an
\* engine of unknown code does: no counter and no balance leaves its word.
THEOREM RoutedTyped == Spec => []RoutedTypeOK
<1>1. BaseInv => RoutedTypeOK
  BY DEF BaseInv
<1> QED BY <1>1, BaseHolds, PTL

\* For any engine, closure and number of markets: between instructions the raw balance of
\* each vault is Core's accounting plus the donations to it.
THEOREM RoutedAccounting == Spec => []VaultAccounting
<1>1. BaseInv => VaultAccounting
  <2>1. SUFFICES ASSUME BaseInv PROVE VaultAccounting
    OBVIOUS
  <2>2. CASE phase \in Settling
    BY <2>2 DEF VaultAccounting, Settling
  <2>3. CASE phase \notin Settling
    BY <2>1, <2>3, OpenFacts, SoundAccounting
  <2> QED BY <2>2, <2>3
<1> QED BY <1>1, BaseHolds, PTL

\* Nothing an engine does in either phase invalidates what the handler read: when the
\* transfers are done the deltas match, the allowance is used up, and the copies of the
\* accounting are current throughout.
THEOREM RoutedUndisturbed == Spec => []SettlementUndisturbed
<1>1. BaseInv => SettlementUndisturbed
  <2>1. SUFFICES ASSUME BaseInv PROVE SettlementUndisturbed
    OBVIOUS
  <2>2. ASSUME phase = "settle" PROVE exact_settlement_deltas
    <3>1. /\ Flight(token, market, domain, fee_ledger, donated, ix, ix.args.amount_in,
                    ix.protocol_fee, ix.amount_out)
          /\ Agreed(token, market, slot, ix)
          /\ token[ix.source].delegate = None /\ token[ix.source].delegated_amount = 0
      BY <2>1, <2>2, PaidInFull
    <3>2. ix.total_input_debit = ix.args.amount_in + ix.protocol_fee
      BY <3>1 DEF Agreed
    <3> QED BY <3>1, <3>2, FlightDeltas DEF exact_settlement_deltas
  <2>3. ASSUME phase \in Settling
        PROVE  /\ ix.accounted_a = domain[ix.domain].accounted_a
               /\ ix.accounted_b = domain[ix.domain].accounted_b
               /\ ix.accounted_fee_a = fee_ledger[ix.fee_ledger].accounted_fee_a
    BY <2>1, <2>3, SettlingFacts DEF Flight, Reads
  <2> QED BY <2>2, <2>3 DEF SettlementUndisturbed
<1> QED BY <1>1, BaseHolds, PTL

\* Whoever routed it and whatever the engine answered, a completed execution is of the
\* intent that its source's owner approved last and nobody has executed before: that
\* intent's market and destination, exactly its debit, at least its minimum output, the
\* least fee, within its limits and not after its expiry; the allowance is gone.
THEOREM RoutedIntentHonoured == Spec => IntentHonoured
<1> DEFINE Honoured ==
      LET intent == settled.pending[ix.source]
          fee == token[ix.fee_vault].amount - ix.fee_vault_before
      IN  /\ intent # None
          /\ intent.market = ix.market
          /\ intent.user_authority = token[ix.source].owner
          /\ intent.user_output = ix.destination
          /\ ix.source_before - token[ix.source].amount = intent.amount_in + intent.protocol_fee
          /\ intent.amount_in + intent.protocol_fee <= intent.max_total_input_debit
          /\ token[ix.destination].amount - ix.destination_before >= intent.min_output_credit
          /\ IsLeastFee(fee, intent.amount_in, ProtocolFeeBps)
          /\ fee <= intent.max_protocol_fee
          /\ slot <= intent.expires_at_slot
          /\ token[ix.source].delegate = None
<1>1. BaseInv /\ phase = "finalize" => Honoured
  <2> SUFFICES ASSUME BaseInv, phase = "finalize" PROVE Honoured
    OBVIOUS
  <2> DEFINE n == ix.args.amount_in
             g == ix.protocol_fee
             o == ix.amount_out
             i == settled.pending[ix.source]
             fee == token[ix.fee_vault].amount - ix.fee_vault_before
  <2>1. /\ Flight(token, market, domain, fee_ledger, donated, ix, n, g, o)
        /\ Intended(token, settled, ix) /\ Agreed(token, market, slot, ix) /\ Answered(ix)
        /\ token[ix.source].delegate = None
    BY PaidInFull
  <2>2. n \in Nat /\ g \in Int /\ o \in Int
    BY SettlingFacts, MathAssumption DEF Settling, U64
  <2>3. /\ token[ix.source].amount = ix.source_before - (n + g)
        /\ token[ix.fee_vault].amount = ix.fee_vault_before + g
        /\ token[ix.destination].amount = ix.destination_before + o
        /\ ix.source_before \in Int /\ ix.fee_vault_before \in Int /\ ix.destination_before \in Int
    BY <2>1 DEF Flight, Reads, Copies
  <2>4. /\ ix.source_before - token[ix.source].amount = n + g /\ fee = g
        /\ token[ix.destination].amount - ix.destination_before = o
    BY <2>2, <2>3
  <2>5. IsLeastFee(g, n, ProtocolFeeBps)
    <3>1. g = fee_ceil(n, ProtocolFeeBps)
      BY <2>1 DEF Agreed
    <3> QED BY <2>2, <3>1, FeeIsLeast
  <2>6. /\ i \in Intents /\ i.market = ix.market /\ i.user_authority = token[ix.source].owner
        /\ i.user_output = ix.destination /\ i.amount_in = n /\ i.protocol_fee = g
        /\ i.max_total_input_debit = ix.args.max_total_input_debit
        /\ i.min_output_credit = ix.args.min_output_credit
        /\ i.max_protocol_fee = ix.args.max_protocol_fee
        /\ i.expires_at_slot = ix.args.expires_at_slot
    BY <2>1 DEF Intended
  <2>7. i # None
    BY <2>6, PresenceAssumption
  <2>8. /\ n + g <= ix.args.max_total_input_debit /\ g <= ix.args.max_protocol_fee
        /\ slot <= ix.args.expires_at_slot /\ o >= ix.args.min_output_credit
    BY <2>1 DEF Agreed, Answered
  <2> HIDE DEF n, g, o, i, fee
  <2>9. /\ ix.source_before - token[ix.source].amount = i.amount_in + i.protocol_fee
        /\ i.amount_in + i.protocol_fee <= i.max_total_input_debit
        /\ token[ix.destination].amount - ix.destination_before >= i.min_output_credit
        /\ IsLeastFee(fee, i.amount_in, ProtocolFeeBps)
        /\ fee <= i.max_protocol_fee /\ slot <= i.expires_at_slot
    BY <2>4, <2>5, <2>6, <2>8
  <2> QED BY <2>1, <2>6, <2>7, <2>9 DEF i, fee
<1>2. BaseInv /\ [Next]_vars => [phase = "finalize" /\ Forward => Honoured]_vars
  BY <1>1
<1> HIDE DEF Honoured
<1>3. Spec => [][phase = "finalize" /\ Forward => Honoured]_vars
  BY <1>2, BaseHolds, PTL DEF Spec
<1> QED BY <1>3 DEF Honoured, IntentHonoured

(***************************************************************************)
(* The refinement of AtomicExchange.                                       *)
(***************************************************************************)
Held == Unsettled(HoldingsOf(token), ix, ix.amount_out)
Books == BooksOf(market, domain, fee_ledger)

\* AtomicExchange's operators on the view.
LEMMA SameOperators ==
  /\ Exchange!U64 = U64 /\ \A x, y : Exchange!AddFits(x, y) <=> AddFits(x, y)
  /\ Exchange!Vaults = BookVaults(Books)
  /\ \A h, from, to, n : Exchange!Moved(h, from, to, n) = Shift(h, from, to, n)
  /\ \A f, i, bps : Exchange!IsLeastFee(f, i, bps) <=> IsLeastFee(f, i, bps)
BY DEF Exchange!U64, U64, Exchange!AddFits, AddFits, Exchange!Moved, Exchange!Add, Shift,
   Exchange!Vaults, Exchange!VaultsOf, Exchange!Open, BookVaults, Books,
   Exchange!IsLeastFee, IsLeastFee

\* The steps of the exchange on the view are AtomicExchange's.
LEMMA ExchangeSteps ==
  ASSUME CommittedView # None, UNCHANGED CommittedView,
         \/ Books' = Books /\ PayView(Held, Books, Held')
         \/ \E m \in Markets : \/ CreateView(m, Held, Books, Held', Books')
                               \/ DepositView(m, Held, Books, Held', Books')
                               \/ TradeView(m, Held, Books, Held', Books')
  PROVE  Exchange!Next
<1>1. ASSUME Books' = Books, PayView(Held, Books, Held')
      PROVE  Exchange!Pay
  BY <1>1, SameOperators
     DEF PayView, Exchange!Pay, Exchange!CanPay, Exchange!CanTake, Pays, Takes, Held, Books
<1>2. ASSUME NEW m \in Markets, CreateView(m, Held, Books, Held', Books')
      PROVE  Exchange!Create(m)
  BY <1>2 DEF CreateView, Exchange!Create, Held, Books
<1>3. ASSUME NEW m \in Markets, DepositView(m, Held, Books, Held', Books')
      PROVE  Exchange!Deposit(m)
  BY <1>3, SameOperators DEF DepositView, Exchange!Deposit, Exchange!DepositInto, Exchange!CanPay,
     Exchange!CanTake, Pays, Takes, Held, Books
<1>4. ASSUME NEW m \in Markets, TradeView(m, Held, Books, Held', Books')
      PROVE  Exchange!Trade(m)
  <2>1. PICK i \in U64 \ {0}, f \in U64, from \in TokenAccounts, to \in TokenAccounts :
          \E o \in 1 .. Books[m].b : TradedFor(m, Held, Books, Held', Books', i, f, from, to, o)
    BY <1>4 DEF TradeView
  <2>2. PICK o \in 1 .. Books[m].b : TradedFor(m, Held, Books, Held', Books', i, f, from, to, o)
    BY <2>1
  <2>3. /\ Exchange!CanPay(from, i + f) /\ Exchange!CanTake(Books[m].vault_a, from, i)
        /\ Exchange!CanTake(Books[m].fee_vault, from, f)
        /\ Exchange!CanTake(to, Books[m].vault_b, o)
    BY <2>2, SameOperators
       DEF TradedFor, Pays, Takes, Exchange!CanPay, Exchange!CanTake, Held, Books
  <2>4. Held' = Exchange!TradePayments(m, from, to, i, f, o)
    BY <2>2, SameOperators DEF TradedFor, Exchange!TradePayments, Held, Books
  <2>5. to \in TokenAccounts \ Exchange!VaultsOf(Books[m])
    BY <2>2 DEF TradedFor, Exchange!VaultsOf
  <2>6. /\ Books[m] # None /\ IsLeastFee(f, i, ProtocolFeeBps)
        /\ Books' = [Books EXCEPT ![m].a = @ + i, ![m].b = @ - o, ![m].fee = @ + f]
    BY <2>2 DEF TradedFor
  <2> QED BY <2>3, <2>4, <2>5, <2>6, SameOperators DEF Exchange!Trade, Held, Books
<1> QED BY <1>1, <1>2, <1>3, <1>4 DEF Exchange!Next, Exchange!Inside

\* The view before and after a step.
LEMMA HeldAt ==
  /\ Held = UnsettledAt(phase, HoldingsOf(token), ix, ix.amount_out)
  /\ Held' = UnsettledAt(phase', HoldingsOf(token'), ix', ix'.amount_out)
BY DEF Held, Unsettled, UnsettledAt

\* Before the first payment and after the accounting nothing is taken back.
Unpaying == {"idle", "open", "primary", "receipt", "input"}

LEMMA NothingTakenBack ==
  /\ phase \in Unpaying => Held = HoldingsOf(token)
  /\ phase' \in Unpaying => Held' = HoldingsOf(token')
<1>1. \A p \in Unpaying : PaymentsMade(p) = 0
  BY DEF PaymentsMade, Unpaying
<1> QED BY <1>1, HeldAt DEF UnsettledAt

\* Inside a transaction there is something to roll back to.
LEMMA CommittedExists ==
  ASSUME BaseInv, phase # "idle"
  PROVE  /\ CommittedView # None
         /\ CommittedView = [held |-> HoldingsOf(saved.token),
                             books |-> BooksOf(saved.market, saved.domain, saved.fee_ledger)]
<1>1. saved \in Chains
      /\ Canonical(saved.token, saved.market, saved.domain, saved.fee_ledger, saved.donated)
  BY DEF BaseInv, RoutedTypeOK, SavedSound
<1>2. /\ saved.token \in TokenStates /\ saved.market \in MarketStates
      /\ saved.domain \in DomainStates /\ saved.fee_ledger \in FeeLedgerStates
      /\ saved.donated \in DonatedStates
  BY <1>1 DEF Chains
<1>3. HoldingsOf(saved.token) \in ViewHoldings
  BY <1>2, HoldingsView
<1>4. BooksOf(saved.market, saved.domain, saved.fee_ledger) \in ViewBooks
  BY <1>1, <1>2, BooksView
<1>5. CommittedView = [held |-> HoldingsOf(saved.token),
                       books |-> BooksOf(saved.market, saved.domain, saved.fee_ledger)]
  BY DEF CommittedView
<1> QED BY <1>3, <1>4, <1>5, ViewAssumption

\* Within a transaction what it would be rolled back to stays.
LEMMA CommittedKept ==
  ASSUME UNCHANGED saved, phase # "idle", phase' # "idle"
  PROVE  UNCHANGED CommittedView
BY DEF CommittedView

\* A step that only changes what is no part of the view.
LEMMA Unseen ==
  ASSUME UNCHANGED <<token, market, domain, fee_ledger, saved>>,
         phase \in Unpaying, phase' \in Unpaying, phase # "idle", phase' # "idle"
  PROVE  UNCHANGED <<Held, Books, CommittedView>>
BY NothingTakenBack, CommittedKept DEF Books

\* A delegate and its allowance are no part of the view.
LEMMA ApprovalUnseen ==
  ASSUME BaseInv, authorize_spend_v0 \/ SplApprove \/ SplRevoke, UNCHANGED <<ix, ret>>
  PROVE  HoldingsOf(token') = HoldingsOf(token)
<1>1. PICK a \in UserAccounts : \E d, n : token' = Approved(a, d, n)
  BY DEF authorize_spend_v0, SplApprove, SplRevoke
<1>2. PICK d, n : token' = Approved(a, d, n)
  BY <1>1
<1>3. token \in TokenStates /\ a \in TokenAccounts /\ token[a] # None
  BY OpenFacts DEF Settling, LedgerSound, Approvals, TokenAccounts, authorize_spend_v0,
     SplApprove, SplRevoke, RunInstruction
<1>4. token[a] \in TokenAccount
  BY <1>3 DEF TokenStates
<1> DEFINE acc == [token[a] EXCEPT !.delegate = d, !.delegated_amount = n]
<1>5. token' = [token EXCEPT ![a] = acc]
  BY <1>2, <1>3 DEF Approved, TokenStates
<1>6. acc.mint = token[a].mint /\ acc.amount = token[a].amount
  BY <1>4 DEF TokenAccount
<1>7. token'[a] # None
  <2>1. BaseInv'
    BY ApproveSound
  <2> QED BY <2>1 DEF BaseInv, Approvals
<1> HIDE DEF acc
<1>8. token'[a] = acc /\ \A b \in TokenAccounts : b # a => token'[b] = token[b]
  BY <1>3, <1>5 DEF TokenStates
<1>9. \A b \in TokenAccounts : /\ (token'[b] = None) <=> (token[b] = None)
                             /\ token'[b].mint = token[b].mint
                             /\ token'[b].amount = token[b].amount
  BY <1>3, <1>6, <1>7, <1>8
<1> QED BY <1>9 DEF HoldingsOf

\* A payment of the settlement is no step of the exchange.
LEMMA PaymentStutters ==
  ASSUME BaseInv, transfer_input \/ transfer_fee \/ transfer_output
  PROVE  UNCHANGED <<Held, Books, CommittedView>>
<1> DEFINE o == ix.amount_out
<1>1. /\ BaseInv' /\ UNCHANGED <<market, domain, fee_ledger, saved, ix>>
      /\ phase \in Accepted /\ phase' \in Accepted /\ Kept(token, token')
      /\ \A a \in TokenAccounts :
           a \notin {ix.source, ix.vault_a, ix.fee_vault, ix.vault_b, ix.destination} =>
             token'[a] = token[a]
  <2>1. CASE transfer_input \/ transfer_fee
    BY <2>1, InputFeeSteps DEF Accepted
  <2>2. CASE transfer_output
    BY <2>2, OutputStep DEF Moved, Accepted
  <2> QED BY <2>1, <2>2
<1>2. phase \in Settling /\ phase' \in Settling /\ phase # "idle" /\ phase' # "idle"
  BY <1>1 DEF Accepted, Settling
<1>3. /\ Flight(token, market, domain, fee_ledger, donated, ix, InputMade(phase, ix),
                FeeMade(phase, ix), OutputMade(phase, o))
      /\ ix.args.amount_in \in Int /\ ix.protocol_fee \in Int /\ o \in Int
  BY <1>2, SettlingFacts, MathAssumption DEF U64
<1>4. Flight(token', market, domain, fee_ledger, donated', ix, InputMade(phase', ix),
             FeeMade(phase', ix), OutputMade(phase', o))
  BY <1>1, <1>2 DEF BaseInv, FlightSound
<1>5. /\ FlightAt(token, market, domain, fee_ledger, donated, ix, phase, o)
      /\ FlightAt(token', market, domain, fee_ledger, donated', ix, phase', o)
  BY <1>3, <1>4 DEF FlightAt
<1>6. UnsettledAt(phase', HoldingsOf(token'), ix, o) = UnsettledAt(phase, HoldingsOf(token), ix, o)
  BY <1>1, <1>5, PaymentUnseen
<1>7. Held' = Held
  BY <1>1, <1>6, HeldAt
<1> QED BY <1>1, <1>2, <1>7, CommittedKept DEF Books

\* finalize, which writes the accounting of three payments made before, is a trade.
LEMMA FinalizeTrades ==
  ASSUME BaseInv, finalize
  PROVE  /\ ix.market \in Markets
         /\ TradeView(ix.market, Held, Books, Held', Books')
<1> DEFINE i == ix.args.amount_in
           f == ix.protocol_fee
           o == ix.amount_out
           h == HoldingsOf(token)
<1>1. /\ phase = "finalize" /\ phase' = "open" /\ UNCHANGED <<token, market>>
      /\ Written(domain, fee_ledger, domain', fee_ledger', ix, i, f, o)
  BY FinalizeWrites
<1>2. /\ Flight(token, market, domain, fee_ledger, donated, ix, i, f, o)
      /\ Agreed(token, market, slot, ix) /\ Answered(ix)
  BY <1>1, PaidInFull
<1>3. /\ i \in U64 /\ f \in U64 /\ o \in U64 /\ i \in Nat /\ f \in Int /\ o \in Int
  BY <1>1, SettlingFacts, MathAssumption DEF Settling, U64
<1>4. IsLeastFee(f, i, ProtocolFeeBps)
  <2>1. f = fee_ceil(i, ProtocolFeeBps)
    BY <1>2 DEF Agreed
  <2> QED BY <1>3, <2>1, FeeIsLeast
<1>5. Settles(token, market, domain, fee_ledger, donated, ix, i, f, o, domain', fee_ledger')
  BY <1>1, <1>2, <1>3, <1>4 DEF Settles, Agreed, Answered
<1>6. TakenBack(h, Held, ix, i, f, o)
  <2>1. FlightAt(token, market, domain, fee_ledger, donated, ix, "finalize", o)
    BY <1>2, <1>3, PaidSoFar DEF FlightAt
  <2>2. TakenBack(h, UnsettledAt("finalize", h, ix, o), ix, i, f, o)
    BY <2>1, FlightTakenBack, PaidSoFar
  <2> QED BY <1>1, <2>2, HeldAt
<1>7. TradeView(ix.market, Held, BooksOf(market, domain, fee_ledger), HoldingsOf(token),
                BooksOf(market, domain', fee_ledger'))
  BY <1>5, <1>6, SettlementTrades
<1>8. Held' = HoldingsOf(token)
  BY <1>1, NothingTakenBack DEF Unpaying
<1>9. ix.market \in Markets
  BY <1>2 DEF Flight, Roles
<1> QED BY <1>1, <1>7, <1>8, <1>9 DEF Books

\* Approving and revoking are no steps of the exchange.
LEMMA ApprovalStutters ==
  ASSUME BaseInv, authorize_spend_v0 \/ SplApprove \/ SplRevoke, UNCHANGED <<ix, ret>>
  PROVE  UNCHANGED <<Held, Books, CommittedView>>
<1>1. /\ phase = "open" /\ phase' = "open" /\ UNCHANGED <<market, domain, fee_ledger, saved>>
  BY DEF authorize_spend_v0, SplApprove, SplRevoke, RunInstruction
<1>2. Held' = Held
  BY <1>1, ApprovalUnseen, NothingTakenBack DEF Unpaying
<1> QED BY <1>1, <1>2, CommittedKept DEF Books

\* The engine's COMMIT and the steps around it leave the payments that were made hidden.
LEMMA CommitStutters ==
  ASSUME BaseInv, phase \in {"settle", "commit", "commit_receipt"},
         phase' \in {"commit", "commit_receipt", "finalize"},
         SameOrder(ix, ix'), ix'.amount_out = ix.amount_out,
         UNCHANGED <<token, market, domain, fee_ledger, saved>>
  PROVE  UNCHANGED <<Held, Books, CommittedView>>
<1>1. PaymentsMade(phase) = 3 /\ PaymentsMade(phase') = 3
  BY PaidSoFar
<1>2. phase # "idle" /\ phase' # "idle"
  OBVIOUS
<1>3. Held' = Held
  BY <1>1, HeldAt DEF UnsettledAt, SameOrder
<1> QED BY <1>2, <1>3, CommittedKept DEF Books

\* The runtime's own steps.
LEMMA FrameExchanges ==
  ASSUME BaseInv, Frame
  PROVE  Exchange!Next \/ UNCHANGED <<Held, Books, CommittedView>>
<1>1. ASSUME NEW S, BeginTransaction(S)
      PROVE  Exchange!Next
  <2>1. /\ phase = "idle" /\ phase' = "open" /\ saved' = Snapshot
        /\ UNCHANGED <<token, market, domain, fee_ledger>>
    BY <1>1 DEF BeginTransaction, chain
  <2>2. Held' = Held /\ Books' = Books /\ Held = HoldingsOf(token)
    BY <2>1, NothingTakenBack DEF Books, Unpaying
  <2>3. CommittedView = None
    BY <2>1 DEF CommittedView
  <2>4. CommittedView' = [held |-> Held, books |-> Books]
    BY <2>1, <2>2 DEF CommittedView, Snapshot, Books
  <2> QED BY <2>2, <2>3, <2>4 DEF Exchange!Next, Exchange!Begin, Held, Books
<1>2. ASSUME CommitTransaction
      PROVE  Exchange!Next
  <2>1. /\ phase = "open" /\ phase' = "idle" /\ UNCHANGED <<token, market, domain, fee_ledger>>
    BY <1>2 DEF CommitTransaction, chain
  <2>2. Held' = Held /\ Books' = Books
    BY <2>1, NothingTakenBack DEF Books, Unpaying
  <2>3. CommittedView # None /\ CommittedView' = None
    BY <2>1, CommittedExists DEF CommittedView
  <2> QED BY <2>2, <2>3 DEF Exchange!Next, Exchange!Commit, Held, Books
<1>3. ASSUME AbortTransaction
      PROVE  Exchange!Next
  <2>1. /\ phase # "idle" /\ phase' = "idle" /\ token' = saved.token /\ market' = saved.market
        /\ domain' = saved.domain /\ fee_ledger' = saved.fee_ledger
    BY <1>3 DEF AbortTransaction, Rollback
  <2>2. /\ CommittedView # None /\ CommittedView' = None
        /\ CommittedView.held = HoldingsOf(saved.token)
        /\ CommittedView.books = BooksOf(saved.market, saved.domain, saved.fee_ledger)
    BY <2>1, CommittedExists DEF CommittedView
  <2>3. Held' = CommittedView.held /\ Books' = CommittedView.books
    BY <2>1, <2>2, NothingTakenBack DEF Books, Unpaying
  <2> QED BY <2>2, <2>3 DEF Exchange!Next, Exchange!Abort, Held, Books
<1>4. ASSUME AdvanceSlot
      PROVE  UNCHANGED <<Held, Books, CommittedView>>
  <2>1. phase = "idle" /\ phase' = "idle" /\ UNCHANGED <<token, market, domain, fee_ledger>>
    BY <1>4 DEF AdvanceSlot, chain
  <2> QED BY <2>1, NothingTakenBack DEF Books, CommittedView, Unpaying
<1>5. ASSUME SplTransfer
      PROVE  Exchange!Next
  <2>1. phase = "open" /\ phase' = "open" /\ UNCHANGED saved
    BY <1>5 DEF SplTransfer, RunInstruction
  <2>2. /\ LedgerSound /\ CommittedView # None /\ UNCHANGED CommittedView
        /\ Held = HoldingsOf(token) /\ Held' = HoldingsOf(token')
    BY <2>1, OpenFacts, CommittedExists, CommittedKept, NothingTakenBack DEF Settling, Unpaying
  <2>3. PayView(Held, Books, Held') /\ Books' = Books
    BY <1>5, <2>2, SplTransferInView DEF Books
  <2> QED BY <2>2, <2>3, ExchangeSteps
<1>6. ASSUME (SplApprove \/ SplRevoke) /\ UNCHANGED <<ix, ret>>
      PROVE  UNCHANGED <<Held, Books, CommittedView>>
  BY <1>6, ApprovalStutters
<1> QED BY <1>1, <1>2, <1>3, <1>4, <1>5, <1>6 DEF Frame

\* The instructions without an engine; the engines' own accounts are no part of the view.
LEMMA SetupExchanges ==
  ASSUME BaseInv, Setup \/ increment
  PROVE  Exchange!Next \/ UNCHANGED <<Held, Books, CommittedView>>
<1>1. phase = "open" /\ phase' = "open" /\ UNCHANGED saved
  BY DEF Setup, increment, initialize_market_domain, initialize_market_domain_v0, deposit,
     deposit_v0, engine_initialize, helper_initialize, set_mode, RunInstruction
<1>2. /\ LedgerSound /\ CommittedView # None /\ UNCHANGED CommittedView
      /\ Held = HoldingsOf(token) /\ Held' = HoldingsOf(token')
  BY <1>1, OpenFacts, CommittedExists, CommittedKept, NothingTakenBack DEF Settling, Unpaying
<1>3. CASE initialize_market_domain
  <2>1. \E m \in Markets : CreateView(m, Held, Books, Held', Books')
    BY <1>2, <1>3, InitializeInView DEF Books, initialize_market_domain
  <2> QED BY <1>2, <2>1, ExchangeSteps
<1>4. CASE deposit
  <2>1. \E m \in Markets : DepositView(m, Held, Books, Held', Books')
    BY <1>2, <1>4, DepositInView DEF Books, deposit
  <2> QED BY <1>2, <2>1, ExchangeSteps
<1>5. CASE engine_initialize \/ helper_initialize \/ set_mode \/ increment
  <2>1. UNCHANGED <<token, market, domain, fee_ledger>>
    BY <1>5 DEF engine_initialize, helper_initialize, set_mode, increment
  <2> QED BY <1>1, <2>1, Unseen DEF Unpaying
<1> QED BY <1>3, <1>4, <1>5 DEF Setup

\* An execution: the engine's phases, whoever wrote it, and the payments are no steps; the
\* accounting is a trade.
LEMMA ExecutionExchanges ==
  ASSUME BaseInv, Execution
  PROVE  Exchange!Next \/ UNCHANGED <<Held, Books, CommittedView>>
<1>1. CASE execute_callback_authenticated_probe_v0 \/ accept_primary
  <2>1. /\ UNCHANGED <<token, market, domain, fee_ledger, saved>>
        /\ phase \in {"open", "receipt"} /\ phase' \in {"primary", "input"}
    BY <1>1 DEF execute_callback_authenticated_probe_v0, RunInstruction, accept_primary, chain
  <2> QED BY <2>1, Unseen DEF Unpaying
<1>2. CASE evaluate_phase \/ foreign_engine
  <2>1. /\ UNCHANGED <<token, market, domain, fee_ledger, saved, ix>>
        /\ phase \in {"primary", "commit"} /\ phase' = AfterEngine
    BY <1>2, EvaluateStep, ForeignStep
  <2>2. CASE phase = "primary"
    <3>1. phase' = "receipt"
      BY <2>1, <2>2 DEF AfterEngine
    <3> QED BY <2>1, <2>2, <3>1, Unseen DEF Unpaying
  <2>3. CASE phase = "commit"
    <3>1. phase' = "commit_receipt"
      BY <2>1, <2>3 DEF AfterEngine
    <3>2. SameOrder(ix, ix')
      BY <2>1 DEF SameOrder
    <3> QED BY <2>1, <2>3, <3>1, <3>2, CommitStutters
  <2> QED BY <2>1, <2>2, <2>3
<1>3. CASE transfer_input \/ transfer_fee \/ transfer_output
  BY <1>3, PaymentStutters
<1>4. CASE settle
  BY <1>4, SettleSound, CommitStutters
<1>5. CASE accept_commit
  <2>1. /\ phase = "commit_receipt" /\ phase' = "finalize"
        /\ UNCHANGED <<token, market, domain, fee_ledger, saved, ix>>
    BY <1>5 DEF accept_commit, chain
  <2>2. SameOrder(ix, ix')
    BY <2>1 DEF SameOrder
  <2> QED BY <2>1, <2>2, CommitStutters
<1>6. CASE finalize
  <2>1. phase = "finalize" /\ phase' = "open" /\ UNCHANGED saved
    BY <1>6 DEF finalize
  <2>2. CommittedView # None /\ UNCHANGED CommittedView
    BY <2>1, CommittedExists, CommittedKept
  <2>3. ix.market \in Markets /\ TradeView(ix.market, Held, Books, Held', Books')
    BY <1>6, FinalizeTrades
  <2> QED BY <2>2, <2>3, ExchangeSteps
<1> QED BY <1>1, <1>2, <1>3, <1>4, <1>5, <1>6 DEF Execution

\* The initial accounts are an exchange without books.
LEMMA InitExchanges ==
  ASSUME Init
  PROVE  Exchange!Init
<1>1. BaseInv
  BY InitSound
<1>2. /\ phase = "idle" /\ market = [m \in Markets |-> None]
  BY DEF Init, LedgerInit
<1>3. Held = HoldingsOf(token) /\ CommittedView = None
  BY <1>2, NothingTakenBack DEF CommittedView, Unpaying
<1>4. Held \in ViewHoldings /\ Books \in ViewBooks
  <2>1. LedgerSound
    BY <1>1, <1>2, OpenFacts DEF Settling
  <2> QED BY <1>3, <2>1, LedgerFacts, HoldingsView, BooksView DEF Books
<1>5. Books = [m \in Markets |-> None]
  BY <1>2 DEF Books, BooksOf
<1>6. /\ Held \in [TokenAccounts -> Exchange!Holding \cup {None}]
      /\ Books \in [Markets -> Exchange!Book \cup {None}]
  BY <1>4 DEF ViewHoldings, ViewBooks, Exchange!Holding, Exchange!Book, Exchange!U64, U64
<1>7. Exchange!Covered(Held, Books)
  BY <1>5 DEF Exchange!Covered, Exchange!Open
<1> QED BY <1>3, <1>6, <1>7 DEF Exchange!Init, Held, Books

\* Whoever routes an intent and whatever its engine does in one phase or in two, and
\* wherever a transaction fails: the routed Core (execute_callback_authenticated_probe_v0,
\* authorize_spend_v0, deposits, the creation of markets, transfers, approvals and
\* revocations) is an AtomicExchange.
THEOREM RoutedRefines == Spec => RoutedImplementsExchange
<1>1. Init => Exchange!Init
  BY InitExchanges
<1>2. BaseInv /\ [Next]_vars => [Exchange!Next]_(Exchange!vars)
  <2> SUFFICES ASSUME BaseInv, [Next]_vars
               PROVE  Exchange!Next \/ UNCHANGED <<Held, Books, CommittedView>>
    BY DEF Exchange!vars, Held, Books
  <2>1. CASE Frame
    BY <2>1, FrameExchanges
  <2>2. CASE Setup \/ increment
    BY <2>2, SetupExchanges
  <2>3. CASE authorize_spend_v0 /\ UNCHANGED <<ix, ret>>
    BY <2>3, ApprovalStutters
  <2>4. CASE Execution
    BY <2>4, ExecutionExchanges
  <2>5. CASE UNCHANGED vars
    BY <2>5 DEF vars, ledgerVars, chain, Held, Books, Unsettled, CommittedView
  <2> QED BY <2>1, <2>2, <2>3, <2>4, <2>5 DEF Next
<1> QED BY <1>1, <1>2, BaseHolds, PTL DEF Spec, RoutedImplementsExchange, Exchange!Spec

(***************************************************************************)
(* The inductive invariant: the engines.                                   *)
(***************************************************************************)
\* The state es is where the settled executions left it.
InStep(e, s, es) ==
  IF e[es] = None
  THEN s.engines[es].count = 0 /\ s.engines[es].execution = None /\ s.engines[es].amount_out = 0
  ELSE /\ e[es].sequence = s.engines[es].count
       /\ e[es].last_execution_digest = s.engines[es].execution
       /\ e[es].last_amount_out = s.engines[es].amount_out

\* It is one execution ahead of them: the one in flight.
Ahead(e, s, es, digest) ==
  /\ es \in PlanStates /\ e[es] # None
  /\ e[es].sequence = s.engines[es].count + 1
  /\ e[es].last_execution_digest = digest

Plans(e, s, A) == \A es \in PlanStates : es \notin A => InStep(e, s, es)

\* A helper created for a callback authority of the routed engine has counted the settled
\* executions that called it, and the one in flight if it is in H.
Counts(e, s, H) ==
  \A h \in HelperStates :
    IF e[h] = None
    THEN s.helped[h] = 0 /\ h \notin H
    ELSE Serves(e[h].allowed_callback) =>
           e[h].calls = s.helped[h] + (IF h \in H THEN 1 ELSE 0)

\* The phases after the call that writes: TRANSITION in one phase, COMMIT in two.
Called(timing) ==
  IF timing = TIMING_SINGLE
  THEN {"receipt", "input", "fee", "output", "settle", "finalize"}
  ELSE {"commit_receipt", "finalize"}

Routed == phase \in Settling /\ ix.engine_program = RoutedPlanEngine
Served == Routed /\ phase \in Called(ix.args.timing_mode)
AheadStates == IF Served THEN {ix.engine_state} ELSE {}
HelpedNow == IF Served /\ ix.args.opaque_payload # None THEN {ix.opaque[2].key} ELSE {}

\* The engine's account is its program's, and only an execution in two phases commits.
Bound ==
  /\ phase \in Settling => OwnerOf(ix.engine_state) = ix.engine_program
  /\ phase \in {"commit", "commit_receipt"} => ix.args.timing_mode = TIMING_PREPARE_COMMIT

\* An output q that the engine's quote allows for the execution x.
Priced(x, q) ==
  q = 0 \/ q = U64Max
    \/ (x.accounted_a + x.args.amount_in) * (x.accounted_b - q) >= x.accounted_a * x.accounted_b

\* The return data are the routed engine's answer.
Answers == phase \in {"receipt", "commit_receipt"} /\ ret # None /\ ret.setter = RoutedPlanEngine

AnswerSound ==
  /\ Served /\ Answers => ret.amount_out = engine[ix.engine_state].last_amount_out
  /\ Routed /\ Answers /\ phase = "receipt" => Priced(ix, ret.amount_out)
  /\ Routed /\ phase \in Accepted => Priced(ix, ix.amount_out)
  /\ Served /\ phase \in Accepted \ {"commit_receipt"} =>
       ix.amount_out = engine[ix.engine_state].last_amount_out

EngineInv ==
  /\ Bound
  /\ Plans(engine, settled, AheadStates)
  /\ Served => Ahead(engine, settled, ix.engine_state, compute_execution_digest(MutatingRequest))
  /\ Counts(engine, settled, HelpedNow)
  /\ AnswerSound
  /\ phase # "idle" => Plans(saved.engine, saved.settled, {}) /\ Counts(saved.engine, saved.settled, {})

FullInv == BaseInv /\ EngineInv

\* Before the engine's call nothing is ahead.
LEMMA NotServed ==
  ASSUME ~Served
  PROVE  AheadStates = {} /\ HelpedNow = {}
BY DEF AheadStates, HelpedNow

\* No state exists, and nothing is settled, at the start.
LEMMA InitEngines == Init => EngineInv
<1> SUFFICES ASSUME Init PROVE EngineInv
  OBVIOUS
<1> USE DEF Init, LedgerInit
<1>1. \A es \in EngineStates : StateOwner[es] \in {RoutedPlanEngine, HelperProgram} => engine[es] = None
  OBVIOUS
<1>2. /\ \A es \in PlanStates : engine[es] = None /\ es \in EngineStates
      /\ \A h \in HelperStates : engine[h] = None /\ h \in EngineStates
  BY <1>1 DEF PlanStates, HelperStates
<1>3. \A es \in EngineStates : /\ settled.engines[es].count = 0 /\ settled.engines[es].execution = None
                               /\ settled.engines[es].amount_out = 0 /\ settled.helped[es] = 0
  BY DEF NoneSettled
<1>4. Plans(engine, settled, {}) /\ Counts(engine, settled, {})
  BY <1>2, <1>3 DEF Plans, InStep, Counts
<1>5. ~Served /\ ~Routed /\ phase \notin Settling /\ phase = "idle"
  BY DEF Served, Routed, Settling
<1> QED BY <1>4, <1>5, NotServed DEF EngineInv, Bound, AnswerSound

\* A step that ends outside an execution and leaves the engines in step is sound.
LEMMA EnginesAtRest ==
  ASSUME EngineInv, phase' \notin Settling,
         Plans(engine', settled', {}), Counts(engine', settled', {}),
         phase' # "idle" => \/ saved' = saved /\ phase # "idle"
                            \/ Plans(saved'.engine, saved'.settled, {})
                               /\ Counts(saved'.engine, saved'.settled, {})
  PROVE  EngineInv'
<1>1. ~Served' /\ ~Routed' /\ AheadStates' = {} /\ HelpedNow' = {}
      /\ phase' \notin {"commit", "commit_receipt"}
  BY DEF Served, Routed, AheadStates, HelpedNow, Settling
<1> QED BY <1>1 DEF EngineInv, Bound, AnswerSound

\* What the engines have counted does not depend on the approvals that are pending.
LEMMA PendingApart ==
  ASSUME NEW a, NEW i, NEW e, settled \in SettledStates
  PROVE  /\ Plans(e, settled, {}) => Plans(e, Pending(a, i), {})
         /\ Counts(e, settled, {}) => Counts(e, Pending(a, i), {})
<1>1. Pending(a, i).engines = settled.engines /\ Pending(a, i).helped = settled.helped
  BY DEF Pending, SettledStates
<1> QED BY <1>1 DEF Plans, InStep, Counts

\* Approving and revoking.
LEMMA ApproveEngines ==
  ASSUME FullInv, authorize_spend_v0 \/ SplApprove \/ SplRevoke
  PROVE  EngineInv'
<1>1. /\ phase = "open" /\ phase' = "open" /\ saved' = saved /\ engine' = engine
      /\ \E a, i : settled' = Pending(a, i)
  BY DEF authorize_spend_v0, SplApprove, SplRevoke, RunInstruction
<1>2. ~Served /\ phase \notin Settling /\ phase' \notin Settling /\ phase # "idle"
  BY <1>1 DEF Served, Routed, Settling
<1>3. settled \in SettledStates /\ EngineInv
  BY <1>2, OpenFacts DEF FullInv
<1>4. Plans(engine, settled, {}) /\ Counts(engine, settled, {})
  BY <1>2, NotServed DEF FullInv, EngineInv
<1>5. Plans(engine', settled', {}) /\ Counts(engine', settled', {})
  BY <1>1, <1>3, <1>4, PendingApart
<1> QED BY <1>1, <1>2, <1>3, <1>5, EnginesAtRest

\* The runtime's own steps: a rollback restores engines that were in step.
LEMMA FrameEngines ==
  ASSUME FullInv, Frame
  PROVE  EngineInv'
<1>1. CASE AbortTransaction
  <2>1. /\ phase # "idle" /\ phase' = "idle" /\ engine' = saved.engine /\ settled' = saved.settled
    BY <1>1 DEF AbortTransaction, Rollback
  <2>2. Plans(engine', settled', {}) /\ Counts(engine', settled', {}) /\ phase' \notin Settling
        /\ EngineInv
    BY <2>1 DEF FullInv, EngineInv, Settling
  <2> QED BY <2>1, <2>2, EnginesAtRest
<1>2. CASE ~AbortTransaction
  <2>1. phase = "idle" \/ phase = "open"
    BY <1>2 DEF Frame, BeginTransaction, CommitTransaction, AdvanceSlot, SplTransfer, SplApprove,
       SplRevoke, RunInstruction
  <2>2. ~Served
    BY <2>1 DEF Served, Routed, Settling
  <2>3. Plans(engine, settled, {}) /\ Counts(engine, settled, {}) /\ EngineInv
    BY <2>2, NotServed DEF FullInv, EngineInv
  <2>4. CASE \E S \in SUBSET Users \ {{}} : BeginTransaction(S)
    <3>1. /\ phase' = "open" /\ engine' = engine /\ settled' = settled
          /\ saved'.engine = engine /\ saved'.settled = settled
      BY <2>4 DEF BeginTransaction, chain, Snapshot
    <3>2. phase' \notin Settling
      BY <3>1 DEF Settling
    <3> QED BY <2>3, <3>1, <3>2, EnginesAtRest
  <2>5. CASE CommitTransaction \/ AdvanceSlot \/ SplTransfer
    <3>1. /\ phase' \notin Settling /\ engine' = engine /\ settled' = settled
          /\ phase' # "idle" => saved' = saved /\ phase # "idle"
      BY <2>5 DEF CommitTransaction, AdvanceSlot, SplTransfer, RunInstruction, chain, Settling
    <3> QED BY <2>3, <3>1, EnginesAtRest
  <2>6. CASE SplApprove \/ SplRevoke
    BY <2>6, ApproveEngines
  <2> QED BY <1>2, <2>4, <2>5, <2>6 DEF Frame
<1> QED BY <1>1, <1>2

\* A call of a helper that trusts nobody of the routed engine's leaves the rest in step.
LEMMA StrangerCounted ==
  ASSUME NEW e, NEW f, NEW s, NEW h \in HelperStates, Incremented(e, f, h),
         ~Serves(e[h].allowed_callback), Plans(e, s, {}), Counts(e, s, {})
  PROVE  Plans(f, s, {}) /\ Counts(f, s, {})
<1>1. /\ \A j \in PlanStates : f[j] = e[j]
      /\ \A j \in HelperStates : j # h => f[j] = e[j]
      /\ f[h] # None /\ ~Serves(f[h].allowed_callback)
  BY EngineKinds DEF Incremented
<1>2. Counts(f, s, {})
  BY <1>1 DEF Counts
<1>3. Plans(f, s, {})
  BY <1>1 DEF Plans, InStep
<1> QED BY <1>2, <1>3

\* The instructions of the engines' programs keep every state in step.
LEMMA SetupEngines ==
  ASSUME FullInv, Setup \/ increment
  PROVE  EngineInv'
<1>1. /\ phase = "open" /\ phase' = "open" /\ saved' = saved /\ settled' = settled
  BY DEF Setup, increment, initialize_market_domain, initialize_market_domain_v0, deposit,
     deposit_v0, engine_initialize, helper_initialize, set_mode, RunInstruction
<1>2. ~Served /\ phase \notin Settling /\ phase' \notin Settling /\ phase # "idle"
  BY <1>1 DEF Served, Routed, Settling
<1>3. /\ Plans(engine, settled, {}) /\ Counts(engine, settled, {}) /\ EngineInv
      /\ engine \in EngineMaps /\ signers \subseteq Users /\ settled \in SettledStates
  BY <1>2, NotServed, OpenFacts DEF FullInv, EngineInv, LedgerSound
<1>4. Plans(engine', settled, {}) /\ Counts(engine', settled, {})
  <2>1. CASE initialize_market_domain \/ deposit
    <3>1. engine' = engine
      BY <2>1 DEF initialize_market_domain, deposit, initialize_market_domain_v0, deposit_v0
    <3> QED BY <1>3, <3>1
  <2>2. CASE engine_initialize
    <3>1. PICK es \in PlanStates : NewPlan(engine, engine', es)
      BY <1>3, <2>2, EngineInitializeEffect
    <3>2. /\ \A j \in PlanStates : j # es => engine'[j] = engine[j]
          /\ \A j \in HelperStates : engine'[j] = engine[j]
      BY <3>1, EngineKinds DEF NewPlan
    <3>3. Counts(engine', settled, {})
      BY <1>3, <3>2 DEF Counts
    <3>4. Plans(engine', settled, {})
      BY <1>3, <3>1, <3>2 DEF Plans, InStep, NewPlan
    <3> QED BY <3>3, <3>4
  <2>3. CASE helper_initialize
    <3>1. PICK h \in HelperStates :
            /\ engine[h] = None /\ engine'[h] # None /\ engine'[h].calls = 0
            /\ \A j \in EngineStates : j # h => engine'[j] = engine[j]
      BY <1>3, <2>3, HelperInitializeEffect
    <3>2. /\ \A j \in PlanStates : engine'[j] = engine[j]
          /\ \A j \in HelperStates : j # h => engine'[j] = engine[j]
      BY <3>1, EngineKinds
    <3>3. Counts(engine', settled, {})
      BY <1>3, <3>1, <3>2 DEF Counts
    <3>4. Plans(engine', settled, {})
      BY <1>3, <3>2 DEF Plans, InStep
    <3> QED BY <3>3, <3>4
  <2>4. CASE set_mode
    <3>1. PICK es \in PlanStates :
            /\ engine[es] # None /\ engine'[es] # None
            /\ engine'[es].sequence = engine[es].sequence
            /\ engine'[es].last_execution_digest = engine[es].last_execution_digest
            /\ engine'[es].last_amount_out = engine[es].last_amount_out
            /\ \A j \in EngineStates : j # es => engine'[j] = engine[j]
      BY <1>3, <2>4, SetModeEffect
    <3>2. /\ \A j \in PlanStates : j # es => engine'[j] = engine[j]
          /\ \A j \in HelperStates : engine'[j] = engine[j]
      BY <3>1, EngineKinds
    <3>3. Counts(engine', settled, {})
      BY <1>3, <3>2 DEF Counts
    <3>4. Plans(engine', settled, {})
      BY <1>3, <3>1, <3>2 DEF Plans, InStep
    <3> QED BY <3>3, <3>4
  <2>5. CASE increment
    <3>1. PICK h \in HelperStates :
            Incremented(engine, engine', h) /\ ~Serves(engine[h].allowed_callback)
      BY <1>3, <2>5, IncrementEffect
    <3> QED BY <1>3, <3>1, StrangerCounted
  <2> QED BY <2>1, <2>2, <2>3, <2>4, <2>5 DEF Setup
<1> QED BY <1>1, <1>2, <1>3, <1>4, EnginesAtRest

\* What the bindings of requests read: the execution, its market's revision, and whether
\* the engine's state exists.
LEMMA BindingKept ==
  ASSUME SameOrder(ix, ix'), UNCHANGED market,
         (engine'[ix.engine_state] = None) <=> (engine[ix.engine_state] = None),
         \/ ix.args.timing_mode = TIMING_SINGLE
         \/ ix'.settlement = ix.settlement /\ ix'.primary_sequence = ix.primary_sequence
  PROVE  /\ OwnerOf(ix.engine_state)' = OwnerOf(ix.engine_state)
         /\ compute_execution_digest(MutatingRequest)' = compute_execution_digest(MutatingRequest)
<1>1. OwnerOf(ix.engine_state)' = OwnerOf(ix.engine_state)
  BY DEF SameOrder, OwnerOf
<1>2. /\ phase_descriptors(ix, PHASE_TRANSITION)' = phase_descriptors(ix, PHASE_TRANSITION)
      /\ phase_descriptors(ix, PHASE_COMMIT)' = phase_descriptors(ix, PHASE_COMMIT)
  BY <1>1 DEF SameOrder, phase_descriptors, capability_descriptors, Descriptor, IsExecutable
<1>3. ASSUME ix.args.timing_mode = TIMING_SINGLE
      PROVE  MutatingRequest' = MutatingRequest
  <2>1. /\ MutatingRequest = build_engine_request(ix, PHASE_TRANSITION, None,
                                                  ix.args.expected_engine_sequence)
        /\ MutatingRequest' = build_engine_request(ix, PHASE_TRANSITION, None,
                                                   ix.args.expected_engine_sequence)'
    BY <1>3 DEF SameOrder, MutatingRequest, primary_request, primary_phase
  <2> QED BY <1>2, <2>1 DEF SameOrder, build_engine_request, compute_capability_hash
<1>4. ASSUME ix.args.timing_mode # TIMING_SINGLE
      PROVE  MutatingRequest' = MutatingRequest
  <2>1. /\ MutatingRequest = build_engine_request(ix, PHASE_COMMIT, ix.settlement, ix.primary_sequence)
        /\ MutatingRequest' =
             build_engine_request(ix, PHASE_COMMIT, ix.settlement, ix.primary_sequence)'
    BY <1>4 DEF SameOrder, MutatingRequest, commit_request
  <2> QED BY <1>2, <1>4, <2>1 DEF SameOrder, build_engine_request, compute_capability_hash
<1> QED BY <1>1, <1>3, <1>4 DEF compute_execution_digest

\* An execution starts with every engine in step.
LEMMA ExecuteEngines ==
  ASSUME FullInv, execute_callback_authenticated_probe_v0
  PROVE  EngineInv'
<1>1. /\ phase = "open" /\ phase' = "primary" /\ engine' = engine /\ settled' = settled
      /\ saved' = saved
  BY DEF execute_callback_authenticated_probe_v0, RunInstruction, chain
<1>2. ~Served /\ ~Served' /\ phase # "idle" /\ phase' \notin Accepted
      /\ phase' \notin {"receipt", "commit_receipt", "commit"}
  BY <1>1 DEF Served, Routed, Called, Settling, Accepted
<1>3. Starts(ix')
  BY ExecuteSound DEF FullInv
<1>4. OwnerOf(ix.engine_state)' = ix'.engine_program
  BY <1>1, <1>3 DEF Starts, OwnerOf
<1>5. AheadStates' = {} /\ HelpedNow' = {}
  BY <1>2 DEF AheadStates, HelpedNow
<1>6. Plans(engine, settled, {}) /\ Counts(engine, settled, {})
  BY <1>2, NotServed DEF FullInv, EngineInv
<1>7. Bound' /\ AnswerSound'
  BY <1>2, <1>4 DEF Bound, AnswerSound, Answers
<1> QED BY <1>1, <1>2, <1>5, <1>6, <1>7 DEF FullInv, EngineInv

\* The acts and answers of an engine of unknown code leave every state and every helper of
\* the routed engine in step.
LEMMA ForeignEngines ==
  ASSUME FullInv, foreign_engine
  PROVE  EngineInv'
<1>1. /\ phase \in {"primary", "commit"} /\ phase' = AfterEngine
      /\ ix.engine_program # RoutedPlanEngine
      /\ ix' = ix /\ settled' = settled /\ saved' = saved /\ market' = market
      /\ \/ engine' = engine
         \/ \E h \in HelperStates : Incremented(engine, engine', h)
                                    /\ ~Serves(engine[h].allowed_callback)
  BY ForeignStep DEF FullInv
<1>2. /\ phase \in Settling /\ phase' \in Settling /\ phase # "idle"
      /\ phase' \in {"commit", "commit_receipt"} => phase = "commit"
  BY <1>1 DEF Settling, AfterEngine
<1>3. ~Served /\ ~Served' /\ ~Routed' /\ AheadStates' = {} /\ HelpedNow' = {}
  BY <1>1 DEF Served, Routed, AheadStates, HelpedNow
<1>4. Plans(engine, settled, {}) /\ Counts(engine, settled, {})
  BY <1>3, NotServed DEF FullInv, EngineInv
<1>5. /\ Plans(engine', settled, {}) /\ Counts(engine', settled, {})
      /\ (engine'[ix.engine_state] = None) <=> (engine[ix.engine_state] = None)
  <2>1. CASE engine' = engine
    BY <1>4, <2>1
  <2>2. CASE \E h \in HelperStates : Incremented(engine, engine', h)
                                     /\ ~Serves(engine[h].allowed_callback)
    <3>1. PICK h \in HelperStates :
            Incremented(engine, engine', h) /\ ~Serves(engine[h].allowed_callback)
      BY <2>2
    <3>2. ix.engine_state \in EngineStates
      BY <1>2, SettlingFacts DEF FullInv
    <3>3. (engine'[ix.engine_state] = None) <=> (engine[ix.engine_state] = None)
      BY <3>1, <3>2 DEF Incremented
    <3> QED BY <1>4, <3>1, <3>3, StrangerCounted
  <2> QED BY <1>1, <2>1, <2>2
<1>6. Bound'
  <2>1. /\ OwnerOf(ix.engine_state) = ix.engine_program
        /\ phase = "commit" => ix.args.timing_mode = TIMING_PREPARE_COMMIT
    BY <1>2 DEF FullInv, EngineInv, Bound
  <2>2. OwnerOf(ix.engine_state)' = OwnerOf(ix.engine_state)
    BY <1>1, <1>5 DEF OwnerOf
  <2> QED BY <1>1, <1>2, <2>1, <2>2 DEF Bound
<1> QED BY <1>1, <1>2, <1>3, <1>5, <1>6 DEF FullInv, EngineInv, AnswerSound

\* The helper that Core's call names is the second account of the closure.
LEMMA HelperNamed ==
  ASSUME BaseInv, phase \in Settling, EvaluateSucceeds(CoreCall), CallsHelper(CoreCall)
  PROVE  CoreCall.accounts[2].key = ix.opaque[2].key
<1> DEFINE o == ix.opaque
           authorized == request_in_flight.phase # PHASE_PREPARE
           seen == CoreCall.accounts
<1>1. /\ o \in Seq(Descriptors) /\ ix.engine_state \in EngineStates
      /\ seen = Tail(Observed(capability_descriptors(ix.engine_state, o, authorized)))
  BY SettlingFacts, CallTyped DEF phase_descriptors
<1>2. authorized \in BOOLEAN
  OBVIOUS
<1> HIDE DEF authorized
<1>3. SeenAs(seen, ix.engine_state, o)
  BY <1>1, <1>2, AccountsSeen
<1>4. Len(seen) \in 2 .. MaxOpaqueAccounts
  BY DEF EvaluateSucceeds, helper_call_ok
<1> HIDE DEF seen
<1>5. 2 \in DOMAIN o
  BY <1>1, <1>3, <1>4, CapabilityAssumption DEF SeenAs
<1>6. seen[2].key = o[2].key
  BY <1>3, <1>5 DEF SeenAs
<1> QED BY <1>6 DEF seen

\* The call in flight: PREPARE, which writes nothing, or the one request that does.
LEMMA CallInFlight ==
  ASSUME FullInv, phase \in {"primary", "commit"}
  PROVE  /\ request_in_flight.accounted_input_before = ix.accounted_a
         /\ request_in_flight.accounted_output_before = ix.accounted_b
         /\ request_in_flight.amount_in = ix.args.amount_in
         /\ request_in_flight.payload = ix.args.opaque_payload
         /\ AfterEngine \in Settling /\ AfterEngine \in {"receipt", "commit_receipt"}
         /\ ~Served
         /\ IF request_in_flight.phase = PHASE_PREPARE
            THEN AfterEngine \notin Called(ix.args.timing_mode)
            ELSE AfterEngine \in Called(ix.args.timing_mode) /\ request_in_flight = MutatingRequest
<1>1. /\ request_in_flight.accounted_input_before = ix.accounted_a
      /\ request_in_flight.accounted_output_before = ix.accounted_b
      /\ request_in_flight.amount_in = ix.args.amount_in
      /\ request_in_flight.payload = ix.args.opaque_payload
  BY DEF request_in_flight, primary_request, commit_request, build_engine_request
<1>2. AfterEngine \in Settling /\ AfterEngine \in {"receipt", "commit_receipt"} /\ ~Served
  BY DEF AfterEngine, Settling, Served, Called
<1>3. phase \in Settling
  BY DEF Settling
<1>4. CASE phase = "primary"
  <2>1. /\ AfterEngine = "receipt" /\ request_in_flight = primary_request(ix)
        /\ request_in_flight.phase = primary_phase(ix.args.timing_mode)
    BY <1>3, <1>4, RequestsTyped DEF AfterEngine, request_in_flight, FullInv
  <2>2. CASE ix.args.timing_mode = TIMING_SINGLE
    BY <1>1, <1>2, <2>1, <2>2 DEF primary_phase, PHASE_TRANSITION, PHASE_PREPARE, Called, MutatingRequest
  <2>3. CASE ix.args.timing_mode # TIMING_SINGLE
    BY <1>1, <1>2, <2>1, <2>3 DEF primary_phase, Called
  <2> QED BY <2>2, <2>3
<1>5. CASE phase = "commit"
  <2>1. ix.args.timing_mode = TIMING_PREPARE_COMMIT
    BY <1>5 DEF FullInv, EngineInv, Bound
  <2>2. /\ AfterEngine = "commit_receipt" /\ request_in_flight = commit_request(ix)
        /\ request_in_flight.phase = PHASE_COMMIT
    BY <1>3, <1>5, RequestsTyped DEF AfterEngine, request_in_flight, FullInv
  <2>3. ix.args.timing_mode # TIMING_SINGLE /\ PHASE_COMMIT # PHASE_PREPARE
    BY <2>1 DEF TIMING_SINGLE, TIMING_PREPARE_COMMIT, PHASE_COMMIT, PHASE_PREPARE
  <2> QED BY <1>1, <1>2, <2>2, <2>3 DEF Called, MutatingRequest
<1> QED BY <1>4, <1>5

\* PREPARE answers with a price and writes nothing.
LEMMA PrepareEngines ==
  ASSUME FullInv, evaluate_phase, request_in_flight.phase = PHASE_PREPARE,
         ret' # None /\ ret'.setter = RoutedPlanEngine => Priced(ix, ret'.amount_out)
  PROVE  EngineInv'
<1>1. /\ phase \in {"primary", "commit"} /\ phase' = AfterEngine
      /\ engine' = EvaluatedEngine(CoreCall)
      /\ settled' = settled /\ saved' = saved /\ ix' = ix /\ market' = market
  BY EvaluateStep DEF FullInv
<1>2. /\ phase' \in Settling /\ phase' \in {"receipt", "commit_receipt"} /\ ~Served
      /\ phase' \notin Called(ix.args.timing_mode)
      /\ phase' \in Accepted => phase \in Accepted
      /\ phase' \in {"commit", "commit_receipt"} => phase = "commit"
      /\ phase \in Settling /\ phase # "idle"
  BY <1>1, CallInFlight DEF AfterEngine, Accepted, Settling
<1>3. engine' = engine
  <2>1. CoreCall.binding = request_in_flight
    BY <1>2, CallTyped DEF FullInv
  <2> QED BY <1>1, <2>1 DEF EvaluatedEngine
<1>4. ~Served' /\ AheadStates' = {} /\ HelpedNow' = {}
  BY <1>1, <1>2 DEF Served, AheadStates, HelpedNow
<1>5. Plans(engine, settled, {}) /\ Counts(engine, settled, {})
  BY <1>2, NotServed DEF FullInv, EngineInv
<1>6. Bound'
  <2>1. OwnerOf(ix.engine_state)' = OwnerOf(ix.engine_state)
    BY <1>1, <1>3 DEF OwnerOf
  <2> QED BY <1>1, <1>2, <2>1 DEF Bound, FullInv, EngineInv
<1>7. AnswerSound'
  <2>1. Routed' => Routed
    BY <1>1, <1>2 DEF Routed
  <2>2. Routed /\ phase \in Accepted => Priced(ix, ix.amount_out)
    BY DEF FullInv, EngineInv, AnswerSound
  <2> QED BY <1>1, <1>2, <1>4, <2>1, <2>2 DEF AnswerSound, Answers, Priced
<1> QED BY <1>1, <1>2, <1>3, <1>4, <1>5, <1>6, <1>7 DEF FullInv, EngineInv

\* TRANSITION or COMMIT puts the engine's state, and the helper it names, one execution ahead.
LEMMA MutateEngines ==
  ASSUME FullInv, evaluate_phase, request_in_flight.phase # PHASE_PREPARE,
         ret' # None /\ ret'.setter = RoutedPlanEngine =>
           ret'.amount_out = EvaluateAmountOut(CoreCall) /\ Priced(ix, ret'.amount_out)
  PROVE  EngineInv'
<1> DEFINE call == CoreCall
           es == ix.engine_state
           h == ix.opaque[2].key
           helped == ix.args.opaque_payload # None
           q == EvaluateAmountOut(call)
           digest == compute_execution_digest(MutatingRequest)
<1>1. /\ phase \in {"primary", "commit"} /\ phase' = AfterEngine
      /\ ix.engine_program = RoutedPlanEngine
      /\ EvaluateSucceeds(call) /\ engine' = EvaluatedEngine(call)
      /\ settled' = settled /\ saved' = saved /\ ix' = ix /\ market' = market
  BY EvaluateStep DEF FullInv
<1>2. /\ phase' \in Settling /\ phase' \in {"receipt", "commit_receipt"} /\ ~Served
      /\ phase' \in Called(ix.args.timing_mode) /\ request_in_flight = MutatingRequest
      /\ phase' \in Accepted => phase \in Accepted
      /\ phase' \notin Accepted \ {"commit_receipt"}
      /\ phase' \in {"commit", "commit_receipt"} => phase = "commit"
      /\ phase \in Settling /\ phase # "idle" /\ BaseInv
      /\ request_in_flight.payload = ix.args.opaque_payload
  BY <1>1, CallInFlight DEF AfterEngine, Accepted, Settling, FullInv
<1>3. /\ call.binding \in Requests(Settlements) /\ call.engine_state = es
      /\ call.binding = MutatingRequest /\ call.binding.phase # PHASE_PREPARE
      /\ engine \in EngineMaps /\ es \in EngineStates
      /\ call.binding.payload = ix.args.opaque_payload
  BY <1>2, CallTyped, SettlingFacts
<1>4. Evaluated(engine, engine', call) /\ engine'[es].last_amount_out = q
  BY <1>1, <1>3, EvaluatedFacts
<1>5. CallsHelper(call) <=> helped
  BY <1>3 DEF CallsHelper
<1>6. helped => call.accounts[2].key = h
  BY <1>1, <1>2, <1>5, HelperNamed
<1> HIDE DEF q, call
<1>9. /\ es \in PlanStates /\ engine[es] # None
      /\ engine'[es].sequence = engine[es].sequence + 1
      /\ engine'[es].last_execution_digest = digest
      /\ helped => /\ h \in HelperStates /\ engine[h] # None
                   /\ engine'[h].calls = engine[h].calls + 1
                   /\ engine'[h].allowed_callback = engine[h].allowed_callback
      /\ \A j \in EngineStates : j = es \/ (helped /\ j = h) \/ engine'[j] = engine[j]
      /\ \A j \in EngineStates : (engine'[j] = None) <=> (engine[j] = None)
  BY <1>3, <1>4, <1>5, <1>6 DEF Evaluated
<1>10. Plans(engine, settled, {}) /\ Counts(engine, settled, {})
  BY <1>2, NotServed DEF FullInv, EngineInv
<1>11. Served' /\ AheadStates' = {es} /\ HelpedNow' = IF helped THEN {h} ELSE {}
  BY <1>1, <1>2 DEF Served, Routed, AheadStates, HelpedNow
<1>12. /\ OwnerOf(ix.engine_state)' = OwnerOf(ix.engine_state)
       /\ compute_execution_digest(MutatingRequest)' = digest
  BY <1>1, <1>3, <1>9, BindingKept DEF SameOrder
<1> HIDE DEF digest, es, h, helped
<1>13. Bound'
  BY <1>1, <1>2, <1>12 DEF Bound, FullInv, EngineInv
<1>14. Plans(engine', settled, {es})
  <2>1. \A j \in PlanStates : j \in EngineStates /\ j \notin HelperStates
    BY EngineKinds
  <2>2. \A j \in PlanStates : j # es => engine'[j] = engine[j]
    BY <1>9, <2>1
  <2> QED BY <1>10, <2>2 DEF Plans, InStep
<1>15. Ahead(engine', settled, es, digest)
  <2>1. InStep(engine, settled, es)
    BY <1>9, <1>10 DEF Plans
  <2> QED BY <1>3, <1>9, <2>1 DEF Ahead, InStep
<1>16. Counts(engine', settled, IF helped THEN {h} ELSE {})
  <2>1. /\ \A j \in HelperStates : j \in EngineStates /\ j \notin PlanStates
        /\ settled.helped \in [EngineStates -> Nat]
    BY <1>2, EngineKinds, SettlingFacts DEF SettledStates
  <2>2. \A j \in HelperStates : (helped /\ j = h) \/ engine'[j] = engine[j]
    BY <1>9, <2>1
  <2>3. \A j \in HelperStates : (engine'[j] = None) <=> (engine[j] = None)
    BY <1>9, <2>1
  <2>4. CASE helped
    <3>1. \A j \in HelperStates : j # h => engine'[j] = engine[j]
      BY <2>2
    <3>2. /\ h \in HelperStates /\ engine[h] # None /\ engine'[h] # None
          /\ engine'[h].calls = engine[h].calls + 1
          /\ engine'[h].allowed_callback = engine[h].allowed_callback
      BY <1>9, <2>3, <2>4
    <3>3. Counts(engine', settled, {h})
      BY <1>10, <2>1, <3>1, <3>2 DEF Counts
    <3> QED BY <2>4, <3>3
  <2>5. CASE ~helped
    <3>1. \A j \in HelperStates : engine'[j] = engine[j]
      BY <2>2, <2>5
    <3>2. Counts(engine', settled, {})
      BY <1>10, <3>1 DEF Counts
    <3> QED BY <2>5, <3>2
  <2> QED BY <2>4, <2>5
<1>17. AnswerSound'
  <2>1. Routed' => Routed
    BY <1>1, <1>2 DEF Routed
  <2>2. Routed /\ phase \in Accepted => Priced(ix, ix.amount_out)
    BY DEF FullInv, EngineInv, AnswerSound
  <2>3. Answers' => ret'.amount_out = q /\ Priced(ix, ret'.amount_out)
    BY DEF Answers, q, call
  <2>4. engine'[ix'.engine_state].last_amount_out = q
    BY <1>1, <1>4 DEF es
  <2> QED BY <1>1, <1>2, <2>1, <2>2, <2>3, <2>4 DEF AnswerSound, Priced
<1>18. ix'.engine_state = es
  BY <1>1 DEF es
<1> QED BY <1>1, <1>2, <1>11, <1>12, <1>13, <1>14, <1>15, <1>16, <1>17, <1>18
        DEF FullInv, EngineInv

\* A call of the engine, whichever phase Core asks for.
LEMMA EvaluateEngines ==
  ASSUME FullInv, evaluate_phase
  PROVE  EngineInv'
<1> DEFINE q == EvaluateAmountOut(CoreCall)
<1>1. /\ phase \in {"primary", "commit"} /\ EvaluateSucceeds(CoreCall)
      /\ ret' = EvaluateReturn(CoreCall) /\ phase \in Settling
  BY EvaluateStep DEF FullInv, Settling
<1>2. /\ engine \in EngineMaps /\ CoreCall.binding \in Requests(Settlements)
      /\ CoreCall.binding.accounted_input_before = ix.accounted_a
      /\ CoreCall.binding.accounted_output_before = ix.accounted_b
      /\ CoreCall.binding.amount_in = ix.args.amount_in
  BY <1>1, SettlingFacts, CallTyped, CallInFlight DEF FullInv
<1>3. Priced(ix, q)
  BY <1>1, <1>2, AmountOutFacts DEF Priced
<1>4. ret' # None /\ ret'.setter = RoutedPlanEngine => ret'.amount_out = q
  BY <1>1, <1>2, ReturnFacts
<1> HIDE DEF q
<1>5. ret' # None /\ ret'.setter = RoutedPlanEngine =>
        ret'.amount_out = q /\ Priced(ix, ret'.amount_out)
  BY <1>3, <1>4
<1> QED BY <1>5, PrepareEngines, MutateEngines DEF q

\* A step inside an execution that leaves the engines alone and binds the same request.
LEMMA EnginesCarried ==
  ASSUME FullInv, phase \in Settling, phase' \in Settling, SameOrder(ix, ix'),
         UNCHANGED <<engine, settled, saved, market>>, (Served' <=> Served),
         Served => \/ ix.args.timing_mode = TIMING_SINGLE
                   \/ ix'.settlement = ix.settlement /\ ix'.primary_sequence = ix.primary_sequence,
         phase' \in {"commit", "commit_receipt"} => ix.args.timing_mode = TIMING_PREPARE_COMMIT,
         AnswerSound'
  PROVE  EngineInv'
<1>1. /\ ix'.engine_state = ix.engine_state /\ ix'.engine_program = ix.engine_program
      /\ ix'.args = ix.args /\ ix'.opaque = ix.opaque
  BY DEF SameOrder
<1>2. AheadStates' = AheadStates /\ HelpedNow' = HelpedNow
  BY <1>1 DEF AheadStates, HelpedNow
<1>3. Bound'
  <2>1. OwnerOf(ix.engine_state)' = OwnerOf(ix.engine_state)
    BY <1>1 DEF OwnerOf
  <2> QED BY <1>1, <2>1 DEF Bound, FullInv, EngineInv
<1>4. Served' => Ahead(engine', settled', ix'.engine_state, compute_execution_digest(MutatingRequest)')
  <2>1. SUFFICES ASSUME Served
                 PROVE  Ahead(engine', settled', ix'.engine_state,
                              compute_execution_digest(MutatingRequest)')
    OBVIOUS
  <2>2. compute_execution_digest(MutatingRequest)' = compute_execution_digest(MutatingRequest)
    BY <2>1, BindingKept
  <2> QED BY <1>1, <2>1, <2>2 DEF FullInv, EngineInv
<1>5. phase # "idle"
  BY DEF Settling
<1> QED BY <1>2, <1>3, <1>4, <1>5 DEF FullInv, EngineInv

\* Accepting the first receipt leaves the engines alone; the output settled is the engine's.
LEMMA AcceptEngines ==
  ASSUME FullInv, accept_primary
  PROVE  EngineInv'
<1>1. /\ phase = "receipt" /\ phase' = "input" /\ ret # None /\ ret.setter = ix.engine_program
      /\ UNCHANGED <<engine, settled, saved, market, ret>>
  BY DEF accept_primary, receipt_accepted, chain
<1>2. /\ phase \in Settling /\ phase' \in Settling /\ phase' \in Accepted
      /\ phase' \notin {"receipt", "commit_receipt", "commit"}
  BY <1>1 DEF Settling, Accepted
<1>3. SameOrder(ix, ix') /\ ix'.amount_out = ret.amount_out
  BY AcceptSound DEF FullInv
<1>4. /\ ix'.engine_state = ix.engine_state /\ ix'.engine_program = ix.engine_program
      /\ ix'.args = ix.args /\ ix'.accounted_a = ix.accounted_a /\ ix'.accounted_b = ix.accounted_b
  BY <1>3 DEF SameOrder
<1>5. (Served' <=> Served) /\ (Served => ix.args.timing_mode = TIMING_SINGLE) /\ (Routed' => Routed)
  BY <1>1, <1>2, <1>4 DEF Served, Routed, Called
<1>6. AnswerSound'
  <2>1. Routed => Priced(ix, ret.amount_out)
    BY <1>1 DEF FullInv, EngineInv, AnswerSound, Answers, Routed
  <2>2. Served => ret.amount_out = engine[ix.engine_state].last_amount_out
    BY <1>1 DEF FullInv, EngineInv, AnswerSound, Answers, Served, Routed
  <2>3. Routed => Priced(ix', ix'.amount_out)
    BY <1>3, <1>4, <2>1 DEF Priced
  <2> QED BY <1>1, <1>2, <1>3, <1>4, <1>5, <2>2, <2>3 DEF AnswerSound, Answers
<1> QED BY <1>1, <1>2, <1>3, <1>5, <1>6, EnginesCarried

\* The phases of an execution whose output is known, but for the engine's COMMIT.
LEMMA AnswerCarried ==
  ASSUME FullInv, phase \in Accepted, phase' \in Accepted \ {"commit_receipt"},
         SameOrder(ix, ix'), ix'.amount_out = ix.amount_out, UNCHANGED engine,
         Served' => Served /\ phase # "commit_receipt"
  PROVE  AnswerSound'
<1>1. /\ ix'.engine_state = ix.engine_state /\ ix'.engine_program = ix.engine_program
      /\ ix'.args = ix.args /\ ix'.accounted_a = ix.accounted_a /\ ix'.accounted_b = ix.accounted_b
  BY DEF SameOrder
<1>2. phase' \notin {"receipt", "commit_receipt"} /\ phase \in Settling
  BY DEF Accepted, Settling
<1>3. Routed' => Routed
  BY <1>1, <1>2 DEF Routed
<1>4. Routed => Priced(ix, ix.amount_out)
  BY DEF FullInv, EngineInv, AnswerSound
<1>5. Routed' => Priced(ix', ix'.amount_out)
  BY <1>1, <1>3, <1>4 DEF Priced
<1>6. Served' => ix'.amount_out = engine'[ix'.engine_state].last_amount_out
  BY <1>1 DEF FullInv, EngineInv, AnswerSound
<1> QED BY <1>2, <1>5, <1>6 DEF AnswerSound, Answers

\* The transfers leave the engines alone.
LEMMA TransferEngines ==
  ASSUME FullInv, transfer_input \/ transfer_fee \/ transfer_output
  PROVE  EngineInv'
<1>1. /\ phase \in {"input", "fee", "output"} /\ phase' \in {"fee", "output", "settle"}
      /\ UNCHANGED <<engine, settled, saved, market, ix>>
  BY InputFeeSteps, OutputStep DEF FullInv
<1>2. /\ phase \in Settling /\ phase' \in Settling /\ phase \in Accepted
      /\ phase' \in Accepted \ {"commit_receipt"} /\ phase # "commit_receipt"
      /\ phase' \notin {"commit", "commit_receipt"}
  BY <1>1 DEF Settling, Accepted
<1>3. Served' <=> Served
  BY <1>1, <1>2 DEF Served, Routed, Called
<1>4. SameOrder(ix, ix') /\ ix'.amount_out = ix.amount_out /\ ix'.settlement = ix.settlement
      /\ ix'.primary_sequence = ix.primary_sequence
  BY <1>1 DEF SameOrder
<1>5. AnswerSound'
  BY <1>1, <1>2, <1>3, <1>4, AnswerCarried
<1> QED BY <1>1, <1>2, <1>3, <1>4, <1>5, EnginesCarried

\* The digest of the settlement is part of the request of COMMIT only.
LEMMA SettleEngines ==
  ASSUME FullInv, settle
  PROVE  EngineInv'
<1>1. /\ phase = "settle" /\ phase' \in {"commit", "finalize"}
      /\ (phase' = "commit") <=> (ix.args.timing_mode = TIMING_PREPARE_COMMIT)
      /\ SameOrder(ix, ix') /\ ix'.amount_out = ix.amount_out
      /\ UNCHANGED <<engine, settled, saved, market>>
  BY SettleSound DEF FullInv
<1>2. /\ phase \in Settling /\ phase' \in Settling /\ phase \in Accepted
      /\ phase' \in Accepted \ {"commit_receipt"} /\ phase # "commit_receipt"
      /\ phase' # "commit_receipt"
  BY <1>1 DEF Settling, Accepted
<1>3. ix.args.timing_mode \in TimingModes /\ ix'.args = ix.args
      /\ ix'.engine_program = ix.engine_program
  BY <1>1, <1>2, SettlingFacts DEF FullInv, ExecuteArgsType, SameOrder
<1>4. (Served' <=> Served) /\ (Served => ix.args.timing_mode = TIMING_SINGLE)
  BY <1>1, <1>2, <1>3 DEF Served, Routed, Called, TimingModes, TIMING_SINGLE, TIMING_PREPARE_COMMIT
<1>5. AnswerSound'
  BY <1>1, <1>2, <1>4, AnswerCarried
<1> QED BY <1>1, <1>2, <1>4, <1>5, EnginesCarried

\* The receipt of COMMIT confirms the output that was settled.
LEMMA AcceptCommitEngines ==
  ASSUME FullInv, accept_commit
  PROVE  EngineInv'
<1>1. /\ phase = "commit_receipt" /\ phase' = "finalize" /\ ret # None
      /\ ret.setter = ix.engine_program /\ ret.amount_out = ix.amount_out
      /\ UNCHANGED <<engine, settled, saved, market, ix, ret>>
  BY DEF accept_commit, receipt_accepted, chain
<1>2. /\ phase \in Settling /\ phase' \in Settling /\ phase \in Accepted
      /\ phase' \notin {"receipt", "commit_receipt", "commit"}
  BY <1>1 DEF Settling, Accepted
<1>3. ix.args.timing_mode = TIMING_PREPARE_COMMIT
  BY <1>1 DEF FullInv, EngineInv, Bound
<1>4. (Served' <=> Served) /\ (Routed' => Routed)
  BY <1>1, <1>2, <1>3 DEF Served, Routed, Called, TIMING_SINGLE, TIMING_PREPARE_COMMIT
<1>5. SameOrder(ix, ix') /\ ix'.settlement = ix.settlement /\ ix'.primary_sequence = ix.primary_sequence
  BY <1>1 DEF SameOrder
<1>6. AnswerSound'
  <2>1. Served => ix.amount_out = engine[ix.engine_state].last_amount_out
    BY <1>1 DEF FullInv, EngineInv, AnswerSound, Answers, Served, Routed
  <2>2. Routed => Priced(ix, ix.amount_out)
    BY <1>2 DEF FullInv, EngineInv, AnswerSound
  <2> QED BY <1>1, <1>2, <1>4, <2>1, <2>2 DEF AnswerSound, Answers, Priced
<1> QED BY <1>1, <1>2, <1>4, <1>5, <1>6, EnginesCarried

\* Settling the execution brings the engines back in step.
LEMMA FinalizeEngines ==
  ASSUME FullInv, finalize
  PROVE  EngineInv'
<1> DEFINE es == ix.engine_state
           digest == compute_execution_digest(MutatingRequest)
<1>1. /\ phase = "finalize" /\ phase' = "open" /\ engine' = engine /\ saved' = saved /\ BaseInv
  BY FinalizeWrites DEF FullInv
<1>2. /\ phase \in Settling /\ phase' \notin Settling /\ phase \in Accepted \ {"commit_receipt"}
      /\ phase # "idle" /\ phase \in Called(ix.args.timing_mode)
  BY <1>1 DEF Settling, Called, Accepted
<1>3. /\ settled'.engines[es].count = settled.engines[es].count + 1
      /\ settled'.engines[es].execution = digest
      /\ settled'.engines[es].amount_out = ix.amount_out
      /\ \A j \in EngineStates : j # es => settled'.engines[j] = settled.engines[j]
      /\ \A j \in EngineStates : settled'.helped[j] = settled.helped[j] + (IF HelpedBy(j) THEN 1 ELSE 0)
  BY <1>1, FinalizeRecords
<1>4. /\ settled.helped \in [EngineStates -> Nat] /\ es \in EngineStates
      /\ \A j \in PlanStates : j \in EngineStates
      /\ \A j \in HelperStates : j \in EngineStates
  BY <1>1, <1>2, SettlingFacts, EngineKinds DEF SettledStates
<1>5. CASE ix.engine_program = RoutedPlanEngine
  <2>1. Served /\ AheadStates = {es}
    BY <1>2, <1>5 DEF Served, Routed, AheadStates
  <2>2. Ahead(engine, settled, es, digest) /\ Plans(engine, settled, {es})
        /\ ix.amount_out = engine[es].last_amount_out
    BY <1>2, <2>1 DEF FullInv, EngineInv, AnswerSound
  <2>3. \A j \in EngineStates : HelpedBy(j) <=> j \in HelpedNow
    BY <1>5, <2>1 DEF HelpedBy, HelpedNow
  <2> HIDE DEF es, digest
  <2>4. Plans(engine, settled', {})
    BY <1>3, <1>4, <2>2 DEF Plans, Ahead, InStep
  <2>5. Counts(engine, settled, HelpedNow)
    BY DEF FullInv, EngineInv
  <2>6. \A j \in HelperStates : settled'.helped[j] = settled.helped[j] + (IF j \in HelpedNow THEN 1 ELSE 0)
    BY <1>3, <1>4, <2>3
  <2>7. Counts(engine, settled', {})
    <3> SUFFICES ASSUME NEW j \in HelperStates
                 PROVE  IF engine[j] = None
                        THEN settled'.helped[j] = 0
                        ELSE Serves(engine[j].allowed_callback) =>
                               engine[j].calls = settled'.helped[j] + 0
      BY DEF Counts
    <3>1. settled.helped[j] \in Nat
      BY <1>4
    <3>2. settled'.helped[j] = settled.helped[j] + (IF j \in HelpedNow THEN 1 ELSE 0)
      BY <2>6
    <3>3. settled'.helped[j] \in Nat
      BY <3>1, <3>2
    <3>4. CASE engine[j] = None
      <4>1. settled.helped[j] = 0 /\ j \notin HelpedNow
        BY <2>5, <3>4 DEF Counts
      <4> QED BY <3>2, <3>4, <4>1
    <3>5. CASE engine[j] # None
      <4>1. Serves(engine[j].allowed_callback) =>
              engine[j].calls = settled.helped[j] + (IF j \in HelpedNow THEN 1 ELSE 0)
        BY <2>5, <3>5 DEF Counts
      <4> QED BY <3>2, <3>3, <3>5, <4>1
    <3> QED BY <3>4, <3>5
  <2> QED BY <1>1, <1>2, <2>4, <2>7, EnginesAtRest DEF FullInv
<1>6. CASE ix.engine_program # RoutedPlanEngine
  <2>1. AheadStates = {} /\ HelpedNow = {}
    BY <1>6 DEF Served, Routed, AheadStates, HelpedNow
  <2>2. Plans(engine, settled, {}) /\ Counts(engine, settled, {})
    BY <2>1 DEF FullInv, EngineInv
  <2>3. es \notin PlanStates
    <3>1. OwnerOf(es) = ix.engine_program /\ ix.engine_program \in Programs
      BY <1>1, <1>2, SettlingFacts DEF FullInv, EngineInv, Bound, Executions
    <3>2. StateOwner[es] # RoutedPlanEngine
      BY <1>6, <3>1, KeyAssumption DEF OwnerOf
    <3> QED BY <3>2 DEF PlanStates
  <2>4. \A j \in EngineStates : ~HelpedBy(j)
    BY <1>6 DEF HelpedBy
  <2> HIDE DEF es, digest
  <2>5. Plans(engine, settled', {})
    <3>1. \A j \in PlanStates : settled'.engines[j] = settled.engines[j]
      BY <1>3, <1>4, <2>3
    <3> QED BY <2>2, <3>1 DEF Plans, InStep
  <2>6. Counts(engine, settled', {})
    <3>1. \A j \in HelperStates : settled'.helped[j] = settled.helped[j]
      BY <1>3, <1>4, <2>4
    <3> QED BY <2>2, <3>1 DEF Counts
  <2> QED BY <1>1, <1>2, <2>5, <2>6, EnginesAtRest DEF FullInv
<1> QED BY <1>5, <1>6

\* Every step keeps the invariant of the engines.
LEMMA StepEngines ==
  ASSUME FullInv, [Next]_vars
  PROVE  EngineInv'
<1>1. CASE Frame
  BY <1>1, FrameEngines
<1>2. CASE Setup \/ increment
  BY <1>2, SetupEngines
<1>3. CASE authorize_spend_v0 /\ UNCHANGED <<ix, ret>>
  BY <1>3, ApproveEngines
<1>4. CASE Execution
  BY <1>4, ExecuteEngines, EvaluateEngines, ForeignEngines, AcceptEngines, TransferEngines,
     SettleEngines, AcceptCommitEngines, FinalizeEngines DEF Execution
<1>5. CASE UNCHANGED vars
  <2>1. UNCHANGED <<engine, settled, phase, saved, ix, ret, market>>
    BY <1>5 DEF vars, ledgerVars, chain
  <2>2. SameOrder(ix, ix')
    BY <2>1 DEF SameOrder
  <2>3. /\ OwnerOf(ix.engine_state)' = OwnerOf(ix.engine_state)
        /\ compute_execution_digest(MutatingRequest)' = compute_execution_digest(MutatingRequest)
    BY <2>1, <2>2, BindingKept
  <2>4. Served' = Served /\ Routed' = Routed /\ Answers' = Answers
        /\ AheadStates' = AheadStates /\ HelpedNow' = HelpedNow
    BY <2>1 DEF Served, Routed, Answers, AheadStates, HelpedNow
  <2>5. Bound' /\ AnswerSound'
    BY <2>1, <2>3, <2>4 DEF FullInv, EngineInv, Bound, AnswerSound, Priced
  <2> QED BY <2>1, <2>3, <2>4, <2>5 DEF FullInv, EngineInv
<1> QED BY <1>1, <1>2, <1>3, <1>4, <1>5 DEF Next

\* Both invariants hold throughout every behaviour.
THEOREM FullHolds == Spec => []FullInv
<1>1. Init => FullInv
  BY InitSound, InitEngines DEF FullInv
<1>2. FullInv /\ [Next]_vars => FullInv'
  BY StepSound, StepEngines DEF FullInv
<1> QED BY <1>1, <1>2, PTL DEF Spec

\* Between instructions every state of the routed plan engine has advanced once for each
\* execution Core settled with it, and remembers the last: PREPARE, a refused receipt, a
\* failed COMMIT or a call Core did not sign leaves no trace.
THEOREM RoutedInLockstep == Spec => []RoutedLockstep
<1>1. FullInv => RoutedLockstep
  <2>1. SUFFICES ASSUME FullInv, phase \in {"idle", "open"}, NEW es \in RoutedStates
                 PROVE  /\ engine[es].sequence = settled.engines[es].count
                        /\ engine[es].last_execution_digest = settled.engines[es].execution
                        /\ engine[es].last_amount_out = settled.engines[es].amount_out
    BY DEF RoutedLockstep
  <2>2. Plans(engine, settled, {})
    BY <2>1, NotServed DEF FullInv, EngineInv, Served, Routed, Settling
  <2>3. es \in PlanStates /\ engine[es] # None
    BY <2>1 DEF RoutedStates, IsRoutedState, PlanStates
  <2> QED BY <2>2, <2>3 DEF Plans, InStep
<1> QED BY <1>1, FullHolds, PTL

\* Between instructions every helper created for a callback authority of the routed engine
\* has counted exactly the settled executions that named it: no router that forwards the
\* authority and no other engine reaches it.
THEOREM RoutedHelpersInLockstep == Spec => []HelperLockstep
<1>1. FullInv => HelperLockstep
  <2>1. SUFFICES ASSUME FullInv, phase \in {"idle", "open"}, NEW h \in EngineStates,
                        ServesRoutedEngine(h)
                 PROVE  engine[h].calls = settled.helped[h]
    BY DEF HelperLockstep
  <2>2. Counts(engine, settled, {})
    BY <2>1, NotServed DEF FullInv, EngineInv, Served, Routed, Settling
  <2>3. h \in HelperStates /\ engine[h] # None /\ Serves(engine[h].allowed_callback)
    BY <2>1 DEF ServesRoutedEngine, IsHelperState, HelperStates, Serves
  <2>4. engine[h].calls = settled.helped[h] + 0
    BY <2>2, <2>3 DEF Counts
  <2>5. settled \in SettledStates
    BY <2>1 DEF FullInv, BaseInv, RoutedTypeOK, Snapshot, Chains
  <2>6. settled.helped[h] \in Nat
    BY <2>1, <2>5 DEF SettledStates
  <2> QED BY <2>4, <2>6
<1> QED BY <1>1, FullHolds, PTL

\* Only finalize leaves the phase "finalize" forward.
LEMMA CompletionStep ==
  ASSUME BaseInv, Next, phase = "finalize", phase' # "idle"
  PROVE  finalize
<1>1. ~Frame
  BY DEF Frame, BeginTransaction, CommitTransaction, AbortTransaction, AdvanceSlot, SplTransfer,
     SplApprove, SplRevoke, RunInstruction
<1>2. ~Setup /\ ~increment /\ ~authorize_spend_v0
  BY DEF Setup, initialize_market_domain, initialize_market_domain_v0, deposit, deposit_v0,
     engine_initialize, helper_initialize, set_mode, increment, authorize_spend_v0, RunInstruction
<1>3. ~evaluate_phase /\ ~foreign_engine
  BY EvaluateStep DEF foreign_engine
<1> QED BY <1>1, <1>2, <1>3 DEF Next, Execution, execute_callback_authenticated_probe_v0,
           RunInstruction, accept_primary, transfer_input, transfer_fee, transfer_output, settle,
           accept_commit

\* Whatever mode the routed plan engine is in, and in one phase or in two, an execution it
\* priced never lowers the product of the market's accounted reserves.
THEOREM RoutedProductKept == Spec => ProductNeverDecreases
<1> DEFINE Completes == phase = "finalize" /\ Forward /\ ix.engine_program = RoutedPlanEngine
                          /\ ix.accounted_b < U64Max
           NotLowered == domain'[ix.domain].accounted_a * domain'[ix.domain].accounted_b
                      >= domain[ix.domain].accounted_a * domain[ix.domain].accounted_b
<1>1. FullInv /\ Next /\ Completes => NotLowered
  <2> SUFFICES ASSUME FullInv, Next, Completes PROVE NotLowered
    OBVIOUS
  <2> DEFINE d == ix.domain
             n == ix.args.amount_in
             o == ix.amount_out
             a == ix.accounted_a
             b == ix.accounted_b
  <2>1. finalize /\ BaseInv /\ phase = "finalize"
    BY CompletionStep DEF FullInv, Forward
  <2>2. /\ Flight(token, market, domain, fee_ledger, donated, ix, n, ix.protocol_fee, o)
        /\ Answered(ix) /\ domain \in DomainStates
    BY <2>1, PaidInFull, SettlingFacts DEF Settling
  <2>3. domain[d].accounted_a = a /\ domain[d].accounted_b = b /\ domain[d] \in DomainV0
        /\ d \in Domains
    BY <2>2, FlightKeys DEF Flight, Reads
  <2>4. domain' = [domain EXCEPT ![d].accounted_a = a + n, ![d].accounted_b = b - o]
    BY <2>1 DEF finalize, post_accounted_a, post_accounted_b
  <2>5. domain'[d].accounted_a = a + n /\ domain'[d].accounted_b = b - o
    <3> HIDE DEF n, o, a, b, d
    <3> QED BY <2>2, <2>3, <2>4 DEF DomainStates, DomainV0
  <2>6. Routed
    BY <2>1 DEF Routed, Settling
  <2>7. Priced(ix, o)
    BY <2>1, <2>6 DEF FullInv, EngineInv, AnswerSound, Accepted
  <2>8. o > 0 /\ o <= b /\ o \in Int /\ b \in Int /\ a \in Int /\ n \in Int /\ U64Max \in Int
    BY <2>1, <2>2, SettlingFacts, MathAssumption DEF Answered, Settling, U64
  <2>9. (a + n) * (b - o) >= a * b
    <3> HIDE DEF n, o, a, b
    <3>1. o # 0 /\ o # U64Max
      BY <2>8 DEF b
    <3> QED BY <2>7, <3>1 DEF Priced, n, a, b
  <2> HIDE DEF n, o, a, b, d
  <2> QED BY <2>3, <2>5, <2>9 DEF d
<1>2. FullInv /\ [Next]_vars => [Completes => NotLowered]_vars
  BY <1>1
<1> HIDE DEF Completes, NotLowered
<1>3. Spec => [][Completes => NotLowered]_vars
  BY <1>2, FullHolds, PTL DEF Spec
<1> QED BY <1>3 DEF Completes, NotLowered, ProductNeverDecreases

(***************************************************************************)
(* Isolation.                                                              *)
(***************************************************************************)
\* Approving changes no vault.
LEMMA ApprovalIsolated ==
  ASSUME BaseInv, authorize_spend_v0 \/ SplApprove \/ SplRevoke
  PROVE  \A m \in Markets : ~Touched(m)
<1> SUFFICES ASSUME NEW m \in Markets PROVE ~Touched(m)
  OBVIOUS
<1>1. PICK a \in UserAccounts : \E d, n : token' = Approved(a, d, n)
  BY DEF authorize_spend_v0, SplApprove, SplRevoke
<1>2. PICK d, n : token' = Approved(a, d, n)
  BY <1>1
<1>3. /\ UNCHANGED <<market, domain, fee_ledger>>
      /\ token \in TokenStates /\ a \in TokenAccounts /\ a \notin CoreVaults
  BY OpenFacts, KeyAssumption DEF Settling, LedgerSound, TokenAccounts, authorize_spend_v0,
     SplApprove, SplRevoke, RunInstruction
<1>4. ASSUME NEW v \in VaultsOf(m) PROVE Spared(v)
  <2>1. v \in TokenAccounts /\ v # a
    BY <1>3, VaultsApart
  <2>2. token'[v] = token[v]
    BY <1>2, <1>3, <2>1 DEF Approved, TokenStates
  <2> QED BY <1>3, <2>2, SparedByPayment
<1> QED BY <1>3, <1>4, NotTouched

\* An instruction without an engine touches one market at most.
LEMMA FrameIsolated ==
  ASSUME BaseInv, phase' # "idle",
         Frame \/ Setup \/ increment \/ (authorize_spend_v0 /\ UNCHANGED <<ix, ret>>)
  PROVE  phase \notin Settling /\ \E n : \A m \in Markets : Touched(m) => m = n
<1>1. phase \in {"idle", "open"}
  BY DEF Frame, Setup, increment, BeginTransaction, CommitTransaction, AbortTransaction, AdvanceSlot,
     SplTransfer, SplApprove, SplRevoke, authorize_spend_v0, initialize_market_domain,
     initialize_market_domain_v0, deposit, deposit_v0, engine_initialize, helper_initialize,
     set_mode, RunInstruction
<1>2. phase \notin Settling /\ LedgerSound /\ token \in TokenStates
  BY <1>1, OpenFacts DEF Settling, LedgerSound
<1>3. ~CommitTransaction /\ ~AbortTransaction /\ ~AdvanceSlot
  BY DEF CommitTransaction, AbortTransaction, AdvanceSlot
<1>4. CASE \/ \E S \in SUBSET Users \ {{}} : BeginTransaction(S)
           \/ engine_initialize \/ helper_initialize \/ set_mode \/ increment
  <2>1. UNCHANGED <<token, market, domain, fee_ledger>>
    BY <1>4 DEF BeginTransaction, chain, engine_initialize, helper_initialize, set_mode, increment
  <2> QED BY <1>2, <2>1, StillTouchesNothing
<1>5. CASE SplTransfer \/ deposit_v0 \/ initialize_market_domain_v0
  BY <1>2, <1>5, SharedIsolated
<1>6. CASE authorize_spend_v0 \/ SplApprove \/ SplRevoke
  BY <1>2, <1>6, ApprovalIsolated
<1> QED BY <1>3, <1>4, <1>5, <1>6 DEF Frame, Setup, initialize_market_domain, deposit

\* An execution touches its own market only, from the call of the engine to the end: an
\* engine of unknown code is handed no account with which it could touch another.
LEMMA ExecutionIsolated ==
  ASSUME BaseInv, Execution
  PROVE  \E n : /\ \A m \in Markets : Touched(m) => m = n
                /\ phase \in Settling => n = ix.market
<1>0. token \in TokenStates
  BY DEF BaseInv, RoutedTypeOK, Snapshot, Chains
<1>1. CASE \/ execute_callback_authenticated_probe_v0 \/ evaluate_phase \/ foreign_engine
           \/ accept_primary \/ settle \/ accept_commit
  <2>1. UNCHANGED <<token, market, domain, fee_ledger>>
    BY <1>1, EvaluateStep, ForeignStep
       DEF execute_callback_authenticated_probe_v0, accept_primary, settle, accept_commit, chain
  <2> QED BY <1>0, <2>1, StillTouchesNothing
<1>2. ASSUME transfer_input \/ transfer_fee
      PROVE  \A m \in Markets : ~Touched(m)
  <2> DEFINE k == spend_authority(ix)
  <2>1. /\ UNCHANGED <<market, domain, fee_ledger>> /\ phase \in {"input", "fee"}
        /\ phase \in Settling
    BY <1>2 DEF transfer_input, transfer_fee, Settle, Settling
  <2>2. /\ ix.source \in TokenAccounts /\ ix.source \notin CoreVaults /\ k # None
        /\ ix.vault_a \in CoreVaults /\ ix.fee_vault \in CoreVaults
        /\ ix.vault_a \in TokenAccounts /\ ix.fee_vault \in TokenAccounts
        /\ ix.args.amount_in \in U64 /\ ix.protocol_fee \in U64
    BY <2>1, SettlingFacts, FlightKeys DEF Flight, Roles
  <2>3. PICK to \in {ix.vault_a, ix.fee_vault}, amount \in U64 :
          /\ CanTransfer(token, ix.source, to, market[ix.market].mint_a, amount, k)
          /\ token' = Transferred(token, ix.source, to, amount, k)
    BY <1>2, <2>2 DEF transfer_input, transfer_fee, Settle
  <2>4. PaidFrom(ix.source, to, amount)
    <3> HIDE DEF k
    <3> QED BY <1>0, <2>2, <2>3, PaidByTransfer
  <2> QED BY <1>0, <2>1, <2>4, PaymentTouchesNothing
<1>3. CASE transfer_output
  <2>1. /\ UNCHANGED <<market, domain, fee_ledger>> /\ phase \in Settling
        /\ Moved(token, token', ix.vault_b, ix.destination, ix.amount_out)
    BY <1>3, OutputStep DEF Settling
  <2>2. ix.market \in Markets /\ ix.vault_b = VaultB(ix.market) /\ ix.amount_out \in U64
    BY <2>1, SettlingFacts DEF Flight, Roles
  <2> QED BY <1>0, <2>1, <2>2, OutputIsolated
<1>4. CASE finalize
  <2>1. /\ phase \in Settling /\ UNCHANGED <<token, market>>
        /\ Written(domain, fee_ledger, domain', fee_ledger', ix, ix.args.amount_in,
                   ix.protocol_fee, ix.amount_out)
    BY <1>4, FinalizeWrites DEF Settling
  <2>2. /\ ix.market \in Markets /\ market[ix.market].mint_a \in Mints
        /\ ix.domain = DomainPda(ix.market)
        /\ ix.fee_ledger = FeeLedgerPda(ix.market, market[ix.market].mint_a)
        /\ domain \in DomainStates /\ fee_ledger \in FeeLedgerStates
    BY <2>1, SettlingFacts, FlightKeys DEF Flight, Roles
  <2>3. \A d \in Domains : d # ix.domain => domain'[d] = domain[d]
    BY <2>1, <2>2 DEF DomainStates, Written
  <2>4. \A l \in FeeLedgers : l # ix.fee_ledger => fee_ledger'[l] = fee_ledger[l]
    BY <2>1, <2>2 DEF FeeLedgerStates, Written
  <2> QED BY <1>0, <2>1, <2>2, <2>3, <2>4, WriteIsolated
<1> QED BY <1>1, <1>2, <1>3, <1>4 DEF Execution

\* Whatever accounts an instruction names and whatever closure and code the engine has: an
\* execution touches no market but its own, and every other instruction one at most.
THEOREM RoutedMarketsIsolated == Spec => RoutedIsolation
<1>1. BaseInv /\ [Next]_vars =>
        [Forward => /\ phase \in Settling => \A m \in Markets : Touched(m) => m = ix.market
                    /\ \A m1, m2 \in Markets : Touched(m1) /\ Touched(m2) => m1 = m2]_vars
  <2> SUFFICES ASSUME BaseInv, Next, phase' # "idle"
               PROVE  \E n : /\ \A m \in Markets : Touched(m) => m = n
                             /\ phase \in Settling => n = ix.market
    BY DEF Forward
  <2>1. CASE Execution
    BY <2>1, ExecutionIsolated
  <2>2. CASE ~Execution
    BY <2>2, FrameIsolated DEF Next
  <2> QED BY <2>1, <2>2
<1> QED BY <1>1, BaseHolds, PTL DEF Spec, RoutedIsolation
=============================================================================
