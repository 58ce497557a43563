------------------------- MODULE MCRoutedCallback ---------------------------
(* Small instances of RoutedCallback for TLC. *)
EXTENDS RoutedExchange

CONSTANTS u1, k1, k2, mA, mB, a1, b1, b2, enginePda, routed, helper, ext, spl, s1, e1, h1,
          n1, n2

Account(mint, owner, amount) ==
  [mint |-> mint, owner |-> owner, amount |-> amount, delegate |-> None,
   delegated_amount |-> 0, close_authority |-> None, state |-> "Initialized",
   is_native |-> FALSE]

MCMintInfo ==
  [m \in {mA, mB} |-> [is_initialized |-> TRUE, native |-> FALSE, freeze_authority |-> FALSE]]

MCStateOwner ==
  [s \in EngineStates |-> CASE s = s1 -> routed [] s = h1 -> helper [] OTHER -> ext]

Meta(k, w) == [key |-> k, is_writable |-> w, is_signer |-> FALSE]
HelperClosure == <<Meta(helper, FALSE), Meta(h1, TRUE)>>
HelperDescriptors == <<Descriptor(helper, None, FALSE), Descriptor(h1, helper, TRUE)>>

Arg(timing, i, total, min, fee, expires, nonce, seq, payload) ==
  [timing_mode |-> timing, amount_in |-> i, max_total_input_debit |-> total,
   min_output_credit |-> min, max_protocol_fee |-> fee, expires_at_slot |-> expires,
   authorization_nonce |-> nonce, expected_engine_sequence |-> seq, opaque_payload |-> payload]

MarketOf(k) == MarketPda(u1, k)

\* The market k as its creator binds it: the first to the routed engine, the second
\* to an engine of unknown code.
LiveMarket(k) ==
  [engine_program |-> IF k = k1 THEN routed ELSE ext,
   engine_state |-> IF k = k1 THEN s1 ELSE e1, engine_revision |-> 1,
   mint_a |-> mA, mint_b |-> mB, fee_bps |-> ProtocolFeeBps]

\* The intent whose execution has these arguments, on this market and destination.
IntentOf(args, k, destination, opaque) ==
  LET prog == LiveMarket(k).engine_program
      es == LiveMarket(k).engine_state
  IN  IntentBinding(args.timing_mode, MarketOf(k), LiveMarket(k), u1, a1, destination, args, 1,
        compute_capability_hash(prog, <<Descriptor(es, prog, TRUE)>> \o opaque),
        args.opaque_payload)

DelegatesOf(intents) ==
  {canonical_spend_authority(i.user_input, compute_intent_digest(i)) : i \in intents}

(***************************************************************************)
(* One market on the routed engine, from nothing.                          *)
(***************************************************************************)
SingleArg == Arg(TIMING_SINGLE, 3, 4, 1, 1, 0, n1, 0, None)
HelperArg == Arg(TIMING_PREPARE_COMMIT, 3, 4, 1, 1, 1, n2, 0, 7)

MCIntents == {IntentOf(SingleArg, k1, b1, <<>>),
              IntentOf(HelperArg, k1, b1, HelperDescriptors)}
MCDelegates == DelegatesOf(MCIntents)
MCRouteArgs == {SingleArg, HelperArg}
MCClosures == {<<>>, HelperClosure}
MCAllowedCallbacks ==
  {u1, canonical_callback(routed, s1, MarketOf(k1), DomainPda(MarketOf(k1)),
         compute_intent_digest(IntentOf(HelperArg, k1, b1, HelperDescriptors)), PHASE_COMMIT)}
MCInitialAccount == [a \in {a1, b1} |-> IF a = a1 THEN Account(mA, u1, 8) ELSE Account(mB, u1, 4)]

(***************************************************************************)
(* Markets that already hold reserves of 4 and 4: the first on the routed  *)
(* engine, the second on an engine of unknown code.                        *)
(***************************************************************************)
LiveInit(timing_modes) ==
  /\ market = [m \in Markets |-> LiveMarket(m[3])]
  /\ domain = [d \in Domains |->
       [NewDomain(d[2], LiveMarket(d[2][3]).engine_program, LiveMarket(d[2][3]).engine_state, 1)
          EXCEPT !.accounted_a = 4, !.accounted_b = 4]]
  /\ fee_ledger = [l \in FeeLedgers |-> IF l[3] = mA THEN NewFeeLedger(l[2], mA) ELSE None]
  /\ token = [a \in TokenAccounts |->
       CASE a \in UserAccounts -> InitialAccount[a]
         [] a \in DomainVaults ->
              [NewVault(IF a[3] = ASSET_A_INDEX_V0 THEN mA ELSE mB, a[2]) EXCEPT !.amount = 4]
         [] OTHER -> IF a[2][3] = mA THEN NewVault(mA, a[2]) ELSE None]
  /\ \E timing_mode \in timing_modes, callback \in AllowedCallbacks :
       engine = [es \in EngineStates |->
         CASE es = s1 -> NewEngineState(u1, MarketOf(k1), 1, 1, timing_mode)
           [] es = h1 -> [allowed_callback |-> callback, calls |-> 0, value |-> 0]
           [] OTHER -> Opaque]
  /\ donated = [v \in CoreVaults |-> 0]
  /\ settled = NoneSettled
  /\ slot = 0 /\ phase = "idle" /\ signers = {} /\ used = 0 /\ saved = None
  /\ ix = None /\ ret = None

OneMarketSpec == LiveInit(TimingModes) /\ [][Next]_vars /\ WF_vars(Progress)
TwoMarketsSpec == LiveInit({TIMING_PREPARE_COMMIT}) /\ [][Next]_vars

(***************************************************************************)
(* One live market: every mode of the engine, and what a router can try.   *)
(***************************************************************************)
PlainArg(timing) == Arg(timing, 3, 4, 1, 1, 0, n1, 0, None)
ModesIntents == {IntentOf(PlainArg(t), k1, b1, <<>>) : t \in TimingModes}
                  \cup {IntentOf(Arg(TIMING_PREPARE_COMMIT, 3, 4, 2, 1, 1, n2, 0, None), k1, b1, <<>>)}
ModesDelegates == DelegatesOf(ModesIntents)
\* As authorized; against a later sequence; expiring later; asking for less.
ModesArgs ==
  {PlainArg(t) : t \in TimingModes}
    \cup {[PlainArg(t) EXCEPT !.expected_engine_sequence = 1] : t \in TimingModes}
    \cup {[PlainArg(TIMING_SINGLE) EXCEPT !.expires_at_slot = 1],
          Arg(TIMING_PREPARE_COMMIT, 3, 4, 2, 1, 1, n2, 0, None),
          Arg(TIMING_PREPARE_COMMIT, 3, 4, 1, 1, 1, n2, 0, None)}
\* Anybody may create an account and name any owner: that of b2 is a domain.
ModesAccount ==
  [a \in {a1, b1, b2} |->
     CASE a = a1 -> Account(mA, u1, 8)
       [] a = b1 -> Account(mB, u1, 0)
       [] a = b2 -> Account(mB, DomainPda(MarketOf(k1)), 0)]
ModesCallbacks == {u1}
ModesClosures == {<<>>}

(***************************************************************************)
(* Two live markets.  The engine of the second is handed the helper, the   *)
(* routed engine, or token accounts it can spend from.                     *)
(***************************************************************************)
EngineClosure == <<Meta(helper, FALSE), Meta(h1, TRUE), Meta(routed, FALSE), Meta(s1, TRUE)>>
TokenClosure == <<Meta(b1, TRUE), Meta(b2, TRUE), Meta(spl, FALSE)>>
TwoClosures == {<<>>, EngineClosure, TokenClosure}
EngineDescriptors ==
  <<Descriptor(helper, None, FALSE), Descriptor(h1, helper, TRUE),
    Descriptor(routed, None, FALSE), Descriptor(s1, routed, TRUE)>>
TokenDescriptors ==
  <<Descriptor(b1, spl, TRUE), Descriptor(b2, spl, TRUE), Descriptor(spl, None, FALSE)>>

TwoArg(timing) == Arg(timing, 3, 4, 1, 1, 0, n1, 0, None)
TwoIntents ==
  {IntentOf(TwoArg(TIMING_PREPARE_COMMIT), k1, b1, <<>>),
   IntentOf(TwoArg(TIMING_SINGLE), k2, b1, EngineDescriptors),
   IntentOf(TwoArg(TIMING_SINGLE), k2, b1, TokenDescriptors),
   IntentOf(TwoArg(TIMING_PREPARE_COMMIT), k2, b1, <<>>)}
TwoDelegates == DelegatesOf(TwoIntents) \cup {enginePda}
TwoArgs == {TwoArg(t) : t \in TimingModes}
\* The helper trusts the second market's engine, or the first's.
TwoCallbacks ==
  {canonical_callback(IF k = k1 THEN routed ELSE ext, IF k = k1 THEN s1 ELSE e1, MarketOf(k),
     DomainPda(MarketOf(k)),
     compute_intent_digest(IntentOf(TwoArg(TIMING_SINGLE), k2, b1, EngineDescriptors)),
     PHASE_TRANSITION) : k \in {k1, k2}}
\* b2 belongs to the user, and the unknown engine has an allowance on it; b1 names
\* an owner that signs nothing but settlements.
TwoAccount ==
  [a \in {a1, b1, b2} |->
     CASE a = a1 -> Account(mA, u1, 4)
       [] a = b1 -> Account(mB, DomainPda(MarketOf(k1)), 0)
       [] a = b2 -> [Account(mB, u1, 4) EXCEPT !.delegate = enginePda, !.delegated_amount = 4]]
=============================================================================
