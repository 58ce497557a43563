---------------------- MODULE MCGeneratedSettlement -------------------------
(* Small instances of GeneratedSettlement for TLC. *)
EXTENDS GeneratedExchange

CONSTANTS u1, k1, k2, mA, mB, a1, b1, b2, enginePda, gen, helper, ext, spl, s1, e1, h1

Account(mint, owner, amount) ==
  [mint |-> mint, owner |-> owner, amount |-> amount, delegate |-> None,
   delegated_amount |-> 0, close_authority |-> None, state |-> "Initialized",
   is_native |-> FALSE]

MCMintInfo ==
  [m \in {mA, mB} |-> [is_initialized |-> TRUE, native |-> FALSE, freeze_authority |-> FALSE]]

cap1 == CapabilityAuthority(s1)
OneEngine == {s1, cap1, h1}
TwoEngines == {s1, cap1, h1, e1}
MCStateOwner ==
  [s \in EngineStates |-> CASE s \in {s1, cap1} -> gen [] s = h1 -> helper [] OTHER -> ext]

Meta(k, w) == [key |-> k, is_writable |-> w, is_signer |-> FALSE]
\* The helper's state is passed twice, once read-only.
HelperClosure == <<Meta(helper, FALSE), Meta(h1, TRUE), Meta(cap1, FALSE), Meta(h1, FALSE)>>

Arg(i, total, min, fee, expires, payload) ==
  [amount_in |-> i, max_total_input_debit |-> total, min_output_credit |-> min,
   max_protocol_fee |-> fee, expires_at_slot |-> expires, opaque_payload |-> payload]

MarketOf(k) == MarketPda(u1, k)

(***************************************************************************)
(* One market on the generated plan engine, from nothing.                  *)
(***************************************************************************)
MCArgs == {Arg(3, 4, 1, 1, 0, p) : p \in {5, None}}
MCClosures == {<<>>, HelperClosure}
MCHelperAuthorities == {u1, cap1}
MCInitialAccount == [a \in {a1, b1} |-> IF a = a1 THEN Account(mA, u1, 12) ELSE Account(mB, u1, 4)]

(***************************************************************************)
(* Markets that already hold reserves of 4 and 4: the first on the         *)
(* generated plan engine, the second on an engine of unknown code.         *)
(***************************************************************************)
LiveMarket(k) ==
  [engine_program |-> IF k = k1 THEN gen ELSE ext,
   engine_state |-> IF k = k1 THEN s1 ELSE e1, engine_revision |-> 1,
   mint_a |-> mA, mint_b |-> mB, fee_bps |-> ProtocolFeeBps]

LiveInit ==
  /\ market = [m \in Markets |-> LiveMarket(m[3])]
  /\ domain = [d \in Domains |->
       [NewDomain(d[2], LiveMarket(d[2][3]).engine_program, LiveMarket(d[2][3]).engine_state, 1)
          EXCEPT !.accounted_a = 4, !.accounted_b = 4]]
  /\ fee_ledger = [l \in FeeLedgers |-> IF l[3] = mA THEN NewFeeLedger(l[2], mA) ELSE None]
  /\ token = [a \in TokenAccounts |->
       CASE a \in UserAccounts -> InitialAccount[a]
         [] a \in DomainVaults ->
              [NewVault(IF a[3] = ASSET_A_INDEX_V0 THEN mA ELSE mB, a[2]) EXCEPT !.amount = 4]
         [] OTHER -> IF a[2][3] = mA THEN NewVault(mA, a[2]) ELSE None]
  /\ \E authority \in HelperAuthorities :
       engine = [es \in EngineStates |->
         CASE es = s1 -> NewEngineState(u1, MarketOf(k1), 1, 1)
           [] es = cap1 -> [engine_state |-> s1]
           [] es = h1 -> [authority |-> authority, calls |-> 0, value |-> 0]
           [] OTHER -> Opaque]
  /\ donated = [v \in CoreVaults |-> 0]
  /\ settled = NoneSettled
  /\ slot = 0 /\ phase = "idle" /\ signers = {} /\ used = 0 /\ saved = None
  /\ ix = None /\ ret = None

LiveSpec == LiveInit /\ [][Next]_vars
LiveFairSpec == LiveSpec /\ WF_vars(Progress)

(***************************************************************************)
(* One live market: every mode of the engine and every kind of limit.      *)
(***************************************************************************)
ModesArgs ==
  {Arg(i, total, min, fee, expires, p) :
     i \in {3, 4}, total \in {4, 6}, min \in {1, 2}, fee \in {1, 2}, expires \in 0 .. 1,
     p \in {0, 5, None}}
ModesAccount ==
  [a \in {a1, b1, b2} |->
     CASE a = a1 -> Account(mA, u1, 9)
       [] a = b1 -> Account(mB, u1, 0)
       [] a = b2 -> Account(mB, DomainPda(MarketOf(k1)), 0)]
ModesAuthorities == {cap1}

(***************************************************************************)
(* Two live markets.  The engine of the second is handed the helper and    *)
(* the authority the helper trusts, the generated plan engine and its      *)
(* state, or token accounts it can spend from.                             *)
(***************************************************************************)
EngineClosure ==
  <<Meta(helper, FALSE), Meta(h1, TRUE), Meta(cap1, FALSE), Meta(gen, FALSE), Meta(s1, TRUE)>>
TokenClosure == <<Meta(b1, TRUE), Meta(b2, TRUE), Meta(spl, FALSE)>>
CoreClosure == <<Meta(DomainPda(MarketOf(k1)), TRUE)>>
TwoClosures == {HelperClosure, EngineClosure, TokenClosure, CoreClosure}
TwoArgs == {Arg(3, 4, 1, 1, 0, p) : p \in {6, None}}
\* The helper trusts the first market's engine state, or the unknown engine.
TwoAuthorities == {cap1, enginePda}
\* b2 belongs to the user, and the unknown engine has an allowance on it; b1 names
\* an owner that signs nothing but settlements.
TwoAccount ==
  [a \in {a1, b1, b2} |->
     CASE a = a1 -> Account(mA, u1, 8)
       [] a = b1 -> Account(mB, DomainPda(MarketOf(k1)), 0)
       [] a = b2 -> [Account(mB, u1, 4) EXCEPT !.delegate = enginePda, !.delegated_amount = 4]]
=============================================================================
