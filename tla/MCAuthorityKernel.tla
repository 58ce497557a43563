------------------------- MODULE MCAuthorityKernel --------------------------
(* Small instances of AuthorityKernel for TLC. *)
EXTENDS KernelExchange

CONSTANTS u1, k1, k2, mA, mB, a1, b1, decoy, spike, ext, s1, e1

Account(mint, owner, amount) ==
  [mint |-> mint, owner |-> owner, amount |-> amount, delegate |-> None,
   delegated_amount |-> 0, close_authority |-> None, state |-> "Initialized",
   is_native |-> FALSE]

MCMintInfo ==
  [m \in {mA, mB} |-> [is_initialized |-> TRUE, native |-> FALSE, freeze_authority |-> FALSE]]

\* Anyone may create a token account and name any owner: the decoy's is a domain.
MCInitialAccount ==
  [a \in {a1, b1, decoy} |->
     CASE a = a1 -> Account(mA, u1, 4)
       [] a = b1 -> Account(mB, u1, 3)
       [] a = decoy -> Account(mA, DomainPda(MarketPda(u1, k1)), 1)]

MCSpikeOwner == [s \in {s1} |-> spike]
MCStateOwner == [s \in {s1, e1} |-> IF s = s1 THEN spike ELSE ext]

Arg(i, o, total, min, fee, expires) ==
  [amount_in |-> i, amount_out |-> o, max_total_input_debit |-> total,
   min_output_credit |-> min, max_protocol_fee |-> fee, expires_at_slot |-> expires]

\* Two that can settle, one of them until slot 0, and one refusal for each limit.
MCExecuteArgs == {Arg(1, 1, 2, 1, 1, 0), Arg(3, 2, 4, 1, 1, 1),
                  Arg(3, 2, 3, 1, 1, 1), Arg(3, 2, 4, 3, 1, 1), Arg(3, 2, 4, 1, 0, 1)}

(***************************************************************************)
(* Two markets over the same mints, the first on the spike engine and the  *)
(* second on an arbitrary one: the state that two                          *)
(* initialize_market_domain_v0 transactions leave.                         *)
(***************************************************************************)
MarketOf(k) == MarketPda(u1, k)
TwoMarkets ==
  [k \in {k1, k2} |->
     [engine_program |-> IF k = k1 THEN spike ELSE ext,
      engine_state |-> IF k = k1 THEN s1 ELSE e1, engine_revision |-> 1,
      mint_a |-> mA, mint_b |-> mB,
      fee_bps |-> ProtocolFeeBps]]

TwoMarketsInit ==
  /\ market = [m \in Markets |-> TwoMarkets[m[3]]]
  /\ domain = [d \in Domains |-> LET mk == TwoMarkets[d[2][3]] IN
       [market |-> d[2], engine_program |-> mk.engine_program,
        engine_state |-> mk.engine_state, engine_revision |-> mk.engine_revision,
        accounted_a |-> 0, accounted_b |-> 0]]
  /\ fee_ledger = [l \in FeeLedgers |->
       IF l[3] = TwoMarkets[l[2][3]].mint_a
       THEN [market |-> l[2], mint_a |-> l[3], accounted_fee_a |-> 0] ELSE None]
  /\ token = [a \in TokenAccounts |->
       CASE a \in UserAccounts -> InitialAccount[a]
         [] a \in DomainVaults ->
              NewVault(LET mk == TwoMarkets[a[2][2][3]]
                       IN IF a[3] = ASSET_A_INDEX_V0 THEN mk.mint_a ELSE mk.mint_b, a[2])
         [] OTHER -> IF a[2][3] = TwoMarkets[a[2][2][3]].mint_a
                     THEN NewVault(a[2][3], a[2]) ELSE None]
  /\ engine = [es \in EngineStates |-> IF es = e1 THEN Opaque ELSE
       [authority |-> u1, market |-> MarketOf(k1), revision |-> 1, sequence |-> 0,
        last_plan_hash |-> None, mode |-> "ACCEPT"]]
  /\ donated = [v \in CoreVaults |-> 0]
  /\ settled = [es \in EngineStates |-> [count |-> 0, plan |-> None]]
  /\ slot = 0 /\ phase = "idle" /\ signers = {} /\ used = 0 /\ saved = None
  /\ ix = None /\ ret = None

TwoMarketsSpec == TwoMarketsInit /\ [][Next]_vars

\* Amounts small enough that the supply covers a settlement on each market.
MCTwoMarketsAccount ==
  [a \in {a1, b1, decoy} |->
     CASE a = a1 -> Account(mA, u1, 3)
       [] a = b1 -> Account(mB, u1, 2)
       [] a = decoy -> Account(mA, DomainPda(MarketOf(k1)), 1)]
MCTwoMarketsArgs == {Arg(1, 1, 2, 1, 1, 0)}
=============================================================================
