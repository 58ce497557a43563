----------------------------- MODULE CoreLedger -----------------------------
(***************************************************************************)
(* What every Core experiment of the repository shares: the accounts Core  *)
(* and the SPL Token program keep, the addresses Core derives, the checks  *)
(* of validation.rs, and the two instructions that involve no engine       *)
(* (initialize_market_domain_v0 and deposit_v0).                           *)
(*                                                                         *)
(* The Solana runtime runs transactions that share a writable account one  *)
(* after the other, so one transaction is in flight at a time.  It is a    *)
(* sequence of instructions over the live accounts; when any of them fails *)
(* every account goes back to what it was when the transaction started.    *)
(***************************************************************************)
EXTENDS CoreMath, FiniteSets, Sequences

CONSTANTS
  Users,              \* wallets that can sign a transaction
  MarketIds,          \* market_id arguments
  Mints, MintInfo,    \* SPL mints and what validate_classic_mint reads of them
  UserAccounts,       \* SPL token accounts that are not Core vaults ...
  InitialAccount,     \* ... and their contents at the start
  Delegates,          \* the keys a token account may name as its delegate
  Programs,           \* executable accounts, Core among them
  CoreProgram,
  EngineStates,       \* accounts an engine may own
  StateOwner,         \* the program that owns (or will own) each of them
  Revisions,          \* engine_revision arguments
  TokenAmounts,       \* amounts of deposits and plain token transfers
  MaxSlot,            \* bound: the last slot of the model
  MaxInstructions,    \* bound: instructions in one transaction
  None                \* an absent account, delegate or value

(***************************************************************************)
(* Program-derived addresses.  An address determines its seeds.            *)
(***************************************************************************)
MarketPda(initializer, market_id) == <<"market-v0", initializer, market_id>>
DomainPda(m) == <<"domain-v0", m>>
FeeLedgerPda(m, mint) == <<"fee-ledger-v0", m, mint>>

ASSET_A_INDEX_V0 == 0
ASSET_B_INDEX_V0 == 1
AssetIndexes == 0 .. 2           \* 2 stands for every unsupported index

canonical_domain_vault(d, asset_index) == <<"vault-v0", d, asset_index>>
canonical_fee_vault(l) == <<"fee-vault-v0", l>>

Markets == {MarketPda(i, id) : i \in Users, id \in MarketIds}
Domains == {DomainPda(m) : m \in Markets}
FeeLedgers == {FeeLedgerPda(m, mint) : m \in Markets, mint \in Mints}
DomainVaults == {canonical_domain_vault(d, a) : d \in Domains,
                                                a \in {ASSET_A_INDEX_V0, ASSET_B_INDEX_V0}}
FeeVaults == {canonical_fee_vault(l) : l \in FeeLedgers}
CoreVaults == DomainVaults \cup FeeVaults
TokenAccounts == UserAccounts \cup CoreVaults

(***************************************************************************)
(* Account contents.                                                       *)
(***************************************************************************)
TokenAccount ==
  [mint : Mints, owner : Users \cup Domains \cup FeeLedgers, amount : U64,
   delegate : Delegates \cup {None}, delegated_amount : U64,
   close_authority : Users \cup {None},
   state : {"Initialized", "Frozen"}, is_native : BOOLEAN]

MarketV0 ==
  [engine_program : Programs, engine_state : EngineStates, engine_revision : Revisions,
   mint_a : Mints, mint_b : Mints, fee_bps : {ProtocolFeeBps}]

DomainV0 ==
  [market : Markets, engine_program : Programs, engine_state : EngineStates,
   engine_revision : Revisions, accounted_a : U64, accounted_b : U64]

FeeLedgerV0 == [market : Markets, mint_a : Mints, accounted_fee_a : U64]

ASSUME KeyAssumption ==
  /\ UserAccounts \cap CoreVaults = {}
  /\ Users \cap (Domains \cup FeeLedgers) = {}
  /\ None \notin Users \cup Domains \cup Delegates \cup Programs \cup EngineStates
  /\ None \notin TokenAccount \cup MarketV0 \cup DomainV0 \cup FeeLedgerV0
  /\ CoreProgram \in Programs
  /\ Programs \cap EngineStates = {}
  /\ StateOwner \in [EngineStates -> Programs]

ASSUME InputAssumption ==
  /\ InitialAccount \in [UserAccounts -> TokenAccount]
  /\ MintInfo \in [Mints -> [is_initialized : BOOLEAN, native : BOOLEAN,
                             freeze_authority : BOOLEAN]]
  /\ TokenAmounts \subseteq U64
  /\ Revisions \subseteq U64
  /\ MaxSlot \in U64
  /\ MaxInstructions \in Nat

VARIABLES
  token,        \* SPL token accounts
  market, domain, fee_ledger,    \* Core's accounts
  engine,       \* the engine-owned accounts
  donated,      \* history: raw credits of a vault outside deposit and settlement
  settled,      \* history: the executions Core settled, as the properties need them
  slot,         \* Clock::get().slot
  phase,        \* where the transaction in flight stands; "idle" between transactions
  signers,      \* the wallets that signed it
  used,         \* instructions it has run
  saved         \* the accounts as they were when it started

chain == <<token, market, domain, fee_ledger, engine, donated, settled>>
ledgerVars == <<chain, slot, phase, signers, used, saved>>

Snapshot == [token |-> token, market |-> market, domain |-> domain, fee_ledger |-> fee_ledger,
             engine |-> engine, donated |-> donated, settled |-> settled]

Rollback ==
  /\ token' = saved.token
  /\ market' = saved.market
  /\ domain' = saved.domain
  /\ fee_ledger' = saved.fee_ledger
  /\ engine' = saved.engine
  /\ donated' = saved.donated
  /\ settled' = saved.settled

LedgerInit ==
  /\ token = [a \in TokenAccounts |-> IF a \in UserAccounts THEN InitialAccount[a] ELSE None]
  /\ market = [m \in Markets |-> None]
  /\ domain = [d \in Domains |-> None]
  /\ fee_ledger = [l \in FeeLedgers |-> None]
  /\ donated = [v \in CoreVaults |-> 0]
  /\ slot = 0
  /\ phase = "idle"
  /\ signers = {}
  /\ used = 0
  /\ saved = None

(***************************************************************************)
(* The runtime's transaction frame.                                        *)
(***************************************************************************)
BeginTransaction(S) ==
  /\ phase = "idle"
  /\ phase' = "open"
  /\ signers' = S
  /\ used' = 0
  /\ saved' = Snapshot
  /\ UNCHANGED <<chain, slot>>

CommitTransaction ==
  /\ phase = "open"
  /\ phase' = "idle"
  /\ signers' = {}
  /\ used' = 0
  /\ saved' = None
  /\ UNCHANGED <<chain, slot>>

\* Every error path of every instruction ends here: a failed require!, a `?` on
\* a CPI, a runtime refusal, an exhausted compute budget.
AbortTransaction ==
  /\ phase # "idle"
  /\ Rollback
  /\ phase' = "idle"
  /\ signers' = {}
  /\ used' = 0
  /\ saved' = None
  /\ UNCHANGED slot

AdvanceSlot ==
  /\ phase = "idle"
  /\ slot < MaxSlot
  /\ slot' = slot + 1
  /\ UNCHANGED <<chain, phase, signers, used, saved>>

\* The next instruction of the open transaction runs, ending in phase p.
RunInstruction(p) ==
  /\ phase = "open"
  /\ used < MaxInstructions
  /\ used' = used + 1
  /\ phase' = p
  /\ UNCHANGED <<signers, saved, slot>>

\* How an instruction was called: accounts past the declared ones, a read-only
\* role passed writable, and the depth of the call (1 is the transaction level).
CallFrames == [remaining : BOOLEAN, writable_readonly : BOOLEAN, stack_height : 1 .. 2]

ensure_no_remaining_accounts(f) == ~f.remaining
no_unexpected_writable(f) == ~f.writable_readonly
top_level_only(f) == f.stack_height = 1

(***************************************************************************)
(* SPL Token, as Core uses it.                                             *)
(***************************************************************************)
ByDelegate(t, from, authority) == t[from].delegate = authority

CanTransfer(t, from, to, mint, amount, authority) ==
  /\ t[from] # None /\ t[to] # None
  /\ t[from].mint = mint /\ t[to].mint = mint
  /\ t[from].state = "Initialized" /\ t[to].state = "Initialized"
  /\ t[from].amount >= amount
  /\ from # to => AddFits(t[to].amount, amount)
  /\ \/ ByDelegate(t, from, authority) /\ t[from].delegated_amount >= amount
     \/ ~ByDelegate(t, from, authority) /\ t[from].owner = authority

\* A delegate's transfer uses up its allowance and, at zero, the delegation.
SpendAllowance(account, amount) ==
  [account EXCEPT !.delegated_amount = @ - amount,
                  !.delegate = IF account.delegated_amount = amount THEN None ELSE @]

Transferred(t, from, to, amount, authority) ==
  LET debited == IF ByDelegate(t, from, authority) /\ from # to
                 THEN [t EXCEPT ![from] = SpendAllowance(@, amount)]
                 ELSE t
  IN  [debited EXCEPT ![from].amount = @ - amount,
                      ![to].amount = @ + amount]

\* A credit to a Core vault that Core's accounting does not recognise.
DonatedBy(to, amount) ==
  IF to \in CoreVaults THEN [donated EXCEPT ![to] = @ + amount] ELSE donated

\* A plain transfer by some wallet: a payment, or a donation to a vault.
SplTransfer ==
  /\ RunInstruction("open")
  /\ \E from \in UserAccounts, to \in TokenAccounts, authority \in signers,
        amount \in TokenAmounts :
       /\ from # to
       /\ CanTransfer(token, from, to, token[from].mint, amount, authority)
       /\ token' = Transferred(token, from, to, amount, authority)
       /\ donated' = DonatedBy(to, amount)
  /\ UNCHANGED <<market, domain, fee_ledger, engine, settled>>

(***************************************************************************)
(* validation.rs                                                           *)
(***************************************************************************)
\* Faulty variant of ensure_distinct_roles: neighbours only.
distinct_neighbours(keys) ==
  \A i, j \in DOMAIN keys : j = i + 1 => keys[i] # keys[j]

ensure_distinct_roles(keys) ==
  \A i, j \in DOMAIN keys : i # j => keys[i] # keys[j]

\* The versions and the fee-policy revision are written once, as constants, and
\* so is fee_bps; the bumps are those of the canonical addresses.
validate_market_domain(m, d) ==
  /\ market[m] # None
  /\ domain[d] # None
  /\ market[m].fee_bps = ProtocolFeeBps
  /\ domain[d].market = m
  /\ d = DomainPda(m)
  /\ domain[d].engine_program = market[m].engine_program
  /\ domain[d].engine_state = market[m].engine_state
  /\ domain[d].engine_revision = market[m].engine_revision

\* Faulty variant of validate_fee_ledger: any ledger of the input mint.
ledger_of_mint(m, l) ==
  /\ fee_ledger[l] # None
  /\ fee_ledger[l].mint_a = market[m].mint_a

validate_fee_ledger(m, l) ==
  /\ fee_ledger[l] # None
  /\ fee_ledger[l].market = m
  /\ fee_ledger[l].mint_a = market[m].mint_a
  /\ l = FeeLedgerPda(m, market[m].mint_a)

validate_classic_mint(mint) ==
  /\ MintInfo[mint].is_initialized
  /\ ~MintInfo[mint].native
  /\ ~MintInfo[mint].freeze_authority

validate_common_token_account(a, expected_mint) ==
  /\ token[a] # None
  /\ token[a].state = "Initialized"
  /\ ~token[a].is_native
  /\ token[a].mint = expected_mint

validate_protected_token_account(a, expected_mint, expected_authority) ==
  /\ validate_common_token_account(a, expected_mint)
  /\ token[a].owner = expected_authority
  /\ token[a].delegate = None
  /\ token[a].delegated_amount = 0
  /\ token[a].close_authority = None

validate_credit_destination(a, expected_mint) ==
  validate_common_token_account(a, expected_mint)

require_raw_covers_accounted(raw, accounted) == raw >= accounted

exact_debit(before, after, expected) == SubFits(before, after) /\ before - after = expected
exact_credit(before, after, expected) == SubFits(after, before) /\ after - before = expected

(***************************************************************************)
(* initialize_market_domain_v0                                             *)
(***************************************************************************)
\* The program that owns an engine's account: none until the engine creates it.
OwnerOf(k) == IF k \in EngineStates /\ engine[k] # None THEN StateOwner[k] ELSE None

NewVault(mint, authority) ==
  [mint |-> mint, owner |-> authority, amount |-> 0, delegate |-> None,
   delegated_amount |-> 0, close_authority |-> None, state |-> "Initialized",
   is_native |-> FALSE]

\* What the handler requires of the engine the market is to be bound to.
valid_engine_binding(engine_program, engine_state) ==
  /\ engine_program \in Programs
  /\ engine_program # CoreProgram
  /\ engine_state \notin Programs
  /\ OwnerOf(engine_state) = engine_program

NewMarket(engine_program, engine_state, engine_revision, mint_a, mint_b) ==
  [engine_program |-> engine_program, engine_state |-> engine_state,
   engine_revision |-> engine_revision, mint_a |-> mint_a, mint_b |-> mint_b,
   fee_bps |-> ProtocolFeeBps]

NewDomain(m, engine_program, engine_state, engine_revision) ==
  [market |-> m, engine_program |-> engine_program, engine_state |-> engine_state,
   engine_revision |-> engine_revision, accounted_a |-> 0, accounted_b |-> 0]

NewFeeLedger(m, mint_a) == [market |-> m, mint_a |-> mint_a, accounted_fee_a |-> 0]

\* The accounts `init` creates, the vaults last, and the contents the handler writes.
CreateAccounts(m, engine_program, engine_state, engine_revision, mint_a, mint_b) ==
  LET d == DomainPda(m)
      l == FeeLedgerPda(m, mint_a)
  IN
  /\ market' = [market EXCEPT ![m] =
       NewMarket(engine_program, engine_state, engine_revision, mint_a, mint_b)]
  /\ domain' = [domain EXCEPT ![d] = NewDomain(m, engine_program, engine_state, engine_revision)]
  /\ fee_ledger' = [fee_ledger EXCEPT ![l] = NewFeeLedger(m, mint_a)]
  /\ token' = [token EXCEPT ![canonical_domain_vault(d, ASSET_A_INDEX_V0)] = NewVault(mint_a, d),
                            ![canonical_domain_vault(d, ASSET_B_INDEX_V0)] = NewVault(mint_b, d),
                            ![canonical_fee_vault(l)] = NewVault(mint_a, l)]

\* The keys the instruction requires to be pairwise distinct.
InitializeRoles(initializer, m, mint_a, mint_b, engine_program, engine_state) ==
  LET d == DomainPda(m)
      l == FeeLedgerPda(m, mint_a)
  IN <<initializer, m, d, l, mint_a, mint_b, canonical_domain_vault(d, ASSET_A_INDEX_V0),
       canonical_domain_vault(d, ASSET_B_INDEX_V0), canonical_fee_vault(l),
       engine_program, engine_state>>

initialize_market_domain_v0 ==
  /\ RunInstruction("open")
  /\ \E f \in CallFrames : ensure_no_remaining_accounts(f) /\ no_unexpected_writable(f)
  /\ \E initializer \in signers, m \in Markets, mint_a, mint_b \in Mints,
        engine_revision \in Revisions, engine_program, engine_state \in Programs \cup EngineStates :
       /\ \E market_id \in MarketIds : m = MarketPda(initializer, market_id)
       /\ market[m] = None                    \* `init` refuses an existing account
       /\ mint_a # mint_b
       /\ engine_revision # 0
       /\ validate_classic_mint(mint_a)
       /\ validate_classic_mint(mint_b)
       /\ ensure_distinct_roles(
            InitializeRoles(initializer, m, mint_a, mint_b, engine_program, engine_state))
       /\ valid_engine_binding(engine_program, engine_state)
       /\ CreateAccounts(m, engine_program, engine_state, engine_revision, mint_a, mint_b)
  /\ UNCHANGED <<engine, donated, settled>>

(***************************************************************************)
(* deposit_v0                                                              *)
(***************************************************************************)
mint_of(m, asset_index) ==
  IF asset_index = ASSET_A_INDEX_V0 THEN market[m].mint_a ELSE market[m].mint_b
accounted_of(d, asset_index) ==
  IF asset_index = ASSET_A_INDEX_V0 THEN domain[d].accounted_a ELSE domain[d].accounted_b

\* Faulty variant of Credited: the accounting takes over the raw balance.
CreditedFromRaw(d, asset_index, amount) ==
  LET raw == token[canonical_domain_vault(d, asset_index)].amount
  IN  IF asset_index = ASSET_A_INDEX_V0
      THEN [domain EXCEPT ![d].accounted_a = raw + amount]
      ELSE [domain EXCEPT ![d].accounted_b = raw + amount]

\* The accounting after a deposit.
Credited(d, asset_index, amount) ==
  IF asset_index = ASSET_A_INDEX_V0
  THEN [domain EXCEPT ![d].accounted_a = @ + amount]
  ELSE [domain EXCEPT ![d].accounted_b = @ + amount]

\* The handler's one CPI goes to SPL Token, which calls nobody: the whole
\* instruction is one step.
deposit_v0 ==
  /\ RunInstruction("open")
  /\ \E f \in CallFrames : ensure_no_remaining_accounts(f) /\ no_unexpected_writable(f)
  /\ \E m \in Markets, d \in Domains, asset_index \in AssetIndexes :
     /\ validate_market_domain(m, d)
     /\ asset_index \in {ASSET_A_INDEX_V0, ASSET_B_INDEX_V0}
     /\ \E vault \in TokenAccounts, mint \in Mints :
        /\ validate_classic_mint(mint)
        /\ mint = mint_of(m, asset_index)
        /\ vault = canonical_domain_vault(d, asset_index)
        /\ validate_protected_token_account(vault, mint, d)
        /\ require_raw_covers_accounted(token[vault].amount, accounted_of(d, asset_index))
        /\ \E provider \in signers, source \in TokenAccounts, amount \in TokenAmounts :
           /\ amount > 0
           /\ ensure_distinct_roles(<<provider, m, d, mint, source, vault>>)
           /\ validate_protected_token_account(source, mint, provider)
           /\ AddFits(accounted_of(d, asset_index), amount)
           /\ CanTransfer(token, source, vault, mint, amount, provider)
           /\ token' = Transferred(token, source, vault, amount, provider)
           /\ exact_debit(token[source].amount, token'[source].amount, amount)
           /\ exact_credit(token[vault].amount, token'[vault].amount, amount)
           /\ domain' = Credited(d, asset_index, amount)
  /\ UNCHANGED <<market, fee_ledger, engine, donated, settled>>

(***************************************************************************)
(* What the execute instructions of the experiments check of a market.     *)
(***************************************************************************)
\* The caller supplies every key and Core compares it with the one it derives.
vault_is(v, canonical, mint, authority, accounted) ==
  /\ v = canonical
  /\ validate_protected_token_account(v, mint, authority)
  /\ require_raw_covers_accounted(token[v].amount, accounted)

validate_execution_envelope(m, d, l) ==
  /\ validate_market_domain(m, d)
  /\ validate_fee_ledger(m, l)
  /\ valid_engine_binding(market[m].engine_program, market[m].engine_state)
  /\ validate_classic_mint(market[m].mint_a)
  /\ validate_classic_mint(market[m].mint_b)

(***************************************************************************)
(* The sets the shared variables range over.                               *)
(***************************************************************************)
TokenStates == [TokenAccounts -> TokenAccount \cup {None}]
MarketStates == [Markets -> MarketV0 \cup {None}]
DomainStates == [Domains -> DomainV0 \cup {None}]
FeeLedgerStates == [FeeLedgers -> FeeLedgerV0 \cup {None}]
DonatedStates == [CoreVaults -> Nat]

(***************************************************************************)
(* What the markets' accounts must satisfy, whoever settles.               *)
(***************************************************************************)
VaultA(m) == canonical_domain_vault(DomainPda(m), ASSET_A_INDEX_V0)
VaultB(m) == canonical_domain_vault(DomainPda(m), ASSET_B_INDEX_V0)
FeeLedgerOf(m) == FeeLedgerPda(m, market[m].mint_a)
FeeVaultOf(m) == canonical_fee_vault(FeeLedgerOf(m))
Created == {m \in Markets : market[m] # None}

\* Between instructions a vault holds exactly what Core accounts for plus what
\* was given to it outside deposit_v0 and settlement: accounting never claims a
\* donation, never loses a deposit, an input or a fee, and survives every
\* rollback.  (deposit_v0 and the execute instructions keep accounted_a,
\* accounted_b and accounted_fee_a apart from the raw SPL balances.)
VaultAccounting ==
  phase \in {"idle", "open"} =>
    \A m \in Created :
      /\ token[VaultA(m)].amount = domain[DomainPda(m)].accounted_a + donated[VaultA(m)]
      /\ token[VaultB(m)].amount = domain[DomainPda(m)].accounted_b + donated[VaultB(m)]
      /\ token[FeeVaultOf(m)].amount
           = fee_ledger[FeeLedgerOf(m)].accounted_fee_a + donated[FeeVaultOf(m)]

\* A step that is not a rollback.
Forward == phase' # "idle"

\* Core's state of market m changes, or one of its vaults is debited.
Touched(m) ==
  \/ market'[m] # market[m]
  \/ domain'[DomainPda(m)] # domain[DomainPda(m)]
  \/ \E mint \in Mints : LET l == FeeLedgerPda(m, mint) IN
       \/ fee_ledger'[l] # fee_ledger[l]
       \/ /\ token[canonical_fee_vault(l)] # None
          /\ token'[canonical_fee_vault(l)].amount < token[canonical_fee_vault(l)].amount
  \/ \E v \in {VaultA(m), VaultB(m)} :
       token[v] # None /\ token'[v].amount < token[v].amount
=============================================================================
