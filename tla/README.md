# Verification of Programmable Solana

TLA+ models of the on-chain programs of this repository, TLC configurations that
check them on small instances, and TLAPS proofs for every instance.

## 1. The system

The repository holds three disposable experiments around one idea: a small Core
program keeps the assets of *markets*, and an arbitrary *engine* program, chosen when
the market is created and never trusted with an asset, decides whether a trade happens.

| part | state | operations |
| --- | --- | --- |
| Core (`programs/core`) | `MarketV0` (immutable binding of a market to an engine and two mints), `DomainV0` (accounted liquidity of A and B), `FeeLedgerV0` (accounted fees), three SPL vaults per market | `initialize_market_domain`, `deposit`, `execute_engine_probe` |
| Spike engine (`test-programs/spike-engine`) | `EngineState`: authority, market, revision, sequence, last plan hash, mode | `initialize`, `set_mode`, `evaluate` |
| Probe wire (`crates/engine-probe-interface`) | none | plan digest, request, receipt |
| Engine-generated settlement (`experiments/engine-generated-settlement`) | as Core; the engine also quotes the output and is handed opaque accounts | `execute_engine_generated_probe`, the generated-plan engine, the opaque capability probe |
| Routed callback authentication (`experiments/routed-callback-auth`) | as Core, and a token delegation bound to an intent | `authorize_spend`, `execute_callback_authenticated_probe` (single, or prepare and commit), the routed-plan engine, a hostile router, a capability probe |
| SPL Token, the runtime (external) | token accounts; the transaction in flight, return data, the clock | `transfer_checked`, commit, rollback, CPI |

Interactions. A wallet signs a transaction of several instructions. Core's execution
validates every account the caller named, computes the fee and the accounting to
write, calls the engine by CPI with a digest of the plan, reads the receipt from the
runtime's return data, moves tokens with three CPIs to SPL Token, compares the balances
with those it read first, and writes the accounting. Any error anywhere returns every
account to its state before the transaction.

What is hard here: values read before a CPI and used after it; an untrusted program in
the middle of a settlement; accounts chosen by the caller that may alias or belong to
another market; a shared return-data slot; vaults anybody can credit; several
instructions in a transaction with one rollback for all; expiry. `PROJECT.json` lists
them, each at its line, under `hazards`.

## 2. Modules

| module | models |
| --- | --- |
| `CoreMath` | `math.rs` and checked `u64` arithmetic |
| `CoreLedger` | accounts, derived addresses, `validation.rs`, SPL transfers, the transaction frame, `initialize_market_domain_v0`, `deposit_v0` |
| `AuthorityKernel` | `execute_engine_probe_v0`, the probe wire and the spike engine, over `CoreLedger` |
| `CpmmQuote` | the constant-product quote of both experiments' engines |
| `Capabilities` | the accounts a caller hands to an engine in both experiments: descriptors, the checks on them, what a program can do with them |
| `GeneratedEngine` | the generated-plan engine (ten modes) and the opaque capability probe, called *helper* here |
| `GeneratedSettlement` | `execute_engine_generated_probe_v0` and everybody who can call in between |
| `RoutedWire` | the routed experiment's wire crate: phases, digests, receipts, derived authorities |
| `RoutedEngine` | the routed-plan engine (both timings, twelve modes, the quote) and the callback capability probe, called *helper* here |
| `RoutedCallback` | `authorize_spend_v0`, `execute_callback_authenticated_probe_v0` and everybody who can call in between, over `CoreLedger` |
| `WireFormat` | the byte codecs of the kernel and of both experiments: the nine messages that have an encoder and a decoder, and the bytes of a capability hash |
| `AtomicExchange` | the abstract specification: what every Core promises |
| `ExchangeView` | how the accounts of a Core are read as an `AtomicExchange` |
| `KernelExchange`, `RoutedExchange`, `GeneratedExchange` | the three refinements |
| `LedgerProofs` | lemmas about `CoreLedger`: addresses, transfers, the accounting of a vault, creation, deposit, a settlement in flight, whichever Core runs it, and the markets a step touches; and about `CpmmQuote`: what the quote guarantees |
| `AuthorityKernelProofs` | the kernel's accounting theorems, from the inductive invariant `IInv`, and its lockstep, limits and isolation, from `SInv` |
| `ExchangeViewProofs` | lemmas about `ExchangeView`: which steps of a Core the view hides, and which it shows as a step of `AtomicExchange` |
| `KernelExchangeProofs` | the kernel implements `AtomicExchange` |
| `GeneratedProofs` | the engine-generated experiment: accounting, limits, lockstep, the reserves' product, isolation, refinement, from `FullInv` |
| `RoutedProofs` | the routed experiment: accounting, intents, lockstep, the reserves' product, isolation, refinement, from `FullInv` |
| `AtomicExchangeProofs` | `AtomicExchange` is solvent and conserves every mint's supply; sums over finite sets |
| `WireProofs` | the codecs: integers and their bytes, fields behind fields, and the three properties of `WireFormat`, from `WInv` |
| `MCAuthorityKernel`, `MCRoutedCallback`, `MCGeneratedSettlement`, `MCAtomicExchange`, `MCWireFormat` | constants and small instances for TLC |

`AuthorityKernel` extends `CoreLedger` alone. `Capabilities` extends `CoreLedger`, and both
experiments build on it: `RoutedCallback` on `RoutedEngine` on `RoutedWire`,
`GeneratedSettlement` on `GeneratedEngine`. The three Cores are copies of
each other in the source as far as accounts, validation, creation and deposit go, and
share those definitions.

### State

`token`, `market`, `domain`, `fee_ledger` and `engine` are the accounts, as functions
from addresses; `None` is an account that does not exist. Program-derived addresses are
tuples of their seeds, so that an address determines its seeds, as a hash without
collisions does. Two history variables record what the properties speak of: `donated`
(credits to a vault outside Core's accounting) and `settled` (per engine account, the
settlements Core completed with it). Both are rolled back with the accounts.

One transaction is in flight at a time: the runtime runs transactions that share a
writable account one after the other, and an execution write-locks its domain. `phase`
says where the transaction stands, `saved` holds the accounts for its rollback, and
`used` counts its instructions.

### Actions of the kernel

`initialize_market_domain_v0` and `deposit_v0` are one action each: their only calls go
to the System and Token programs, which call nobody. `execute_engine_probe_v0` is cut
where it calls out, with its locals in `ix`:

| phase | action | source lines |
| --- | --- | --- |
| open | `execute_engine_probe_v0`: all validation, fee, plan, request | 118-350 |
| engine | `evaluate` (the spike engine) or `foreign_evaluate` (any other) | `spike-engine/src/lib.rs` 71-130 |
| receipt | `accept_receipt` | 352-364 |
| input, fee, output | `transfer_input`, `transfer_fee`, `transfer_output` | 372-416 |
| finalize | `finalize`: reload, exact deltas, accounting | 418-478 |

A failing check disables its action; `AbortTransaction`, enabled in every phase, is the
error path of all of them and the runtime's own refusals. The accounts an instruction
names range over all accounts, not over the right ones, so that the validation is what
excludes the wrong ones. `CallFrames` stands for how the instruction was called:
extra accounts, a read-only role passed writable, the call depth.

An engine other than the spike engine may leave any return data, with any setter.
`evaluate` can also be called by anybody between Core's calls. While Core's call runs,
nobody else holds the engine account.

### Actions of the routed experiment

`authorize_spend_v0` is one action: it has SPL Token approve the intent's own address as
the delegate for the exact debit. The owner may also approve that address directly,
approve another, or revoke (`SplApprove`, `SplRevoke`); `settled.pending` is the history
of the intent each token account's owner approved last and nobody executed yet.

`execute_callback_authenticated_probe_v0` is cut as the kernel's execution is:

| phase | action | source lines |
| --- | --- | --- |
| open | `execute_callback_authenticated_probe_v0`: envelope, limits, intent digest, delegation, closure | 162-272 |
| primary | `evaluate_phase` (TRANSITION or PREPARE of the routed engine) or `foreign_engine` | `routed-plan-engine/src/lib.rs` 98-246, 556-622 |
| receipt | `accept_primary` | 285-331 |
| input, fee, output | `transfer_input`, `transfer_fee`, `transfer_output` | 888-938 |
| settle | `settle`: reload, exact deltas, allowance used up, settlement digest | 940-980, 340-347 |
| commit | `evaluate_phase` (COMMIT) or `foreign_engine` | as above |
| commit_receipt | `accept_commit` | 387-404 |
| finalize | `finalize`: the accounting | 417-422 |

Nobody signs the execution, and any program may call it, so a router's `ForwardOnce` is
the same step; the router's other modes always fail, and what they attempt first is
attempted by other actors: `evaluate_phase` and `increment` are also called between
executions, with a callback authority that did not sign or with a wallet that did
(`ForgedCall`, `OutsideCallbacks`). The engine of unknown code answers anything, and
uses what its call handed it: it moves tokens between writable token accounts it was
given and has an allowance for, calls the helper or the routed engine with the genuine
callback authority Core signed for *it*. `ForgedCall` requests pass every check of the
engine except authentication.

The helper is called inside the engine's action: the engine either completes with the
helper's count or fails the transaction. Its return data, which the engine's own receipt
must overwrite, is in `EvaluateReturn`.

### Actions of the engine-generated experiment

The user signs the input and the limits; the engine decides the output.
`execute_engine_generated_probe_v0` is cut where it calls out:

| phase | action | source lines |
| --- | --- | --- |
| open | `execute_engine_generated_probe_v0`: envelope, fee, the limits that do not depend on the output, the closure, request hash | 136-447 |
| engine | `evaluate` (the generated-plan engine), or `foreign_act` any number of times and `foreign_return` | `generated-plan-engine/src/lib.rs` 92-219 |
| receipt | `accept_receipt`: setter, encoding, request hash, the limits that depend on the output | 449-507 |
| input, fee, output | `transfer_input`, `transfer_fee`, `transfer_output` | 522-566 |
| finalize | `finalize`: reload, exact deltas, accounting | 568-633 |

The engine authenticates its caller by the instruction at the top level and the call
depth, not by a signature. So `evaluate` is also called by a client (depth 1), by a router
(depth 2 under its own instruction) and by another market's engine (depth 3 under a
genuine Core instruction), each with a request that passes every other check
(`ForgedCall`). An engine of unknown code does any number of things with the accounts it
was handed before it answers, and need never answer.

### The abstract specification

`AtomicExchange` has accounts that hold amounts, exchanges with a book each (two reserves
and the fees), and transactions that commit or abort. A trade is one step: the payer
gives the input and the least fee, the exchange gives an output its reserve covers, the
book follows. Nothing else takes from a vault, and a payment into one outside a deposit or
a trade changes no book.

The refinement mapping, in `ExchangeView`: the books are the accounted values of the domain
and the fee ledger; the holdings are the balances *without the payments of the settlement
in flight*; the committed state is `saved`. So a trade happens when the accounting is
written, and the phases before it stutter. That this holds is not obvious: it fails if an
engine can touch any account of the settlement, if one of the three payments goes to an
account the book does not name, or if a rollback misses anything.

### The wire

`WireFormat` has a sender encode, bytes change on the way (a caller chooses its instruction data, an
engine its return data), and a receiver decode. It keeps the order, widths and endianness of the fields, the
discriminator and version bytes, the fixed-size payload field with its length and zero
padding, the execution digest that a phase instruction carries and its decoder recomputes,
the tags of a receipt, and the list of accounts that a capability hash is taken of, each with
its key, owner, executable flag and privileges.

Every message with an encoder and a decoder is a format, with all the fields of its struct:

| format | source | fields |
| --- | --- | --- |
| `kernel_evaluate` | probe wire, `EngineProbeRequest` | 10 |
| `kernel_receipt` | probe wire, `EngineProbeReceipt` | 2 |
| `request_binding` | generated wire, the request binding under the request hash | 28 |
| `evaluate` | generated wire, the engine request | 11 |
| `generated_receipt` | generated wire, the engine receipt | 3 |
| `intent` | routed wire, the binding under the intent digest | 27 |
| `phase` | routed wire, the execution binding of PREPARE, COMMIT and the single phase | 17 |
| `receipt` | routed wire, the engine receipt | 5 |
| `settlement` | routed wire, the binding under the settlement digest | 18 |

An encoder and a decoder are two lists of fields, each in the order of its own Rust function:
the cursor moves by the widths, and a field that the two functions meet in another order, or
that one of them leaves out, is read from another field's bytes. The values sent differ in
neighbouring fields, so that exchanging two of them shows.

### Abstractions

Versions, bumps and the fee-policy revision are constants written once.
In the models of the Cores the digest is an injective function of the fields that an
execution can vary; the byte layout is left to `WireFormat`, and a receipt that
`decode_receipt` refuses is one that is not `well_formed`. In the experiments a digest is a
record of the fields the wire encodes, less the addresses derived from the market's, so
equal digests mean equal fields: SHA-256 is assumed free of collisions. That the encoding
under a digest loses nothing is what `WireFormat` checks, of the request, intent, execution and
settlement bindings and of the capability list. The kernel's plan binding and the payload
hash have an encoder only, over fields of fixed width or a payload at the end, and are not
formats of it. A payload is absent, a helper command with its amount, or (0) a command that is refused.
Token, system and sysvar addresses are fixed and distinct, and are
left out of the distinct-role lists. Delegates, close authorities and the frozen state
of wallets' token accounts are given initially (any value); in the kernel they change only
as transfers use an allowance up. Events, rent and compute are left out.

## 3. Runs

| run | instance | shows |
| --- | --- | --- |
| `kernel_lockstep` | one market, created in the run; one wallet with an account of each mint and a decoy account whose owner is the domain; two instructions a transaction; slots 0 and 1; five argument records, two of which can settle and three of which break one limit each | `TypeOK`, `EngineLockstep`, `UserLimitsHonoured`, `KernelImplementsExchange`, `HonestExecutionSettles` |
| `kernel_isolation` | two markets over the same mints in the same direction, one bound to an arbitrary engine; one instruction a transaction | `VaultAccounting`, `PayoutFunded`, `CachedValuesCurrent`, `DomainIsolation`, `KernelImplementsExchange` |
| `routed_lockstep` | one market, engine and helper, all created in the run, in any order; an intent without a payload (single phase) and one with a helper call (two phases); a mode that fails COMMIT | `RoutedTypeOK`, `RoutedLockstep`, `HelperLockstep` |
| `routed_intents` | one live market; all twelve engine modes; three intents; argument records that change the sequence, the expiry or the minimum; a second destination; slots 0 and 1 | `IntentHonoured`, `ProductNeverDecreases`, `HonestIntentSettles` |
| `routed_isolation` | two live markets on the same mints, the second with an engine of unknown code; closures that hold the helper, the other engine, or the destination and an account the engine may spend from | `VaultAccounting`, `SettlementUndisturbed`, `RoutedLockstep`, `HelperLockstep`, `RoutedIsolation`, `RoutedImplementsExchange` |
| `generated_lockstep` | one market, engine and helper, all created in the run, in any order; executions with and without a helper call; forged calls at every depth | `GeneratedTypeOK`, `GeneratedLockstep`, `GeneratedHelperLockstep` |
| `generated_limits` | one live market; all ten engine modes; every combination of two inputs, total limits, minima, fee limits and expiries; slots 0 and 1 | `GeneratedLimitsHonoured`, `GeneratedProductNeverDecreases`, `HonestGenerationSettles` |
| `generated_isolation` | two live markets on the same mints, the second with an engine of unknown code; closures that hold the helper, the other engine, or accounts an engine may spend from | `VaultAccounting`, `GeneratedSettlementUndisturbed`, `GeneratedLockstep`, `GeneratedHelperLockstep`, `GeneratedLimitsHonoured`, `GeneratedIsolation`, `GeneratedImplementsExchange` |
| `exchange_promise` | two exchanges, one created in the run; eight accounts, two of them wallets' | `Solvent`, `SupplyConserved` |
| `wire_format` | every message of a small alphabet, up to two changes on the way (a byte replaced, or dropped or added at the end) | `RoundTrip`, `OneSpelling`, `CapabilitiesTellApart` |

Bounds of the kernel's runs. `U64Max` is 8, more than the supply of either mint, so SPL balances cannot
overflow, as on chain; sequences and sums can reach it. `MaxInstructions` is 2 where the
order of instructions within a transaction matters (a settlement followed by a failing
instruction must be undone), 1 where the two markets carry the state. `MaxSlot` is 1:
one plan expires, another does not. The fee is 3/10, so that inputs 1 and 3 round up from
0.3 and 0.9 and a rounding error shows. Two markets on the same mints are the smallest
instance in which a ledger, vault or destination of the other one fits every type check.

Bounds of the routed runs. An execution takes 3 and a fee of 1 from reserves of 4 and 4, so
both roundings of the quote lose something, and a second execution meets other reserves.
A wallet's own approvals and transfers are of 4, the exact debit of an intent. `U64Max`
(12, or 16 with two markets) is at least either mint's supply, as SPL Token guarantees;
the helper adds 7 a call, so that its second call overflows. One instruction a
transaction is enough: an authorization and its execution are in different
transactions, the harder order, and rollback over several instructions is the kernel's
run. The live markets of the last two runs are states that creation and deposits reach;
starting there lets the bounds go to executions. Accounts that only serve as
destinations are owned by a domain, which keeps approvals on them out of the state space;
anybody can create such an account on chain.

Bounds of the generated runs. As in the routed runs: reserves of 4 and 4, `U64Max` 12,
a helper amount whose third call overflows. `MaxOpaqueAccounts` is 5, the length of the
longest closure. One closure names the helper's state twice, first writable and
then read-only: the runtime merges the privileges of duplicates, and the hash Core binds
must be of the merged view that the engine sees.

Bounds of `exchange_promise`. `U64Max` is 4 and the supplies are 4 and 3. The accounts
that do not exist at first are interchangeable, so the run uses symmetry over three of them.
It checks the abstract specification itself: what `Solvent` says there, the refinements
carry to each Core.

Bounds of `wire_format`. Four byte values, keys and digests of one byte, words of two, payloads
up to 2 (3 is sent too), at most one opaque account (2 are sent too): every limit can be
met, exceeded by one and undercut, and every byte can be replaced by every other. The
digest is a byte sum, far from injective: the codecs may not rest on it.

Fairness. `FairSpec` (in the experiments' runs, `Progress`) adds weak fairness of the steps of an execution: once the runtime has
loaded a transaction it runs it to its end. Nothing is assumed of users, of the clock or
of aborts, and nothing of an engine of unknown code: it may run as long as it likes.
Deadlock is checked in every run but `wire_format`, where a refused message ends the
exchange.

Each property has a mutant in `PROJECT.json`: a plausible fault of the code (the fee
rounded down, the liquidity check dropped, the depth checked without the caller, a ledger
of the same mint accepted, neighbouring roles compared only, accounting taken from the
raw balance, a delta without the fee; in the routed experiment a spend authority that
does not bind the intent, a COMMIT request with the reserves after settlement, any
signer taken for the callback authority, a signature or an overflow not checked, token
accounts let through as opaque capabilities, a spot-price quote; in the generated
experiment a caller accepted at the wrong depth or under any top-level instruction, the
minimum or the liquidity not compared with the engine's answer, a duplicate account
listed once; in the wire a swapped pair of digests, padding not looked at, privileges
sharing a bit) under which TLC finds the property violated.

## 4. Proofs

Proved for any users, markets, mints, engines, arguments and bounds that satisfy the
named assumptions:

| theorem | states | module |
| --- | --- | --- |
| `TypeCorrect` | `Spec => []TypeOK` | `AuthorityKernelProofs` |
| `AccountingExact` | `Spec => []VaultAccounting` | `AuthorityKernelProofs` |
| `PayoutAlwaysFunded` | `Spec => []PayoutFunded` | `AuthorityKernelProofs` |
| `CachedNeverStale` | `Spec => []CachedValuesCurrent` | `AuthorityKernelProofs` |
| `LockstepKept` | `Spec => []EngineLockstep` | `AuthorityKernelProofs` |
| `LimitsHonoured` | `Spec => UserLimitsHonoured` | `AuthorityKernelProofs` |
| `MarketsIsolated` | `Spec => DomainIsolation` | `AuthorityKernelProofs` |
| `KernelRefines` | `Spec => KernelImplementsExchange` | `KernelExchangeProofs` |
| `GeneratedTyped` | `Spec => []GeneratedTypeOK` | `GeneratedProofs` |
| `GeneratedAccounting` | `Spec => []VaultAccounting` | `GeneratedProofs` |
| `GeneratedUndisturbed` | `Spec => []GeneratedSettlementUndisturbed` | `GeneratedProofs` |
| `GeneratedLimits` | `Spec => GeneratedLimitsHonoured` | `GeneratedProofs` |
| `GeneratedInLockstep` | `Spec => []GeneratedLockstep` | `GeneratedProofs` |
| `GeneratedHelpersInLockstep` | `Spec => []GeneratedHelperLockstep` | `GeneratedProofs` |
| `GeneratedProductKept` | `Spec => GeneratedProductNeverDecreases` | `GeneratedProofs` |
| `GeneratedMarketsIsolated` | `Spec => GeneratedIsolation` | `GeneratedProofs` |
| `GeneratedRefines` | `Spec => GeneratedImplementsExchange` | `GeneratedProofs` |
| `RoutedTyped` | `Spec => []RoutedTypeOK` | `RoutedProofs` |
| `RoutedAccounting` | `Spec => []VaultAccounting` | `RoutedProofs` |
| `RoutedUndisturbed` | `Spec => []SettlementUndisturbed` | `RoutedProofs` |
| `RoutedIntentHonoured` | `Spec => IntentHonoured` | `RoutedProofs` |
| `RoutedInLockstep` | `Spec => []RoutedLockstep` | `RoutedProofs` |
| `RoutedHelpersInLockstep` | `Spec => []HelperLockstep` | `RoutedProofs` |
| `RoutedProductKept` | `Spec => ProductNeverDecreases` | `RoutedProofs` |
| `RoutedMarketsIsolated` | `Spec => RoutedIsolation` | `RoutedProofs` |
| `RoutedRefines` | `Spec => RoutedImplementsExchange` | `RoutedProofs` |
| `AlwaysSolvent` | `Spec => []Solvent`, of `AtomicExchange` | `AtomicExchangeProofs` |
| `SupplyIsConserved` | `Spec => SupplyConserved`, of `AtomicExchange` | `AtomicExchangeProofs` |
| `RoundTripHolds` | `Spec => []RoundTrip`, of `WireFormat` | `WireProofs` |
| `OneSpellingHolds` | `Spec => []OneSpelling`, of `WireFormat` | `WireProofs` |
| `CapabilitiesTellApartHolds` | `Spec => []CapabilitiesTellApart`, of `WireFormat` | `WireProofs` |

Assumptions: addresses of different kinds are different (`KeyAssumption`), the initial
accounts are well typed (`InputAssumption`), the fee rate and denominator are positive
(`MathAssumption`), the spike engine is not Core (`KernelAssumption`), the absent account
is no engine state (`EngineStateAssumption`), the view's accounts are the Core's
(`ViewAssumption`), and the abstract specification's own constants are typed
(`ExchangeAssumption`) and its accounts finitely many (`FiniteAssumption`, without which a
supply is no number). Of the experiments: the engine, the helper and Core are three
programs, and in the generated one only the engine owns, or can sign for, its capability
authorities (`EngineAssumption`, one in each engine's module); the constants are typed
(`CapabilityAssumption`, `GeneratedAssumption`, `RoutedAssumption`); and an account, an
execution or a call frame that exists is not the absent one (`PresenceAssumption`, in
each). `RoutedAssumption` also says of Core's derived addresses what deriving them
guarantees: a spend authority is no delegate of another kind, a callback authority is no
wallet, an address an engine derives is neither, and no account starts with a spend
authority as its delegate. Digests are injective by construction of the model. Of the
wire: a byte has room for the tags, a length or an account count at its limit fits in the
`u16` that carries it, what is sent has the type of its Rust field (`WireAssumption`), and
a digest is as long as a key (`DigestAssumption`). Nothing is assumed about
collisions. TLC evaluates all of them.

**Accounting (`IInv`).** None of the properties is inductive. `VaultAccounting` speaks of
the state between instructions, while the settlement passes through states in which a
vault is ahead of or behind its accounting. `IInv` has five parts: `TypeOK`; `LiveSound`,
which says that every market's accounts exist at their addresses with the right owner
and mint, and that each vault holds its accounting plus donations *plus what the
execution in flight has already moved* (`PaidIn`, `PaidFee`, `PaidOut`); `SavedSound`, the
same of the accounts kept for rollback, without which an abort could not be shown sound;
`RolesSound`, what validation established of the keys in `ix`; and `ReadsSound`, which
relates the cached balances and sums to the live accounts phase by phase. One lemma per
action shows that it preserves `IInv`. Arithmetic is done vault by vault (`VaultShift`,
`DonationRecorded`, `DepositBalance`).

**Lockstep, limits, isolation (`SInv`).** `SInv` adds to `IInv`: `Terms`, the limits that
the handler compared stay true of the execution in flight until it completes (the slot
does not advance under a transaction, the signers do not change); `Bound`, the engine
state of the flight exists and belongs to the market's engine; `LockLive`, every spike
state is in step with the settlements, except that the one in flight is exactly one
ahead from the engine's answer to `finalize`; and `LockSaved`, the rollback copy is in
step. `FeeIsLeast` shows that `fee_ceil` is the least fee not below the rate.

**Refinement.** The step of the abstract specification that each step of the kernel
implements: the two token payments that a settlement has already made are taken back by
the view, so `transfer_*` stutter (`PaymentHidden`); `finalize` is `Trade` (`TradeMade`,
with `FeeIsLeast` for the fee); a deposit, a creation and a wallet's transfer are
themselves; an abort returns to the committed view, for which `SavedSound` is needed.
The lemmas about the view do not mention the kernel and serve all three Cores.

**The engine-generated experiment (`FullInv`).** Its settlement is stated once, without a
word of the Core that runs it: `Flight` says that the accounts `t`, `mk`, `dm`, `fl` are
those of a settlement `x` that has made given payments. It names the roles (`Roles`: the
vaults at their addresses, the source and destination apart from them), what was read at
entry (`Reads`, `Copies`), and the backing of every vault but for the payments.
`FlightOpens`, `FlightPays`, `FlightOutputs`, `FlightDeltas` and `FlightCloses` are its life.

`BaseInv` is `GeneratedTypeOK`, the books of a Core between instructions (`BooksSound`), `Flight`
with the payments of the phase (`FlightSound`), the same of the rollback copy
(`SavedSound`), the limits that were checked (`TermsSound`), and `HandedSound`: no account handed to
the engine writable is a token account. The last is what makes an engine of unknown code
harmless: `foreign_act` may be taken any number of times, so every invariant has to survive any
sequence of them. `EngineInv` then speaks of the engines' own accounts: every plan state is
in step with the settlements except the one being served, which is exactly one ahead,
with the request hash of the execution in flight (`Ahead`); helpers likewise
(`Counts`, `HelpedNow`); and the answer that Core accepted is the one the engine wrote
down and priced (`AnswerSound`). That a call from elsewhere changes nothing rests on the
depth and on the top-level instruction (`ForeignEngines`); that nobody else moves a
helper, on the capability authority that only the engine signs for (`HelperNamed`).
`GeneratedProductKept` needs no induction: the quote rounds down after the fee
(`Priced`), and the reserves of the request are those Core writes back.

**Its isolation and refinement.** Isolation is by cases on the step: what an engine of
unknown code does leaves every token account alone (`ForeignActStep`), the payments take
from the source and from one vault of the market, and the accounting is written at
addresses that name the market (`SharedIsolated`, `OutputIsolated`, `WriteIsolated`).
The refinement is as the kernel's, from `Flight` instead of `IInv`: a payment is taken back by the view
(`PaymentUnseen`), the accounting written after all three is one `Trade`
(`SettlementTrades`), and everything an engine does is a stutter (`Unseen`).

**The routed experiment (`BaseInv`).** Its settlement is `Flight` again; what differs is who
may spend. The user does not sign the execution: an SPL delegate, derived from the intent's digest,
stands for the signature, and the engine may be called a second time *after* the payments.
`BaseInv` is `RoutedTypeOK`, `BooksSound`, `FlightSound` and `SavedSound` as before, and

- `Approvals`: an account whose delegate is the spend authority of an intent waits for
  exactly that intent. Without it `execute_callback_authenticated_probe_v0` would know only that
  *some* delegate was set. It holds because the authority determines the intent
  (`SpendFacts`) and because every approval and every revocation, Core's or the wallet's
  own, replaces the delegate (`ApprovalSound`). The rollback copy has it too;
- `TermsSound`: the execution in flight is of the intent that waits (`Intended`), its limits
  were compared (`Agreed`), its output checked (`Answered`), and the allowance is what the payments made so far
  leave of it (`Allowed`). The fee being positive (`FeePositive`), the input does not use
  the allowance up and the fee does, so that the delegate is gone at the end;
- `HandedSound`: no token account is handed on writable and the engine's own account
  not twice, and a receipt that waits to be read holds words.

`ForeignStep` is the consequence that matters: an engine of unknown code, called in
either phase with any closure, moves no tokens and touches no plan state, and at most
calls a helper that serves no authority of the routed engine's. `EvaluateStep` is its
counterpart: of all calls of the routed engine, by wallets, routers or Core, only
Core's own succeeds, since nobody else signs for the callback authority.

**Its engines (`EngineInv`).** With two timings, the state in flight is one ahead not
from the engine's first answer on but from the call that *writes*: TRANSITION in one
phase, COMMIT in two. `Served` says so, and `AheadStates` and `HelpedNow` follow it.
Between PREPARE and COMMIT the engine's accounts are still in step although its answer was
accepted and paid out, so `AnswerSound` has to carry the price of that answer (`Priced`)
in `ix` across the payments, and to tie COMMIT's answer to it: Core compares the two
(`AcceptCommitEngines`). `Bound` says that the state in flight belongs to the engine
called and that only a two-phase execution reaches COMMIT. The digest that the engine wrote
down is that of the request in flight to the end (`BindingKept`).

**Its isolation and refinement.** Isolation follows from `BaseInv` with the lemmas of
`LedgerProofs` that the other two Cores use (`SharedIsolated`, `OutputIsolated`, `WriteIsolated`).
In the refinement approvals are invisible, as the view holds no delegates
(`ApprovalUnseen`), and the payments stay hidden while COMMIT runs (`CommitStutters`).

**`Solvent`.** The invariant adds that vaults are pairwise different and of the right
kind, live and committed.

**Recursion and induction.** A theorem with an operator as its parameter cannot be
instantiated here, so induction is stated over *sets*: every nonempty set of naturals has a
least element (`NatLeast`, from the well-foundedness of `<`), hence a set that holds 0 and
with a number its successor holds all (`NatSetInduction`), and likewise up to a bound
(`UpTo`). That a recursive function has the values its definition says needs that such a
function exists at all; `Iterates` shows it for any first value and any steps, once, and
`SpanFacts`, `PutFacts`, `ReadFacts` and `FlattenFields` apply it.

**`SupplyConserved`.** The supply is a sum over the accounts of a mint, taken by a fold that
removes one chosen account after the other. `SumExists` and `SumUnique` show that this
recursion has one solution on a finite set, and `TotalAdds` that any account, not only the
chosen one, can be taken out first. A payment then changes two summands by opposite
amounts (`PaymentConserves`), a new vault adds a zero (`NewAccountConserves`), and an abort
goes back to a sum that was the same, which is why the invariant carries the equality of the
committed and the live supply from the beginning of a transaction.

**The wire (`WInv`).** The invariant says that the wire carries the encoding of what was sent
for as long as nobody changed it (`Carries`), and that what was received was taken from
these very bytes by a decoder that accepted them (`Taken`). The rest is about codecs.
`ReadPut` and `PutRead`: `to_le_bytes` and `from_le_bytes` are inverse to each other for
integers that fit the width and for all bytes. `CursorFacts` solves the recursion of the
cursor, and `Flattened` and `PartsHeld` that of the bytes appended: field `i` of a list stands
where the cursor is after the `i - 1` before it. With these, `FieldsPut` and `FieldsRead` say of
any list of fields that what is put is read again, field by field, and `FieldsAgain` that
fields read from any bytes and put again give those bytes.

What is left of a format is that its encoder and its decoder are the same list, that no name
occurs in it twice, and how long it is. The lists are too long to compare at a stroke, so a
`Layout` (the list, its length in bytes, the position of every name) grows a run at a time
(`RunFirst`, `RunAdded`), once for each format (`KernelRequestLaid` to `SettlementBindingLaid`).
`FormatFits` collects them, and nothing after it looks inside a format. `MessageRoundTrip`
adds what stands around the fields (discriminator or magic number, version, the digest behind a
phase) and gives `RoundTrip`; `MessageAgain` and `RebuiltAgain` give `OneSpelling`, where the
padding that was checked makes the payload canonical (`PayloadAgain`). For
`CapabilitiesTellApart` the count at its fixed place makes two lists of one length of a prefix,
entries of one size stand at multiples of it (`FlattenFields`), and an entry determines its descriptor (`EntriesApart`).

Only model-checked: the liveness properties, as fairness and ENABLED are out of the
prover's reach.

## 5. Plan

Done: the three Cores, the abstract `AtomicExchange`, the refinement of all three to it,
and the byte codecs of the kernel and of both experiments, model-checked; every safety property
of the three Cores, of `AtomicExchange` and of the codecs, and the three refinements, proved.
Left: only what section 6 lists.

## 6. Not modelled

- The layout of the kernel's plan binding and of the payload hash: hashed, never decoded.
- Two refusals of the experiments' Cores, so that the models allow more than the code does: of an
  execution in which one of the named program accounts is a signer (`UnexpectedSignerPrivilege`),
  and of a capability hash other than the one the arguments expect. The safety properties are
  checked and proved of the executions that either would refuse as well. The liveness
  properties start at the engine call, behind both refusals.
- An engine of unknown code acts at most once in each call of the routed experiment; in the
  generated one it acts any number of times.
- Error codes, events, rent, compute budgets and packet limits, which change no account; the
  failing modes of the hostile router beyond what they attempt before they fail; the release
  scripts under `scripts/` and the documents under `spec/`.
