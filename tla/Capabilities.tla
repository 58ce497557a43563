---------------------------- MODULE Capabilities ----------------------------
(***************************************************************************)
(* The accounts an engine is handed beyond its own in the two experiments  *)
(* that let the caller choose them: which ones Core refuses, how it binds  *)
(* the others, and what an engine of unknown code can do with them.        *)
(***************************************************************************)
EXTENDS CoreLedger

CONSTANTS
  Closures,            \* the account lists an execution may be called with
  Payloads,            \* opaque payloads: a helper amount, or None for any other
  MaxOpaqueAccounts,   \* MAX_OPAQUE_ACCOUNTS
  OtherHash,           \* a digest of nothing Core ever binds
  TokenProgram,        \* SPL Token's program id
  EnginePdas           \* addresses that an engine of unknown code signs for

\* An account as it is passed to a program.
AccountKeys ==
  Programs \cup EngineStates \cup TokenAccounts \cup Mints \cup Markets \cup Domains
    \cup FeeLedgers \cup Users
AccountMetas == [key : AccountKeys, is_writable : BOOLEAN, is_signer : BOOLEAN]

ASSUME CapabilityAssumption ==
  /\ Closures \subseteq Seq(AccountMetas)
  /\ Payloads \subseteq U64 \cup {None}
  /\ MaxOpaqueAccounts \in Nat
  /\ OtherHash # None
  /\ TokenProgram \in Programs \ {CoreProgram}
  /\ EnginePdas \cap (Users \cup Domains \cup FeeLedgers) = {}

(***************************************************************************)
(* What Core refuses and what it binds.                                    *)
(***************************************************************************)
IsExecutable(k) == k \in Programs
CoreOwned(k) ==
  \/ k \in Markets /\ market[k] # None
  \/ k \in Domains /\ domain[k] # None
  \/ k \in FeeLedgers /\ fee_ledger[k] # None
TokenOwned(k) == k \in Mints \/ (k \in TokenAccounts /\ token[k] # None)

\* The owner field of an account; an executable's loader is never compared.
AccountOwner(k) ==
  CASE CoreOwned(k) -> CoreProgram
    [] TokenOwned(k) -> TokenProgram
    [] OTHER -> OwnerOf(k)

Descriptor(k, owner, is_writable) ==
  [key |-> k, owner |-> owner, is_writable |-> is_writable, is_executable |-> IsExecutable(k)]

\* The privileges of an account are the union over every place it is passed at.
Effective(closure, k, privilege) ==
  \E i \in DOMAIN closure : closure[i].key = k /\ closure[i][privilege]

\* Faulty variant of opaque_capability_allowed: fixed roles and token accounts pass.
capability_any_account(closure, k, fixed_envelope_keys) ==
  /\ ~Effective(closure, k, "is_signer")
  /\ ~CoreOwned(k)
  /\ ~(IsExecutable(k) /\ Effective(closure, k, "is_writable"))

opaque_capability_allowed(closure, k, fixed_envelope_keys) ==
  /\ ~Effective(closure, k, "is_signer")
  /\ \A i \in DOMAIN fixed_envelope_keys : fixed_envelope_keys[i] # k
  /\ ~CoreOwned(k)
  /\ ~(IsExecutable(k) /\ Effective(closure, k, "is_writable"))
  /\ ~(TokenOwned(k) /\ Effective(closure, k, "is_writable"))

validate_opaque_capabilities(closure, fixed_envelope_keys) ==
  /\ Len(closure) <= MaxOpaqueAccounts
  /\ \A i \in DOMAIN closure :
       opaque_capability_allowed(closure, closure[i].key, fixed_envelope_keys)

\* Faulty variant of OpaqueDescriptors: as many as there are distinct accounts.
OpaqueDescriptorsOnce(closure) ==
  [i \in 1 .. Cardinality({closure[j].key : j \in DOMAIN closure}) |->
     Descriptor(closure[i].key, AccountOwner(closure[i].key),
                Effective(closure, closure[i].key, "is_writable"))]

\* The descriptors it returns, a duplicate at its place (none is a signer).
OpaqueDescriptors(closure) ==
  [i \in DOMAIN closure |->
     Descriptor(closure[i].key, AccountOwner(closure[i].key),
                Effective(closure, closure[i].key, "is_writable"))]

\* SHA-256 under a separator of its own of the program and every descriptor in order.
compute_capability_hash(engine_program, descriptors) ==
  [capabilities |-> <<engine_program, descriptors>>]

\* What a callee sees of the accounts it is passed: the runtime unions the
\* privileges of duplicates.
Observed(descriptors) ==
  [i \in DOMAIN descriptors |->
     [descriptors[i] EXCEPT !.is_writable =
        \E j \in DOMAIN descriptors : /\ descriptors[j].key = descriptors[i].key
                                      /\ descriptors[j].is_writable]]

(***************************************************************************)
(* What an engine of unknown code can do with the accounts it sees.        *)
(***************************************************************************)
Handed(accounts, k) == \E i \in DOMAIN accounts : accounts[i].key = k
HandedWritable(accounts, k) ==
  \E i \in DOMAIN accounts : accounts[i].key = k /\ accounts[i].is_writable

NoEffect == [token |-> token, donated |-> donated, engine |-> engine]

\* Call SPL Token, if it was handed that too, to move tokens between accounts it
\* can write, as the delegate of the first.
TokenMoves(accounts) ==
  {[NoEffect EXCEPT !.token = Transferred(token, t.from, t.to, t.amount, t.authority),
                    !.donated = DonatedBy(t.to, t.amount)] :
     t \in {t \in [from : TokenAccounts, to : TokenAccounts, authority : EnginePdas,
                   amount : TokenAmounts] :
              /\ Handed(accounts, TokenProgram)
              /\ HandedWritable(accounts, t.from) /\ HandedWritable(accounts, t.to)
              /\ t.from # t.to
              /\ CanTransfer(token, t.from, t.to, token[t.from].mint, t.amount, t.authority)}}
=============================================================================
