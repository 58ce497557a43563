---------------------------- MODULE LedgerProofs ----------------------------
(* What CoreLedger's instructions and transfers do to the accounts, for every *)
(* value of its constants: the lemmas the proofs about each Core rest on.      *)
EXTENDS CoreLedger, CpmmQuote, TLAPS

FeeVaultAt(m, mint) == canonical_fee_vault(FeeLedgerPda(m, mint))

\* Core's addresses are distinct for distinct markets, assets and ledgers.
LEMMA Addresses ==
  ASSUME NEW m \in Markets, NEW n \in Markets, NEW p \in Mints, NEW q \in Mints
  PROVE  /\ DomainPda(m) \in Domains /\ FeeLedgerPda(m, p) \in FeeLedgers
         /\ VaultA(m) \in CoreVaults /\ VaultB(m) \in CoreVaults
         /\ FeeVaultAt(m, p) \in CoreVaults
         /\ VaultA(m) # VaultB(n)
         /\ FeeVaultAt(m, p) # VaultA(n) /\ FeeVaultAt(m, p) # VaultB(n)
         /\ n # m => /\ DomainPda(n) # DomainPda(m)
                     /\ VaultA(n) # VaultA(m) /\ VaultB(n) # VaultB(m)
         /\ n # m \/ p # q => /\ FeeLedgerPda(m, p) # FeeLedgerPda(n, q)
                              /\ FeeVaultAt(m, p) # FeeVaultAt(n, q)
<1> USE DEF VaultA, VaultB, FeeVaultAt, DomainPda, FeeLedgerPda, canonical_domain_vault,
        canonical_fee_vault, ASSET_A_INDEX_V0, ASSET_B_INDEX_V0
<1>1. DomainPda(m) \in Domains /\ FeeLedgerPda(m, p) \in FeeLedgers
  BY DEF Domains, FeeLedgers
<1>2. VaultA(m) \in CoreVaults /\ VaultB(m) \in CoreVaults
  BY <1>1 DEF CoreVaults, DomainVaults
<1>3. FeeVaultAt(m, p) \in CoreVaults
  BY <1>1 DEF CoreVaults, FeeVaults
<1>4. VaultA(m) # VaultB(n)
  OBVIOUS
<1>5. FeeVaultAt(m, p) # VaultA(n) /\ FeeVaultAt(m, p) # VaultB(n)
  OBVIOUS
<1>6. n # m => /\ DomainPda(n) # DomainPda(m)
               /\ VaultA(n) # VaultA(m) /\ VaultB(n) # VaultB(m)
  OBVIOUS
<1>7. n # m \/ p # q => /\ FeeLedgerPda(m, p) # FeeLedgerPda(n, q)
                        /\ FeeVaultAt(m, p) # FeeVaultAt(n, q)
  OBVIOUS
<1> QED BY <1>1, <1>2, <1>3, <1>4, <1>5, <1>6, <1>7

\* From t to r the amount moved between two accounts and no other account changed.
Moved(t, r, from, to, amount) ==
  /\ r[from].amount = t[from].amount - amount
  /\ r[to].amount = t[to].amount + amount
  /\ \A a \in TokenAccounts : a \notin {from, to} => r[a] = t[a]

\* From t to r no account was created, closed, given another owner or another delegate.
Kept(t, r) ==
  \A a \in TokenAccounts :
    /\ (r[a] = None) <=> (t[a] = None)
    /\ r[a].mint = t[a].mint /\ r[a].owner = t[a].owner /\ r[a].state = t[a].state
    /\ r[a].delegate \in {t[a].delegate, None}

\* A transfer between two accounts moves the amount between them, keeps the type
\* and every field but the balances and the source's delegation.
LEMMA TransferEffect ==
  ASSUME NEW t \in TokenStates, NEW from \in TokenAccounts, NEW to \in TokenAccounts,
         NEW mint, NEW amount \in U64, NEW authority,
         from # to, CanTransfer(t, from, to, mint, amount, authority), authority # None,
         NEW r, r = Transferred(t, from, to, amount, authority)
  PROVE  r \in TokenStates /\ Moved(t, r, from, to, amount) /\ Kept(t, r)
<1> DEFINE after == IF ByDelegate(t, from, authority)
                    THEN SpendAllowance(t[from], amount) ELSE t[from]
<1>1. t[from] \in TokenAccount /\ t[to] \in TokenAccount
  BY DEF CanTransfer, TokenStates
<1>2. /\ after \in TokenAccount /\ after.amount = t[from].amount
      /\ after.mint = t[from].mint /\ after.owner = t[from].owner
      /\ after.state = t[from].state
      /\ after.delegate \in {t[from].delegate, None}
  <2>1. CASE ByDelegate(t, from, authority)
    <3>1. t[from].delegated_amount >= amount /\ t[from].delegate = authority
      BY <2>1 DEF CanTransfer, ByDelegate
    <3>2. t[from].delegated_amount - amount \in U64
      BY <1>1, <3>1, MathAssumption DEF TokenAccount, U64
    <3>3. (IF t[from].delegated_amount = amount THEN None ELSE t[from].delegate)
             \in Delegates \cup {None}
      BY <1>1 DEF TokenAccount
    <3>4. after = [t[from] EXCEPT !.delegated_amount = t[from].delegated_amount - amount,
                     !.delegate = IF t[from].delegated_amount = amount
                                  THEN None ELSE t[from].delegate]
      BY <1>1, <2>1 DEF SpendAllowance, TokenAccount
    <3> QED BY <1>1, <3>1, <3>2, <3>3, <3>4 DEF TokenAccount
  <2>2. CASE ~ByDelegate(t, from, authority)
    BY <1>1, <2>2
  <2> QED BY <2>1, <2>2
<1>3. r = [t EXCEPT ![from] = [after EXCEPT !.amount = @ - amount],
                    ![to] = [t[to] EXCEPT !.amount = @ + amount]]
  BY DEF Transferred, TokenStates
<1>4. [after EXCEPT !.amount = @ - amount] \in TokenAccount
  BY <1>1, <1>2, MathAssumption DEF CanTransfer, TokenAccount, U64
<1>5. [t[to] EXCEPT !.amount = @ + amount] \in TokenAccount
  BY <1>1, MathAssumption DEF CanTransfer, TokenAccount, U64, AddFits
<1>6. r \in TokenStates
  BY <1>3, <1>4, <1>5 DEF TokenStates
<1>7. /\ r[from] = [after EXCEPT !.amount = @ - amount]
      /\ r[to] = [t[to] EXCEPT !.amount = @ + amount]
      /\ \A a \in TokenAccounts : a \notin {from, to} => r[a] = t[a]
  BY <1>3 DEF TokenStates
<1>8. r[from] # None /\ r[to] # None /\ t[from] # None /\ t[to] # None
  BY <1>1, <1>4, <1>5, <1>7, KeyAssumption
<1>9. /\ r[from].amount = t[from].amount - amount
      /\ r[to].amount = t[to].amount + amount
  BY <1>1, <1>2, <1>7 DEF TokenAccount
<1>10. \A a \in {from, to} : 
          /\ r[a].mint = t[a].mint /\ r[a].owner = t[a].owner /\ r[a].state = t[a].state
          /\ r[a].delegate \in {t[a].delegate, None}
  BY <1>1, <1>2, <1>7 DEF TokenAccount
<1> QED BY <1>6, <1>7, <1>8, <1>9, <1>10 DEF Moved, Kept

IsVault(a, mint, owner) ==
  /\ a # None
  /\ a.mint = mint /\ a.owner = owner /\ a.delegate = None /\ a.state = "Initialized"

\* The accounts of a market exist from its creation on, at its own addresses.
Canonical(t, mk, dm, fl, dn) ==
  /\ \A v \in CoreVaults : t[v] # None => t[v].owner \notin Users
  /\ \A v \in CoreVaults : t[v] = None => dn[v] = 0
  /\ \A m \in Markets : mk[m] = None =>
       /\ t[VaultA(m)] = None /\ t[VaultB(m)] = None
       /\ \A p \in Mints : t[FeeVaultAt(m, p)] = None
  /\ \A m \in Markets : mk[m] # None =>
       /\ mk[m].mint_a # mk[m].mint_b
       /\ dm[DomainPda(m)] # None
       /\ fl[FeeLedgerPda(m, mk[m].mint_a)] # None
       /\ IsVault(t[VaultA(m)], mk[m].mint_a, DomainPda(m))
       /\ IsVault(t[VaultB(m)], mk[m].mint_b, DomainPda(m))
       /\ IsVault(t[FeeVaultAt(m, mk[m].mint_a)], mk[m].mint_a, FeeLedgerPda(m, mk[m].mint_a))

\* Raw balances of market m against its accounting, when a settlement has paid
\* `paid` in, `fee` to the fee vault and `out` out.
Balanced(t, mk, dm, fl, dn, m, paid, fee, out) ==
  LET d == DomainPda(m)
      l == FeeLedgerPda(m, mk[m].mint_a)
      v == FeeVaultAt(m, mk[m].mint_a)
  IN
  /\ t[VaultA(m)].amount = dm[d].accounted_a + dn[VaultA(m)] + paid
  /\ t[VaultB(m)].amount + out = dm[d].accounted_b + dn[VaultB(m)]
  /\ t[v].amount = fl[l].accounted_fee_a + dn[v] + fee

\* Every market balances; one of them, n, is being settled.
Backed(t, mk, dm, fl, dn, n, paid, fee, out) ==
  \A m \in Markets : mk[m] # None =>
    IF m = n THEN Balanced(t, mk, dm, fl, dn, m, paid, fee, out)
             ELSE Balanced(t, mk, dm, fl, dn, m, 0, 0, 0)

\* A transfer leaves every market's accounts at their addresses.
LEMMA TransferKeepsCanonical ==
  ASSUME NEW t \in TokenStates, NEW mk, NEW dm, NEW fl, NEW dn,
         Canonical(t, mk, dm, fl, dn),
         NEW from \in TokenAccounts, NEW to \in TokenAccounts, from # to,
         NEW mint, NEW amount \in U64, NEW authority, authority # None,
         CanTransfer(t, from, to, mint, amount, authority),
         NEW dm2, \A d \in Domains : dm[d] # None => dm2[d] # None,
         NEW dn2, \A v \in CoreVaults : t[v] = None => dn2[v] = dn[v],
         mk \in MarketStates, NEW r, r = Transferred(t, from, to, amount, authority)
  PROVE  Canonical(r, mk, dm2, fl, dn2)
<1>1. \A a \in TokenAccounts :
        /\ (r[a] = None) <=> (t[a] = None)
        /\ r[a].mint = t[a].mint /\ r[a].owner = t[a].owner /\ r[a].state = t[a].state
        /\ t[a].delegate = None => r[a].delegate = None
  <2>1. Kept(t, r)
    BY TransferEffect
  <2> QED BY <2>1 DEF Kept
<1>2. CoreVaults \subseteq TokenAccounts
  BY DEF TokenAccounts
<1>3. /\ \A v \in CoreVaults : r[v] # None => r[v].owner \notin Users
      /\ \A v \in CoreVaults : r[v] = None => dn2[v] = 0
  BY <1>1, <1>2 DEF Canonical
<1>4. ASSUME NEW m \in Markets, mk[m] = None, NEW p \in Mints
      PROVE  r[VaultA(m)] = None /\ r[VaultB(m)] = None /\ r[FeeVaultAt(m, p)] = None
  BY <1>1, <1>2, <1>4, Addresses DEF Canonical
<1>5. ASSUME NEW m \in Markets, mk[m] # None
      PROVE  /\ mk[m].mint_a # mk[m].mint_b
             /\ dm2[DomainPda(m)] # None
             /\ fl[FeeLedgerPda(m, mk[m].mint_a)] # None
             /\ IsVault(r[VaultA(m)], mk[m].mint_a, DomainPda(m))
             /\ IsVault(r[VaultB(m)], mk[m].mint_b, DomainPda(m))
             /\ IsVault(r[FeeVaultAt(m, mk[m].mint_a)], mk[m].mint_a,
                        FeeLedgerPda(m, mk[m].mint_a))
  <2>1. mk[m].mint_a \in Mints
    BY <1>5 DEF MarketStates, MarketV0
  <2>2. /\ VaultA(m) \in TokenAccounts /\ VaultB(m) \in TokenAccounts
        /\ FeeVaultAt(m, mk[m].mint_a) \in TokenAccounts /\ DomainPda(m) \in Domains
    BY <1>2, <2>1, Addresses
  <2> QED BY <1>1, <1>5, <2>2 DEF Canonical, IsVault
<1>6. \A m \in Markets : mk[m] = None =>
        r[VaultA(m)] = None /\ r[VaultB(m)] = None /\ \A p \in Mints : r[FeeVaultAt(m, p)] = None
  <2> SUFFICES ASSUME NEW m \in Markets, mk[m] = None
               PROVE  /\ r[VaultA(m)] = None /\ r[VaultB(m)] = None
                      /\ \A p \in Mints : r[FeeVaultAt(m, p)] = None
    OBVIOUS
  <2>1. VaultA(m) \in TokenAccounts /\ VaultB(m) \in TokenAccounts
    BY <1>2 DEF CoreVaults, DomainVaults, VaultA, VaultB, Domains
  <2>2. r[VaultA(m)] = None /\ r[VaultB(m)] = None
    BY <1>1, <2>1 DEF Canonical
  <2> QED BY <1>4, <2>2
<1> QED BY <1>3, <1>5, <1>6 DEF Canonical

MarketInts(t, mk, dm, fl, dn, m) ==
  LET d == DomainPda(m)
      l == FeeLedgerPda(m, mk[m].mint_a)
      v == FeeVaultAt(m, mk[m].mint_a)
  IN
  /\ t[VaultA(m)].amount \in Int /\ t[VaultB(m)].amount \in Int /\ t[v].amount \in Int
  /\ dm[d].accounted_a \in Int /\ dm[d].accounted_b \in Int /\ fl[l].accounted_fee_a \in Int
  /\ dn[VaultA(m)] \in Int /\ dn[VaultB(m)] \in Int /\ dn[v] \in Int

\* The accounts of a market exist, and its balances are numbers.
LEMMA MarketNumbers ==
  ASSUME NEW t \in TokenStates, NEW mk \in MarketStates, NEW dm \in DomainStates,
         NEW fl \in FeeLedgerStates, NEW dn \in DonatedStates,
         Canonical(t, mk, dm, fl, dn), NEW m \in Markets, mk[m] # None
  PROVE  LET d == DomainPda(m)
             l == FeeLedgerPda(m, mk[m].mint_a)
             v == FeeVaultAt(m, mk[m].mint_a)
         IN  /\ mk[m] \in MarketV0 /\ mk[m].mint_a \in Mints /\ mk[m].mint_b \in Mints
             /\ VaultA(m) \in CoreVaults /\ VaultB(m) \in CoreVaults /\ v \in CoreVaults
             /\ d \in Domains /\ l \in FeeLedgers
             /\ t[VaultA(m)] \in TokenAccount /\ t[VaultB(m)] \in TokenAccount
             /\ t[v] \in TokenAccount /\ dm[d] \in DomainV0 /\ fl[l] \in FeeLedgerV0
             /\ MarketInts(t, mk, dm, fl, dn, m)
<1>1. mk[m] \in MarketV0 /\ mk[m].mint_a \in Mints /\ mk[m].mint_b \in Mints
  BY DEF MarketStates, MarketV0
<1>2. /\ VaultA(m) \in CoreVaults /\ VaultB(m) \in CoreVaults
      /\ FeeVaultAt(m, mk[m].mint_a) \in CoreVaults
      /\ DomainPda(m) \in Domains /\ FeeLedgerPda(m, mk[m].mint_a) \in FeeLedgers
  BY <1>1, Addresses
<1>3. /\ t[VaultA(m)] # None /\ t[VaultB(m)] # None /\ t[FeeVaultAt(m, mk[m].mint_a)] # None
      /\ dm[DomainPda(m)] # None /\ fl[FeeLedgerPda(m, mk[m].mint_a)] # None
  BY DEF Canonical, IsVault
<1> DEFINE d == DomainPda(m)
           l == FeeLedgerPda(m, mk[m].mint_a)
           v == FeeVaultAt(m, mk[m].mint_a)
<1>4. /\ t[VaultA(m)] \in TokenAccount /\ t[VaultB(m)] \in TokenAccount
      /\ t[v] \in TokenAccount /\ dm[d] \in DomainV0 /\ fl[l] \in FeeLedgerV0
  BY <1>2, <1>3 DEF TokenStates, TokenAccounts, DomainStates, FeeLedgerStates
<1>5. MarketInts(t, mk, dm, fl, dn, m)
  BY <1>2, <1>4, MathAssumption
     DEF MarketInts, TokenAccount, DomainV0, FeeLedgerV0, U64, DonatedStates
<1> QED BY <1>1, <1>2, <1>4, <1>5

\* A market still balances when its vaults moved with the donations to them.
LEMMA VaultShift ==
  ASSUME NEW t, NEW mk, NEW dm, NEW fl, NEW dn, NEW t2, NEW dn2, NEW m,
         MarketInts(t, mk, dm, fl, dn, m), MarketInts(t2, mk, dm, fl, dn2, m),
         NEW p \in Nat, NEW f \in Nat, NEW o \in Nat,
         Balanced(t, mk, dm, fl, dn, m, p, f, o),
         t2[VaultA(m)].amount - dn2[VaultA(m)] = t[VaultA(m)].amount - dn[VaultA(m)],
         t2[VaultB(m)].amount - dn2[VaultB(m)] = t[VaultB(m)].amount - dn[VaultB(m)],
         t2[FeeVaultAt(m, mk[m].mint_a)].amount - dn2[FeeVaultAt(m, mk[m].mint_a)]
           = t[FeeVaultAt(m, mk[m].mint_a)].amount - dn[FeeVaultAt(m, mk[m].mint_a)]
  PROVE  Balanced(t2, mk, dm, fl, dn2, m, p, f, o)
<1> DEFINE a == VaultA(m)
           b == VaultB(m)
           v == FeeVaultAt(m, mk[m].mint_a)
           d == dm[DomainPda(m)]
           l == fl[FeeLedgerPda(m, mk[m].mint_a)]
<1>1. t2[a].amount = d.accounted_a + dn2[a] + p
  <2>1. /\ t[a].amount \in Int /\ t2[a].amount \in Int /\ d.accounted_a \in Int
        /\ dn[a] \in Int /\ dn2[a] \in Int
    BY DEF MarketInts
  <2>2. t[a].amount = d.accounted_a + dn[a] + p
    BY DEF Balanced
  <2> HIDE DEF a, d
  <2> QED BY <2>1, <2>2 DEF a
<1>2. t2[b].amount + o = d.accounted_b + dn2[b]
  <2>1. /\ t[b].amount \in Int /\ t2[b].amount \in Int /\ d.accounted_b \in Int
        /\ dn[b] \in Int /\ dn2[b] \in Int
    BY DEF MarketInts
  <2>2. t[b].amount + o = d.accounted_b + dn[b]
    BY DEF Balanced
  <2> HIDE DEF b, d
  <2> QED BY <2>1, <2>2 DEF b
<1>3. t2[v].amount = l.accounted_fee_a + dn2[v] + f
  <2>1. /\ t[v].amount \in Int /\ t2[v].amount \in Int /\ l.accounted_fee_a \in Int
        /\ dn[v] \in Int /\ dn2[v] \in Int
    BY DEF MarketInts
  <2>2. t[v].amount = l.accounted_fee_a + dn[v] + f
    BY DEF Balanced
  <2> HIDE DEF v, l
  <2> QED BY <2>1, <2>2 DEF v
<1> QED BY <1>1, <1>2, <1>3 DEF Balanced

\* What a market's accounts balance to depends on each vault's balance less the
\* donations to it only.
LEMMA DonationsBalance ==
  ASSUME NEW t \in TokenStates, NEW mk \in MarketStates, NEW dm \in DomainStates,
         NEW fl \in FeeLedgerStates, NEW dn \in DonatedStates,
         NEW t2 \in TokenStates, NEW dn2 \in DonatedStates,
         Canonical(t, mk, dm, fl, dn), Canonical(t2, mk, dm, fl, dn2),
         NEW n, NEW paid \in Nat, NEW fee \in Nat, NEW out \in Nat,
         Backed(t, mk, dm, fl, dn, n, paid, fee, out),
         \A v \in CoreVaults : t[v] # None => t2[v].amount - dn2[v] = t[v].amount - dn[v]
  PROVE  Backed(t2, mk, dm, fl, dn2, n, paid, fee, out)
<1> SUFFICES ASSUME NEW m \in Markets, mk[m] # None, NEW p \in Nat, NEW f \in Nat, NEW o \in Nat,
                    Balanced(t, mk, dm, fl, dn, m, p, f, o)
             PROVE  Balanced(t2, mk, dm, fl, dn2, m, p, f, o)
  BY DEF Backed
<1>1. /\ t2[VaultA(m)].amount - dn2[VaultA(m)] = t[VaultA(m)].amount - dn[VaultA(m)]
      /\ t2[VaultB(m)].amount - dn2[VaultB(m)] = t[VaultB(m)].amount - dn[VaultB(m)]
      /\ t2[FeeVaultAt(m, mk[m].mint_a)].amount - dn2[FeeVaultAt(m, mk[m].mint_a)]
           = t[FeeVaultAt(m, mk[m].mint_a)].amount - dn[FeeVaultAt(m, mk[m].mint_a)]
  BY MarketNumbers, KeyAssumption
<1>2. MarketInts(t, mk, dm, fl, dn, m) /\ MarketInts(t2, mk, dm, fl, dn2, m)
  BY MarketNumbers
<1> QED BY <1>1, <1>2, VaultShift

\* Every vault but `from` gained exactly what the donations to it grew by.
OnlyDonations(t, dn, t2, dn2, from) ==
  /\ \A v \in CoreVaults : t[v] = None => dn2[v] = dn[v]
  /\ \A v \in CoreVaults : t[v] # None /\ v # from =>
       t2[v].amount - dn2[v] = t[v].amount - dn[v]

\* A payment to an account that settlement does not account for: to a vault it
\* is a donation, recorded as one.
LEMMA DonationRecorded ==
  ASSUME NEW t \in TokenStates, donated \in DonatedStates,
         NEW from \in TokenAccounts, NEW to \in TokenAccounts, from # to,
         NEW mint, NEW amount \in U64, NEW authority, authority # None,
         CanTransfer(t, from, to, mint, amount, authority),
         NEW r, r = Transferred(t, from, to, amount, authority),
         NEW dn, dn = DonatedBy(to, amount)
  PROVE  /\ dn \in DonatedStates
         /\ OnlyDonations(t, donated, r, dn, from)
<1>1. amount \in Nat
  BY MathAssumption DEF U64
<1>2. dn \in DonatedStates
  BY <1>1 DEF DonatedBy, DonatedStates
<1>3. \A v \in CoreVaults : dn[v] = IF v = to THEN donated[v] + amount ELSE donated[v]
  BY DEF DonatedBy, DonatedStates
<1>4. t[to] # None
  BY DEF CanTransfer
<1>5. ASSUME NEW v \in CoreVaults, t[v] # None, v # from
      PROVE  r[v].amount - dn[v] = t[v].amount - donated[v]
  <2>1. v \in TokenAccounts /\ t[v] \in TokenAccount
    BY <1>5 DEF TokenAccounts, TokenStates
  <2>2. t[v].amount \in Nat /\ donated[v] \in Nat
    BY <2>1, MathAssumption DEF TokenAccount, U64, DonatedStates
  <2>3. r[v].amount = IF v = to THEN t[v].amount + amount ELSE t[v].amount
    <3>1. /\ r[to].amount = t[to].amount + amount
          /\ \A a \in TokenAccounts : a \notin {from, to} => r[a] = t[a]
      <4>1. Moved(t, r, from, to, amount)
        BY TransferEffect
      <4> QED BY <4>1 DEF Moved
    <3> QED BY <1>5, <2>1, <3>1
  <2> QED BY <1>1, <1>3, <2>2, <2>3
<1> QED BY <1>2, <1>3, <1>4, <1>5 DEF OnlyDonations

\* Depositing raises the vault and the domain's accounted amount together.
LEMMA DepositBalance ==
  ASSUME NEW t \in TokenStates, NEW mk \in MarketStates, NEW dm \in DomainStates,
         NEW fl \in FeeLedgerStates, NEW dn \in DonatedStates, Canonical(t, mk, dm, fl, dn),
         Backed(t, mk, dm, fl, dn, None, 0, 0, 0),
         NEW n \in Markets, mk[n] # None, NEW amount \in Nat,
         NEW t2 \in TokenStates, NEW dm2 \in DomainStates, Canonical(t2, mk, dm2, fl, dn),
         NEW vault \in CoreVaults,
         \A v \in CoreVaults : t[v] # None =>
           t2[v].amount = IF v = vault THEN t[v].amount + amount ELSE t[v].amount,
         \A m \in Markets : m # n => dm2[DomainPda(m)] = dm[DomainPda(m)],
         \/ /\ vault = VaultA(n)
            /\ dm2[DomainPda(n)].accounted_a = dm[DomainPda(n)].accounted_a + amount
            /\ dm2[DomainPda(n)].accounted_b = dm[DomainPda(n)].accounted_b
         \/ /\ vault = VaultB(n)
            /\ dm2[DomainPda(n)].accounted_a = dm[DomainPda(n)].accounted_a
            /\ dm2[DomainPda(n)].accounted_b = dm[DomainPda(n)].accounted_b + amount
  PROVE  Backed(t2, mk, dm2, fl, dn, None, 0, 0, 0)
<1> SUFFICES ASSUME NEW m \in Markets, mk[m] # None, Balanced(t, mk, dm, fl, dn, m, 0, 0, 0)
             PROVE  Balanced(t2, mk, dm2, fl, dn, m, 0, 0, 0)
  BY DEF Backed
<1> DEFINE a == VaultA(m)
           b == VaultB(m)
           v == FeeVaultAt(m, mk[m].mint_a)
           d == DomainPda(m)
<1>1. MarketInts(t, mk, dm, fl, dn, m) /\ MarketInts(t2, mk, dm2, fl, dn, m)
  BY MarketNumbers
<1>2. /\ a \in CoreVaults /\ b \in CoreVaults /\ v \in CoreVaults
      /\ t[a] # None /\ t[b] # None /\ t[v] # None
  BY MarketNumbers, KeyAssumption
<1>3. a # b /\ v # a /\ v # b /\ v # vault /\ (m # n => a # vault /\ b # vault)
  <2>1. mk[m].mint_a \in Mints /\ mk[n].mint_a \in Mints
    BY MarketNumbers
  <2>2. a # b /\ v # a /\ v # b /\ v # VaultA(n) /\ v # VaultB(n)
    BY <2>1, Addresses
  <2>3. m # n => /\ a # VaultA(n) /\ b # VaultB(n) /\ a # VaultB(n) /\ b # VaultA(n)
    BY <2>1, Addresses
  <2> QED BY <2>2, <2>3
<1>4. t2[v].amount = t[v].amount
  BY <1>2, <1>3
<1>5. t2[a].amount = dm2[d].accounted_a + dn[a] + 0
  <2>1. CASE vault = a
    <3>1. m = n
      BY <1>3, <2>1
    <3>2. dm2[d].accounted_a = dm[d].accounted_a + amount
      BY <1>3, <2>1, <3>1
    <3>3. t2[a].amount = t[a].amount + amount
      BY <1>2, <2>1
    <3> QED BY <1>1, <3>2, <3>3 DEF Balanced, MarketInts
  <2>2. CASE vault # a
    <3>1. dm2[d].accounted_a = dm[d].accounted_a
      BY <2>2
    <3>2. t2[a].amount = t[a].amount
      BY <1>2, <2>2
    <3> QED BY <1>1, <3>1, <3>2 DEF Balanced, MarketInts
  <2> QED BY <2>1, <2>2
<1>6. t2[b].amount + 0 = dm2[d].accounted_b + dn[b]
  <2>1. CASE vault = b
    <3>1. m = n
      BY <1>3, <2>1
    <3>2. dm2[d].accounted_b = dm[d].accounted_b + amount
      BY <1>3, <2>1, <3>1
    <3>3. t2[b].amount = t[b].amount + amount
      BY <1>2, <2>1
    <3> QED BY <1>1, <3>2, <3>3 DEF Balanced, MarketInts
  <2>2. CASE vault # b
    <3>1. dm2[d].accounted_b = dm[d].accounted_b
      BY <2>2
    <3>2. t2[b].amount = t[b].amount
      BY <1>2, <2>2
    <3> QED BY <1>1, <3>1, <3>2 DEF Balanced, MarketInts
  <2> QED BY <2>1, <2>2
<1> QED BY <1>4, <1>5, <1>6 DEF Balanced
(***************************************************************************)
(* The instructions without an engine.                                     *)
(***************************************************************************)
\* The shared accounts between instructions: typed, each market's at its own
\* addresses, and every vault backing its accounting.
LedgerSound ==
  /\ token \in TokenStates /\ market \in MarketStates /\ domain \in DomainStates
  /\ fee_ledger \in FeeLedgerStates /\ donated \in DonatedStates
  /\ signers \subseteq Users
  /\ Canonical(token, market, domain, fee_ledger, donated)
  /\ Backed(token, market, domain, fee_ledger, donated, None, 0, 0, 0)

\* The parts of a sound ledger.
LEMMA LedgerFacts ==
  ASSUME LedgerSound
  PROVE  /\ token \in TokenStates /\ market \in MarketStates /\ domain \in DomainStates
         /\ fee_ledger \in FeeLedgerStates /\ donated \in DonatedStates
         /\ signers \subseteq Users
         /\ Canonical(token, market, domain, fee_ledger, donated)
         /\ Backed(token, market, domain, fee_ledger, donated, None, 0, 0, 0)
BY DEF LedgerSound

\* What this step moved: an amount from an account that is no vault to another one.
PaidFrom(from, to, amount) ==
  /\ from \in TokenAccounts /\ to \in TokenAccounts /\ from # to /\ from \notin CoreVaults
  /\ amount \in U64
  /\ token[from] # None /\ token[to] # None /\ token[from].mint = token[to].mint
  /\ token[from].amount >= amount /\ AddFits(token[to].amount, amount)
  /\ Moved(token, token', from, to, amount) /\ Kept(token, token')

\* Every transfer of a wallet's, in a deposit, a settlement or on its own.
LEMMA PaidByTransfer ==
  ASSUME token \in TokenStates, NEW from \in TokenAccounts, NEW to \in TokenAccounts,
         from \notin CoreVaults, from # to, NEW mint, NEW amount \in U64,
         NEW authority, authority # None,
         CanTransfer(token, from, to, mint, amount, authority),
         token' = Transferred(token, from, to, amount, authority)
  PROVE  PaidFrom(from, to, amount) /\ token' \in TokenStates
<1>1. token' \in TokenStates /\ Moved(token, token', from, to, amount) /\ Kept(token, token')
  BY TransferEffect
<1> QED BY <1>1 DEF PaidFrom, CanTransfer

\* A plain transfer keeps the accounts sound: into a vault it is a donation.
LEMMA SplTransferEffect ==
  ASSUME LedgerSound, SplTransfer
  PROVE  /\ LedgerSound'
         /\ \E from \in TokenAccounts, to \in TokenAccounts, amount \in U64 :
              PaidFrom(from, to, amount)
<1>1. RunInstruction("open") /\ phase = "open"
  BY DEF SplTransfer, RunInstruction
<1>2. PICK from \in UserAccounts, to \in TokenAccounts, authority \in signers,
           amount \in TokenAmounts :
        /\ from # to
        /\ CanTransfer(token, from, to, token[from].mint, amount, authority)
        /\ token' = Transferred(token, from, to, amount, authority)
        /\ donated' = DonatedBy(to, amount)
  BY DEF SplTransfer
<1>3. UNCHANGED <<market, domain, fee_ledger, engine, settled>>
  BY DEF SplTransfer
<1>4. /\ from \in TokenAccounts /\ from \notin CoreVaults
      /\ amount \in U64 /\ authority # None
  BY <1>1, <1>2, KeyAssumption, InputAssumption, LedgerFacts DEF TokenAccounts
<1>5. token' \in TokenStates
  BY <1>1, <1>2, <1>4, LedgerFacts, TransferEffect
<1>6. /\ donated' \in DonatedStates
      /\ \A v \in CoreVaults : token[v] = None => donated'[v] = donated[v]
      /\ \A v \in CoreVaults : token[v] # None =>
           token'[v].amount - donated'[v] = token[v].amount - donated[v]
  <2>1. \A v \in CoreVaults : v # from
    BY <1>4
  <2>2. donated \in DonatedStates /\ token \in TokenStates
    BY <1>1, LedgerFacts
  <2>3. donated' \in DonatedStates
    BY <1>2, <1>4, <2>2, DonationRecorded
  <2>4. OnlyDonations(token, donated, token', donated', from)
    BY <1>2, <1>4, <2>2, DonationRecorded
  <2> QED BY <2>1, <2>3, <2>4 DEF OnlyDonations
<1>8. Canonical(token', market', domain', fee_ledger', donated')
  <2>1. Canonical(token', market, domain, fee_ledger, donated')
    BY <1>1, <1>2, <1>4, <1>6, LedgerFacts, TransferKeepsCanonical
  <2> QED BY <1>3, <2>1
<1>9. Backed(token', market', domain', fee_ledger', donated', None, 0, 0, 0)
  BY <1>1, <1>3, <1>5, <1>6, <1>8, LedgerFacts, DonationsBalance
<1>10. PaidFrom(from, to, amount)
  BY <1>2, <1>4, LedgerFacts, PaidByTransfer
<1>11. LedgerSound'
  BY <1>1, <1>3, <1>5, <1>6, <1>8, <1>9, LedgerFacts DEF LedgerSound, RunInstruction
<1> QED BY <1>2, <1>4, <1>10, <1>11

\* What a deposit of the amount into a vault of market m leaves.
Deposited(m, source, vault, amount) ==
  /\ market[m] # None /\ PaidFrom(source, vault, amount) /\ amount # 0
  /\ UNCHANGED <<market, fee_ledger, donated>>
  /\ \A n \in Markets : n # m => domain'[DomainPda(n)] = domain[DomainPda(n)]
  /\ \/ /\ vault = VaultA(m)
        /\ domain'[DomainPda(m)].accounted_a = domain[DomainPda(m)].accounted_a + amount
        /\ domain'[DomainPda(m)].accounted_b = domain[DomainPda(m)].accounted_b
     \/ /\ vault = VaultB(m)
        /\ domain'[DomainPda(m)].accounted_a = domain[DomainPda(m)].accounted_a
        /\ domain'[DomainPda(m)].accounted_b = domain[DomainPda(m)].accounted_b + amount

\* deposit_v0 keeps the accounts sound, of whichever market and asset it names.
LEMMA DepositEffect ==
  ASSUME LedgerSound, deposit_v0
  PROVE  /\ LedgerSound'
         /\ \E m \in Markets, source, vault \in TokenAccounts, amount \in U64 :
              Deposited(m, source, vault, amount)
<1>1. RunInstruction("open") /\ phase = "open"
  BY DEF deposit_v0, RunInstruction
<1>2. UNCHANGED <<market, fee_ledger, engine, donated, settled>>
  BY DEF deposit_v0
<1>3. PICK m \in Markets, d \in Domains, asset \in AssetIndexes, vault \in TokenAccounts,
           mint \in Mints :
        /\ validate_market_domain(m, d)
        /\ asset \in {ASSET_A_INDEX_V0, ASSET_B_INDEX_V0}
        /\ vault = canonical_domain_vault(d, asset)
        /\ \E provider \in signers, source \in TokenAccounts, amount \in TokenAmounts :
             /\ amount > 0
             /\ validate_protected_token_account(source, mint, provider)
             /\ AddFits(accounted_of(d, asset), amount)
             /\ CanTransfer(token, source, vault, mint, amount, provider)
             /\ token' = Transferred(token, source, vault, amount, provider)
             /\ domain' = Credited(d, asset, amount)
  BY DEF deposit_v0
<1>3a. PICK provider \in signers, source \in TokenAccounts, amount \in TokenAmounts :
             /\ amount > 0
             /\ validate_protected_token_account(source, mint, provider)
             /\ AddFits(accounted_of(d, asset), amount)
             /\ CanTransfer(token, source, vault, mint, amount, provider)
             /\ token' = Transferred(token, source, vault, amount, provider)
             /\ domain' = Credited(d, asset, amount)
  BY <1>3
<1>4. /\ d = DomainPda(m) /\ market[m] # None /\ domain[d] # None
      /\ vault = IF asset = ASSET_A_INDEX_V0 THEN VaultA(m) ELSE VaultB(m)
  BY <1>3, <1>3a DEF validate_market_domain, VaultA, VaultB
<1>5. vault \in CoreVaults
  BY <1>4, Addresses, LedgerFacts, <1>1, MarketNumbers
<1>6. source \notin CoreVaults /\ provider # None /\ amount \in U64 /\ amount \in Nat
  <2>1. token[source] # None /\ token[source].owner \in Users
    BY <1>1, <1>3, <1>3a, LedgerFacts DEF validate_protected_token_account, validate_common_token_account
  <2>2. provider \in Users
    BY <1>1, LedgerFacts
  <2> QED BY <1>1, <2>1, <2>2, LedgerFacts, KeyAssumption, InputAssumption, MathAssumption
             DEF Canonical, U64
<1>7. token' \in TokenStates
  BY <1>1, <1>3, <1>3a, <1>5, <1>6, LedgerFacts, TransferEffect
<1>8. domain[d] \in DomainV0
  BY <1>1, <1>4, LedgerFacts DEF DomainStates
<1> DEFINE new == IF asset = ASSET_A_INDEX_V0
                  THEN [domain[d] EXCEPT !.accounted_a = @ + amount]
                  ELSE [domain[d] EXCEPT !.accounted_b = @ + amount]
<1>9. /\ new \in DomainV0
      /\ asset = ASSET_A_INDEX_V0 => /\ new.accounted_a = domain[d].accounted_a + amount
                                     /\ new.accounted_b = domain[d].accounted_b
      /\ asset # ASSET_A_INDEX_V0 => /\ new.accounted_a = domain[d].accounted_a
                                     /\ new.accounted_b = domain[d].accounted_b + amount
  <2>1. CASE asset = ASSET_A_INDEX_V0
    BY <1>3, <1>3a, <1>6, <1>8, <2>1, MathAssumption DEF DomainV0, U64, AddFits, accounted_of
  <2>2. CASE asset # ASSET_A_INDEX_V0
    BY <1>3, <1>3a, <1>6, <1>8, <2>2, MathAssumption DEF DomainV0, U64, AddFits, accounted_of
  <2> QED BY <2>1, <2>2
<1>10. domain' = [domain EXCEPT ![d] = new]
  <2>1. CASE asset = ASSET_A_INDEX_V0
    BY <1>3a, <2>1 DEF Credited
  <2>2. CASE asset # ASSET_A_INDEX_V0
    BY <1>3a, <2>2 DEF Credited
  <2> QED BY <2>1, <2>2
<1> HIDE DEF new
<1>11. /\ domain' \in DomainStates
       /\ domain'[d] = new
       /\ \A x \in Domains : x # d => domain'[x] = domain[x]
  BY <1>1, <1>9, <1>10, LedgerFacts DEF DomainStates
<1>13. Canonical(token', market', domain', fee_ledger', donated')
  <2>1. \A x \in Domains : domain[x] # None => domain'[x] # None
    BY <1>9, <1>11, KeyAssumption
  <2>2. Canonical(token', market, domain', fee_ledger, donated)
    <3>1. source # vault /\ vault \in TokenAccounts
      BY <1>5, <1>6 DEF TokenAccounts
    <3> QED BY <1>1, <1>3a, <1>6, <2>1, <3>1, LedgerFacts, TransferKeepsCanonical
  <2> QED BY <1>2, <2>2
<1>14. \A v \in CoreVaults : token[v] # None =>
         token'[v].amount = IF v = vault THEN token[v].amount + amount ELSE token[v].amount
  <2>1. Moved(token, token', source, vault, amount)
    BY <1>1, <1>3, <1>3a, <1>5, <1>6, LedgerFacts, TransferEffect
  <2> QED BY <1>6, <2>1 DEF Moved, TokenAccounts
<1>15. \A x \in Markets : x # m => domain'[DomainPda(x)] = domain[DomainPda(x)]
  BY <1>4, <1>11, Addresses, MarketNumbers, <1>1, LedgerFacts
<1>16. Backed(token', market, domain', fee_ledger, donated, None, 0, 0, 0)
  BY <1>1, <1>2, <1>4, <1>5, <1>6, <1>7, <1>9, <1>11, <1>13, <1>14, <1>15, LedgerFacts, DepositBalance
<1>17. PaidFrom(source, vault, amount) /\ amount # 0
  <2>1. source # vault /\ vault \in TokenAccounts
    BY <1>5, <1>6 DEF TokenAccounts
  <2> QED BY <1>3a, <1>6, <2>1, LedgerFacts, PaidByTransfer
<1>18. LedgerSound'
  BY <1>1, <1>2, <1>7, <1>11, <1>13, <1>16, LedgerFacts DEF LedgerSound, RunInstruction
<1>19. Deposited(m, source, vault, amount)
  BY <1>2, <1>4, <1>9, <1>11, <1>15, <1>17 DEF Deposited
<1> QED BY <1>4, <1>5, <1>6, <1>17, <1>18, <1>19

\* What creating market m over the mints p and q leaves.
Initialized(m, p, q) ==
  /\ market[m] = None /\ p # q /\ UNCHANGED donated
  /\ market'[m] # None /\ market'[m].mint_a = p /\ market'[m].mint_b = q
  /\ token[VaultA(m)] = None /\ token[VaultB(m)] = None /\ token[FeeVaultAt(m, p)] = None
  /\ token'[VaultA(m)] # None /\ token'[VaultB(m)] # None /\ token'[FeeVaultAt(m, p)] # None
  /\ token'[VaultA(m)].mint = p /\ token'[VaultB(m)].mint = q /\ token'[FeeVaultAt(m, p)].mint = p
  /\ token'[VaultA(m)].amount = 0 /\ token'[VaultB(m)].amount = 0
  /\ token'[FeeVaultAt(m, p)].amount = 0
  /\ \A x \in TokenAccounts :
       x \notin {VaultA(m), VaultB(m), FeeVaultAt(m, p)} => token'[x] = token[x]
  /\ domain'[DomainPda(m)].accounted_a = 0 /\ domain'[DomainPda(m)].accounted_b = 0
  /\ fee_ledger'[FeeLedgerPda(m, p)].accounted_fee_a = 0
  /\ \A n \in Markets : n # m =>
       /\ market'[n] = market[n] /\ domain'[DomainPda(n)] = domain[DomainPda(n)]
       /\ \A r \in Mints : fee_ledger'[FeeLedgerPda(n, r)] = fee_ledger[FeeLedgerPda(n, r)]

\* initialize_market_domain_v0 creates the accounts of one market, which had none.
LEMMA InitializeEffect ==
  ASSUME LedgerSound, initialize_market_domain_v0
  PROVE  /\ LedgerSound'
         /\ \E m \in Markets, p, q \in Mints : Initialized(m, p, q)
<1>1. RunInstruction("open") /\ phase = "open"
  BY DEF initialize_market_domain_v0, RunInstruction
<1>2. UNCHANGED <<engine, donated, settled>>
  BY DEF initialize_market_domain_v0
<1>3. PICK initializer \in signers, m \in Markets, p, q \in Mints, revision \in Revisions,
           program, state \in Programs \cup EngineStates :
        /\ market[m] = None /\ p # q
        /\ valid_engine_binding(program, state)
        /\ CreateAccounts(m, program, state, revision, p, q)
  BY DEF initialize_market_domain_v0
<1> DEFINE d == DomainPda(m)
           l == FeeLedgerPda(m, p)
           a == VaultA(m)
           b == VaultB(m)
           v == FeeVaultAt(m, p)
<1>4. /\ d \in Domains /\ l \in FeeLedgers /\ a \in CoreVaults /\ b \in CoreVaults /\ v \in CoreVaults
      /\ a # b /\ v # a /\ v # b
  BY Addresses
<1>5. program \in Programs /\ state \in EngineStates
  BY <1>3 DEF valid_engine_binding
<1>6. /\ NewMarket(program, state, revision, p, q) \in MarketV0
      /\ NewDomain(m, program, state, revision) \in DomainV0
      /\ NewFeeLedger(m, p) \in FeeLedgerV0
      /\ NewVault(p, d) \in TokenAccount /\ NewVault(q, d) \in TokenAccount
      /\ NewVault(p, l) \in TokenAccount
  BY <1>4, <1>5, MathAssumption DEF NewMarket, MarketV0, NewDomain, DomainV0, NewFeeLedger,
     FeeLedgerV0, NewVault, TokenAccount, U64
<1>7. token' = [token EXCEPT ![a] = NewVault(p, d), ![b] = NewVault(q, d), ![v] = NewVault(p, l)]
  BY <1>3 DEF CreateAccounts, VaultA, VaultB, FeeVaultAt
<1>8. /\ token' \in TokenStates
      /\ token'[a] = NewVault(p, d) /\ token'[b] = NewVault(q, d) /\ token'[v] = NewVault(p, l)
      /\ \A x \in CoreVaults : x \notin {a, b, v} => token'[x] = token[x]
  <2>1. a \in TokenAccounts /\ b \in TokenAccounts /\ v \in TokenAccounts
    BY <1>4 DEF TokenAccounts
  <2>2. token \in [TokenAccounts -> TokenAccount \cup {None}]
    BY <1>1, LedgerFacts DEF TokenStates
  <2> HIDE DEF a, b, v, d, l
  <2> QED BY <1>4, <1>6, <1>7, <2>1, <2>2 DEF TokenStates, TokenAccounts
<1>9. /\ market' \in MarketStates /\ market'[m] = NewMarket(program, state, revision, p, q)
      /\ \A n \in Markets : n # m => market'[n] = market[n]
  BY <1>1, <1>3, <1>6, LedgerFacts DEF CreateAccounts, MarketStates
<1>10. /\ domain' \in DomainStates /\ domain'[d] = NewDomain(m, program, state, revision)
       /\ \A x \in Domains : x # d => domain'[x] = domain[x]
  BY <1>1, <1>3, <1>4, <1>6, LedgerFacts DEF CreateAccounts, DomainStates
<1>11. /\ fee_ledger' \in FeeLedgerStates /\ fee_ledger'[l] = NewFeeLedger(m, p)
       /\ \A x \in FeeLedgers : x # l => fee_ledger'[x] = fee_ledger[x]
  BY <1>1, <1>3, <1>4, <1>6, LedgerFacts DEF CreateAccounts, FeeLedgerStates
<1>13. token[a] = None /\ token[b] = None /\ token[v] = None
  BY <1>1, <1>3, LedgerFacts DEF Canonical
<1>14. donated[a] = 0 /\ donated[b] = 0 /\ donated[v] = 0
  BY <1>1, <1>4, <1>13, LedgerFacts DEF Canonical
<1>15. market'[m] # None /\ market'[m].mint_a = p /\ market'[m].mint_b = q
  BY <1>6, <1>9, KeyAssumption DEF NewMarket
\* Another market keeps its vaults, domain and ledger.
<1>16. ASSUME NEW n \in Markets, n # m, NEW r \in Mints
       PROVE  /\ token'[VaultA(n)] = token[VaultA(n)] /\ token'[VaultB(n)] = token[VaultB(n)]
              /\ token'[FeeVaultAt(n, r)] = token[FeeVaultAt(n, r)]
              /\ domain'[DomainPda(n)] = domain[DomainPda(n)]
              /\ fee_ledger'[FeeLedgerPda(n, r)] = fee_ledger[FeeLedgerPda(n, r)]
              /\ market'[n] = market[n]
  <2>1. /\ VaultA(n) \in CoreVaults /\ VaultB(n) \in CoreVaults /\ FeeVaultAt(n, r) \in CoreVaults
        /\ DomainPda(n) \in Domains /\ FeeLedgerPda(n, r) \in FeeLedgers
    BY Addresses
  <2>2. VaultA(n) \notin {a, b, v} /\ VaultB(n) \notin {a, b, v}
    BY <1>16, Addresses
  <2>3. FeeVaultAt(n, r) \notin {a, b, v}
    BY <1>16, Addresses
  <2>4. DomainPda(n) # d /\ FeeLedgerPda(n, r) # l
    BY <1>16, Addresses
  <2> QED BY <1>8, <1>9, <1>10, <1>11, <1>16, <2>1, <2>2, <2>3, <2>4
<1> HIDE DEF a, b, v, d, l
<1>17. /\ \A x \in CoreVaults : token'[x] # None => token'[x].owner \notin Users
       /\ \A x \in CoreVaults : token'[x] = None => donated'[x] = 0
  <2>1. d \notin Users /\ l \notin Users
    BY <1>4, KeyAssumption
  <2>2. \A x \in {a, b, v} : token'[x] # None /\ token'[x].owner \in {d, l}
    BY <1>6, <1>8, KeyAssumption DEF NewVault
  <2> QED BY <1>1, <1>2, <1>8, <2>1, <2>2, LedgerFacts DEF Canonical
<1>18. ASSUME NEW n \in Markets, market'[n] = None, NEW r \in Mints
       PROVE  token'[VaultA(n)] = None /\ token'[VaultB(n)] = None /\ token'[FeeVaultAt(n, r)] = None
  <2>1. n # m /\ market[n] = None
    BY <1>15, <1>16, <1>18
  <2> QED BY <1>1, <1>16, <2>1, LedgerFacts DEF Canonical
<1>19. ASSUME NEW n \in Markets, market'[n] # None
       PROVE  /\ market'[n].mint_a # market'[n].mint_b
              /\ domain'[DomainPda(n)] # None
              /\ fee_ledger'[FeeLedgerPda(n, market'[n].mint_a)] # None
              /\ IsVault(token'[VaultA(n)], market'[n].mint_a, DomainPda(n))
              /\ IsVault(token'[VaultB(n)], market'[n].mint_b, DomainPda(n))
              /\ IsVault(token'[FeeVaultAt(n, market'[n].mint_a)], market'[n].mint_a,
                         FeeLedgerPda(n, market'[n].mint_a))
              /\ Balanced(token', market', domain', fee_ledger', donated', n, 0, 0, 0)
  <2>1. CASE n = m
    <3>1. domain'[d] # None /\ fee_ledger'[l] # None
      BY <1>6, <1>10, <1>11, KeyAssumption
    <3>2. IsVault(token'[a], p, d) /\ IsVault(token'[b], q, d) /\ IsVault(token'[v], p, l)
      <4>1. NewVault(p, d) # None /\ NewVault(q, d) # None /\ NewVault(p, l) # None
        BY <1>6, KeyAssumption DEF d, l
      <4>2. ASSUME NEW x, NEW mint, NEW owner, x = NewVault(mint, owner), x # None
            PROVE  IsVault(x, mint, owner)
        BY <4>2 DEF IsVault, NewVault
      <4> QED BY <1>8, <4>1, <4>2
    <3>3. /\ token'[a].amount = domain'[d].accounted_a + donated'[a] + 0
          /\ token'[b].amount + 0 = domain'[d].accounted_b + donated'[b]
          /\ token'[v].amount = fee_ledger'[l].accounted_fee_a + donated'[v] + 0
      BY <1>2, <1>8, <1>10, <1>11, <1>14 DEF NewVault, NewDomain, NewFeeLedger
    <3> QED BY <1>3, <1>15, <2>1, <3>1, <3>2, <3>3 DEF a, b, v, d, l, Balanced
  <2>2. CASE n # m
    <3>1. market'[n] = market[n] /\ market[n].mint_a \in Mints
      BY <1>1, <1>9, <1>19, <2>2, LedgerFacts DEF MarketStates, MarketV0
    <3>2. /\ token'[VaultA(n)] = token[VaultA(n)] /\ token'[VaultB(n)] = token[VaultB(n)]
          /\ token'[FeeVaultAt(n, market[n].mint_a)] = token[FeeVaultAt(n, market[n].mint_a)]
          /\ domain'[DomainPda(n)] = domain[DomainPda(n)]
          /\ fee_ledger'[FeeLedgerPda(n, market[n].mint_a)]
               = fee_ledger[FeeLedgerPda(n, market[n].mint_a)]
      BY <1>16, <2>2, <3>1
    <3>3. /\ market[n].mint_a # market[n].mint_b
          /\ domain[DomainPda(n)] # None
          /\ fee_ledger[FeeLedgerPda(n, market[n].mint_a)] # None
          /\ IsVault(token[VaultA(n)], market[n].mint_a, DomainPda(n))
          /\ IsVault(token[VaultB(n)], market[n].mint_b, DomainPda(n))
          /\ IsVault(token[FeeVaultAt(n, market[n].mint_a)], market[n].mint_a,
                     FeeLedgerPda(n, market[n].mint_a))
      BY <1>1, <1>19, <3>1, LedgerFacts DEF Canonical
    <3>4. Balanced(token, market, domain, fee_ledger, donated, n, 0, 0, 0)
      BY <1>1, <1>19, <3>1, LedgerFacts DEF Backed
    <3>5. Balanced(token', market', domain', fee_ledger', donated', n, 0, 0, 0)
      BY <1>2, <3>1, <3>2, <3>4 DEF Balanced
    <3> QED BY <3>1, <3>2, <3>3, <3>5
  <2> QED BY <2>1, <2>2
<1>20. Canonical(token', market', domain', fee_ledger', donated')
  BY <1>4, <1>17, <1>18, <1>19 DEF Canonical
<1>21. Backed(token', market', domain', fee_ledger', donated', None, 0, 0, 0)
  BY <1>19 DEF Backed
<1>22. LedgerSound'
  BY <1>1, <1>2, <1>8, <1>9, <1>10, <1>11, <1>20, <1>21, LedgerFacts DEF LedgerSound, RunInstruction
<1>23. Initialized(m, p, q)
  <2>1. /\ domain'[d].accounted_a = 0 /\ domain'[d].accounted_b = 0
        /\ fee_ledger'[l].accounted_fee_a = 0
    BY <1>10, <1>11 DEF NewDomain, NewFeeLedger
  <2>2. \A x \in TokenAccounts : x \notin {a, b, v} => token'[x] = token[x]
    BY <1>7, <1>8, LedgerFacts DEF TokenStates
  <2>3. /\ token'[a].mint = p /\ token'[b].mint = q /\ token'[v].mint = p
        /\ token'[a].amount = 0 /\ token'[b].amount = 0 /\ token'[v].amount = 0
    BY <1>8 DEF NewVault
  <2>4. token'[a] # None /\ token'[b] # None /\ token'[v] # None
    BY <1>6, <1>8, KeyAssumption
  <2> QED BY <1>2, <1>3, <1>9, <1>13, <1>15, <1>16, <2>1, <2>2, <2>3, <2>4
             DEF Initialized, a, b, v, d, l
<1> QED BY <1>22, <1>23
(***************************************************************************)
(* The fee.                                                                *)
(***************************************************************************)
\* fee_ceil is the least fee that is at least the rate: the division that rounds up.
LEMMA FeeIsLeast ==
  ASSUME NEW amount \in Nat
  PROVE  IsLeastFee(fee_ceil(amount, ProtocolFeeBps), amount, ProtocolFeeBps)
<1> DEFINE n == amount * ProtocolFeeBps
           f == (n + (BasisPoints - 1)) \div BasisPoints
<1>1. n \in Nat /\ BasisPoints \in Nat /\ BasisPoints >= 1
  BY MathAssumption
<1> HIDE DEF n
<1>2. /\ f \in Nat
      /\ f * BasisPoints <= n + (BasisPoints - 1)
      /\ n + (BasisPoints - 1) < f * BasisPoints + BasisPoints
  BY <1>1
<1> HIDE DEF f
<1>3. f * BasisPoints >= n
  <2>1. f * BasisPoints \in Int
    BY <1>1, <1>2
  <2> QED BY <1>1, <1>2, <2>1
<1>4. ASSUME NEW lower \in 0 .. (f - 1)
      PROVE  lower * BasisPoints < n
  <2>1. lower \in Nat /\ f - 1 - lower \in Nat
    BY <1>2
  <2>2. (f - 1 - lower) * BasisPoints >= 0
    BY <1>1, <2>1
  <2>3. (f - 1 - lower) * BasisPoints = f * BasisPoints - BasisPoints - lower * BasisPoints
    BY <1>1, <1>2, <2>1
  <2>4. f * BasisPoints \in Int /\ lower * BasisPoints \in Int
    BY <1>1, <1>2, <2>1
  <2> QED BY <1>1, <1>2, <2>2, <2>3, <2>4
<1> QED BY <1>3, <1>4 DEF IsLeastFee, fee_ceil, n, f

(***************************************************************************)
(* The quote.                                                              *)
(***************************************************************************)
\* The quote is less than the reserve it is taken from, and the effective input no
\* more than the input: the product of the reserves does not fall.
LEMMA QuoteBounds ==
  ASSUME NEW a \in U64, NEW b \in U64, NEW i \in U64, NEW fee \in 0 .. (BasisPoints - 1),
         quote_exact_in_ok(a, b, i, fee)
  PROVE  LET q == quote_amount_out(a, b, i, fee)
         IN  q \in U64 /\ q < b /\ (a + i) * (b - q) >= a * b
<1> DEFINE e == effective_input(i, fee)
           q == quote_amount_out(a, b, i, fee)
<1>1. a \in Nat /\ b \in Nat /\ i \in Nat /\ fee \in Nat /\ BasisPoints \in Nat \ {0}
      /\ a > 0 /\ e > 0 /\ q > 0 /\ q < b /\ b <= U64Max /\ U64Max \in Nat
  BY MathAssumption DEF U64, quote_exact_in_ok
<1>2. e \in Nat /\ e <= i
  <2> DEFINE k == BasisPoints - fee
             n == i * k
  <2>1. k \in Nat /\ k <= BasisPoints
    BY <1>1
  <2>2. e = n \div BasisPoints
    BY DEF effective_input
  <2> HIDE DEF k, e
  <2>3. n \in Nat /\ n <= i * BasisPoints
    <3>1. i * (BasisPoints - k) >= 0
      BY <1>1, <2>1
    <3>2. i * (BasisPoints - k) = i * BasisPoints - i * k
      BY <1>1, <2>1
    <3> QED BY <1>1, <2>1, <3>1, <3>2
  <2> HIDE DEF n
  <2>4. e \in Int /\ e * BasisPoints <= n /\ e >= 0
    BY <1>1, <2>2, <2>3
  <2>5. e * BasisPoints <= i * BasisPoints
    BY <1>1, <2>3, <2>4
  <2>6. ~(e > i)
    <3>1. SUFFICES ASSUME e > i PROVE FALSE
      OBVIOUS
    <3>2. (e - i) * BasisPoints > 0
      BY <1>1, <2>4, <3>1
    <3>3. (e - i) * BasisPoints = e * BasisPoints - i * BasisPoints
      BY <1>1, <2>4
    <3> QED BY <1>1, <2>4, <2>5, <3>2, <3>3
  <2> QED BY <1>1, <2>4, <2>6
<1>3. q = (b * e) \div (a + e)
  BY DEF quote_amount_out
<1> HIDE DEF e, q
<1>4. q \in Nat /\ q * (a + e) <= b * e
  <2> DEFINE n == b * e
             k == a + e
  <2>1. n \in Nat /\ k \in Nat \ {0}
    BY <1>1, <1>2
  <2>2. q = n \div k
    BY <1>3
  <2> HIDE DEF n, k
  <2>3. q \in Nat /\ q * k <= n
    BY <2>1, <2>2
  <2> QED BY <2>3 DEF n, k
<1>5. (a + i) * (b - q) >= a * b
  <2>1. (a + e) * (b - q) = (a + e) * b - q * (a + e)
    BY <1>1, <1>2, <1>4
  <2>2. (a + e) * b = a * b + b * e
    BY <1>1, <1>2
  <2>3. (a + e) * (b - q) >= a * b
    <3>1. /\ (a + e) * (b - q) \in Int /\ (a + e) * b \in Int /\ q * (a + e) \in Int
          /\ a * b \in Int /\ b * e \in Int
      BY <1>1, <1>2, <1>4
    <3> QED BY <1>4, <2>1, <2>2, <3>1
  <2>4. (a + i) * (b - q) = (a + e) * (b - q) + (i - e) * (b - q)
    BY <1>1, <1>2, <1>4
  <2>5. (i - e) * (b - q) >= 0
    BY <1>1, <1>2, <1>4
  <2>6. /\ (a + e) * (b - q) \in Int /\ (i - e) * (b - q) \in Int /\ a * b \in Int
        /\ (a + i) * (b - q) \in Int
    BY <1>1, <1>2, <1>4
  <2> QED BY <2>3, <2>4, <2>5, <2>6
<1>6. q \in U64
  BY <1>1, <1>4 DEF U64
<1> QED BY <1>1, <1>5, <1>6 DEF q

(***************************************************************************)
(* An execution in flight, whichever Core runs it: the record x holds the  *)
(* accounts it names, and its copies of balances and accounting.           *)
(***************************************************************************)
\* x names the accounts of one market, a source that is no vault and another payee.
Roles(t, mk, x) ==
  /\ x.market \in Markets /\ mk[x.market] # None
  /\ x.domain = DomainPda(x.market)
  /\ x.fee_ledger = FeeLedgerPda(x.market, mk[x.market].mint_a)
  /\ x.vault_a = VaultA(x.market) /\ x.vault_b = VaultB(x.market)
  /\ x.fee_vault = FeeVaultAt(x.market, mk[x.market].mint_a)
  /\ x.source \in TokenAccounts /\ x.source \notin CoreVaults /\ t[x.source] # None
  /\ x.destination \in TokenAccounts /\ t[x.destination] # None
  /\ t[x.destination].mint = mk[x.market].mint_b
  /\ x.destination \notin {x.source, x.vault_a, x.vault_b, x.fee_vault}

\* The copies of the accounting are current, and the balances are the copies but for
\* what the settlement has paid.
Reads(t, dm, fl, x, paid, fee, out) ==
  /\ x.accounted_a = dm[x.domain].accounted_a
  /\ x.accounted_b = dm[x.domain].accounted_b
  /\ x.accounted_fee_a = fl[x.fee_ledger].accounted_fee_a
  /\ t[x.source].amount = x.source_before - (paid + fee)
  /\ t[x.vault_a].amount = x.vault_a_before + paid
  /\ t[x.fee_vault].amount = x.fee_vault_before + fee
  /\ t[x.vault_b].amount = x.vault_b_before - out
  /\ t[x.destination].amount = x.destination_before + out

Copies(x) ==
  /\ x.source_before \in Int /\ x.destination_before \in Int /\ x.vault_a_before \in Int
  /\ x.vault_b_before \in Int /\ x.fee_vault_before \in Int

Flight(t, mk, dm, fl, dn, x, paid, fee, out) ==
  /\ t \in TokenStates /\ mk \in MarketStates /\ dm \in DomainStates
  /\ fl \in FeeLedgerStates /\ dn \in DonatedStates
  /\ Canonical(t, mk, dm, fl, dn)
  /\ Backed(t, mk, dm, fl, dn, x.market, paid, fee, out)
  /\ Roles(t, mk, x) /\ Reads(t, dm, fl, x, paid, fee, out) /\ Copies(x)
  /\ paid \in Nat /\ fee \in Nat /\ out \in Nat

\* The keys of an execution in flight are pairwise what validation found them to be.
LEMMA FlightKeys ==
  ASSUME NEW t, NEW mk, NEW dm, NEW fl, NEW dn, NEW x, NEW paid, NEW fee, NEW out,
         Flight(t, mk, dm, fl, dn, x, paid, fee, out)
  PROVE  /\ mk[x.market].mint_a \in Mints
         /\ x.vault_a \in CoreVaults /\ x.vault_b \in CoreVaults /\ x.fee_vault \in CoreVaults
         /\ x.vault_a \in TokenAccounts /\ x.vault_b \in TokenAccounts
         /\ x.fee_vault \in TokenAccounts
         /\ x.vault_a # x.vault_b /\ x.fee_vault # x.vault_a /\ x.fee_vault # x.vault_b
         /\ x.source \notin {x.vault_a, x.vault_b, x.fee_vault}
         /\ t[x.vault_a] # None /\ t[x.vault_b] # None /\ t[x.fee_vault] # None
         /\ x.domain \in Domains /\ x.fee_ledger \in FeeLedgers
         /\ dm[x.domain] \in DomainV0 /\ fl[x.fee_ledger] \in FeeLedgerV0
         /\ MarketInts(t, mk, dm, fl, dn, x.market)
         /\ Balanced(t, mk, dm, fl, dn, x.market, paid, fee, out)
<1>1. /\ x.market \in Markets /\ mk[x.market] # None
      /\ x.domain = DomainPda(x.market)
      /\ x.fee_ledger = FeeLedgerPda(x.market, mk[x.market].mint_a)
      /\ x.vault_a = VaultA(x.market) /\ x.vault_b = VaultB(x.market)
      /\ x.fee_vault = FeeVaultAt(x.market, mk[x.market].mint_a) /\ x.source \notin CoreVaults
  BY DEF Flight, Roles
<1>2. /\ t \in TokenStates /\ mk \in MarketStates /\ dm \in DomainStates
      /\ fl \in FeeLedgerStates /\ dn \in DonatedStates /\ Canonical(t, mk, dm, fl, dn)
  BY DEF Flight
<1>3. /\ mk[x.market].mint_a \in Mints
      /\ x.vault_a \in CoreVaults /\ x.vault_b \in CoreVaults /\ x.fee_vault \in CoreVaults
      /\ x.domain \in Domains /\ x.fee_ledger \in FeeLedgers
      /\ dm[x.domain] \in DomainV0 /\ fl[x.fee_ledger] \in FeeLedgerV0
      /\ t[x.vault_a] \in TokenAccount /\ t[x.vault_b] \in TokenAccount
      /\ t[x.fee_vault] \in TokenAccount
      /\ MarketInts(t, mk, dm, fl, dn, x.market)
  BY <1>1, <1>2, MarketNumbers
<1>4. x.vault_a # x.vault_b /\ x.fee_vault # x.vault_a /\ x.fee_vault # x.vault_b
  BY <1>1, <1>3, Addresses
<1>5. t[x.vault_a] # None /\ t[x.vault_b] # None /\ t[x.fee_vault] # None
  BY <1>3, KeyAssumption
<1>6. Balanced(t, mk, dm, fl, dn, x.market, paid, fee, out)
  BY <1>1 DEF Flight, Backed
<1> QED BY <1>1, <1>3, <1>4, <1>5, <1>6 DEF TokenAccounts

\* The vaults of the other markets are none of the execution's accounts but the payee.
LEMMA OtherMarkets ==
  ASSUME NEW t, NEW mk, NEW dm, NEW fl, NEW dn, NEW x, NEW paid, NEW fee, NEW out,
         Flight(t, mk, dm, fl, dn, x, paid, fee, out),
         NEW m \in Markets, m # x.market, mk[m] # None
  PROVE  /\ mk[m].mint_a \in Mints
         /\ \A v \in {VaultA(m), VaultB(m), FeeVaultAt(m, mk[m].mint_a)} :
              /\ v \in CoreVaults /\ v \in TokenAccounts /\ t[v] # None
              /\ v \notin {x.source, x.vault_a, x.vault_b, x.fee_vault}
         /\ DomainPda(m) \in Domains /\ DomainPda(m) # x.domain
         /\ FeeLedgerPda(m, mk[m].mint_a) \in FeeLedgers
         /\ FeeLedgerPda(m, mk[m].mint_a) # x.fee_ledger
         /\ Balanced(t, mk, dm, fl, dn, m, 0, 0, 0)
<1> DEFINE p == mk[m].mint_a
           q == mk[x.market].mint_a
<1>1. /\ x.market \in Markets /\ x.domain = DomainPda(x.market)
      /\ x.fee_ledger = FeeLedgerPda(x.market, q)
      /\ x.vault_a = VaultA(x.market) /\ x.vault_b = VaultB(x.market)
      /\ x.fee_vault = FeeVaultAt(x.market, q) /\ x.source \notin CoreVaults
  BY DEF Flight, Roles
<1>2. /\ t \in TokenStates /\ mk \in MarketStates /\ dm \in DomainStates
      /\ fl \in FeeLedgerStates /\ dn \in DonatedStates /\ Canonical(t, mk, dm, fl, dn)
  BY DEF Flight
<1>3. /\ p \in Mints /\ q \in Mints
      /\ VaultA(m) \in CoreVaults /\ VaultB(m) \in CoreVaults /\ FeeVaultAt(m, p) \in CoreVaults
      /\ t[VaultA(m)] # None /\ t[VaultB(m)] # None /\ t[FeeVaultAt(m, p)] # None
      /\ DomainPda(m) \in Domains /\ FeeLedgerPda(m, p) \in FeeLedgers
  BY <1>2, FlightKeys, MarketNumbers, KeyAssumption
<1> HIDE DEF p, q
<1>4. /\ VaultA(m) \notin {x.source, x.vault_a, x.vault_b, x.fee_vault}
      /\ VaultB(m) \notin {x.source, x.vault_a, x.vault_b, x.fee_vault}
      /\ FeeVaultAt(m, p) \notin {x.source, x.vault_a, x.vault_b, x.fee_vault}
      /\ DomainPda(m) # x.domain /\ FeeLedgerPda(m, p) # x.fee_ledger
  BY <1>1, <1>3, Addresses
<1>5. Balanced(t, mk, dm, fl, dn, m, 0, 0, 0)
  BY DEF Flight, Backed
<1> QED BY <1>3, <1>4, <1>5 DEF TokenAccounts, p

\* Any transfer keeps the roles.
LEMMA RolesKept ==
  ASSUME NEW t, NEW r, NEW mk, NEW x, Roles(t, mk, x), Kept(t, r)
  PROVE  Roles(r, mk, x)
BY DEF Roles, Kept

\* One transfer, from t to r, of a word by an authority.
PaymentOf(t, r, from, to, mint, amount, authority) ==
  /\ amount \in U64 /\ authority # None
  /\ CanTransfer(t, from, to, mint, amount, authority)
  /\ r = Transferred(t, from, to, amount, authority)

\* A payment from the source to one of the two input vaults puts that vault ahead of its
\* accounting by exactly the amount.
LEMMA FlightPays ==
  ASSUME NEW t, NEW mk, NEW dm, NEW fl, NEW dn, NEW x, NEW paid, NEW fee, NEW out,
         Flight(t, mk, dm, fl, dn, x, paid, fee, out),
         NEW to, to \in {x.vault_a, x.fee_vault}, NEW mint, NEW amount, NEW authority, NEW r,
         PaymentOf(t, r, x.source, to, mint, amount, authority)
  PROVE  /\ Kept(t, r) /\ Moved(t, r, x.source, to, amount)
         /\ to = x.vault_a => Flight(r, mk, dm, fl, dn, x, paid + amount, fee, out)
         /\ to = x.fee_vault => Flight(r, mk, dm, fl, dn, x, paid, fee + amount, out)
<1> DEFINE n == x.market
           v == FeeVaultAt(n, mk[n].mint_a)
<1>0. /\ amount \in U64 /\ authority # None
      /\ CanTransfer(t, x.source, to, mint, amount, authority)
      /\ r = Transferred(t, x.source, to, amount, authority)
  BY DEF PaymentOf
<1>1. /\ t \in TokenStates /\ mk \in MarketStates /\ dm \in DomainStates
      /\ fl \in FeeLedgerStates /\ dn \in DonatedStates /\ Canonical(t, mk, dm, fl, dn)
      /\ Roles(t, mk, x) /\ Reads(t, dm, fl, x, paid, fee, out) /\ Copies(x)
      /\ paid \in Nat /\ fee \in Nat /\ out \in Nat /\ amount \in Nat
  BY <1>0, MathAssumption DEF Flight, U64
<1>2. /\ x.source \in TokenAccounts /\ to \in TokenAccounts /\ x.source # to
      /\ x.vault_a = VaultA(n) /\ x.vault_b = VaultB(n) /\ x.fee_vault = v
  BY <1>1, FlightKeys DEF Roles
<1>3. r \in TokenStates /\ Moved(t, r, x.source, to, amount) /\ Kept(t, r)
  BY <1>0, <1>1, <1>2, TransferEffect
<1>4. Canonical(r, mk, dm, fl, dn)
  BY <1>0, <1>1, <1>2, TransferKeepsCanonical
<1>5. Roles(r, mk, x)
  BY <1>1, <1>3, RolesKept
<1>6. /\ r[x.source].amount = t[x.source].amount - amount
      /\ r[to].amount = t[to].amount + amount
      /\ r[x.vault_b] = t[x.vault_b] /\ r[x.destination] = t[x.destination]
      /\ to # x.vault_a => r[x.vault_a] = t[x.vault_a]
      /\ to # x.fee_vault => r[x.fee_vault] = t[x.fee_vault]
  BY <1>1, <1>2, <1>3, FlightKeys DEF Moved, Roles
<1>7. ASSUME NEW m \in Markets, m # n, mk[m] # None
      PROVE  Balanced(r, mk, dm, fl, dn, m, 0, 0, 0)
  <2>1. \A w \in {VaultA(m), VaultB(m), FeeVaultAt(m, mk[m].mint_a)} : r[w] = t[w]
    BY <1>3, <1>7, OtherMarkets DEF Moved
  <2>2. Balanced(t, mk, dm, fl, dn, m, 0, 0, 0)
    BY <1>7, OtherMarkets
  <2> QED BY <2>1, <2>2 DEF Balanced
<1>8. /\ MarketInts(t, mk, dm, fl, dn, n) /\ Balanced(t, mk, dm, fl, dn, n, paid, fee, out)
      /\ x.vault_a # x.fee_vault
  BY FlightKeys
<1>9. ASSUME to = x.vault_a PROVE Flight(r, mk, dm, fl, dn, x, paid + amount, fee, out)
  <2>1. /\ r[VaultA(n)].amount = t[VaultA(n)].amount + amount
        /\ r[VaultB(n)] = t[VaultB(n)] /\ r[v] = t[v]
    BY <1>2, <1>6, <1>8, <1>9
  <2>2. r[VaultA(n)].amount = dm[DomainPda(n)].accounted_a + dn[VaultA(n)] + (paid + amount)
    BY <1>1, <1>8, <2>1 DEF Balanced, MarketInts
  <2>3. Balanced(r, mk, dm, fl, dn, n, paid + amount, fee, out)
    BY <1>8, <2>1, <2>2 DEF Balanced
  <2>4. Reads(r, dm, fl, x, paid + amount, fee, out)
    BY <1>1, <1>6, <1>8, <1>9 DEF Reads, Copies
  <2>5. Backed(r, mk, dm, fl, dn, n, paid + amount, fee, out)
    BY <1>7, <2>3 DEF Backed
  <2> QED BY <1>1, <1>3, <1>4, <1>5, <2>4, <2>5 DEF Flight
<1>10. ASSUME to = x.fee_vault PROVE Flight(r, mk, dm, fl, dn, x, paid, fee + amount, out)
  <2>1. /\ r[v].amount = t[v].amount + amount
        /\ r[VaultB(n)] = t[VaultB(n)] /\ r[VaultA(n)] = t[VaultA(n)]
    BY <1>2, <1>6, <1>8, <1>10
  <2>2. r[v].amount = fl[FeeLedgerPda(n, mk[n].mint_a)].accounted_fee_a + dn[v] + (fee + amount)
    BY <1>1, <1>8, <2>1 DEF Balanced, MarketInts
  <2>3. Balanced(r, mk, dm, fl, dn, n, paid, fee + amount, out)
    BY <1>8, <2>1, <2>2 DEF Balanced
  <2>4. Reads(r, dm, fl, x, paid, fee + amount, out)
    BY <1>1, <1>6, <1>8, <1>10 DEF Reads, Copies
  <2>5. Backed(r, mk, dm, fl, dn, n, paid, fee + amount, out)
    BY <1>7, <2>3 DEF Backed
  <2> QED BY <1>1, <1>3, <1>4, <1>5, <2>4, <2>5 DEF Flight
<1> QED BY <1>3, <1>9, <1>10

\* Of the vaults, only another market's payee was given anything.
Donates(t, dn, r, dn2, x) ==
  /\ dn2 \in DonatedStates
  /\ OnlyDonations(t, dn, r, dn2, x.vault_b)
  /\ \A v \in {x.vault_a, x.vault_b, x.fee_vault} : dn2[v] = dn[v]

\* The payment of the output puts the output vault behind its accounting by exactly the
\* output; if the payee is a vault of another market, it was given a donation.
LEMMA FlightOutputs ==
  ASSUME NEW t, NEW mk, NEW dm, NEW fl, NEW dn, NEW x, NEW paid, NEW fee,
         Flight(t, mk, dm, fl, dn, x, paid, fee, 0),
         NEW mint, NEW amount, NEW authority, NEW r,
         PaymentOf(t, r, x.vault_b, x.destination, mint, amount, authority),
         NEW dn2, Donates(t, dn, r, dn2, x)
  PROVE  /\ Kept(t, r) /\ Moved(t, r, x.vault_b, x.destination, amount)
         /\ Flight(r, mk, dm, fl, dn2, x, paid, fee, amount)
<1> USE DEF Donates
<1> DEFINE n == x.market
           v == FeeVaultAt(n, mk[n].mint_a)
<1>0. /\ amount \in U64 /\ authority # None
      /\ CanTransfer(t, x.vault_b, x.destination, mint, amount, authority)
      /\ r = Transferred(t, x.vault_b, x.destination, amount, authority)
  BY DEF PaymentOf
<1>1. /\ t \in TokenStates /\ mk \in MarketStates /\ dm \in DomainStates
      /\ fl \in FeeLedgerStates /\ dn \in DonatedStates /\ Canonical(t, mk, dm, fl, dn)
      /\ Roles(t, mk, x) /\ Reads(t, dm, fl, x, paid, fee, 0) /\ Copies(x)
      /\ paid \in Nat /\ fee \in Nat /\ amount \in Nat
  BY <1>0, MathAssumption DEF Flight, U64
<1>2. /\ x.vault_b \in TokenAccounts /\ x.destination \in TokenAccounts
      /\ x.vault_b # x.destination /\ x.vault_b \in CoreVaults
      /\ x.vault_a = VaultA(n) /\ x.vault_b = VaultB(n) /\ x.fee_vault = v
  BY <1>1, FlightKeys DEF Roles
<1>3. r \in TokenStates /\ Moved(t, r, x.vault_b, x.destination, amount) /\ Kept(t, r)
  BY <1>0, <1>1, <1>2, TransferEffect
<1>4. Canonical(r, mk, dm, fl, dn2)
  <2>1. \A w \in CoreVaults : t[w] = None => dn2[w] = dn[w]
    BY DEF OnlyDonations
  <2> QED BY <1>0, <1>1, <1>2, <2>1, TransferKeepsCanonical
<1>5. Roles(r, mk, x)
  BY <1>1, <1>3, RolesKept
<1>6. /\ r[x.vault_b].amount = t[x.vault_b].amount - amount
      /\ r[x.destination].amount = t[x.destination].amount + amount
      /\ r[x.vault_a] = t[x.vault_a] /\ r[x.fee_vault] = t[x.fee_vault]
      /\ r[x.source] = t[x.source]
  BY <1>1, <1>2, <1>3, FlightKeys DEF Moved, Roles
<1>7. ASSUME NEW m \in Markets, m # n, mk[m] # None
      PROVE  Balanced(r, mk, dm, fl, dn2, m, 0, 0, 0)
  <2>1. MarketInts(t, mk, dm, fl, dn, m) /\ MarketInts(r, mk, dm, fl, dn2, m)
    BY <1>1, <1>3, <1>4, <1>7, MarketNumbers
  <2>2. Balanced(t, mk, dm, fl, dn, m, 0, 0, 0)
    BY <1>7, OtherMarkets
  <2>3. \A w \in {VaultA(m), VaultB(m), FeeVaultAt(m, mk[m].mint_a)} :
          r[w].amount - dn2[w] = t[w].amount - dn[w]
    BY <1>7, OtherMarkets DEF OnlyDonations
  <2> QED BY <2>1, <2>2, <2>3, VaultShift
<1>8. MarketInts(t, mk, dm, fl, dn, n) /\ Balanced(t, mk, dm, fl, dn, n, paid, fee, 0)
  BY FlightKeys
<1>9. Balanced(r, mk, dm, fl, dn2, n, paid, fee, amount)
  <2>1. /\ r[VaultB(n)].amount = t[VaultB(n)].amount - amount
        /\ r[VaultA(n)] = t[VaultA(n)] /\ r[v] = t[v]
        /\ dn2[VaultA(n)] = dn[VaultA(n)] /\ dn2[VaultB(n)] = dn[VaultB(n)] /\ dn2[v] = dn[v]
    BY <1>2, <1>6
  <2>2. r[VaultB(n)].amount + amount = dm[DomainPda(n)].accounted_b + dn[VaultB(n)]
    BY <1>1, <1>8, <2>1 DEF Balanced, MarketInts
  <2> QED BY <1>8, <2>1, <2>2 DEF Balanced
<1>10. Reads(r, dm, fl, x, paid, fee, amount)
  BY <1>1, <1>6 DEF Reads, Copies
<1>11. Backed(r, mk, dm, fl, dn2, n, paid, fee, amount)
  BY <1>7, <1>9 DEF Backed
<1> QED BY <1>1, <1>3, <1>4, <1>5, <1>10, <1>11 DEF Flight

\* A settlement whose payments are made matches the copies from before the engine ran.
LEMMA FlightDeltas ==
  ASSUME NEW t, NEW mk, NEW dm, NEW fl, NEW dn, NEW x, NEW paid, NEW fee, NEW out,
         Flight(t, mk, dm, fl, dn, x, paid, fee, out)
  PROVE  /\ exact_debit(x.source_before, t[x.source].amount, paid + fee)
         /\ exact_credit(x.vault_a_before, t[x.vault_a].amount, paid)
         /\ exact_credit(x.fee_vault_before, t[x.fee_vault].amount, fee)
         /\ exact_debit(x.vault_b_before, t[x.vault_b].amount, out)
         /\ exact_credit(x.destination_before, t[x.destination].amount, out)
BY DEF Flight, Reads, Copies, exact_debit, exact_credit, SubFits

\* The accounting a settlement writes: dm and fl become dm2 and fl2.
Written(dm, fl, dm2, fl2, x, paid, fee, out) ==
  /\ dm2 = [dm EXCEPT ![x.domain].accounted_a = x.accounted_a + paid,
                      ![x.domain].accounted_b = x.accounted_b - out]
  /\ fl2 = [fl EXCEPT ![x.fee_ledger].accounted_fee_a = x.accounted_fee_a + fee]
  /\ x.accounted_a + paid \in U64 /\ x.accounted_b - out \in U64
  /\ x.accounted_fee_a + fee \in U64

\* Writing the accounting of the payments made balances every market again.
LEMMA FlightCloses ==
  ASSUME NEW t, NEW mk, NEW dm, NEW fl, NEW dn, NEW x, NEW paid, NEW fee, NEW out,
         Flight(t, mk, dm, fl, dn, x, paid, fee, out),
         NEW dm2, NEW fl2, Written(dm, fl, dm2, fl2, x, paid, fee, out)
  PROVE  /\ dm2 \in DomainStates /\ fl2 \in FeeLedgerStates
         /\ Canonical(t, mk, dm2, fl2, dn)
         /\ Backed(t, mk, dm2, fl2, dn, None, 0, 0, 0)
         /\ dm2[x.domain].accounted_a = dm[x.domain].accounted_a + paid
         /\ dm2[x.domain].accounted_b = dm[x.domain].accounted_b - out
         /\ fl2[x.fee_ledger].accounted_fee_a = fl[x.fee_ledger].accounted_fee_a + fee
         /\ \A d \in Domains : d # x.domain => dm2[d] = dm[d]
         /\ \A l \in FeeLedgers : l # x.fee_ledger => fl2[l] = fl[l]
<1> DEFINE d == x.domain
           l == x.fee_ledger
           n == x.market
           v == FeeVaultAt(n, mk[n].mint_a)
           newDomain == [dm[d] EXCEPT !.accounted_a = x.accounted_a + paid,
                                      !.accounted_b = x.accounted_b - out]
           newLedger == [fl[l] EXCEPT !.accounted_fee_a = x.accounted_fee_a + fee]
<1>1. /\ t \in TokenStates /\ mk \in MarketStates /\ dm \in DomainStates
      /\ fl \in FeeLedgerStates /\ dn \in DonatedStates /\ Canonical(t, mk, dm, fl, dn)
      /\ Roles(t, mk, x) /\ Reads(t, dm, fl, x, paid, fee, out)
      /\ paid \in Nat /\ fee \in Nat /\ out \in Nat
  BY DEF Flight
<1>2. /\ d \in Domains /\ l \in FeeLedgers /\ dm[d] \in DomainV0 /\ fl[l] \in FeeLedgerV0
      /\ MarketInts(t, mk, dm, fl, dn, n) /\ Balanced(t, mk, dm, fl, dn, n, paid, fee, out)
  BY FlightKeys
<1>3. /\ newDomain \in DomainV0 /\ newLedger \in FeeLedgerV0
      /\ newDomain.accounted_a = x.accounted_a + paid
      /\ newDomain.accounted_b = x.accounted_b - out
      /\ newLedger.accounted_fee_a = x.accounted_fee_a + fee
  BY <1>2 DEF Written, DomainV0, FeeLedgerV0
<1>4. dm2 = [dm EXCEPT ![d] = newDomain] /\ fl2 = [fl EXCEPT ![l] = newLedger]
  BY <1>1, <1>2 DEF Written, DomainStates, FeeLedgerStates
<1> HIDE DEF newDomain, newLedger
<1>5. /\ dm2 \in DomainStates /\ dm2[d] = newDomain
      /\ \A e \in Domains : e # d => dm2[e] = dm[e]
      /\ fl2 \in FeeLedgerStates /\ fl2[l] = newLedger
      /\ \A e \in FeeLedgers : e # l => fl2[e] = fl[e]
  BY <1>1, <1>2, <1>3, <1>4 DEF DomainStates, FeeLedgerStates
<1>6. /\ dm2[d].accounted_a = dm[d].accounted_a + paid
      /\ dm2[d].accounted_b = dm[d].accounted_b - out
      /\ fl2[l].accounted_fee_a = fl[l].accounted_fee_a + fee
  BY <1>1, <1>3, <1>5 DEF Reads
<1>7. Canonical(t, mk, dm2, fl2, dn)
  <2>1. /\ \A e \in Domains : dm[e] # None => dm2[e] # None
        /\ \A e \in FeeLedgers : fl[e] # None => fl2[e] # None
    BY <1>3, <1>5, KeyAssumption
  <2>2. \A m \in Markets : mk[m] # None =>
          DomainPda(m) \in Domains /\ FeeLedgerPda(m, mk[m].mint_a) \in FeeLedgers
    BY <1>1, MarketNumbers
  <2> QED BY <1>1, <2>1, <2>2 DEF Canonical
<1>8. Balanced(t, mk, dm2, fl2, dn, n, 0, 0, 0)
  <2>1. d = DomainPda(n) /\ l = FeeLedgerPda(n, mk[n].mint_a)
    BY <1>1 DEF Roles
  <2>2. t[VaultA(n)].amount = dm2[d].accounted_a + dn[VaultA(n)] + 0
    <3>1. t[VaultA(n)].amount = dm[d].accounted_a + dn[VaultA(n)] + paid
      BY <1>2, <2>1 DEF Balanced
    <3>2. dm[d].accounted_a \in Int /\ dn[VaultA(n)] \in Int
      BY <1>2, <2>1 DEF MarketInts
    <3> QED BY <1>1, <1>6, <3>1, <3>2
  <2>3. t[VaultB(n)].amount + 0 = dm2[d].accounted_b + dn[VaultB(n)]
    <3>1. t[VaultB(n)].amount + out = dm[d].accounted_b + dn[VaultB(n)]
      BY <1>2, <2>1 DEF Balanced
    <3>2. dm[d].accounted_b \in Int /\ dn[VaultB(n)] \in Int /\ t[VaultB(n)].amount \in Int
      BY <1>2, <2>1 DEF MarketInts
    <3> QED BY <1>1, <1>6, <3>1, <3>2
  <2>4. t[v].amount = fl2[l].accounted_fee_a + dn[v] + 0
    <3>1. t[v].amount = fl[l].accounted_fee_a + dn[v] + fee
      BY <1>2, <2>1 DEF Balanced
    <3>2. fl[l].accounted_fee_a \in Int /\ dn[v] \in Int
      BY <1>2, <2>1 DEF MarketInts
    <3> QED BY <1>1, <1>6, <3>1, <3>2
  <2> QED BY <2>1, <2>2, <2>3, <2>4 DEF Balanced
<1>9. ASSUME NEW m \in Markets, m # n, mk[m] # None
      PROVE  Balanced(t, mk, dm2, fl2, dn, m, 0, 0, 0)
  <2>1. /\ Balanced(t, mk, dm, fl, dn, m, 0, 0, 0)
        /\ DomainPda(m) \in Domains /\ DomainPda(m) # d
        /\ FeeLedgerPda(m, mk[m].mint_a) \in FeeLedgers /\ FeeLedgerPda(m, mk[m].mint_a) # l
    BY <1>9, OtherMarkets
  <2> QED BY <1>5, <2>1 DEF Balanced
<1>10. Backed(t, mk, dm2, fl2, dn, None, 0, 0, 0)
  BY <1>8, <1>9 DEF Backed
<1> QED BY <1>5, <1>6, <1>7, <1>10

\* An execution that names the accounts of one market, and has read them, is in flight.
LEMMA FlightOpens ==
  ASSUME LedgerSound, NEW x, Roles(token, market, x), Copies(x),
         Reads(token, domain, fee_ledger, x, 0, 0, 0)
  PROVE  Flight(token, market, domain, fee_ledger, donated, x, 0, 0, 0)
<1>1. Backed(token, market, domain, fee_ledger, donated, x.market, 0, 0, 0)
  BY DEF LedgerSound, Backed
<1> QED BY <1>1 DEF LedgerSound, Flight

\* Sound accounts: each vault holds what is accounted for and what was given to it.
LEMMA SoundAccounting ==
  ASSUME LedgerSound
  PROVE  VaultAccounting
<1> SUFFICES ASSUME NEW m \in Created
             PROVE  /\ token[VaultA(m)].amount = domain[DomainPda(m)].accounted_a + donated[VaultA(m)]
                    /\ token[VaultB(m)].amount = domain[DomainPda(m)].accounted_b + donated[VaultB(m)]
                    /\ token[FeeVaultOf(m)].amount
                         = fee_ledger[FeeLedgerOf(m)].accounted_fee_a + donated[FeeVaultOf(m)]
  BY DEF VaultAccounting
<1> DEFINE v == FeeVaultAt(m, market[m].mint_a)
           l == FeeLedgerPda(m, market[m].mint_a)
           d == DomainPda(m)
           a == VaultA(m)
           b == VaultB(m)
<1>1. m \in Markets /\ market[m] # None
  BY DEF Created
<1>2. Balanced(token, market, domain, fee_ledger, donated, m, 0, 0, 0)
  BY <1>1, LedgerFacts DEF Backed
<1>3. MarketInts(token, market, domain, fee_ledger, donated, m)
  BY <1>1, LedgerFacts, MarketNumbers
<1>4. v = FeeVaultOf(m) /\ l = FeeLedgerOf(m)
  BY DEF FeeVaultOf, FeeLedgerOf, FeeVaultAt
<1>5. /\ token[a].amount = domain[d].accounted_a + donated[a] + 0
      /\ token[b].amount + 0 = domain[d].accounted_b + donated[b]
      /\ token[v].amount = fee_ledger[l].accounted_fee_a + donated[v] + 0
  BY <1>2 DEF Balanced
<1>6. /\ domain[d].accounted_a \in Int /\ donated[a] \in Int /\ token[b].amount \in Int
      /\ fee_ledger[l].accounted_fee_a \in Int /\ donated[v] \in Int
  BY <1>3 DEF MarketInts
<1> HIDE DEF v, l, d, a, b
<1>7. /\ token[a].amount = domain[d].accounted_a + donated[a]
      /\ token[b].amount = domain[d].accounted_b + donated[b]
      /\ token[v].amount = fee_ledger[l].accounted_fee_a + donated[v]
  BY <1>5, <1>6
<1> QED BY <1>4, <1>7 DEF a, b, d

(***************************************************************************)
(* Isolation: which markets a step touches.                                *)
(***************************************************************************)
VaultsOf(m) == {VaultA(m), VaultB(m)} \cup {FeeVaultAt(m, p) : p \in Mints}

Spared(v) == token[v] # None => ~(token'[v].amount < token[v].amount)

\* A step that leaves Core's state of market m alone and takes from none of its
\* vaults does not touch it.
LEMMA NotTouched ==
  ASSUME NEW m \in Markets,
         market'[m] = market[m], domain'[DomainPda(m)] = domain[DomainPda(m)],
         \A p \in Mints : fee_ledger'[FeeLedgerPda(m, p)] = fee_ledger[FeeLedgerPda(m, p)],
         \A v \in VaultsOf(m) : Spared(v)
  PROVE  ~Touched(m)
<1>1. \A p \in Mints : canonical_fee_vault(FeeLedgerPda(m, p)) = FeeVaultAt(m, p)
  BY DEF FeeVaultAt
<1>2. \A p \in Mints : FeeVaultAt(m, p) \in VaultsOf(m)
  BY DEF VaultsOf
<1>3. VaultA(m) \in VaultsOf(m) /\ VaultB(m) \in VaultsOf(m)
  BY DEF VaultsOf
<1> QED BY <1>1, <1>2, <1>3 DEF Touched, Spared, VaultsOf

\* The vaults of a market are its own.
LEMMA VaultsApart ==
  ASSUME NEW m \in Markets, NEW v \in VaultsOf(m)
  PROVE  /\ v \in CoreVaults /\ v \in TokenAccounts
         /\ \A n \in Markets : n # m => v \notin VaultsOf(n)
<1> USE DEF TokenAccounts
<1> SUFFICES /\ v \in CoreVaults
             /\ \A n \in Markets : n # m =>
                  v # VaultA(n) /\ v # VaultB(n) /\ \A p \in Mints : v # FeeVaultAt(n, p)
  BY DEF VaultsOf
<1>1. CASE v \in {VaultA(m), VaultB(m)}
  <2>1. v \in CoreVaults
    BY <1>1 DEF VaultA, VaultB, CoreVaults, DomainVaults, Domains
  <2>2. \A n \in Markets : n # m => v # VaultA(n) /\ v # VaultB(n)
    BY <1>1 DEF VaultA, VaultB, DomainPda, canonical_domain_vault, ASSET_A_INDEX_V0, ASSET_B_INDEX_V0
  <2> QED BY <1>1, <2>1, <2>2, Addresses
<1>2. CASE v \in {FeeVaultAt(m, p) : p \in Mints}
  BY <1>2, Addresses
<1> QED BY <1>1, <1>2 DEF VaultsOf

\* What is neither changed nor paid from is spared.
LEMMA SparedByPayment ==
  ASSUME token \in TokenStates, NEW m \in Markets, NEW v \in VaultsOf(m),
         \/ token'[v] = token[v]
         \/ \E from, to : \E amount \in U64 : v # from /\ Moved(token, token', from, to, amount)
  PROVE  Spared(v)
<1> SUFFICES ASSUME token[v] # None PROVE ~(token'[v].amount < token[v].amount)
  BY DEF Spared
<1>1. v \in TokenAccounts
  BY VaultsApart
<1>2. token[v].amount \in Int
  BY <1>1, MathAssumption DEF TokenStates, TokenAccount, U64
<1>3. CASE token'[v] = token[v]
  BY <1>2, <1>3
<1>4. CASE \E from, to : \E amount \in U64 : v # from /\ Moved(token, token', from, to, amount)
  <2>1. PICK from, to : \E amount \in U64 : v # from /\ Moved(token, token', from, to, amount)
    BY <1>4
  <2>2. PICK amount \in U64 : v # from /\ Moved(token, token', from, to, amount)
    BY <2>1
  <2>3. token'[v] = token[v] \/ token'[v].amount = token[v].amount + amount
    BY <1>1, <2>2 DEF Moved
  <2>4. amount \in Nat
    BY MathAssumption DEF U64
  <2> QED BY <1>2, <2>3, <2>4
<1> QED BY <1>3, <1>4

\* A payment by an account that is no vault touches no market.
LEMMA PaymentTouchesNothing ==
  ASSUME token \in TokenStates, NEW from, NEW to, NEW amount \in U64,
         PaidFrom(from, to, amount), NEW m \in Markets, market'[m] = market[m],
         domain'[DomainPda(m)] = domain[DomainPda(m)],
         \A p \in Mints : fee_ledger'[FeeLedgerPda(m, p)] = fee_ledger[FeeLedgerPda(m, p)]
  PROVE  ~Touched(m)
<1>1. from \notin CoreVaults /\ Moved(token, token', from, to, amount)
  BY DEF PaidFrom
<1>2. ASSUME NEW v \in VaultsOf(m) PROVE Spared(v)
  BY <1>1, VaultsApart, SparedByPayment
<1> QED BY <1>2, NotTouched

\* A step that leaves the shared accounts alone touches no market.
LEMMA StillTouchesNothing ==
  ASSUME token \in TokenStates, UNCHANGED <<token, market, domain, fee_ledger>>
  PROVE  \A m \in Markets : ~Touched(m)
<1> SUFFICES ASSUME NEW m \in Markets PROVE ~Touched(m)
  OBVIOUS
<1>1. \A v \in VaultsOf(m) : Spared(v)
  BY SparedByPayment
<1> QED BY <1>1, NotTouched

\* A plain transfer and a deposit touch one market at most, and so does initialization.
LEMMA SharedIsolated ==
  ASSUME LedgerSound, SplTransfer \/ deposit_v0 \/ initialize_market_domain_v0
  PROVE  \E n : \A m \in Markets : Touched(m) => m = n
<1>1. CASE SplTransfer
  <2>1. UNCHANGED <<market, domain, fee_ledger>>
    BY <1>1 DEF SplTransfer
  <2>2. PICK from \in TokenAccounts, to \in TokenAccounts, amount \in U64 :
          PaidFrom(from, to, amount)
    BY <1>1, SplTransferEffect
  <2>3. \A m \in Markets : ~Touched(m)
    BY <2>1, <2>2, PaymentTouchesNothing DEF LedgerSound
  <2> QED BY <2>3
<1>2. CASE initialize_market_domain_v0
  <2>1. PICK n \in Markets, p \in Mints, q \in Mints : Initialized(n, p, q)
    BY <1>2, InitializeEffect
  <2>2. ASSUME NEW m \in Markets, m # n
        PROVE  ~Touched(m)
    <3>1. /\ market'[m] = market[m] /\ domain'[DomainPda(m)] = domain[DomainPda(m)]
          /\ \A r \in Mints : fee_ledger'[FeeLedgerPda(m, r)] = fee_ledger[FeeLedgerPda(m, r)]
      BY <2>1, <2>2 DEF Initialized
    <3>2. ASSUME NEW v \in VaultsOf(m) PROVE Spared(v)
      <4>1. v \in TokenAccounts /\ v \notin VaultsOf(n)
        BY <2>2, VaultsApart
      <4>2. token'[v] = token[v]
        BY <2>1, <4>1 DEF Initialized, VaultsOf
      <4> QED BY <4>2, SparedByPayment DEF LedgerSound
    <3> QED BY <3>1, <3>2, NotTouched
  <2> QED BY <2>2
<1>3. CASE deposit_v0
  <2>1. PICK n \in Markets, source \in TokenAccounts, vault \in TokenAccounts, amount \in U64 :
          Deposited(n, source, vault, amount)
    BY <1>3, DepositEffect
  <2>2. ASSUME NEW m \in Markets, m # n
        PROVE  ~Touched(m)
    BY <2>1, <2>2, PaymentTouchesNothing DEF LedgerSound, Deposited
  <2> QED BY <2>2
<1> QED BY <1>1, <1>2, <1>3

\* Paying the output of an execution takes from its own market only.
LEMMA OutputIsolated ==
  ASSUME token \in TokenStates, NEW n \in Markets, NEW to, NEW amount \in U64,
         Moved(token, token', VaultB(n), to, amount), UNCHANGED <<market, domain, fee_ledger>>
  PROVE  \A m \in Markets : Touched(m) => m = n
<1> SUFFICES ASSUME NEW m \in Markets, m # n PROVE ~Touched(m)
  OBVIOUS
<1>1. VaultB(n) \in VaultsOf(n)
  BY DEF VaultsOf
<1>2. ASSUME NEW v \in VaultsOf(m) PROVE Spared(v)
  BY <1>1, VaultsApart, SparedByPayment
<1> QED BY <1>2, NotTouched

\* Writing the accounting of an execution touches its own market only.
LEMMA WriteIsolated ==
  ASSUME token \in TokenStates, NEW n \in Markets, NEW p \in Mints, UNCHANGED <<token, market>>,
         \A d \in Domains : d # DomainPda(n) => domain'[d] = domain[d],
         \A l \in FeeLedgers : l # FeeLedgerPda(n, p) => fee_ledger'[l] = fee_ledger[l]
  PROVE  \A m \in Markets : Touched(m) => m = n
<1> SUFFICES ASSUME NEW m \in Markets, m # n PROVE ~Touched(m)
  OBVIOUS
<1>1. DomainPda(m) # DomainPda(n) /\ DomainPda(m) \in Domains
  BY Addresses
<1>2. \A r \in Mints : FeeLedgerPda(m, r) # FeeLedgerPda(n, p) /\ FeeLedgerPda(m, r) \in FeeLedgers
  BY Addresses
<1>3. domain'[DomainPda(m)] = domain[DomainPda(m)]
  BY <1>1
<1>4. \A r \in Mints : fee_ledger'[FeeLedgerPda(m, r)] = fee_ledger[FeeLedgerPda(m, r)]
  BY <1>2
<1>5. \A v \in VaultsOf(m) : Spared(v)
  BY SparedByPayment
<1> QED BY <1>3, <1>4, <1>5, NotTouched
=============================================================================
