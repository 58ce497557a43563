------------------------ MODULE KernelExchangeProofs ------------------------
(* The authority kernel implements AtomicExchange, for every value of its   *)
(* constants: an engine's answer and the payments of a settlement are no    *)
(* steps of the exchange, and finalize is a trade.                          *)
EXTENDS KernelExchange, AuthorityKernelProofs, ExchangeViewProofs

Held == Unsettled(HoldingsOf(token), ix, ix.args.amount_out)
Books == BooksOf(market, domain, fee_ledger)

\* The accounts and markets the view is taken of.
LEMMA ViewTyped ==
  ASSUME IInv
  PROVE  /\ token \in TokenStates /\ market \in MarketStates /\ domain \in DomainStates
         /\ fee_ledger \in FeeLedgerStates /\ donated \in DonatedStates
         /\ Canonical(token, market, domain, fee_ledger, donated)
BY DEF IInv, TypeOK, LiveSound, Snapshot, Chains

\* AtomicExchange's operators on the view.
LEMMA SameOperators ==
  /\ Exchange!U64 = U64 /\ \A x, y : Exchange!AddFits(x, y) <=> AddFits(x, y)
  /\ Exchange!Vaults = BookVaults(Books)
  /\ \A h, from, to, n : Exchange!Moved(h, from, to, n) = Shift(h, from, to, n)
  /\ \A f, i, bps : Exchange!IsLeastFee(f, i, bps) <=> IsLeastFee(f, i, bps)
BY DEF Exchange!U64, U64, Exchange!AddFits, AddFits, Exchange!Moved, Exchange!Add, Shift,
   Exchange!Vaults, Exchange!VaultsOf, Exchange!Open, BookVaults, Books,
   Exchange!IsLeastFee, IsLeastFee

\* The steps of the exchange on the view are AtomicExchange's.
LEMMA ExchangeSteps ==
  ASSUME CommittedView # None, UNCHANGED CommittedView,
         \/ Books' = Books /\ PayView(Held, Books, Held')
         \/ \E m \in Markets : \/ CreateView(m, Held, Books, Held', Books')
                               \/ DepositView(m, Held, Books, Held', Books')
                               \/ TradeView(m, Held, Books, Held', Books')
  PROVE  Exchange!Next
<1>1. ASSUME Books' = Books, PayView(Held, Books, Held')
      PROVE  Exchange!Pay
  BY <1>1, SameOperators
     DEF PayView, Exchange!Pay, Exchange!CanPay, Exchange!CanTake, Pays, Takes, Held, Books
<1>2. ASSUME NEW m \in Markets, CreateView(m, Held, Books, Held', Books')
      PROVE  Exchange!Create(m)
  BY <1>2 DEF CreateView, Exchange!Create, Held, Books
<1>3. ASSUME NEW m \in Markets, DepositView(m, Held, Books, Held', Books')
      PROVE  Exchange!Deposit(m)
  BY <1>3, SameOperators DEF DepositView, Exchange!Deposit, Exchange!DepositInto, Exchange!CanPay,
     Exchange!CanTake, Pays, Takes, Held, Books
<1>4. ASSUME NEW m \in Markets, TradeView(m, Held, Books, Held', Books')
      PROVE  Exchange!Trade(m)
  <2>1. PICK i \in U64 \ {0}, f \in U64, from \in TokenAccounts, to \in TokenAccounts :
          \E o \in 1 .. Books[m].b : TradedFor(m, Held, Books, Held', Books', i, f, from, to, o)
    BY <1>4 DEF TradeView
  <2>2. PICK o \in 1 .. Books[m].b : TradedFor(m, Held, Books, Held', Books', i, f, from, to, o)
    BY <2>1
  <2>3. /\ Exchange!CanPay(from, i + f) /\ Exchange!CanTake(Books[m].vault_a, from, i)
        /\ Exchange!CanTake(Books[m].fee_vault, from, f)
        /\ Exchange!CanTake(to, Books[m].vault_b, o)
    BY <2>2, SameOperators
       DEF TradedFor, Pays, Takes, Exchange!CanPay, Exchange!CanTake, Held, Books
  <2>4. Held' = Exchange!TradePayments(m, from, to, i, f, o)
    BY <2>2, SameOperators DEF TradedFor, Exchange!TradePayments, Held, Books
  <2>5. to \in TokenAccounts \ Exchange!VaultsOf(Books[m])
    BY <2>2 DEF TradedFor, Exchange!VaultsOf
  <2>6. /\ Books[m] # None /\ IsLeastFee(f, i, ProtocolFeeBps)
        /\ Books' = [Books EXCEPT ![m].a = @ + i, ![m].b = @ - o, ![m].fee = @ + f]
    BY <2>2 DEF TradedFor
  <2> QED BY <2>3, <2>4, <2>5, <2>6, SameOperators DEF Exchange!Trade, Held, Books
<1> QED BY <1>1, <1>2, <1>3, <1>4 DEF Exchange!Next, Exchange!Inside

\* The view before and after a step.
LEMMA HeldAt ==
  /\ Held = UnsettledAt(phase, HoldingsOf(token), ix, ix.args.amount_out)
  /\ Held' = UnsettledAt(phase', HoldingsOf(token'), ix', ix'.args.amount_out)
BY DEF Held, Unsettled, UnsettledAt

\* The five accounts of the execution in flight.
LEMMA FlightAccounts ==
  ASSUME IInv, phase \in Settling
  PROVE  /\ HoldingsOf(token) \in Holdings /\ FiveAccounts(HoldingsOf(token), ix)
         /\ ix.args.amount_in \in Int /\ ix.protocol_fee \in Int /\ ix.args.amount_out \in Int
<1>1. /\ token \in TokenStates /\ market \in MarketStates
      /\ Canonical(token, market, domain, fee_ledger, donated)
  BY SettlingFacts
<1>2. /\ token[ix.source] # None /\ token[ix.destination] # None
      /\ token[ix.vault_a] # None /\ token[ix.vault_b] # None /\ token[ix.fee_vault] # None
  <2>1. token[ix.source] # None /\ token[ix.destination] # None
    BY DEF IInv, RolesSound
  <2>2. /\ ix.market \in Markets /\ market[ix.market] # None
        /\ ix.vault_a = VaultA(ix.market) /\ ix.vault_b = VaultB(ix.market)
        /\ ix.fee_vault = FeeVaultAt(ix.market, market[ix.market].mint_a)
    BY FlightFacts
  <2> QED BY <1>1, <2>1, <2>2 DEF Canonical, IsVault
<1>3. /\ ix.source \in TokenAccounts /\ ix.destination \in TokenAccounts
      /\ ix.vault_a \in TokenAccounts /\ ix.vault_b \in TokenAccounts /\ ix.fee_vault \in TokenAccounts
      /\ ix.source \notin {ix.vault_a, ix.vault_b, ix.fee_vault}
      /\ ix.vault_a # ix.vault_b /\ ix.fee_vault # ix.vault_a /\ ix.fee_vault # ix.vault_b
      /\ ix.destination \notin {ix.source, ix.vault_a, ix.vault_b, ix.fee_vault}
  BY FlightFacts DEF TokenAccounts
<1>4. FiveAccounts(HoldingsOf(token), ix)
  BY <1>1, <1>2, <1>3, HoldingsView DEF FiveAccounts, Pair
<1>5. ix.args.amount_in \in Int /\ ix.protocol_fee \in Int /\ ix.args.amount_out \in Int
  BY FlightFacts, MathAssumption DEF U64
<1> QED BY <1>1, <1>4, <1>5, HoldingsView

\* A payment of the settlement is no step of the exchange.
LEMMA PaymentStutters ==
  ASSUME IInv, Payment
  PROVE  Held' = Held /\ Books' = Books
<1> DEFINE h == HoldingsOf(token)
           r == HoldingsOf(token')
<1>1. /\ phase \in Settling /\ phase' \in Settling /\ ix' = ix
      /\ UNCHANGED <<market, domain, fee_ledger>> /\ token' \in TokenStates /\ token \in TokenStates
  BY PaymentFacts, SettlingFacts
<1>2. /\ h \in Holdings /\ FiveAccounts(h, ix)
      /\ ix.args.amount_in \in Int /\ ix.protocol_fee \in Int /\ ix.args.amount_out \in Int
  BY <1>1, FlightAccounts
<1>3. \/ /\ phase = "input" /\ phase' = "fee"
         /\ Shifted(h, r, ix.source, ix.vault_a, ix.args.amount_in)
      \/ /\ phase = "fee" /\ phase' = "output"
         /\ Shifted(h, r, ix.source, ix.fee_vault, ix.protocol_fee)
      \/ /\ phase = "output" /\ phase' = "finalize"
         /\ Shifted(h, r, ix.vault_b, ix.destination, ix.args.amount_out)
  <2>0. ASSUME NEW from \in TokenAccounts, NEW to \in TokenAccounts, from # to, NEW mint,
               NEW amount \in U64, NEW authority, authority # None,
               Settle(from, to, mint, amount, authority)
        PROVE  Shifted(h, r, from, to, amount)
    <3>1. /\ CanTransfer(token, from, to, mint, amount, authority)
          /\ token' = Transferred(token, from, to, amount, authority)
      BY <2>0 DEF Settle
    <3>2. Moved(token, token', from, to, amount) /\ Kept(token, token')
      BY <1>1, <2>0, <3>1, TransferEffect
    <3>3. token[from] # None /\ token[to] # None
      BY <3>1 DEF CanTransfer
    <3> QED BY <1>1, <2>0, <3>2, <3>3, PaymentView
  <2>1. /\ ix.source \in TokenAccounts /\ ix.destination \in TokenAccounts
        /\ ix.vault_a \in TokenAccounts /\ ix.vault_b \in TokenAccounts
        /\ ix.fee_vault \in TokenAccounts
        /\ ix.source # ix.vault_a /\ ix.source # ix.fee_vault /\ ix.vault_b # ix.destination
        /\ ix.user # None /\ ix.domain # None
        /\ ix.args.amount_in \in U64 /\ ix.protocol_fee \in U64 /\ ix.args.amount_out \in U64
    BY <1>1, FlightFacts DEF TokenAccounts
  <2>2. CASE transfer_input
    BY <2>0, <2>1, <2>2 DEF transfer_input
  <2>3. CASE transfer_fee
    BY <2>0, <2>1, <2>3 DEF transfer_fee
  <2>4. CASE transfer_output
    BY <2>0, <2>1, <2>4 DEF transfer_output
  <2> QED BY <2>2, <2>3, <2>4 DEF Payment
<1>4. r \in Holdings /\ SameTokens(h, r) /\ FiveAccounts(r, ix)
  BY <1>2, <1>3, FiveKept DEF Shifted
<1> DEFINE i == InputMade(phase, ix)
           f == FeeMade(phase, ix)
           o == OutputMade(phase, ix.args.amount_out)
           i2 == InputMade(phase', ix)
           f2 == FeeMade(phase', ix)
           o2 == OutputMade(phase', ix.args.amount_out)
<1>5. /\ TakenBack(h, Held, ix, i, f, o) /\ TakenBack(r, Held', ix, i2, f2, o2)
  <2> HIDE DEF h, r
  <2>1. /\ Held = UnsettledAt(phase, h, ix, ix.args.amount_out)
        /\ Held' = UnsettledAt(phase', r, ix, ix.args.amount_out)
    BY <1>1, HeldAt DEF h, r
  <2> QED BY <1>2, <1>4, <2>1, UnsettledFacts
<1>6. /\ i \in Int /\ f \in Int /\ o \in Int /\ i2 \in Int /\ f2 \in Int /\ o2 \in Int
  BY <1>2 DEF InputMade, FeeMade, OutputMade
<1>7. \/ /\ i2 - i = ix.args.amount_in /\ f2 - f = 0 /\ o2 - o = 0
         /\ Shifted(h, r, ix.source, ix.vault_a, ix.args.amount_in)
      \/ /\ i2 - i = 0 /\ f2 - f = ix.protocol_fee /\ o2 - o = 0
         /\ Shifted(h, r, ix.source, ix.fee_vault, ix.protocol_fee)
      \/ /\ i2 - i = 0 /\ f2 - f = 0 /\ o2 - o = ix.args.amount_out
         /\ Shifted(h, r, ix.vault_b, ix.destination, ix.args.amount_out)
  <2> HIDE DEF h, r
  <2> QED BY <1>2, <1>3 DEF InputMade, FeeMade, OutputMade, PaymentsMade
<1> HIDE DEF h, r, i, f, o, i2, f2, o2
<1>8. /\ h[ix.source].amount \in Int /\ h[ix.vault_a].amount \in Int
      /\ h[ix.fee_vault].amount \in Int /\ h[ix.vault_b].amount \in Int
      /\ h[ix.destination].amount \in Int
  BY <1>2, FiveAmounts
<1>9. /\ r[ix.source].amount = h[ix.source].amount - (i2 - i) - (f2 - f)
      /\ r[ix.vault_a].amount = h[ix.vault_a].amount + (i2 - i)
      /\ r[ix.fee_vault].amount = h[ix.fee_vault].amount + (f2 - f)
      /\ r[ix.vault_b].amount = h[ix.vault_b].amount - (o2 - o)
      /\ r[ix.destination].amount = h[ix.destination].amount + (o2 - o)
  BY <1>2, <1>6, <1>7, <1>8 DEF Shifted, FiveAccounts, Pair
<1>10. \A a \in TokenAccounts :
         a \notin {ix.source, ix.vault_a, ix.fee_vault, ix.vault_b, ix.destination} =>
           r[a].amount = h[a].amount
  BY <1>7 DEF Shifted
<1>11. Held' = Held
  BY <1>2, <1>4, <1>5, <1>6, <1>9, <1>10, PaymentHidden
<1> QED BY <1>1, <1>11 DEF Books

\* finalize, which writes the accounting of three payments made before, is a trade.
LEMMA FinalizeTrades ==
  ASSUME SInv, finalize
  PROVE  TradeView(ix.market, Held, Books, Held', Books')
<1> DEFINE m == ix.market
           h == HoldingsOf(token)
           i == ix.args.amount_in
           f == ix.protocol_fee
           o == ix.args.amount_out
<1>1. /\ IInv /\ Terms /\ phase = "finalize" /\ phase \in Settling /\ phase' = "open"
      /\ UNCHANGED <<token, market>>
      /\ domain' = [domain EXCEPT ![ix.domain].accounted_a = ix.post_accounted_a,
                                  ![ix.domain].accounted_b = ix.post_accounted_b]
      /\ fee_ledger' =
           [fee_ledger EXCEPT ![ix.fee_ledger].accounted_fee_a = ix.post_accounted_fee_a]
  BY DEF SInv, finalize, Settling
<1>2. /\ h \in Holdings /\ FiveAccounts(h, ix) /\ i \in Int /\ f \in Int /\ o \in Int
  BY <1>1, FlightAccounts
<1>3. TakenBack(h, Held, ix, i, f, o)
  <2>1. /\ InputMade(phase, ix) = i /\ FeeMade(phase, ix) = f
        /\ OutputMade(phase, o) = o
    BY <1>1 DEF InputMade, FeeMade, OutputMade, PaymentsMade
  <2>2. Held = UnsettledAt(phase, h, ix, o)
    BY HeldAt
  <2> HIDE DEF h, i, f, o
  <2>3. ix.args.amount_in \in Int /\ ix.protocol_fee \in Int
    BY <1>2 DEF i, f
  <2> QED BY <1>2, <2>1, <2>2, <2>3, UnsettledFacts
<1>4. Held' = h
  <2>1. PaymentsMade(phase') = 0
    BY <1>1 DEF PaymentsMade
  <2> QED BY <1>1, <2>1, HeldAt DEF UnsettledAt
<1>5. Held' = Shift(Shift(Shift(Held, ix.source, ix.vault_a, i), ix.source, ix.fee_vault, f),
                    ix.vault_b, ix.destination, o)
  <2> HIDE DEF h, i, f, o
  <2> QED BY <1>2, <1>3, <1>4, TradeMade
<1>6. /\ m \in Markets /\ market[m] # None
      /\ ix.vault_a = VaultA(m) /\ ix.vault_b = VaultB(m)
      /\ ix.fee_vault = FeeVaultAt(m, market[m].mint_a)
      /\ market[m].mint_a \in Mints
      /\ ix.source \in TokenAccounts /\ ix.source \notin CoreVaults
      /\ ix.destination \in TokenAccounts
      /\ ix.destination \notin {ix.vault_a, ix.vault_b, ix.fee_vault}
      /\ i \in U64 /\ f \in U64 /\ o \in U64
  BY <1>1, FlightFacts
<1>7. /\ token \in TokenStates /\ market \in MarketStates /\ domain \in DomainStates
      /\ fee_ledger \in FeeLedgerStates /\ donated \in DonatedStates
      /\ Canonical(token, market, domain, fee_ledger, donated) /\ ix \in Executions
  BY <1>1, SettlingFacts
<1>8. /\ ix.domain = DomainPda(m) /\ ix.fee_ledger = FeeLedgerPda(m, market[m].mint_a)
      /\ token[ix.destination].mint = market[m].mint_b
  BY <1>1 DEF IInv, RolesSound, FeeLedgerOf
<1>9. /\ ix.post_accounted_a = domain[ix.domain].accounted_a + i
      /\ ix.post_accounted_b = domain[ix.domain].accounted_b - o
      /\ ix.post_accounted_fee_a = fee_ledger[ix.fee_ledger].accounted_fee_a + f
  BY <1>1 DEF IInv, ReadsSound
<1>10. Books \in ViewBooks /\ Books[m] # None
       /\ Books[m] = [vault_a |-> ix.vault_a, vault_b |-> ix.vault_b, fee_vault |-> ix.fee_vault,
                      a |-> domain[ix.domain].accounted_a, b |-> domain[ix.domain].accounted_b,
                      fee |-> fee_ledger[ix.fee_ledger].accounted_fee_a]
  BY <1>6, <1>7, <1>8, BooksView DEF Books
<1>11. /\ domain[ix.domain].accounted_a \in Int /\ domain[ix.domain].accounted_b \in Int
       /\ fee_ledger[ix.fee_ledger].accounted_fee_a \in Int
       /\ ix.domain \in Domains /\ ix.fee_ledger \in FeeLedgers
       /\ domain[ix.domain] \in DomainV0 /\ fee_ledger[ix.fee_ledger] \in FeeLedgerV0
  BY <1>6, <1>7, <1>8, MarketNumbers DEF MarketInts
<1>12. Books' = [Books EXCEPT ![m].a = @ + i, ![m].b = @ - o, ![m].fee = @ + f]
  <2>1. /\ domain'[ix.domain].accounted_a = domain[ix.domain].accounted_a + i
        /\ domain'[ix.domain].accounted_b = domain[ix.domain].accounted_b - o
        /\ fee_ledger'[ix.fee_ledger].accounted_fee_a
             = fee_ledger[ix.fee_ledger].accounted_fee_a + f
    <3>1. /\ domain'[ix.domain] = [domain[ix.domain] EXCEPT !.accounted_a = ix.post_accounted_a,
                                                            !.accounted_b = ix.post_accounted_b]
          /\ fee_ledger'[ix.fee_ledger] =
               [fee_ledger[ix.fee_ledger] EXCEPT !.accounted_fee_a = ix.post_accounted_fee_a]
      BY <1>1, <1>7, <1>11 DEF DomainStates, FeeLedgerStates
    <3> HIDE DEF i, f, o
    <3> QED BY <1>9, <1>11, <3>1 DEF DomainV0, FeeLedgerV0
  <2>2. Books'[m] = [vault_a |-> ix.vault_a, vault_b |-> ix.vault_b, fee_vault |-> ix.fee_vault,
                     a |-> domain'[ix.domain].accounted_a, b |-> domain'[ix.domain].accounted_b,
                     fee |-> fee_ledger'[ix.fee_ledger].accounted_fee_a]
    BY <1>1, <1>6, <1>8 DEF Books, BooksOf, BookOf, VaultA, VaultB, FeeVaultAt
  <2>3. ASSUME NEW n \in Markets, n # m PROVE Books'[n] = Books[n]
    <3>1. DomainPda(n) # ix.domain /\ DomainPda(n) \in Domains
      BY <1>6, <1>8, <2>3, Addresses
    <3>2. domain'[DomainPda(n)] = domain[DomainPda(n)]
      BY <1>1, <1>7, <3>1 DEF DomainStates
    <3>3. ASSUME market[n] # None
          PROVE  fee_ledger'[FeeLedgerPda(n, market[n].mint_a)]
                   = fee_ledger[FeeLedgerPda(n, market[n].mint_a)]
      <4>1. market[n].mint_a \in Mints
        BY <1>7, <3>3 DEF MarketStates, MarketV0
      <4>2. /\ FeeLedgerPda(n, market[n].mint_a) # ix.fee_ledger
            /\ FeeLedgerPda(n, market[n].mint_a) \in FeeLedgers
        BY <1>6, <1>8, <2>3, <4>1, Addresses
      <4> QED BY <1>1, <1>7, <4>2 DEF FeeLedgerStates
    <3> QED BY <1>1, <3>2, <3>3 DEF Books, BooksOf, BookOf
  <2>4. Books' = [n \in Markets |-> Books'[n]] /\ Books = [n \in Markets |-> Books[n]]
    BY DEF Books, BooksOf
  <2>5. Books'[m] = [Books[m] EXCEPT !.a = @ + i, !.b = @ - o, !.fee = @ + f]
    <3>1. Books[m] \in IntBook /\ Books'[m] \in IntBook
      <4>1. /\ ix.vault_a \in TokenAccounts /\ ix.vault_b \in TokenAccounts
            /\ ix.fee_vault \in TokenAccounts
        BY <1>1, FlightFacts DEF TokenAccounts
      <4>2. /\ domain'[ix.domain].accounted_a \in Int /\ domain'[ix.domain].accounted_b \in Int
            /\ fee_ledger'[ix.fee_ledger].accounted_fee_a \in Int
        <5> HIDE DEF i, f, o
        <5> QED BY <1>2, <1>11, <2>1
      <4> QED BY <1>10, <1>11, <2>2, <4>1, <4>2 DEF IntBook
    <3>2. /\ Books'[m].vault_a = Books[m].vault_a /\ Books'[m].vault_b = Books[m].vault_b
          /\ Books'[m].fee_vault = Books[m].fee_vault
          /\ Books'[m].a = Books[m].a + i /\ Books'[m].b = Books[m].b - o
          /\ Books'[m].fee = Books[m].fee + f
      BY <1>10, <2>1, <2>2
    <3> HIDE DEF m, i, f, o
    <3>3. NextBook(Books[m], Books'[m], i, f, o)
      BY <1>2, <3>1, <3>2 DEF NextBook
    <3> QED BY <3>3, BookTraded
  <2> HIDE DEF m, i, f, o
  <2> QED BY <1>6, <2>3, <2>4, <2>5
<1>13. /\ i \in U64 \ {0} /\ f \in U64 /\ o \in 1 .. Books[m].b
       /\ IsLeastFee(f, i, ProtocolFeeBps)
  <2>1. i > 0 /\ o > 0 /\ f = fee_ceil(i, ProtocolFeeBps)
    BY <1>1 DEF Terms
  <2>2. i \in Nat
    BY <1>6, MathAssumption DEF U64
  <2>3. IsLeastFee(f, i, ProtocolFeeBps)
    BY <2>1, <2>2, FeeIsLeast
  <2>4. ix.post_accounted_b \in Nat
    BY <1>7, MathAssumption DEF Executions, U64
  <2>5. Books[m].b = domain[ix.domain].accounted_b
    BY <1>10
  <2> HIDE DEF i, f, o
  <2> QED BY <1>2, <1>6, <1>9, <1>11, <2>1, <2>3, <2>4, <2>5
<1>14. /\ Held[ix.source] # None /\ Held[ix.vault_a] # None /\ Held[ix.fee_vault] # None
       /\ Held[ix.vault_b] # None /\ Held[ix.destination] # None
       /\ Held[ix.source].mint = token[ix.source].mint
       /\ Held[ix.vault_a].mint = token[ix.vault_a].mint
       /\ Held[ix.fee_vault].mint = token[ix.fee_vault].mint
       /\ Held[ix.vault_b].mint = token[ix.vault_b].mint
       /\ Held[ix.destination].mint = token[ix.destination].mint
       /\ h[ix.source].amount \in U64 /\ h[ix.vault_a].amount \in U64
       /\ h[ix.fee_vault].amount \in U64 /\ h[ix.destination].amount \in U64
  <2>1. SameTokens(h, Held)
    BY <1>3 DEF TakenBack
  <2>2. \A a \in {ix.source, ix.vault_a, ix.fee_vault, ix.vault_b, ix.destination} :
          a \in TokenAccounts /\ h[a] # None
    BY <1>2, FiveAmounts
  <2>3. \A a \in {ix.source, ix.vault_a, ix.fee_vault, ix.vault_b, ix.destination} :
          /\ token[a] # None /\ h[a].mint = token[a].mint /\ h[a].amount = token[a].amount
          /\ token[a].amount \in U64
    BY <1>7, <2>2, HoldingsView
  <2> QED BY <2>1, <2>2, <2>3 DEF SameTokens
<1>15. /\ token[ix.source].mint = market[m].mint_a /\ token[ix.vault_a].mint = market[m].mint_a
       /\ token[ix.fee_vault].mint = market[m].mint_a /\ token[ix.vault_b].mint = market[m].mint_b
       /\ token[ix.destination].mint = market[m].mint_b
  BY <1>1, <1>6, <1>7, <1>8 DEF Terms, Canonical, IsVault
<1>16. ix.source \notin BookVaults(Books)
  <2>1. ASSUME NEW n \in Markets, Books[n] # None
        PROVE  ix.source \notin {Books[n].vault_a, Books[n].vault_b, Books[n].fee_vault}
    <3>1. market[n] # None
      BY <2>1 DEF Books, BooksOf
    <3>2. /\ Books[n].vault_a = VaultA(n) /\ Books[n].vault_b = VaultB(n)
          /\ Books[n].fee_vault = FeeVaultAt(n, market[n].mint_a)
      BY <3>1 DEF Books, BooksOf, BookOf, VaultA, VaultB, FeeVaultAt
    <3>3. /\ VaultA(n) \in CoreVaults /\ VaultB(n) \in CoreVaults
          /\ FeeVaultAt(n, market[n].mint_a) \in CoreVaults
      BY <1>7, <3>1, MarketNumbers
    <3> QED BY <1>6, <3>2, <3>3
  <2> QED BY <2>1 DEF BookVaults
<1>17. /\ Held[ix.source].amount = h[ix.source].amount + i + f
       /\ Held[ix.vault_a].amount = h[ix.vault_a].amount - i
       /\ Held[ix.fee_vault].amount = h[ix.fee_vault].amount - f
       /\ Held[ix.destination].amount = h[ix.destination].amount - o
  BY <1>3 DEF TakenBack
<1> HIDE DEF h, i, f, o, m
<1>18. Pays(Held, Books, ix.source, i + f)
  BY <1>2, <1>14, <1>16, <1>17, MathAssumption DEF Pays, U64
<1>19. /\ Takes(Held, ix.vault_a, ix.source, i) /\ Takes(Held, ix.fee_vault, ix.source, f)
       /\ Takes(Held, ix.destination, ix.vault_b, o)
  BY <1>2, <1>14, <1>15, <1>17, MathAssumption DEF Takes, AddFits, U64
<1>20. TradeView(m, Held, Books, Held', Books')
  <2>1. Books[m].vault_a = ix.vault_a /\ Books[m].vault_b = ix.vault_b /\ Books[m].fee_vault = ix.fee_vault
    BY <1>10
  <2>2. TradedFor(m, Held, Books, Held', Books', i, f, ix.source, ix.destination, o)
    BY <1>5, <1>6, <1>10, <1>12, <1>13, <1>18, <1>19, <2>1 DEF TradedFor
  <2> QED BY <1>6, <1>13, <2>2 DEF TradeView
<1> QED BY <1>20 DEF m

\* Before the first payment and after the accounting nothing is taken back.
LEMMA NothingTakenBack ==
  /\ phase \in {"idle", "open", "engine", "receipt", "input"} => Held = HoldingsOf(token)
  /\ phase' \in {"idle", "open", "engine", "receipt", "input"} => Held' = HoldingsOf(token')
<1>1. \A p \in {"idle", "open", "engine", "receipt", "input"} : PaymentsMade(p) = 0
  BY DEF PaymentsMade
<1> QED BY <1>1, HeldAt DEF UnsettledAt

\* Inside a transaction there is something to roll back to.
LEMMA CommittedExists ==
  ASSUME IInv, phase # "idle"
  PROVE  /\ CommittedView # None
         /\ CommittedView = [held |-> HoldingsOf(saved.token),
                             books |-> BooksOf(saved.market, saved.domain, saved.fee_ledger)]
<1>1. /\ saved.token \in TokenStates /\ saved.market \in MarketStates
      /\ saved.domain \in DomainStates /\ saved.fee_ledger \in FeeLedgerStates
      /\ saved.donated \in DonatedStates
      /\ Canonical(saved.token, saved.market, saved.domain, saved.fee_ledger, saved.donated)
  BY DEF IInv, TypeOK, SavedSound, Chains
<1>2. HoldingsOf(saved.token) \in ViewHoldings
  BY <1>1, HoldingsView
<1>3. BooksOf(saved.market, saved.domain, saved.fee_ledger) \in ViewBooks
  BY <1>1, BooksView
<1>4. CommittedView = [held |-> HoldingsOf(saved.token),
                       books |-> BooksOf(saved.market, saved.domain, saved.fee_ledger)]
  BY DEF CommittedView
<1> QED BY <1>2, <1>3, <1>4, ViewAssumption

\* Within a transaction what it would be rolled back to stays.
LEMMA CommittedKept ==
  ASSUME UNCHANGED saved, phase # "idle", phase' # "idle"
  PROVE  UNCHANGED CommittedView
BY DEF CommittedView

\* A step that only changes what is no part of the view.
LEMMA Unseen ==
  ASSUME UNCHANGED <<token, market, domain, fee_ledger, saved>>,
         phase \in {"open", "engine", "receipt", "input"},
         phase' \in {"open", "engine", "receipt", "input"}
  PROVE  UNCHANGED <<Held, Books, CommittedView>>
BY NothingTakenBack, CommittedKept DEF Books

\* The runtime's steps and the instructions without an engine.
LEMMA FrameExchanges ==
  ASSUME IInv, Frame
  PROVE  Exchange!Next \/ UNCHANGED <<Held, Books, CommittedView>>
<1>1. ASSUME NEW S, BeginTransaction(S), UNCHANGED <<ix, ret>>
      PROVE  Exchange!Next
  <2>1. /\ phase = "idle" /\ phase' = "open" /\ saved' = Snapshot
        /\ UNCHANGED <<token, market, domain, fee_ledger>>
    BY <1>1 DEF BeginTransaction, chain
  <2>2. Held' = Held /\ Books' = Books /\ Held = HoldingsOf(token)
    BY <2>1, NothingTakenBack DEF Books
  <2>3. CommittedView = None
    BY <2>1 DEF CommittedView
  <2>4. CommittedView' = [held |-> Held, books |-> Books]
    BY <2>1, <2>2 DEF CommittedView, Snapshot, Books
  <2> QED BY <2>2, <2>3, <2>4 DEF Exchange!Next, Exchange!Begin, Held, Books
<1>2. ASSUME CommitTransaction
      PROVE  Exchange!Next
  <2>1. /\ phase = "open" /\ phase' = "idle" /\ UNCHANGED <<token, market, domain, fee_ledger>>
    BY <1>2 DEF CommitTransaction, chain
  <2>2. Held' = Held /\ Books' = Books
    BY <2>1, NothingTakenBack DEF Books
  <2>3. CommittedView # None /\ CommittedView' = None
    BY <2>1, CommittedExists DEF CommittedView
  <2> QED BY <2>2, <2>3 DEF Exchange!Next, Exchange!Commit, Held, Books
<1>3. ASSUME AbortTransaction
      PROVE  Exchange!Next
  <2>1. /\ phase # "idle" /\ phase' = "idle" /\ token' = saved.token /\ market' = saved.market
        /\ domain' = saved.domain /\ fee_ledger' = saved.fee_ledger
    BY <1>3 DEF AbortTransaction, Rollback
  <2>2. /\ CommittedView # None /\ CommittedView' = None
        /\ CommittedView.held = HoldingsOf(saved.token)
        /\ CommittedView.books = BooksOf(saved.market, saved.domain, saved.fee_ledger)
    BY <2>1, CommittedExists DEF CommittedView
  <2>3. Held' = CommittedView.held /\ Books' = CommittedView.books
    BY <2>1, <2>2, NothingTakenBack DEF Books
  <2> QED BY <2>2, <2>3 DEF Exchange!Next, Exchange!Abort, Held, Books
<1>4. ASSUME AdvanceSlot
      PROVE  UNCHANGED <<Held, Books, CommittedView>>
  <2>1. phase = "idle" /\ phase' = "idle" /\ UNCHANGED <<token, market, domain, fee_ledger>>
    BY <1>4 DEF AdvanceSlot, chain
  <2> QED BY <2>1, NothingTakenBack DEF Books, CommittedView
<1>5. ASSUME RunInstruction("open")
      PROVE  /\ LedgerSound /\ CommittedView # None /\ UNCHANGED CommittedView
             /\ Held = HoldingsOf(token) /\ Held' = HoldingsOf(token')
  <2>1. phase = "open" /\ phase' = "open" /\ UNCHANGED saved
    BY <1>5 DEF RunInstruction
  <2> QED BY <2>1, LedgerOpen, CommittedExists, CommittedKept, NothingTakenBack
<1>6. ASSUME SplTransfer
      PROVE  Exchange!Next
  <2>1. /\ LedgerSound /\ CommittedView # None /\ UNCHANGED CommittedView
        /\ Held = HoldingsOf(token) /\ Held' = HoldingsOf(token')
    BY <1>5, <1>6 DEF SplTransfer
  <2>2. PayView(Held, Books, Held') /\ Books' = Books
    BY <1>6, <2>1, SplTransferInView DEF Books
  <2> QED BY <2>1, <2>2, ExchangeSteps
<1>7. ASSUME initialize_market_domain_v0
      PROVE  Exchange!Next
  <2>1. /\ LedgerSound /\ CommittedView # None /\ UNCHANGED CommittedView
        /\ Held = HoldingsOf(token) /\ Held' = HoldingsOf(token')
    BY <1>5, <1>7 DEF initialize_market_domain_v0
  <2>2. \E m \in Markets : CreateView(m, Held, Books, Held', Books')
    BY <1>7, <2>1, InitializeInView DEF Books
  <2> QED BY <2>1, <2>2, ExchangeSteps
<1>8. ASSUME deposit_v0
      PROVE  Exchange!Next
  <2>1. /\ LedgerSound /\ CommittedView # None /\ UNCHANGED CommittedView
        /\ Held = HoldingsOf(token) /\ Held' = HoldingsOf(token')
    BY <1>5, <1>8 DEF deposit_v0
  <2>2. \E m \in Markets : DepositView(m, Held, Books, Held', Books')
    BY <1>8, <2>1, DepositInView DEF Books
  <2> QED BY <2>1, <2>2, ExchangeSteps
<1> QED BY <1>1, <1>2, <1>3, <1>4, <1>6, <1>7, <1>8 DEF Frame

\* An execution: the engine and the payments stutter, the accounting is a trade.
LEMMA ExecutionExchanges ==
  ASSUME SInv, Execution
  PROVE  Exchange!Next \/ UNCHANGED <<Held, Books, CommittedView>>
<1>0. IInv
  BY DEF SInv
<1>1. CASE execute_engine_probe_v0 \/ evaluate \/ foreign_evaluate \/ accept_receipt
  <2>1. UNCHANGED <<token, market, domain, fee_ledger, saved>>
    BY <1>0, <1>1, EvaluateFacts, ExecuteFacts DEF foreign_evaluate, accept_receipt, chain
  <2>2. phase \in {"open", "engine", "receipt", "input"} /\ phase' \in {"open", "engine", "receipt", "input"}
    BY <1>0, <1>1, EvaluateFacts, ExecuteFacts DEF foreign_evaluate, accept_receipt
  <2> QED BY <2>1, <2>2, Unseen
<1>2. CASE Payment
  <2>1. phase \in Settling /\ phase' \in Settling /\ UNCHANGED saved
    BY <1>0, <1>2, PaymentFacts
  <2>2. UNCHANGED CommittedView
    BY <2>1, CommittedKept DEF Settling
  <2> QED BY <1>0, <1>2, <2>2, PaymentStutters
<1>3. CASE finalize
  <2>1. /\ phase = "finalize" /\ phase' = "open" /\ UNCHANGED saved
    BY <1>3 DEF finalize
  <2>2. CommittedView # None /\ UNCHANGED CommittedView
    BY <1>0, <2>1, CommittedExists, CommittedKept
  <2>3. TradeView(ix.market, Held, Books, Held', Books')
    BY <1>3, FinalizeTrades
  <2>4. ix.market \in Markets
    BY <1>0, <2>1, FlightFacts DEF Settling
  <2> QED BY <2>2, <2>3, <2>4, ExchangeSteps
<1> QED BY <1>1, <1>2, <1>3 DEF Execution, Payment

\* The initial accounts are an exchange without books.
LEMMA InitExchanges ==
  ASSUME Init
  PROVE  Exchange!Init
<1>1. IInv
  BY InitSound
<1>2. /\ phase = "idle" /\ market = [m \in Markets |-> None]
  BY DEF Init, LedgerInit
<1>3. Held = HoldingsOf(token) /\ CommittedView = None
  BY <1>2, NothingTakenBack DEF CommittedView
<1>4. Held \in ViewHoldings /\ Books \in ViewBooks
  BY <1>1, <1>3, ViewTyped, HoldingsView, BooksView DEF Books
<1>5. Books = [m \in Markets |-> None]
  BY <1>2 DEF Books, BooksOf
<1>6. /\ Held \in [TokenAccounts -> Exchange!Holding \cup {None}]
      /\ Books \in [Markets -> Exchange!Book \cup {None}]
  BY <1>4 DEF ViewHoldings, ViewBooks, Exchange!Holding, Exchange!Book, Exchange!U64, U64
<1>7. Exchange!Covered(Held, Books)
  BY <1>5 DEF Exchange!Covered, Exchange!Open
<1> QED BY <1>3, <1>6, <1>7 DEF Exchange!Init, Held, Books

\* Whatever the engines answer and wherever a transaction fails, for any number of
\* markets, wallets and accounts: the kernel (execute_engine_probe_v0, deposit_v0,
\* initialize_market_domain_v0 and plain transfers) is an AtomicExchange.
THEOREM KernelRefines == Spec => KernelImplementsExchange
<1>1. Init => Exchange!Init
  BY InitExchanges
<1>2. SInv /\ [Next]_vars => [Exchange!Next]_(Exchange!vars)
  <2> SUFFICES ASSUME SInv, [Next]_vars
               PROVE  Exchange!Next \/ UNCHANGED <<Held, Books, CommittedView>>
    BY DEF Exchange!vars, Held, Books
  <2>1. CASE Frame
    BY <2>1, FrameExchanges DEF SInv
  <2>2. CASE Execution
    BY <2>2, ExecutionExchanges
  <2>3. CASE engine_initialize \/ set_mode
    <3>1. /\ phase = "open" /\ phase' = "open"
          /\ UNCHANGED <<token, market, domain, fee_ledger, saved>>
      BY <2>3 DEF engine_initialize, set_mode, RunInstruction
    <3> QED BY <3>1, Unseen
  <2>4. CASE UNCHANGED vars
    BY <2>4 DEF vars, ledgerVars, chain, Held, Books, Unsettled, CommittedView
  <2> QED BY <2>1, <2>2, <2>3, <2>4 DEF Next
<1> QED BY <1>1, <1>2, SafetySound, PTL DEF Spec, KernelImplementsExchange, Exchange!Spec
=============================================================================
