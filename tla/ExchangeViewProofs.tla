------------------------ MODULE ExchangeViewProofs -------------------------
(* How the payments of a Core look in ExchangeView, for every value of the  *)
(* constants: the lemmas a proof that a Core implements AtomicExchange      *)
(* rests on.                                                                *)
EXTENDS ExchangeView, LedgerProofs

(***************************************************************************)
(* Holdings.  While a settlement's payments are taken back one by one the  *)
(* amounts are integers.                                                   *)
(***************************************************************************)
Holdings == [TokenAccounts -> [mint : Mints, amount : Int] \cup {None}]

\* Of the same accounts and tokens.
SameTokens(h, r) ==
  \A a \in TokenAccounts : /\ (r[a] = None) <=> (h[a] = None)
                           /\ h[a] # None => r[a].mint = h[a].mint

\* From h to r the amount n went from one account to another.
Shifted(h, r, from, to, n) ==
  /\ r \in Holdings /\ SameTokens(h, r)
  /\ r[from].amount = h[from].amount - n
  /\ r[to].amount = h[to].amount + n
  /\ \A a \in TokenAccounts : a \notin {from, to} => r[a] = h[a]

\* Two accounts that exist.
Pair(h, from, to) ==
  /\ from \in TokenAccounts /\ to \in TokenAccounts /\ from # to
  /\ h[from] # None /\ h[to] # None

\* The payment of n, as AtomicExchange writes it.
Shift(h, from, to, n) ==
  [a \in TokenAccounts |-> CASE a = from -> [h[a] EXCEPT !.amount = @ + (-n)]
                             [] a = to -> [h[a] EXCEPT !.amount = @ + n]
                             [] OTHER -> h[a]]

\* A holding is its token and its amount.
LEMMA HoldingsEqual ==
  ASSUME NEW h \in Holdings, NEW r \in Holdings, SameTokens(h, r),
         \A a \in TokenAccounts : h[a] # None => r[a].amount = h[a].amount
  PROVE  r = h
<1>1. ASSUME NEW a \in TokenAccounts PROVE r[a] = h[a]
  <2>1. CASE h[a] = None
    BY <2>1 DEF SameTokens
  <2>2. CASE h[a] # None
    <3>1. h[a] \in [mint : Mints, amount : Int] /\ r[a] \in [mint : Mints, amount : Int]
      BY <2>2 DEF Holdings, SameTokens
    <3>2. r[a].mint = h[a].mint /\ r[a].amount = h[a].amount
      BY <2>2 DEF SameTokens
    <3> QED BY <3>1, <3>2
  <2> QED BY <2>1, <2>2
<1> QED BY <1>1 DEF Holdings

\* Shift moves an amount, and Unpaid moves it back.
LEMMA ShiftFacts ==
  ASSUME NEW h \in Holdings, NEW from, NEW to, Pair(h, from, to), NEW n \in Int
  PROVE  /\ Shifted(h, Shift(h, from, to, n), from, to, n)
         /\ Shifted(h, Unpaid(h, from, to, n), from, to, -n)
<1>1. h[from] \in [mint : Mints, amount : Int] /\ h[to] \in [mint : Mints, amount : Int]
  BY DEF Holdings, Pair
<1>2. ASSUME NEW r, NEW k \in Int, DOMAIN r = TokenAccounts, r = [a \in TokenAccounts |-> r[a]],
             r[from] \in [mint : Mints, amount : Int], r[to] \in [mint : Mints, amount : Int],
             r[from] # None, r[to] # None,
             r[from].mint = h[from].mint, r[to].mint = h[to].mint,
             r[from].amount = h[from].amount - k, r[to].amount = h[to].amount + k,
             \A a \in TokenAccounts : a \notin {from, to} => r[a] = h[a]
      PROVE  Shifted(h, r, from, to, k)
  <2>1. r \in Holdings
    BY <1>2 DEF Holdings
  <2>2. SameTokens(h, r)
    BY <1>2 DEF SameTokens, Pair
  <2> QED BY <1>2, <2>1, <2>2 DEF Shifted
<1>3. Shifted(h, Shift(h, from, to, n), from, to, n)
  <2> DEFINE r == Shift(h, from, to, n)
  <2>1. /\ r[from] = [h[from] EXCEPT !.amount = @ + (-n)]
        /\ r[to] = [h[to] EXCEPT !.amount = @ + n]
        /\ \A a \in TokenAccounts : a \notin {from, to} => r[a] = h[a]
        /\ DOMAIN r = TokenAccounts /\ r = [a \in TokenAccounts |-> r[a]]
    BY DEF Shift, Pair
  <2> HIDE DEF r
  <2>2. /\ r[from] \in [mint : Mints, amount : Int] /\ r[from] # None
        /\ r[from].mint = h[from].mint /\ r[from].amount = h[from].amount + (-n)
    BY <1>1, <2>1, ViewAssumption
  <2>3. /\ r[to] \in [mint : Mints, amount : Int] /\ r[to] # None
        /\ r[to].mint = h[to].mint /\ r[to].amount = h[to].amount + n
    BY <1>1, <2>1, ViewAssumption
  <2>4. h[from].amount \in Int /\ h[from].amount + (-n) = h[from].amount - n
    BY <1>1
  <2>5. Shifted(h, r, from, to, n)
    BY <1>2, <2>1, <2>2, <2>3, <2>4
  <2> QED BY <2>5 DEF r
<1>4. Shifted(h, Unpaid(h, from, to, n), from, to, -n)
  <2> DEFINE r == Unpaid(h, from, to, n)
  <2>1. /\ r[from] = [h[from] EXCEPT !.amount = @ + n]
        /\ r[to] = [h[to] EXCEPT !.amount = @ - n]
        /\ \A a \in TokenAccounts : a \notin {from, to} => r[a] = h[a]
        /\ DOMAIN r = TokenAccounts /\ r = [a \in TokenAccounts |-> r[a]]
    BY DEF Unpaid, Pair
  <2> HIDE DEF r
  <2>2. /\ r[from] \in [mint : Mints, amount : Int] /\ r[from] # None
        /\ r[from].mint = h[from].mint /\ r[from].amount = h[from].amount + n
    BY <1>1, <2>1, ViewAssumption
  <2>3. /\ r[to] \in [mint : Mints, amount : Int] /\ r[to] # None
        /\ r[to].mint = h[to].mint /\ r[to].amount = h[to].amount - n
    BY <1>1, <2>1, ViewAssumption
  <2>4. /\ h[from].amount + n = h[from].amount - (-n) /\ h[to].amount - n = h[to].amount + (-n)
        /\ -n \in Int
    BY <1>1
  <2>5. Shifted(h, r, from, to, -n)
    BY <1>2, <2>1, <2>2, <2>3, <2>4
  <2> QED BY <2>5 DEF r
<1> QED BY <1>3, <1>4

(***************************************************************************)
(* A settlement.                                                           *)
(***************************************************************************)
\* The accounts of an execution x: five that exist, no two the same.
FiveAccounts(h, x) ==
  /\ Pair(h, x.source, x.vault_a) /\ Pair(h, x.source, x.fee_vault)
  /\ Pair(h, x.vault_b, x.destination)
  /\ x.vault_a # x.fee_vault
  /\ x.vault_b \notin {x.source, x.vault_a, x.fee_vault}
  /\ x.destination \notin {x.source, x.vault_a, x.fee_vault}

\* r is h before x's payments: i of input, f of fees and o of output.
TakenBack(h, r, x, i, f, o) ==
  /\ r \in Holdings /\ SameTokens(h, r)
  /\ r[x.source].amount = h[x.source].amount + i + f
  /\ r[x.vault_a].amount = h[x.vault_a].amount - i
  /\ r[x.fee_vault].amount = h[x.fee_vault].amount - f
  /\ r[x.vault_b].amount = h[x.vault_b].amount + o
  /\ r[x.destination].amount = h[x.destination].amount - o
  /\ \A a \in TokenAccounts :
       a \notin {x.source, x.vault_a, x.fee_vault, x.vault_b, x.destination} => r[a] = h[a]

\* What the payments made when the phase is p come to.
InputMade(p, x) == IF PaymentsMade(p) >= 1 THEN x.args.amount_in ELSE 0
FeeMade(p, x) == IF PaymentsMade(p) >= 2 THEN x.protocol_fee ELSE 0
OutputMade(p, out) == IF PaymentsMade(p) >= 3 THEN out ELSE 0

\* The accounts of an execution hold whole numbers of tokens.
LEMMA FiveAmounts ==
  ASSUME NEW h \in Holdings, NEW x, FiveAccounts(h, x)
  PROVE  \A a \in {x.source, x.vault_a, x.fee_vault, x.vault_b, x.destination} :
           a \in TokenAccounts /\ h[a] # None /\ h[a].amount \in Int
<1>1. \A a \in {x.source, x.vault_a, x.fee_vault, x.vault_b, x.destination} :
        a \in TokenAccounts /\ h[a] # None
  BY DEF FiveAccounts, Pair
<1> QED BY <1>1 DEF Holdings

\* The same five accounts exist when only amounts differ.
LEMMA FiveKept ==
  ASSUME NEW h, NEW r, SameTokens(h, r), NEW x, FiveAccounts(h, x)
  PROVE  FiveAccounts(r, x)
BY DEF FiveAccounts, Pair, SameTokens

\* Unsettled in phase p.
UnsettledAt(p, h, x, out) ==
  LET noInput == IF PaymentsMade(p) >= 1 THEN Unpaid(h, x.source, x.vault_a, x.args.amount_in) ELSE h
      noFee == IF PaymentsMade(p) >= 2 THEN Unpaid(noInput, x.source, x.fee_vault, x.protocol_fee)
               ELSE noInput
  IN  IF PaymentsMade(p) >= 3 THEN Unpaid(noFee, x.vault_b, x.destination, out) ELSE noFee

\* It takes back exactly the payments made.
LEMMA UnsettledFacts ==
  ASSUME NEW p, NEW h \in Holdings, NEW x, FiveAccounts(h, x), NEW out \in Int,
         x.args.amount_in \in Int, x.protocol_fee \in Int
  PROVE  TakenBack(h, UnsettledAt(p, h, x, out), x,
                   InputMade(p, x), FeeMade(p, x), OutputMade(p, out))
<1> DEFINE r1 == Unpaid(h, x.source, x.vault_a, x.args.amount_in)
           r2 == Unpaid(r1, x.source, x.fee_vault, x.protocol_fee)
           r3 == Unpaid(r2, x.vault_b, x.destination, out)
<1>0. PaymentsMade(p) \in {0, 1, 2, 3}
  BY DEF PaymentsMade
<1>1. Shifted(h, r1, x.source, x.vault_a, -x.args.amount_in)
  BY ShiftFacts DEF FiveAccounts
<1>2. r1 \in Holdings /\ SameTokens(h, r1) /\ FiveAccounts(r1, x)
  BY <1>1, FiveKept DEF Shifted
<1>3. Shifted(r1, r2, x.source, x.fee_vault, -x.protocol_fee)
  <2> HIDE DEF r1
  <2> QED BY <1>2, ShiftFacts DEF FiveAccounts
<1>4. r2 \in Holdings /\ SameTokens(r1, r2) /\ FiveAccounts(r2, x)
  <2> HIDE DEF r1, r2
  <2> QED BY <1>2, <1>3, FiveKept DEF Shifted
<1>5. Shifted(r2, r3, x.vault_b, x.destination, -out)
  <2> HIDE DEF r1, r2
  <2> QED BY <1>4, ShiftFacts DEF FiveAccounts
<1>6. SameTokens(h, r2) /\ (SameTokens(r2, r3) => SameTokens(h, r3))
  <2> HIDE DEF r1, r2, r3
  <2> QED BY <1>2, <1>4 DEF SameTokens
<1>7. UnsettledAt(p, h, x, out) = CASE PaymentsMade(p) = 0 -> h
                               [] PaymentsMade(p) = 1 -> r1
                               [] PaymentsMade(p) = 2 -> r2
                               [] PaymentsMade(p) = 3 -> r3
  <2> DEFINE noInput == IF PaymentsMade(p) >= 1 THEN r1 ELSE h
             noFee == IF PaymentsMade(p) >= 2
                      THEN Unpaid(noInput, x.source, x.fee_vault, x.protocol_fee) ELSE noInput
  <2>1. UnsettledAt(p, h, x, out) = IF PaymentsMade(p) >= 3
                               THEN Unpaid(noFee, x.vault_b, x.destination, out) ELSE noFee
    BY DEF UnsettledAt
  <2> HIDE DEF r1
  <2> QED BY <1>0, <2>1
<1> HIDE DEF r1, r2, r3
<1>8. /\ x.source \in TokenAccounts /\ x.vault_a \in TokenAccounts /\ x.fee_vault \in TokenAccounts
      /\ x.vault_b \in TokenAccounts /\ x.destination \in TokenAccounts
      /\ h[x.source].amount \in Int /\ h[x.vault_a].amount \in Int /\ h[x.fee_vault].amount \in Int
      /\ h[x.vault_b].amount \in Int /\ h[x.destination].amount \in Int
  BY FiveAmounts
<1>9. TakenBack(h, h, x, 0, 0, 0)
  BY <1>8 DEF TakenBack, SameTokens
<1>10. TakenBack(h, r1, x, x.args.amount_in, 0, 0)
  BY <1>1, <1>8 DEF TakenBack, Shifted, FiveAccounts, Pair
<1>11. TakenBack(h, r2, x, x.args.amount_in, x.protocol_fee, 0)
  <2>1. /\ r2[x.source].amount = r1[x.source].amount + x.protocol_fee
        /\ r2[x.fee_vault].amount = r1[x.fee_vault].amount - x.protocol_fee
    <3>1. r1[x.source].amount \in Int /\ r1[x.fee_vault].amount \in Int
      BY <1>2, FiveAmounts
    <3> QED BY <1>3, <3>1 DEF Shifted
  <2> QED BY <1>3, <1>6, <1>8, <1>10, <2>1 DEF TakenBack, Shifted, FiveAccounts, Pair
<1>12. TakenBack(h, r3, x, x.args.amount_in, x.protocol_fee, out)
  <2>1. /\ r3[x.vault_b].amount = r2[x.vault_b].amount + out
        /\ r3[x.destination].amount = r2[x.destination].amount - out
    <3>1. r2[x.vault_b].amount \in Int /\ r2[x.destination].amount \in Int
      BY <1>4, FiveAmounts
    <3> QED BY <1>5, <3>1 DEF Shifted
  <2> QED BY <1>5, <1>6, <1>8, <1>11, <2>1 DEF TakenBack, Shifted, FiveAccounts, Pair
<1> QED BY <1>0, <1>7, <1>9, <1>10, <1>11, <1>12 DEF InputMade, FeeMade, OutputMade

\* A payment that is taken back leaves the view as it was.
LEMMA PaymentHidden ==
  ASSUME NEW h \in Holdings, NEW r \in Holdings, SameTokens(h, r), NEW x, FiveAccounts(h, x),
         NEW i \in Int, NEW f \in Int, NEW o \in Int, NEW i2 \in Int, NEW f2 \in Int, NEW o2 \in Int,
         r[x.source].amount = h[x.source].amount - (i2 - i) - (f2 - f),
         r[x.vault_a].amount = h[x.vault_a].amount + (i2 - i),
         r[x.fee_vault].amount = h[x.fee_vault].amount + (f2 - f),
         r[x.vault_b].amount = h[x.vault_b].amount - (o2 - o),
         r[x.destination].amount = h[x.destination].amount + (o2 - o),
         \A a \in TokenAccounts :
           a \notin {x.source, x.vault_a, x.fee_vault, x.vault_b, x.destination} =>
             r[a].amount = h[a].amount,
         NEW before, NEW after, TakenBack(h, before, x, i, f, o), TakenBack(r, after, x, i2, f2, o2)
  PROVE  after = before
<1>1. before \in Holdings /\ after \in Holdings /\ SameTokens(before, after)
  BY DEF TakenBack, SameTokens
<1>2. \A a \in {x.source, x.vault_a, x.fee_vault, x.vault_b, x.destination} :
        a \in TokenAccounts /\ h[a].amount \in Int
  BY FiveAmounts
<1>3. /\ after[x.source].amount = before[x.source].amount
      /\ after[x.vault_a].amount = before[x.vault_a].amount
      /\ after[x.fee_vault].amount = before[x.fee_vault].amount
      /\ after[x.vault_b].amount = before[x.vault_b].amount
      /\ after[x.destination].amount = before[x.destination].amount
  <2>1. /\ h[x.source].amount \in Int /\ h[x.vault_a].amount \in Int
        /\ h[x.fee_vault].amount \in Int /\ h[x.vault_b].amount \in Int
        /\ h[x.destination].amount \in Int
    BY <1>2
  <2> QED BY <2>1 DEF TakenBack
<1>4. \A a \in TokenAccounts : after[a].amount = before[a].amount
  BY <1>3 DEF TakenBack
<1> QED BY <1>1, <1>4, HoldingsEqual

\* The payments of a trade, made on what they were taken back from, give it again.
LEMMA TradeMade ==
  ASSUME NEW h \in Holdings, NEW x, FiveAccounts(h, x), NEW i \in Int, NEW f \in Int, NEW o \in Int,
         NEW r, TakenBack(h, r, x, i, f, o)
  PROVE  h = Shift(Shift(Shift(r, x.source, x.vault_a, i), x.source, x.fee_vault, f),
                   x.vault_b, x.destination, o)
<1> DEFINE r1 == Shift(r, x.source, x.vault_a, i)
           r2 == Shift(r1, x.source, x.fee_vault, f)
           r3 == Shift(r2, x.vault_b, x.destination, o)
<1>0. r \in Holdings /\ SameTokens(h, r) /\ FiveAccounts(r, x)
  BY FiveKept DEF TakenBack
<1>1. Shifted(r, r1, x.source, x.vault_a, i)
  BY <1>0, ShiftFacts DEF FiveAccounts
<1> HIDE DEF r1
<1>2. r1 \in Holdings /\ SameTokens(r, r1) /\ FiveAccounts(r1, x)
  BY <1>0, <1>1, FiveKept DEF Shifted
<1>3. Shifted(r1, r2, x.source, x.fee_vault, f)
  BY <1>2, ShiftFacts DEF FiveAccounts
<1> HIDE DEF r2
<1>4. r2 \in Holdings /\ SameTokens(r1, r2) /\ FiveAccounts(r2, x)
  BY <1>2, <1>3, FiveKept DEF Shifted
<1>5. Shifted(r2, r3, x.vault_b, x.destination, o)
  BY <1>4, ShiftFacts DEF FiveAccounts
<1> HIDE DEF r3
<1>6. r3 \in Holdings /\ SameTokens(r3, h)
  BY <1>0, <1>2, <1>4, <1>5 DEF Shifted, SameTokens
<1>7. \A a \in {x.source, x.vault_a, x.fee_vault, x.vault_b, x.destination} :
        a \in TokenAccounts /\ h[a].amount \in Int
  BY FiveAmounts
<1>8. /\ r3[x.source].amount = h[x.source].amount
      /\ r3[x.vault_a].amount = h[x.vault_a].amount
      /\ r3[x.fee_vault].amount = h[x.fee_vault].amount
      /\ r3[x.vault_b].amount = h[x.vault_b].amount
      /\ r3[x.destination].amount = h[x.destination].amount
  <2>1. /\ h[x.source].amount \in Int /\ h[x.vault_a].amount \in Int
        /\ h[x.fee_vault].amount \in Int /\ h[x.vault_b].amount \in Int
        /\ h[x.destination].amount \in Int
        /\ x.source \in TokenAccounts /\ x.vault_a \in TokenAccounts /\ x.fee_vault \in TokenAccounts
        /\ x.vault_b \in TokenAccounts /\ x.destination \in TokenAccounts
    BY <1>7
  <2> QED BY <1>1, <1>3, <1>5, <2>1 DEF Shifted, TakenBack, FiveAccounts, Pair
<1>9. \A a \in TokenAccounts : h[a].amount = r3[a].amount
  <2>1. \A a \in TokenAccounts :
          a \notin {x.source, x.vault_a, x.fee_vault, x.vault_b, x.destination} => r3[a] = h[a]
    BY <1>1, <1>3, <1>5 DEF Shifted, TakenBack
  <2> QED BY <1>8, <2>1
<1>10. h = r3
  BY <1>6, <1>9, HoldingsEqual
<1> QED BY <1>10 DEF r1, r2, r3

(***************************************************************************)
(* The accounts of a Core in the view.                                     *)
(***************************************************************************)
\* The holdings of token accounts.
LEMMA HoldingsView ==
  ASSUME NEW t \in TokenStates
  PROVE  /\ HoldingsOf(t) \in Holdings /\ HoldingsOf(t) \in ViewHoldings
         /\ \A a \in TokenAccounts : (HoldingsOf(t)[a] = None) <=> (t[a] = None)
         /\ \A a \in TokenAccounts : t[a] # None =>
              /\ HoldingsOf(t)[a] = [mint |-> t[a].mint, amount |-> t[a].amount]
              /\ HoldingsOf(t)[a].mint = t[a].mint /\ HoldingsOf(t)[a].amount = t[a].amount
              /\ t[a].mint \in Mints /\ t[a].amount \in U64 /\ t[a].amount \in Int
<1>1. ASSUME NEW a \in TokenAccounts, t[a] # None
      PROVE  t[a].mint \in Mints /\ t[a].amount \in U64 /\ t[a].amount \in Int
  BY <1>1, MathAssumption DEF TokenStates, TokenAccount, U64
<1>2. ASSUME NEW a \in TokenAccounts, t[a] # None
      PROVE  /\ HoldingsOf(t)[a] = [mint |-> t[a].mint, amount |-> t[a].amount]
             /\ HoldingsOf(t)[a] \in [mint : Mints, amount : Int]
             /\ HoldingsOf(t)[a] \in [mint : Mints, amount : U64]
             /\ HoldingsOf(t)[a] # None
             /\ HoldingsOf(t)[a].mint = t[a].mint /\ HoldingsOf(t)[a].amount = t[a].amount
  BY <1>1, <1>2, ViewAssumption DEF HoldingsOf
<1>3. ASSUME NEW a \in TokenAccounts, t[a] = None PROVE HoldingsOf(t)[a] = None
  BY <1>3 DEF HoldingsOf
<1>4. HoldingsOf(t) = [a \in TokenAccounts |-> HoldingsOf(t)[a]]
  BY DEF HoldingsOf
<1>5. HoldingsOf(t) \in Holdings
  BY <1>2, <1>3, <1>4 DEF Holdings
<1>6. HoldingsOf(t) \in ViewHoldings
  BY <1>2, <1>3, <1>4 DEF ViewHoldings
<1> QED BY <1>1, <1>2, <1>3, <1>5, <1>6

\* The books of markets.
LEMMA BooksView ==
  ASSUME NEW t \in TokenStates, NEW mk \in MarketStates, NEW dm \in DomainStates,
         NEW fl \in FeeLedgerStates, NEW dn \in DonatedStates, Canonical(t, mk, dm, fl, dn)
  PROVE  /\ BooksOf(mk, dm, fl) \in ViewBooks
         /\ \A m \in Markets : (BooksOf(mk, dm, fl)[m] = None) <=> (mk[m] = None)
         /\ \A m \in Markets : mk[m] # None =>
              BooksOf(mk, dm, fl)[m] =
                [vault_a |-> VaultA(m), vault_b |-> VaultB(m),
                 fee_vault |-> FeeVaultAt(m, mk[m].mint_a),
                 a |-> dm[DomainPda(m)].accounted_a, b |-> dm[DomainPda(m)].accounted_b,
                 fee |-> fl[FeeLedgerPda(m, mk[m].mint_a)].accounted_fee_a]
<1> DEFINE bk == BooksOf(mk, dm, fl)
<1>1. ASSUME NEW m \in Markets, mk[m] # None
      PROVE  /\ bk[m] = [vault_a |-> VaultA(m), vault_b |-> VaultB(m),
                         fee_vault |-> FeeVaultAt(m, mk[m].mint_a),
                         a |-> dm[DomainPda(m)].accounted_a, b |-> dm[DomainPda(m)].accounted_b,
                         fee |-> fl[FeeLedgerPda(m, mk[m].mint_a)].accounted_fee_a]
             /\ bk[m] \in [vault_a : TokenAccounts, vault_b : TokenAccounts,
                           fee_vault : TokenAccounts, a : U64, b : U64, fee : U64]
  <2>1. bk[m] = [vault_a |-> VaultA(m), vault_b |-> VaultB(m),
                 fee_vault |-> FeeVaultAt(m, mk[m].mint_a),
                 a |-> dm[DomainPda(m)].accounted_a, b |-> dm[DomainPda(m)].accounted_b,
                 fee |-> fl[FeeLedgerPda(m, mk[m].mint_a)].accounted_fee_a]
    BY <1>1 DEF BooksOf, BookOf, VaultA, VaultB, FeeVaultAt
  <2>2. /\ VaultA(m) \in TokenAccounts /\ VaultB(m) \in TokenAccounts
        /\ FeeVaultAt(m, mk[m].mint_a) \in TokenAccounts
        /\ dm[DomainPda(m)] \in DomainV0 /\ fl[FeeLedgerPda(m, mk[m].mint_a)] \in FeeLedgerV0
    BY <1>1, MarketNumbers DEF TokenAccounts
  <2>3. /\ dm[DomainPda(m)].accounted_a \in U64 /\ dm[DomainPda(m)].accounted_b \in U64
        /\ fl[FeeLedgerPda(m, mk[m].mint_a)].accounted_fee_a \in U64
    BY <2>2 DEF DomainV0, FeeLedgerV0
  <2> QED BY <2>1, <2>2, <2>3
<1>2. ASSUME NEW m \in Markets, mk[m] = None PROVE bk[m] = None
  BY <1>2 DEF BooksOf
<1>3. bk = [m \in Markets |-> bk[m]]
  BY DEF BooksOf
<1> HIDE DEF bk
<1>4. bk \in ViewBooks
  BY <1>1, <1>2, <1>3 DEF ViewBooks
<1>5. \A m \in Markets : mk[m] # None => bk[m] # None
  BY <1>1, ViewAssumption
<1> QED BY <1>1, <1>2, <1>4, <1>5 DEF bk

\* A payment between token accounts is one between the holdings.
LEMMA PaymentView ==
  ASSUME NEW t \in TokenStates, NEW r \in TokenStates, NEW from \in TokenAccounts,
         NEW to \in TokenAccounts, from # to, t[from] # None, t[to] # None, NEW n \in U64,
         Moved(t, r, from, to, n), Kept(t, r)
  PROVE  /\ Shifted(HoldingsOf(t), HoldingsOf(r), from, to, n)
         /\ HoldingsOf(r) = Shift(HoldingsOf(t), from, to, n)
<1> DEFINE h == HoldingsOf(t)
           k == HoldingsOf(r)
           s == Shift(h, from, to, n)
<1>0. h \in Holdings /\ k \in Holdings /\ n \in Int
  BY HoldingsView, MathAssumption DEF U64
<1>1. SameTokens(h, k)
  BY HoldingsView DEF Kept, SameTokens
<1>2. r[from] # None /\ r[to] # None
  BY DEF Kept
<1>3. /\ h[from].amount = t[from].amount /\ h[to].amount = t[to].amount
      /\ k[from].amount = r[from].amount /\ k[to].amount = r[to].amount
      /\ t[from].amount \in Int /\ t[to].amount \in Int
  BY <1>2, HoldingsView
<1>4. /\ r[from].amount = t[from].amount - n /\ r[to].amount = t[to].amount + n
      /\ \A a \in TokenAccounts : a \notin {from, to} => r[a] = t[a]
  BY DEF Moved
<1>5. \A a \in TokenAccounts : a \notin {from, to} => k[a] = h[a]
  BY <1>4 DEF HoldingsOf
<1>6. Pair(h, from, to)
  BY HoldingsView DEF Pair
<1> HIDE DEF h, k
<1>7. Shifted(h, k, from, to, n)
  BY <1>0, <1>1, <1>3, <1>4, <1>5 DEF Shifted
<1>8. Shifted(h, s, from, to, n)
  BY <1>0, <1>6, ShiftFacts
<1> HIDE DEF s
<1>9. s \in Holdings /\ SameTokens(s, k)
  BY <1>7, <1>8 DEF Shifted, SameTokens
<1>10. \A a \in TokenAccounts : s[a].amount = k[a].amount
  BY <1>7, <1>8 DEF Shifted
<1>11. k = s
  BY <1>0, <1>9, <1>10, HoldingsEqual
<1> QED BY <1>7, <1>11 DEF h, k, s

(***************************************************************************)
(* The steps of AtomicExchange on a view: h and bk become h2 and bk2.      *)
(***************************************************************************)
BookVaults(bk) ==
  UNION {{bk[m].vault_a, bk[m].vault_b, bk[m].fee_vault} : m \in {m \in Markets : bk[m] # None}}

Pays(h, bk, from, n) == from \notin BookVaults(bk) /\ h[from] # None /\ h[from].amount >= n
Takes(h, to, from, n) ==
  h[to] # None /\ h[to].mint = h[from].mint /\ AddFits(h[to].amount, n)

PayView(h, bk, h2) ==
  \E from, to \in TokenAccounts, n \in U64 :
    from # to /\ Pays(h, bk, from, n) /\ Takes(h, to, from, n) /\ h2 = Shift(h, from, to, n)

DepositView(m, h, bk, h2, bk2) ==
  /\ bk[m] # None
  /\ \E n \in U64 \ {0} :
       \/ /\ bk2 = [bk EXCEPT ![m].a = @ + n]
          /\ \E from \in TokenAccounts : /\ Pays(h, bk, from, n) /\ Takes(h, bk[m].vault_a, from, n)
                                         /\ h2 = Shift(h, from, bk[m].vault_a, n)
       \/ /\ bk2 = [bk EXCEPT ![m].b = @ + n]
          /\ \E from \in TokenAccounts : /\ Pays(h, bk, from, n) /\ Takes(h, bk[m].vault_b, from, n)
                                         /\ h2 = Shift(h, from, bk[m].vault_b, n)

CreateView(m, h, bk, h2, bk2) ==
  /\ bk[m] = None
  /\ \E p, q \in Mints : p # q /\
       \E va \in TokenAccounts : h[va] = None /\
       \E vb \in TokenAccounts \ {va} : h[vb] = None /\
       \E fv \in TokenAccounts \ {va, vb} :
         /\ h[fv] = None
         /\ h2 = [h EXCEPT ![va] = [mint |-> p, amount |-> 0], ![vb] = [mint |-> q, amount |-> 0],
                           ![fv] = [mint |-> p, amount |-> 0]]
         /\ bk2 = [bk EXCEPT ![m] = [vault_a |-> va, vault_b |-> vb, fee_vault |-> fv,
                                     a |-> 0, b |-> 0, fee |-> 0]]

\* A trade in which `from` pays i and the fee f and `to` gets o.
TradedFor(m, h, bk, h2, bk2, i, f, from, to, o) ==
  /\ bk[m] # None /\ IsLeastFee(f, i, ProtocolFeeBps)
  /\ bk2 = [bk EXCEPT ![m].a = @ + i, ![m].b = @ - o, ![m].fee = @ + f]
  /\ Pays(h, bk, from, i + f)
  /\ Takes(h, bk[m].vault_a, from, i) /\ Takes(h, bk[m].fee_vault, from, f)
  /\ to \notin {bk[m].vault_a, bk[m].vault_b, bk[m].fee_vault} /\ Takes(h, to, bk[m].vault_b, o)
  /\ h2 = Shift(Shift(Shift(h, from, bk[m].vault_a, i), from, bk[m].fee_vault, f),
                bk[m].vault_b, to, o)

TradeView(m, h, bk, h2, bk2) ==
  \E i \in U64 \ {0}, f \in U64, from \in TokenAccounts, to \in TokenAccounts :
    \E o \in 1 .. bk[m].b : TradedFor(m, h, bk, h2, bk2, i, f, from, to, o)

IntBook ==
  [vault_a : TokenAccounts, vault_b : TokenAccounts, fee_vault : TokenAccounts,
   a : Int, b : Int, fee : Int]

\* The book r is x after a trade.
NextBook(x, r, i, f, o) ==
  /\ x \in IntBook /\ r \in IntBook /\ i \in Int /\ f \in Int /\ o \in Int
  /\ r.vault_a = x.vault_a /\ r.vault_b = x.vault_b /\ r.fee_vault = x.fee_vault
  /\ r.a = x.a + i /\ r.b = x.b - o /\ r.fee = x.fee + f

\* A book is determined by its vaults and amounts.
LEMMA BookTraded ==
  ASSUME NEW x, NEW r, NEW i, NEW f, NEW o, NextBook(x, r, i, f, o)
  PROVE  r = [x EXCEPT !.a = @ + i, !.b = @ - o, !.fee = @ + f]
<1> DEFINE y == [x EXCEPT !.a = @ + i, !.b = @ - o, !.fee = @ + f]
<1>1. /\ y \in IntBook /\ y.vault_a = x.vault_a /\ y.vault_b = x.vault_b /\ y.fee_vault = x.fee_vault
      /\ y.a = x.a + i /\ y.b = x.b - o /\ y.fee = x.fee + f
  BY DEF NextBook, IntBook
<1> HIDE DEF y
<1>2. r = y
  BY <1>1 DEF NextBook, IntBook
<1> QED BY <1>2 DEF y

\* Only Core's vaults are vaults of a book.
LEMMA VaultsInView ==
  ASSUME LedgerSound, NEW a, a \notin CoreVaults
  PROVE  a \notin BookVaults(BooksOf(market, domain, fee_ledger))
<1> DEFINE bk == BooksOf(market, domain, fee_ledger)
<1>1. ASSUME NEW m \in Markets, bk[m] # None
      PROVE  a \notin {bk[m].vault_a, bk[m].vault_b, bk[m].fee_vault}
  <2>1. market[m] # None
    BY <1>1, LedgerFacts, BooksView
  <2>2. /\ bk[m].vault_a = VaultA(m) /\ bk[m].vault_b = VaultB(m)
        /\ bk[m].fee_vault = FeeVaultAt(m, market[m].mint_a)
    BY <2>1 DEF BooksOf, BookOf, VaultA, VaultB, FeeVaultAt
  <2>3. /\ VaultA(m) \in CoreVaults /\ VaultB(m) \in CoreVaults
        /\ FeeVaultAt(m, market[m].mint_a) \in CoreVaults
    BY <2>1, LedgerFacts, MarketNumbers
  <2> QED BY <2>2, <2>3
<1> QED BY <1>1 DEF BookVaults

\* A payment by a wallet is one in the view.
LEMMA PaidInView ==
  ASSUME LedgerSound, token' \in TokenStates, NEW from, NEW to, NEW n, PaidFrom(from, to, n)
  PROVE  /\ from \in TokenAccounts /\ to \in TokenAccounts /\ n \in U64 /\ from # to
         /\ Pays(HoldingsOf(token), BooksOf(market, domain, fee_ledger), from, n)
         /\ Takes(HoldingsOf(token), to, from, n)
         /\ HoldingsOf(token') = Shift(HoldingsOf(token), from, to, n)
<1>1. /\ from \in TokenAccounts /\ to \in TokenAccounts /\ from # to /\ from \notin CoreVaults
      /\ n \in U64
      /\ token[from] # None /\ token[to] # None /\ token[from].mint = token[to].mint
      /\ token[from].amount >= n /\ AddFits(token[to].amount, n)
      /\ Moved(token, token', from, to, n) /\ Kept(token, token')
  BY DEF PaidFrom
<1>2. token \in TokenStates
  BY DEF LedgerSound
<1>3. from \notin BookVaults(BooksOf(market, domain, fee_ledger))
  BY <1>1, VaultsInView
<1>4. HoldingsOf(token') = Shift(HoldingsOf(token), from, to, n)
  BY <1>1, <1>2, PaymentView
<1>5. /\ HoldingsOf(token)[from] # None /\ HoldingsOf(token)[to] # None
      /\ HoldingsOf(token)[from].mint = token[from].mint
      /\ HoldingsOf(token)[to].mint = token[to].mint
      /\ HoldingsOf(token)[from].amount = token[from].amount
      /\ HoldingsOf(token)[to].amount = token[to].amount
  BY <1>1, <1>2, HoldingsView
<1> QED BY <1>1, <1>3, <1>4, <1>5 DEF Pays, Takes

\* A plain transfer is a payment.
LEMMA SplTransferInView ==
  ASSUME LedgerSound, SplTransfer
  PROVE  /\ PayView(HoldingsOf(token), BooksOf(market, domain, fee_ledger), HoldingsOf(token'))
         /\ UNCHANGED <<market, domain, fee_ledger>>
<1>1. UNCHANGED <<market, domain, fee_ledger>>
  BY DEF SplTransfer
<1>2. token' \in TokenStates
  BY SplTransferEffect DEF LedgerSound
<1>3. PICK from \in TokenAccounts, to \in TokenAccounts, n \in U64 : PaidFrom(from, to, n)
  BY SplTransferEffect
<1> QED BY <1>1, <1>2, <1>3, PaidInView DEF PayView

\* deposit_v0 is a deposit.
LEMMA DepositInView ==
  ASSUME LedgerSound, deposit_v0
  PROVE  \E m \in Markets :
           DepositView(m, HoldingsOf(token), BooksOf(market, domain, fee_ledger),
                       HoldingsOf(token'), BooksOf(market', domain', fee_ledger'))
<1>1. LedgerSound'
  BY DepositEffect
<1>2. PICK m \in Markets, source \in TokenAccounts, vault \in TokenAccounts, n \in U64 :
        Deposited(m, source, vault, n)
  BY DepositEffect
<1> DEFINE h == HoldingsOf(token)
           bk == BooksOf(market, domain, fee_ledger)
           bk2 == BooksOf(market', domain', fee_ledger')
<1>3. /\ market[m] # None /\ PaidFrom(source, vault, n) /\ n # 0
      /\ market' = market /\ fee_ledger' = fee_ledger
      /\ \A x \in Markets : x # m => domain'[DomainPda(x)] = domain[DomainPda(x)]
  BY <1>2 DEF Deposited
<1>4. /\ Pays(h, bk, source, n) /\ Takes(h, vault, source, n)
      /\ HoldingsOf(token') = Shift(h, source, vault, n)
  BY <1>1, <1>3, PaidInView DEF LedgerSound
<1>5. /\ bk \in ViewBooks /\ bk2 \in ViewBooks /\ bk[m] # None
      /\ bk[m] = [vault_a |-> VaultA(m), vault_b |-> VaultB(m),
                  fee_vault |-> FeeVaultAt(m, market[m].mint_a),
                  a |-> domain[DomainPda(m)].accounted_a, b |-> domain[DomainPda(m)].accounted_b,
                  fee |-> fee_ledger[FeeLedgerPda(m, market[m].mint_a)].accounted_fee_a]
      /\ bk2[m] = [vault_a |-> VaultA(m), vault_b |-> VaultB(m),
                   fee_vault |-> FeeVaultAt(m, market[m].mint_a),
                   a |-> domain'[DomainPda(m)].accounted_a, b |-> domain'[DomainPda(m)].accounted_b,
                   fee |-> fee_ledger[FeeLedgerPda(m, market[m].mint_a)].accounted_fee_a]
  <2>1. market' = market /\ fee_ledger' = fee_ledger /\ market'[m] # None
    BY <1>3
  <2>2. bk2 \in ViewBooks
    BY <1>1, BooksView DEF LedgerSound
  <2>3. bk2[m] = [vault_a |-> VaultA(m), vault_b |-> VaultB(m),
                   fee_vault |-> FeeVaultAt(m, market'[m].mint_a),
                   a |-> domain'[DomainPda(m)].accounted_a, b |-> domain'[DomainPda(m)].accounted_b,
                   fee |-> fee_ledger'[FeeLedgerPda(m, market'[m].mint_a)].accounted_fee_a]
    BY <1>1, <2>1, BooksView DEF LedgerSound
  <2> QED BY <1>3, <2>1, <2>2, <2>3, LedgerFacts, BooksView
<1>6. \A x \in Markets : x # m => bk2[x] = bk[x]
  BY <1>3 DEF BooksOf, BookOf
<1> HIDE DEF h, bk, bk2
<1>7. CASE /\ vault = VaultA(m)
           /\ domain'[DomainPda(m)].accounted_a = domain[DomainPda(m)].accounted_a + n
           /\ domain'[DomainPda(m)].accounted_b = domain[DomainPda(m)].accounted_b
  <2>1. bk[m].vault_a = vault /\ bk2[m] = [bk[m] EXCEPT !.a = @ + n]
    BY <1>5, <1>7
  <2>2. bk2 = [bk EXCEPT ![m] = [bk[m] EXCEPT !.a = @ + n]]
    BY <1>5, <1>6, <2>1 DEF ViewBooks
  <2>3. bk2 = [bk EXCEPT ![m].a = @ + n]
    BY <2>2
  <2>4. DepositView(m, h, bk, HoldingsOf(token'), bk2)
    BY <1>3, <1>4, <1>5, <2>1, <2>3 DEF DepositView
  <2> QED BY <2>4 DEF h, bk, bk2
<1>8. CASE /\ vault = VaultB(m)
           /\ domain'[DomainPda(m)].accounted_a = domain[DomainPda(m)].accounted_a
           /\ domain'[DomainPda(m)].accounted_b = domain[DomainPda(m)].accounted_b + n
  <2>1. bk[m].vault_b = vault /\ bk2[m] = [bk[m] EXCEPT !.b = @ + n]
    BY <1>5, <1>8
  <2>2. bk2 = [bk EXCEPT ![m] = [bk[m] EXCEPT !.b = @ + n]]
    BY <1>5, <1>6, <2>1 DEF ViewBooks
  <2>3. bk2 = [bk EXCEPT ![m].b = @ + n]
    BY <2>2
  <2>4. DepositView(m, h, bk, HoldingsOf(token'), bk2)
    BY <1>3, <1>4, <1>5, <2>1, <2>3 DEF DepositView
  <2> QED BY <2>4 DEF h, bk, bk2
<1> QED BY <1>2, <1>7, <1>8 DEF Deposited

\* initialize_market_domain_v0 creates an exchange.
LEMMA InitializeInView ==
  ASSUME LedgerSound, initialize_market_domain_v0
  PROVE  \E m \in Markets :
           CreateView(m, HoldingsOf(token), BooksOf(market, domain, fee_ledger),
                      HoldingsOf(token'), BooksOf(market', domain', fee_ledger'))
<1>1. LedgerSound'
  BY InitializeEffect
<1>2. PICK m \in Markets, p \in Mints, q \in Mints : Initialized(m, p, q)
  BY InitializeEffect
<1> DEFINE h == HoldingsOf(token)
           h2 == HoldingsOf(token')
           bk == BooksOf(market, domain, fee_ledger)
           bk2 == BooksOf(market', domain', fee_ledger')
           va == VaultA(m)
           vb == VaultB(m)
           fv == FeeVaultAt(m, p)
<1>3. /\ va \in TokenAccounts /\ vb \in TokenAccounts /\ fv \in TokenAccounts
      /\ va # vb /\ fv # va /\ fv # vb
  BY Addresses DEF TokenAccounts
<1>4. token \in TokenStates /\ token' \in TokenStates
  BY <1>1 DEF LedgerSound
<1>5. /\ h[va] = None /\ h[vb] = None /\ h[fv] = None
      /\ h2[va] = [mint |-> p, amount |-> 0] /\ h2[vb] = [mint |-> q, amount |-> 0]
      /\ h2[fv] = [mint |-> p, amount |-> 0]
      /\ \A x \in TokenAccounts : x \notin {va, vb, fv} => h2[x] = h[x]
      /\ h = [x \in TokenAccounts |-> h[x]] /\ h2 = [x \in TokenAccounts |-> h2[x]]
  <2>1. /\ token[va] = None /\ token[vb] = None /\ token[fv] = None
        /\ token'[va] # None /\ token'[vb] # None /\ token'[fv] # None
        /\ token'[va].mint = p /\ token'[vb].mint = q /\ token'[fv].mint = p
        /\ token'[va].amount = 0 /\ token'[vb].amount = 0 /\ token'[fv].amount = 0
        /\ \A x \in TokenAccounts : x \notin {va, vb, fv} => token'[x] = token[x]
    BY <1>2 DEF Initialized
  <2> HIDE DEF va, vb, fv
  <2> QED BY <1>3, <2>1 DEF HoldingsOf
<1>6. /\ bk[m] = None
      /\ bk2[m] = [vault_a |-> va, vault_b |-> vb, fee_vault |-> fv, a |-> 0, b |-> 0, fee |-> 0]
      /\ bk = [x \in Markets |-> bk[x]] /\ bk2 = [x \in Markets |-> bk2[x]]
  <2>1. market[m] = None /\ market'[m] # None /\ market'[m].mint_a = p
    BY <1>2 DEF Initialized
  <2>2. /\ domain'[DomainPda(m)].accounted_a = 0 /\ domain'[DomainPda(m)].accounted_b = 0
        /\ fee_ledger'[FeeLedgerPda(m, p)].accounted_fee_a = 0
    BY <1>2 DEF Initialized
  <2> QED BY <2>1, <2>2 DEF BooksOf, BookOf, VaultA, VaultB, FeeVaultAt
<1>7. ASSUME NEW x \in Markets, x # m PROVE bk2[x] = bk[x]
  <2>1. /\ market'[x] = market[x] /\ domain'[DomainPda(x)] = domain[DomainPda(x)]
        /\ \A r \in Mints : fee_ledger'[FeeLedgerPda(x, r)] = fee_ledger[FeeLedgerPda(x, r)]
    BY <1>2, <1>7 DEF Initialized
  <2>2. market[x] # None => market[x].mint_a \in Mints
    BY LedgerFacts DEF MarketStates, MarketV0
  <2> QED BY <2>1, <2>2 DEF BooksOf, BookOf
<1>8. p # q
  BY <1>2 DEF Initialized
<1> HIDE DEF h, h2, bk, bk2, va, vb, fv
<1>9. h2 = [h EXCEPT ![va] = [mint |-> p, amount |-> 0], ![vb] = [mint |-> q, amount |-> 0],
                     ![fv] = [mint |-> p, amount |-> 0]]
  BY <1>3, <1>5
<1>10. bk2 = [bk EXCEPT ![m] = [vault_a |-> va, vault_b |-> vb, fee_vault |-> fv,
                                a |-> 0, b |-> 0, fee |-> 0]]
  BY <1>6, <1>7
<1>11. CreateView(m, h, bk, h2, bk2)
  BY <1>3, <1>5, <1>6, <1>8, <1>9, <1>10 DEF CreateView
<1> QED BY <1>11 DEF h, h2, bk, bk2

(***************************************************************************)
(* An execution in flight in the view, whatever decided its output.        *)
(***************************************************************************)
\* Its five accounts.
LEMMA FlightFive ==
  ASSUME NEW t, NEW mk, NEW dm, NEW fl, NEW dn, NEW x, NEW paid, NEW fee, NEW out,
         Flight(t, mk, dm, fl, dn, x, paid, fee, out)
  PROVE  /\ t \in TokenStates /\ HoldingsOf(t) \in Holdings /\ FiveAccounts(HoldingsOf(t), x)
         /\ \A a \in {x.source, x.vault_a, x.fee_vault, x.vault_b, x.destination} :
              /\ a \in TokenAccounts /\ t[a] # None /\ HoldingsOf(t)[a].mint = t[a].mint
              /\ HoldingsOf(t)[a].amount = t[a].amount
              /\ t[a].amount \in U64 /\ t[a].amount \in Int
<1>1. /\ t \in TokenStates /\ t[x.source] # None /\ t[x.destination] # None
      /\ x.source \in TokenAccounts /\ x.destination \in TokenAccounts
      /\ x.destination \notin {x.source, x.vault_a, x.vault_b, x.fee_vault}
  BY DEF Flight, Roles
<1>2. /\ x.vault_a \in TokenAccounts /\ x.vault_b \in TokenAccounts /\ x.fee_vault \in TokenAccounts
      /\ x.vault_a # x.vault_b /\ x.fee_vault # x.vault_a /\ x.fee_vault # x.vault_b
      /\ x.source \notin {x.vault_a, x.vault_b, x.fee_vault}
      /\ t[x.vault_a] # None /\ t[x.vault_b] # None /\ t[x.fee_vault] # None
  BY FlightKeys
<1>3. FiveAccounts(HoldingsOf(t), x)
  BY <1>1, <1>2, HoldingsView DEF FiveAccounts, Pair
<1>4. ASSUME NEW a \in {x.source, x.vault_a, x.fee_vault, x.vault_b, x.destination}
      PROVE  /\ a \in TokenAccounts /\ t[a] # None /\ HoldingsOf(t)[a].mint = t[a].mint
             /\ HoldingsOf(t)[a].amount = t[a].amount
             /\ t[a].amount \in U64 /\ t[a].amount \in Int
  <2>1. a \in TokenAccounts /\ t[a] # None
    BY <1>1, <1>2
  <2> QED BY <1>1, <2>1, HoldingsView
<1>5. HoldingsOf(t) \in Holdings
  BY <1>1, HoldingsView
<1> QED BY <1>1, <1>3, <1>4, <1>5

\* The execution x in phase p, when out is its output.
FlightAt(t, mk, dm, fl, dn, x, p, out) ==
  /\ Flight(t, mk, dm, fl, dn, x, InputMade(p, x), FeeMade(p, x), OutputMade(p, out))
  /\ x.args.amount_in \in Int /\ x.protocol_fee \in Int /\ out \in Int

\* The holdings without the payments made.
LEMMA FlightTakenBack ==
  ASSUME NEW t, NEW mk, NEW dm, NEW fl, NEW dn, NEW x, NEW p, NEW out,
         FlightAt(t, mk, dm, fl, dn, x, p, out)
  PROVE  TakenBack(HoldingsOf(t), UnsettledAt(p, HoldingsOf(t), x, out), x,
                   InputMade(p, x), FeeMade(p, x), OutputMade(p, out))
<1>1. HoldingsOf(t) \in Holdings /\ FiveAccounts(HoldingsOf(t), x)
  BY FlightFive DEF FlightAt
<1> QED BY <1>1, UnsettledFacts DEF FlightAt

\* A payment of a settlement is no step in the view.
LEMMA PaymentUnseen ==
  ASSUME NEW t, NEW r, NEW mk, NEW dm, NEW fl, NEW dn, NEW dn2, NEW x, NEW p, NEW q, NEW out,
         FlightAt(t, mk, dm, fl, dn, x, p, out), FlightAt(r, mk, dm, fl, dn2, x, q, out),
         Kept(t, r),
         \A a \in TokenAccounts :
           a \notin {x.source, x.vault_a, x.fee_vault, x.vault_b, x.destination} => r[a] = t[a]
  PROVE  UnsettledAt(q, HoldingsOf(r), x, out) = UnsettledAt(p, HoldingsOf(t), x, out)
<1> DEFINE h == HoldingsOf(t)
           k == HoldingsOf(r)
           i == InputMade(p, x)
           f == FeeMade(p, x)
           o == OutputMade(p, out)
           i2 == InputMade(q, x)
           f2 == FeeMade(q, x)
           o2 == OutputMade(q, out)
           before == UnsettledAt(p, h, x, out)
           after == UnsettledAt(q, k, x, out)
<1>1. TakenBack(h, before, x, i, f, o) /\ TakenBack(k, after, x, i2, f2, o2)
  BY FlightTakenBack
<1>2. /\ Flight(t, mk, dm, fl, dn, x, i, f, o) /\ Flight(r, mk, dm, fl, dn2, x, i2, f2, o2)
  BY DEF FlightAt
<1>3. /\ i \in Int /\ f \in Int /\ o \in Int /\ i2 \in Int /\ f2 \in Int /\ o2 \in Int
  BY DEF FlightAt, InputMade, FeeMade, OutputMade
<1>4. h \in Holdings /\ k \in Holdings /\ FiveAccounts(h, x) /\ FiveAccounts(k, x)
      /\ t \in TokenStates /\ r \in TokenStates
  BY <1>2, FlightFive
<1>5. SameTokens(h, k)
  BY <1>4, HoldingsView DEF Kept, SameTokens
<1>6. /\ \A a \in {x.source, x.vault_a, x.fee_vault, x.vault_b, x.destination} :
           h[a].amount = t[a].amount /\ k[a].amount = r[a].amount
      /\ \A a \in TokenAccounts :
           a \notin {x.source, x.vault_a, x.fee_vault, x.vault_b, x.destination} => k[a] = h[a]
  <2>1. /\ \A a \in {x.source, x.vault_a, x.fee_vault, x.vault_b, x.destination} :
             h[a].amount = t[a].amount
    BY <1>2, FlightFive
  <2>2. /\ \A a \in {x.source, x.vault_a, x.fee_vault, x.vault_b, x.destination} :
             k[a].amount = r[a].amount
    BY <1>2, FlightFive
  <2>3. \A a \in TokenAccounts : r[a] = t[a] => k[a] = h[a]
    BY DEF HoldingsOf
  <2> QED BY <2>1, <2>2, <2>3
<1> HIDE DEF h, k, i, f, o, i2, f2, o2, before, after
<1>7. /\ Reads(t, dm, fl, x, i, f, o) /\ Reads(r, dm, fl, x, i2, f2, o2) /\ Copies(x)
  BY <1>2 DEF Flight
<1>8. /\ h[x.source].amount = x.source_before - (i + f)
      /\ h[x.vault_a].amount = x.vault_a_before + i
      /\ h[x.fee_vault].amount = x.fee_vault_before + f
      /\ h[x.vault_b].amount = x.vault_b_before - o
      /\ h[x.destination].amount = x.destination_before + o
      /\ k[x.source].amount = x.source_before - (i2 + f2)
      /\ k[x.vault_a].amount = x.vault_a_before + i2
      /\ k[x.fee_vault].amount = x.fee_vault_before + f2
      /\ k[x.vault_b].amount = x.vault_b_before - o2
      /\ k[x.destination].amount = x.destination_before + o2
  BY <1>6, <1>7 DEF Reads
<1>9. /\ k[x.source].amount = h[x.source].amount - (i2 - i) - (f2 - f)
      /\ k[x.vault_a].amount = h[x.vault_a].amount + (i2 - i)
      /\ k[x.fee_vault].amount = h[x.fee_vault].amount + (f2 - f)
      /\ k[x.vault_b].amount = h[x.vault_b].amount - (o2 - o)
      /\ k[x.destination].amount = h[x.destination].amount + (o2 - o)
  BY <1>3, <1>7, <1>8 DEF Copies
<1>10. after = before
  BY <1>1, <1>3, <1>4, <1>5, <1>6, <1>9, PaymentHidden
<1> QED BY <1>10 DEF before, after, h, k

\* The accounting dm2 and fl2 of the three payments is written.
Settles(t, mk, dm, fl, dn, x, i, f, o, dm2, fl2) ==
  /\ Flight(t, mk, dm, fl, dn, x, i, f, o) /\ Written(dm, fl, dm2, fl2, x, i, f, o)
  /\ i \in U64 /\ i > 0 /\ f \in U64 /\ o \in U64 /\ o > 0 /\ o <= x.accounted_b
  /\ IsLeastFee(f, i, ProtocolFeeBps)
  /\ t[x.source].mint = mk[x.market].mint_a

\* Writing it is one trade of the market.
LEMMA SettlementTrades ==
  ASSUME NEW t, NEW mk, NEW dm, NEW fl, NEW dn, NEW x, NEW i, NEW f, NEW o, NEW dm2, NEW fl2,
         Settles(t, mk, dm, fl, dn, x, i, f, o, dm2, fl2),
         NEW r, TakenBack(HoldingsOf(t), r, x, i, f, o)
  PROVE  TradeView(x.market, r, BooksOf(mk, dm, fl), HoldingsOf(t), BooksOf(mk, dm2, fl2))
<1> DEFINE m == x.market
           h == HoldingsOf(t)
           bk == BooksOf(mk, dm, fl)
           bk2 == BooksOf(mk, dm2, fl2)
<1>1. /\ Flight(t, mk, dm, fl, dn, x, i, f, o) /\ Written(dm, fl, dm2, fl2, x, i, f, o)
      /\ i \in U64 /\ i > 0 /\ f \in U64 /\ o \in U64 /\ o > 0 /\ o <= x.accounted_b
      /\ IsLeastFee(f, i, ProtocolFeeBps) /\ t[x.source].mint = mk[m].mint_a
  BY DEF Settles
<1>2. /\ i \in Int /\ f \in Int /\ o \in Int
  BY <1>1, MathAssumption DEF U64
<1>3. /\ t \in TokenStates /\ mk \in MarketStates /\ dm \in DomainStates /\ fl \in FeeLedgerStates
      /\ dn \in DonatedStates /\ Canonical(t, mk, dm, fl, dn)
      /\ m \in Markets /\ mk[m] # None
      /\ x.domain = DomainPda(m) /\ x.fee_ledger = FeeLedgerPda(m, mk[m].mint_a)
      /\ x.vault_a = VaultA(m) /\ x.vault_b = VaultB(m) /\ x.fee_vault = FeeVaultAt(m, mk[m].mint_a)
      /\ x.source \in TokenAccounts /\ x.source \notin CoreVaults /\ x.destination \in TokenAccounts
      /\ x.destination \notin {x.vault_a, x.vault_b, x.fee_vault}
      /\ t[x.destination].mint = mk[m].mint_b
      /\ x.accounted_b = dm[x.domain].accounted_b
  BY <1>1 DEF Flight, Roles, Reads
<1>4. /\ h \in Holdings /\ FiveAccounts(h, x)
      /\ \A a \in {x.source, x.vault_a, x.fee_vault, x.vault_b, x.destination} :
           /\ a \in TokenAccounts /\ t[a] # None /\ h[a].mint = t[a].mint
           /\ h[a].amount = t[a].amount /\ t[a].amount \in U64
  BY <1>1, FlightFive
<1>5. /\ dm2 \in DomainStates /\ fl2 \in FeeLedgerStates /\ Canonical(t, mk, dm2, fl2, dn)
      /\ dm2[x.domain].accounted_a = dm[x.domain].accounted_a + i
      /\ dm2[x.domain].accounted_b = dm[x.domain].accounted_b - o
      /\ fl2[x.fee_ledger].accounted_fee_a = fl[x.fee_ledger].accounted_fee_a + f
      /\ \A d \in Domains : d # x.domain => dm2[d] = dm[d]
      /\ \A l \in FeeLedgers : l # x.fee_ledger => fl2[l] = fl[l]
  BY <1>1, FlightCloses
<1>6. /\ bk \in ViewBooks /\ bk2 \in ViewBooks /\ bk[m] # None
      /\ bk[m] = [vault_a |-> x.vault_a, vault_b |-> x.vault_b, fee_vault |-> x.fee_vault,
                  a |-> dm[x.domain].accounted_a, b |-> dm[x.domain].accounted_b,
                  fee |-> fl[x.fee_ledger].accounted_fee_a]
      /\ bk2[m] = [vault_a |-> x.vault_a, vault_b |-> x.vault_b, fee_vault |-> x.fee_vault,
                   a |-> dm2[x.domain].accounted_a, b |-> dm2[x.domain].accounted_b,
                   fee |-> fl2[x.fee_ledger].accounted_fee_a]
  BY <1>3, <1>5, BooksView
<1>7. /\ dm[x.domain].accounted_a \in U64 /\ dm[x.domain].accounted_b \in U64
      /\ fl[x.fee_ledger].accounted_fee_a \in U64
      /\ dm2[x.domain].accounted_a \in Int /\ dm2[x.domain].accounted_b \in Int
      /\ fl2[x.fee_ledger].accounted_fee_a \in Int
  <2>1. dm[x.domain] \in DomainV0 /\ fl[x.fee_ledger] \in FeeLedgerV0
    BY <1>1, FlightKeys
  <2>2. /\ dm[x.domain].accounted_a \in U64 /\ dm[x.domain].accounted_b \in U64
        /\ fl[x.fee_ledger].accounted_fee_a \in U64
    BY <2>1 DEF DomainV0, FeeLedgerV0
  <2> QED BY <1>2, <1>5, <2>2, MathAssumption DEF U64
<1>8. ASSUME NEW n \in Markets, n # m PROVE bk2[n] = bk[n]
  <2>1. CASE mk[n] = None
    BY <2>1 DEF BooksOf
  <2>2. CASE mk[n] # None
    <3>1. /\ DomainPda(n) \in Domains /\ DomainPda(n) # x.domain
          /\ FeeLedgerPda(n, mk[n].mint_a) \in FeeLedgers
          /\ FeeLedgerPda(n, mk[n].mint_a) # x.fee_ledger
      BY <1>1, <1>8, <2>2, OtherMarkets
    <3> QED BY <1>5, <2>2, <3>1 DEF BooksOf, BookOf
  <2> QED BY <2>1, <2>2
<1>9. x.source \notin BookVaults(bk)
  <2>1. ASSUME NEW n \in Markets, bk[n] # None
        PROVE  x.source \notin {bk[n].vault_a, bk[n].vault_b, bk[n].fee_vault}
    <3>1. mk[n] # None
      BY <2>1 DEF BooksOf
    <3>2. /\ bk[n].vault_a = VaultA(n) /\ bk[n].vault_b = VaultB(n)
          /\ bk[n].fee_vault = FeeVaultAt(n, mk[n].mint_a)
      BY <3>1 DEF BooksOf, BookOf, VaultA, VaultB, FeeVaultAt
    <3>3. /\ VaultA(n) \in CoreVaults /\ VaultB(n) \in CoreVaults
          /\ FeeVaultAt(n, mk[n].mint_a) \in CoreVaults
      BY <1>3, <3>1, MarketNumbers
    <3> QED BY <1>3, <3>2, <3>3
  <2> QED BY <2>1 DEF BookVaults
<1>10. /\ t[x.vault_a].mint = mk[m].mint_a /\ t[x.fee_vault].mint = mk[m].mint_a
       /\ t[x.vault_b].mint = mk[m].mint_b
  BY <1>3 DEF Canonical, IsVault
<1>11. h = Shift(Shift(Shift(r, x.source, x.vault_a, i), x.source, x.fee_vault, f),
                 x.vault_b, x.destination, o)
  <2> HIDE DEF h
  <2>1. TakenBack(h, r, x, i, f, o)
    BY DEF h
  <2> QED BY <1>2, <1>4, <2>1, TradeMade
<1> HIDE DEF h, bk, bk2, m
<1>12. /\ r[x.source].amount = h[x.source].amount + i + f
       /\ r[x.vault_a].amount = h[x.vault_a].amount - i
       /\ r[x.fee_vault].amount = h[x.fee_vault].amount - f
       /\ r[x.destination].amount = h[x.destination].amount - o
       /\ SameTokens(h, r)
  BY DEF TakenBack, h
<1>13. /\ r[x.source] # None /\ r[x.vault_a] # None /\ r[x.fee_vault] # None
       /\ r[x.vault_b] # None /\ r[x.destination] # None
       /\ r[x.source].mint = mk[m].mint_a /\ r[x.vault_a].mint = mk[m].mint_a
       /\ r[x.fee_vault].mint = mk[m].mint_a /\ r[x.vault_b].mint = mk[m].mint_b
       /\ r[x.destination].mint = mk[m].mint_b
  <2>1. \A a \in {x.source, x.vault_a, x.fee_vault, x.vault_b, x.destination} :
          a \in TokenAccounts /\ h[a] # None
    BY <1>4, FiveAmounts
  <2> QED BY <1>1, <1>3, <1>4, <1>10, <1>12, <2>1 DEF SameTokens, m
<1>14. /\ h[x.source].amount \in U64 /\ h[x.vault_a].amount \in U64
       /\ h[x.fee_vault].amount \in U64 /\ h[x.destination].amount \in U64
  BY <1>4
<1>15. Pays(r, bk, x.source, i + f)
  BY <1>2, <1>9, <1>12, <1>13, <1>14, MathAssumption DEF Pays, U64
<1>16. /\ Takes(r, x.vault_a, x.source, i) /\ Takes(r, x.fee_vault, x.source, f)
       /\ Takes(r, x.destination, x.vault_b, o)
  BY <1>2, <1>12, <1>13, <1>14, MathAssumption DEF Takes, AddFits, U64
<1>17. bk2 = [bk EXCEPT ![m].a = @ + i, ![m].b = @ - o, ![m].fee = @ + f]
  <2>1. bk[m] \in IntBook /\ bk2[m] \in IntBook
    BY <1>4, <1>6, <1>7, MathAssumption DEF IntBook, U64
  <2>2. NextBook(bk[m], bk2[m], i, f, o)
    BY <1>2, <1>5, <1>6, <2>1 DEF NextBook
  <2>3. bk2[m] = [bk[m] EXCEPT !.a = @ + i, !.b = @ - o, !.fee = @ + f]
    BY <2>2, BookTraded
  <2>4. bk = [n \in Markets |-> bk[n]] /\ bk2 = [n \in Markets |-> bk2[n]]
    BY DEF bk, bk2, BooksOf
  <2>5. m \in Markets
    BY <1>3 DEF m
  <2>6. bk2 = [bk EXCEPT ![m] = [bk[m] EXCEPT !.a = @ + i, !.b = @ - o, !.fee = @ + f]]
    BY <1>8, <2>3, <2>4, <2>5
  <2> QED BY <2>6
<1>18. i \in U64 \ {0} /\ o \in 1 .. bk[m].b
  <2>1. bk[m].b = dm[x.domain].accounted_b
    BY <1>6
  <2> QED BY <1>1, <1>2, <1>3, <1>7, <2>1, MathAssumption DEF U64
<1>19. bk[m].vault_a = x.vault_a /\ bk[m].vault_b = x.vault_b /\ bk[m].fee_vault = x.fee_vault
  BY <1>6
<1>20. TradedFor(m, r, bk, h, bk2, i, f, x.source, x.destination, o)
  BY <1>1, <1>3, <1>6, <1>11, <1>15, <1>16, <1>17, <1>19 DEF TradedFor
<1>21. TradeView(m, r, bk, h, bk2)
  BY <1>1, <1>3, <1>18, <1>20 DEF TradeView
<1> QED BY <1>21 DEF m, h, bk, bk2
=============================================================================
