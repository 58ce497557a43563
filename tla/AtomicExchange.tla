--------------------------- MODULE AtomicExchange ---------------------------
(***************************************************************************)
(* What every Core of the repository promises, without its engines, phases *)
(* and addresses.  Accounts hold amounts of one token each.  An exchange   *)
(* has three vaults and a book of what it owes: its two reserves and the   *)
(* fees.  A trade is ONE step: the payer gives the input and the fee, the  *)
(* exchange gives the output, and the book follows.  Nothing else takes    *)
(* from a vault.  Trades happen inside transactions, which leave either    *)
(* everything they did or nothing.                                         *)
(***************************************************************************)
EXTENDS CoreMath, FiniteSetsExt

CONSTANTS Accounts, Mints, Exchanges, None

VARIABLES
  held,        \* the token and amount each account holds; None before it exists
  books,       \* the book of each exchange; None before it exists
  committed    \* inside a transaction, held and books as they were before it

vars == <<held, books, committed>>

Holding == [mint : Mints, amount : U64]
Book == [vault_a : Accounts, vault_b : Accounts, fee_vault : Accounts,
         a : U64, b : U64, fee : U64]

\* The accounts of a chain are finitely many.
ASSUME FiniteAssumption == IsFiniteSet(Accounts)

ASSUME ExchangeAssumption ==
  /\ None \notin Holding \cup Book
  /\ None \notin [held : [Accounts -> Holding \cup {None}],
                  books : [Exchanges -> Book \cup {None}]]

Open(bk) == {m \in Exchanges : bk[m] # None}
VaultsOf(book) == {book.vault_a, book.vault_b, book.fee_vault}
Vaults == UNION {VaultsOf(books[m]) : m \in Open(books)}

\* Every book is covered, and no account is the vault of two things.
Covered(h, bk) ==
  /\ \A m \in Open(bk) :
       /\ \A v \in VaultsOf(bk[m]) : h[v] # None
       /\ h[bk[m].vault_a].amount >= bk[m].a
       /\ h[bk[m].vault_b].amount >= bk[m].b
       /\ h[bk[m].fee_vault].amount >= bk[m].fee
       /\ bk[m].vault_a # bk[m].vault_b
       /\ bk[m].fee_vault \notin {bk[m].vault_a, bk[m].vault_b}
  /\ \A m1, m2 \in Open(bk) : m1 # m2 => VaultsOf(bk[m1]) \cap VaultsOf(bk[m2]) = {}

Init ==
  /\ held \in [Accounts -> Holding \cup {None}]
  /\ books \in [Exchanges -> Book \cup {None}]
  /\ Covered(held, books)
  /\ committed = None

(***************************************************************************)
(* Transactions.                                                           *)
(***************************************************************************)
Begin ==
  /\ committed = None
  /\ committed' = [held |-> held, books |-> books]
  /\ UNCHANGED <<held, books>>

Commit ==
  /\ committed # None
  /\ committed' = None
  /\ UNCHANGED <<held, books>>

Abort ==
  /\ committed # None
  /\ held' = committed.held
  /\ books' = committed.books
  /\ committed' = None

(***************************************************************************)
(* What happens inside one.                                                *)
(***************************************************************************)
\* An account that exists, outside every exchange, with at least the amount n.
CanPay(from, n) == from \notin Vaults /\ held[from] # None /\ held[from].amount >= n

\* An account that exists and can take the amount n of the token of another.
CanTake(to, from, n) ==
  held[to] # None /\ held[to].mint = held[from].mint /\ AddFits(held[to].amount, n)

Add(holding, n) == [holding EXCEPT !.amount = @ + n]
Moved(h, from, to, n) ==
  [a \in Accounts |-> CASE a = from -> Add(h[a], -n) [] a = to -> Add(h[a], n) [] OTHER -> h[a]]

Create(m) ==
  /\ books[m] = None
  /\ \E mint_a, mint_b \in Mints : mint_a # mint_b /\
       \E va \in Accounts : held[va] = None /\
       \E vb \in Accounts \ {va} : held[vb] = None /\
       \E fv \in Accounts \ {va, vb} :
         /\ held[fv] = None
         /\ held' = [held EXCEPT ![va] = [mint |-> mint_a, amount |-> 0],
                                 ![vb] = [mint |-> mint_b, amount |-> 0],
                                 ![fv] = [mint |-> mint_a, amount |-> 0]]
         /\ books' = [books EXCEPT ![m] = [vault_a |-> va, vault_b |-> vb, fee_vault |-> fv,
                                           a |-> 0, b |-> 0, fee |-> 0]]

\* n goes from an account to the vault and into the reserve of one side.
DepositInto(vault, from, n) ==
  /\ CanPay(from, n)
  /\ CanTake(vault, from, n)
  /\ held' = Moved(held, from, vault, n)

Deposit(m) ==
  /\ books[m] # None
  /\ \E n \in U64 \ {0} :
       \/ /\ books' = [books EXCEPT ![m].a = @ + n]
          /\ \E from \in Accounts : DepositInto(books[m].vault_a, from, n)
       \/ /\ books' = [books EXCEPT ![m].b = @ + n]
          /\ \E from \in Accounts : DepositInto(books[m].vault_b, from, n)

\* Faulty variant of TradePayments: the fee is booked and not paid.
TradePaymentsWithoutFee(m, from, to, input, fee, output) ==
  Moved(Moved(held, from, books[m].vault_a, input), books[m].vault_b, to, output)

\* Faulty variant of TradePayments: the vault keeps what it pays out.
TradePaymentsUndebited(m, from, to, input, fee, output) ==
  [a \in Accounts |->
     IF a = to THEN Add(held[a], output)
     ELSE Moved(Moved(held, from, books[m].vault_a, input), from, books[m].fee_vault, fee)[a]]

\* The three payments of a trade.
TradePayments(m, from, to, input, fee, output) ==
  Moved(Moved(Moved(held, from, books[m].vault_a, input), from, books[m].fee_vault, fee),
        books[m].vault_b, to, output)

\* The fee is the least one, and the reserve covers the output.
Trade(m) ==
  /\ books[m] # None
  /\ \E input \in U64 \ {0} :
     \E fee \in {f \in U64 : IsLeastFee(f, input, ProtocolFeeBps)} :
     \E output \in 1 .. books[m].b :
       /\ books' = [books EXCEPT ![m].a = @ + input, ![m].b = @ - output, ![m].fee = @ + fee]
       /\ \E from \in Accounts :
            /\ CanPay(from, input + fee)
            /\ CanTake(books[m].vault_a, from, input)
            /\ CanTake(books[m].fee_vault, from, fee)
            /\ \E to \in Accounts \ VaultsOf(books[m]) :
                 /\ CanTake(to, books[m].vault_b, output)
                 /\ held' = TradePayments(m, from, to, input, fee, output)

\* A payment that no book records; into a vault it is a donation.
Pay ==
  /\ UNCHANGED books
  /\ \E from, to \in Accounts, n \in U64 :
       /\ from # to
       /\ CanPay(from, n)
       /\ CanTake(to, from, n)
       /\ held' = Moved(held, from, to, n)

Inside ==
  /\ committed # None
  /\ UNCHANGED committed
  /\ \/ Pay
     \/ \E m \in Exchanges : Create(m) \/ Deposit(m) \/ Trade(m)

Next == Begin \/ Commit \/ Abort \/ Inside

Spec == Init /\ [][Next]_vars

(***************************************************************************)
(* Properties.                                                             *)
(***************************************************************************)
\* At every moment, and also in what a rollback would restore, every exchange can
\* pay what its book owes from vaults that are its own (accounted_a, accounted_b and
\* accounted_fee_a against the SPL balances of the canonical vaults).
Solvent ==
  /\ Covered(held, books)
  /\ committed # None => Covered(committed.held, committed.books)

Owners(h, mint) == {a \in Accounts : h[a] # None /\ h[a].mint = mint}
Supply(h, mint) == MapThenSumSet(LAMBDA a : h[a].amount, Owners(h, mint))

\* No step, a rollback included, makes or destroys tokens: settlement only moves them.
SupplyConserved == [][\A mint \in Mints : Supply(held', mint) = Supply(held, mint)]_vars
=============================================================================
