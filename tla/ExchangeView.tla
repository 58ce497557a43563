---------------------------- MODULE ExchangeView ----------------------------
(***************************************************************************)
(* How the accounts of a Core are read as an AtomicExchange.               *)
(***************************************************************************)
EXTENDS CoreLedger

HoldingsOf(t) ==
  [a \in TokenAccounts |->
     IF t[a] = None THEN None ELSE [mint |-> t[a].mint, amount |-> t[a].amount]]

BookOf(mk, dm, fl, m) ==
  LET d == DomainPda(m)
      l == FeeLedgerPda(m, mk[m].mint_a)
  IN  [vault_a |-> canonical_domain_vault(d, ASSET_A_INDEX_V0),
       vault_b |-> canonical_domain_vault(d, ASSET_B_INDEX_V0),
       fee_vault |-> canonical_fee_vault(l),
       a |-> dm[d].accounted_a, b |-> dm[d].accounted_b, fee |-> fl[l].accounted_fee_a]

BooksOf(mk, dm, fl) ==
  [m \in Markets |-> IF mk[m] = None THEN None ELSE BookOf(mk, dm, fl, m)]

ViewHoldings == [TokenAccounts -> [mint : Mints, amount : U64] \cup {None}]
ViewBooks ==
  [Markets -> [vault_a : TokenAccounts, vault_b : TokenAccounts, fee_vault : TokenAccounts,
               a : U64, b : U64, fee : U64] \cup {None}]

\* A holding, a book and a view that exist are not absent ones.
ASSUME ViewAssumption ==
  /\ None \notin [mint : Mints, amount : Int]
  /\ None \notin [vault_a : TokenAccounts, vault_b : TokenAccounts, fee_vault : TokenAccounts,
                  a : U64, b : U64, fee : U64]
  /\ None \notin [held : ViewHoldings, books : ViewBooks]

\* What the transaction in flight would be rolled back to.
CommittedView ==
  IF phase = "idle" THEN None
  ELSE [held |-> HoldingsOf(saved.token),
        books |-> BooksOf(saved.market, saved.domain, saved.fee_ledger)]

\* The payments of a settlement that have been made when it reaches phase p.
PaymentsMade(p) ==
  CASE p = "fee" -> 1
    [] p = "output" -> 2
    [] p \in {"settle", "commit", "commit_receipt", "finalize"} -> 3
    [] OTHER -> 0

Unpaid(h, from, to, n) ==
  [a \in TokenAccounts |-> CASE a = from -> [h[a] EXCEPT !.amount = @ + n]
                             [] a = to -> [h[a] EXCEPT !.amount = @ - n]
                             [] OTHER -> h[a]]

\* The holdings without the payments made so far for the execution x, whose output
\* is amount_out: a trade happens when its accounting is written.
Unsettled(h, x, amount_out) ==
  LET made == PaymentsMade(phase)
      noInput == IF made >= 1 THEN Unpaid(h, x.source, x.vault_a, x.args.amount_in) ELSE h
      noFee == IF made >= 2 THEN Unpaid(noInput, x.source, x.fee_vault, x.protocol_fee)
                 ELSE noInput
  IN  IF made >= 3 THEN Unpaid(noFee, x.vault_b, x.destination, amount_out) ELSE noFee
=============================================================================
