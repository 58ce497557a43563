-------------------------- MODULE RoutedExchange ---------------------------
(***************************************************************************)
(* The routed-callback Core implements AtomicExchange.                     *)
(***************************************************************************)
EXTENDS RoutedCallback, ExchangeView

Exchange == INSTANCE AtomicExchange WITH
  Accounts <- TokenAccounts, Exchanges <- Markets,
  held <- Unsettled(HoldingsOf(token), ix, ix.amount_out),
  books <- BooksOf(market, domain, fee_ledger),
  committed <- CommittedView

\* Whoever routes an intent, and in one phase or in two, the routed Core behaves as
\* an exchange whose trades are single steps: the transfers made before COMMIT are
\* seen by nobody until the accounting is written, and an engine that refuses to
\* commit undoes them all.
RoutedImplementsExchange == Exchange!Spec
=============================================================================
