------------------------ MODULE GeneratedExchange --------------------------
(***************************************************************************)
(* Engine-generated settlement implements AtomicExchange.                  *)
(***************************************************************************)
EXTENDS GeneratedSettlement, ExchangeView

Exchange == INSTANCE AtomicExchange WITH
  Accounts <- TokenAccounts, Exchanges <- Markets,
  held <- Unsettled(HoldingsOf(token), ix, ix.amount_out),
  books <- BooksOf(market, domain, fee_ledger),
  committed <- CommittedView

\* Whatever output the engine decides, and whatever accounts it was handed, Core
\* behaves as an exchange whose trades are single steps: the output is covered by
\* the accounted reserve, the fee is the rounded-up one, and no other vault pays.
GeneratedImplementsExchange == Exchange!Spec
=============================================================================
