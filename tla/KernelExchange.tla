-------------------------- MODULE KernelExchange ---------------------------
(***************************************************************************)
(* The authority kernel implements AtomicExchange.                         *)
(***************************************************************************)
EXTENDS AuthorityKernel, ExchangeView

Exchange == INSTANCE AtomicExchange WITH
  Accounts <- TokenAccounts, Exchanges <- Markets,
  held <- Unsettled(HoldingsOf(token), ix, ix.args.amount_out),
  books <- BooksOf(market, domain, fee_ledger),
  committed <- CommittedView

\* Whatever engine approves, and wherever a transaction fails, the kernel behaves as
\* an exchange whose trades are single steps: execute_engine_probe_v0 pays the
\* rounded-up fee, never pays more than the accounted reserve, takes from no vault
\* but the market's own, and leaves nothing of an aborted execution behind.
KernelImplementsExchange == Exchange!Spec
=============================================================================
