-------------------------- MODULE MCAtomicExchange --------------------------
(* A small instance of AtomicExchange for TLC. *)
EXTENDS AtomicExchange, TLC

CONSTANTS x1, x2, mA, mB, p1, p2, v1, v2, v3, v4, v5, v6

NewBook(va, vb, fv, a, b) ==
  [vault_a |-> va, vault_b |-> vb, fee_vault |-> fv, a |-> a, b |-> b, fee |-> 0]

\* Two wallets' accounts, one exchange with reserves, and room for another.
MCInit ==
  /\ held = [a \in Accounts |->
       CASE a = p1 -> [mint |-> mA, amount |-> 3]
         [] a = p2 -> [mint |-> mB, amount |-> 1]
         [] a = v1 -> [mint |-> mA, amount |-> 1]
         [] a = v2 -> [mint |-> mB, amount |-> 2]
         [] a = v3 -> [mint |-> mA, amount |-> 0]
         [] OTHER -> None]
  /\ books = [m \in Exchanges |-> IF m = x1 THEN NewBook(v1, v2, v3, 1, 2) ELSE None]
  /\ committed = None

MCSpec == MCInit /\ [][Next]_vars

Fresh == Permutations({v4, v5, v6})
=============================================================================
