------------------------------ MODULE MCTxPool ------------------------------
(* Instances of TxPool for TLC. *)
EXTENDS TxPool

CONSTANT A

Tx(n, i, s) == [from |-> A, nonce |-> n, id |-> i, slots |-> s]

\* One account with two rival transactions of nonce 1, one of them of two slots.
Rivals == {Tx(0, 1, 1), Tx(1, 1, 1), Tx(1, 2, 2)}
=============================================================================
