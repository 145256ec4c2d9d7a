------------------------------ MODULE MCChain ------------------------------
(* Instances of Chain for TLC. *)
EXTENDS Chain

\* A chain of two blocks and one of three that part at the genesis block.
TwoChains == {<<>>, <<1>>, <<1, 1>>, <<2>>, <<2, 1>>, <<2, 1, 1>>}

\* A chain of one block and one of four: long enough for two failed writes to
\* leave the difficulties of a child and a grandchild of a later head.
LongFork == {<<>>, <<1>>, <<2>>, <<2, 1>>, <<2, 1, 1>>, <<2, 1, 1, 1>>}
=============================================================================
