------------------------------ MODULE MCSyncer ------------------------------
(* Instances of Syncer for TLC. *)
EXTENDS Syncer

\* A chain of four blocks, and one of two that parts from it at genesis.
Fork == {<<>>, <<1>>, <<1, 1>>, <<1, 1, 1>>, <<2>>, <<2, 1>>}
Heads == {<<>>, <<2, 1>>}
=============================================================================
