------------------------------ MODULE CatchUp ------------------------------
(***************************************************************************)
(* What the consensus loop relies on when it syncs: a session that ends    *)
(* without an error has brought the chain to the height the peer claimed   *)
(* last, only a session or a node that is in sync writes blocks, the chain *)
(* never gets shorter, and every session ends in which the peer answers.   *)
(***************************************************************************)
EXTENDS Integers

VARIABLES
  height, goal, state,
  hung \* the session waits for an answer that need not come
vars == <<height, goal, state>>

Init == height \in Nat /\ goal = 0 /\ state = "rest"

Begin == state = "rest" /\ state' = "busy" /\ goal' = 0 /\ height' = height
Write == state # "rest" /\ height' > height /\ UNCHANGED <<goal, state>>
\* The height the peer claims has been reached.
Reach == state = "busy" /\ goal' > 0 /\ goal' <= height /\ UNCHANGED <<height, state>>
Return == state = "busy" /\ goal > 0 /\ state' = "synced" /\ UNCHANGED <<height, goal>>
NothingToDo == state = "rest" /\ state' = "synced" /\ goal' = 0 /\ height' = height
\* An error, a timeout, or a better peer.
Leave == state # "rest" /\ state' = "rest" /\ goal' = 0 /\ height' = height

Next == Begin \/ Write \/ Reach \/ Return \/ NothingToDo \/ Leave
Spec == Init /\ [][Next]_vars /\ WF_vars(~hung /\ (Return \/ (state = "busy" /\ Leave)))
=============================================================================
