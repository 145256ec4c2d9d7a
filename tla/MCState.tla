------------------------------ MODULE MCState ------------------------------
(* Instances of what a block's state root rests on, for TLC: the execution of *)
(* its transactions, the tries that keep accounts and slots, and the roots of *)
(* the lists in its header.  They share no state, and a behaviour is one of   *)
(* one of them.                                                               *)
EXTENDS MCExecutor

VARIABLES
  part,
  heap, cache, storage, snap, content, commits, steps,
  dst, right, calls

\* Paths of three nibbles: a shared prefix of two, of one, and none.
PathOf(x) ==
  CASE x = "a" -> <<0, 0, 0>> [] x = "b" -> <<0, 0, 5>>
    [] x = "c" -> <<0, 5, 0>> [] x = "d" -> <<5, 0, 0>>
Bytes(v) == IF Len(v) = 1 THEN v[1] ELSE 9
Obj(a, del, n, es, fresh) == [addr |-> a, deleted |-> del, nonce |-> n, entries |-> es, fresh |-> fresh]
Entry(k, v) == [slot |-> k, val |-> v]
Touch(a) == Obj(a, FALSE, 1, <<>>, FALSE)
Kill(a) == Obj(a, TRUE, 0, <<>>, FALSE)
Fill(es) == Obj("a", FALSE, 1, es, FALSE)
Again == Obj("a", FALSE, 1, <<Entry("b", 1)>>, TRUE)
Tries == INSTANCE Trie WITH
  Addresses <- {"a", "b", "c", "d"}, Slots <- {"a", "b", "c"}, Path <- PathOf, Children <- {0, 5},
  Size <- Bytes, HashSize <- 8, MaxCommits <- 3, MaxSteps <- 3,
  Genesis <- <<Fill(<<Entry("a", 1), Entry("b", 7), Entry("c", 1)>>), Touch("b"), Touch("c")>>,
  Blocks <- {<<Kill("a")>>, <<Kill("b")>>, <<Kill("c")>>, <<Touch("b"), Touch("d")>>, <<Kill("c"), Kill("d")>>,
             <<Fill(<<Entry("b", 0)>>)>>, <<Fill(<<Entry("a", 0), Entry("c", 0)>>)>>,
             <<Fill(<<Entry("b", 7), Entry("a", 1)>>)>>, <<Again, Kill("b"), Kill("c")>>}

\* Lists of up to ten items, one of them about as long as a step of the encoding.
Items(n, i, s) == [k \in 1 .. n |-> <<k - 1, IF k - 1 = i THEN s ELSE 40>>]
Roots == INSTANCE CalcRoot WITH
  Radix <- 4, MaxCalls <- 2,
  Lists <- UNION {{Items(n, i, s) : i \in 0 .. n, s \in {31, 32, 55, 56, 256}} : n \in 0 .. 10}

trieVars == <<heap, cache, storage, snap, content, commits, steps>>
rootVars == <<dst, right, calls>>
stateVars == <<part, vars, trieVars, rootVars>>

\* Only withdrawals read what a process remembers of fees; other blocks are looked
\* at with one memory.
Xs == todo \o txs \o (IF built = None THEN <<>> ELSE built.txs)
FeesMatter == fees = <<>> => \E i \in DOMAIN Xs : IsWithdrawFee(Xs[i])

\* A part that does not run stays in one state.
StateInit ==
  /\ part \in {"execution", "trie", "roots"}
  /\ Init /\ Tries!Init /\ Roots!RootInit
  /\ part # "execution" => forks = {} /\ todo \in Full /\ mode = "build" /\ FeesMatter

ExecutionStep == part = "execution" /\ Next /\ UNCHANGED <<part, trieVars, rootVars>>
TrieStep == part = "trie" /\ Tries!Next /\ UNCHANGED <<part, vars, rootVars>>
RootsStep == part = "roots" /\ Roots!RootNext /\ UNCHANGED <<part, vars, trieVars>>

StateSpec == StateInit /\ [][ExecutionStep \/ TrieStep \/ RootsStep]_stateVars

\* What is read of a committed state is what was written (Tries!ContentKept).
ContentKept == Tries!ContentKept

\* Equal contents have equal roots (Tries!SameContentSameRoot).
SameContentSameRoot == Tries!SameContentSameRoot

\* The streaming root of a list is the root of its trie (Roots!RootsAgree).
RootsAgree == Roots!RootsAgree
=============================================================================
