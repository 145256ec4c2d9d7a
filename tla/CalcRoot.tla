------------------------------ MODULE CalcRoot ------------------------------
(***************************************************************************)
(* The roots of the transactions and receipts of a block                   *)
(* (types/calcroot): a hasher from a pool that writes the encoding of the  *)
(* trie directly, and the trie itself for the lists the hasher refuses.    *)
(*                                                                         *)
(* An item is its index and its length; encodings and hashes are those of  *)
(* Trie.  A buffer is the sequence of the items written to it.             *)
(***************************************************************************)
EXTENDS Integers, Sequences, SequencesExt, FiniteSets, TLC

CONSTANTS
  Radix,     \* values of a nibble, an even number: 16 in the code
  Lists,     \* the lists of items whose root is asked for
  MaxCalls   \* bound: calls

VARIABLES
  dst,    \* FastHasher.dst of the hasher in the pool
  right,  \* history: every root so far was the one of the trie
  calls

rootVars == <<dst, right, calls>>

\* The numbers that are their own encoding: 128 in the code.
Small == Radix * (Radix \div 2)

ItemSize(v) == v[2]
T == INSTANCE Trie WITH
       Children <- 0 .. Radix - 1, HashSize <- 32, Size <- ItemSize,
       Addresses <- {}, Slots <- {}, Path <- ItemSize, Genesis <- <<>>, Blocks <- {},
       MaxCommits <- 0, MaxSteps <- 0, heap <- <<>>, cache <- <<>>, storage <- {},
       snap <- <<>>, content <- <<>>, commits <- 0, steps <- 0

-----------------------------------------------------------------------------
(* The encoding of a leaf and of a branch *)

intsize(n) == IF n < 2 ^ 8 THEN 1 ELSE IF n < 2 ^ 16 THEN 2 ELSE IF n < 2 ^ 24 THEN 3 ELSE 4
getRlpSize(n) == IF n < 56 THEN 1 ELSE intsize(n) + 1

\* A list whose header promises another length than it has is read as rubbish.
Garbled == <<"garbled">>
Leaf(size, header, key, v) ==
  IF size = header + getRlpSize(v[2]) + v[2] THEN T!Hash(T!Pair(key, T!Bytes(v))) ELSE Garbled
Group(items) ==
  IF Len(items) # Radix + 1 THEN Garbled
  ELSE T!Hash(T!Branch([n \in 0 .. Radix - 1 |-> items[n + 1]], items[Radix + 1]))

\* Keys with the flag of a leaf: no nibble, the nibble 0, the nibble 1, 8 and 0.
leafVal == <<32>>
zeroKey == <<48>>
oneKey == <<49>>
singleKey == <<32, 16 * (Radix \div 2)>>

Empties(n) == [i \in 1 .. n |-> T!Null]

\* getCb: short values are left to the trie.
getCb(list, i) == i <= Len(list) /\ ItemSize(list[i + 1]) >= 32

encodeSingle(v, one) ==
  Leaf(getRlpSize(v[2]) + v[2] + 1, 1, IF one THEN oneKey ELSE zeroKey, v)

encodeOneItem(list) ==
  LET v == list[1] IN Leaf(getRlpSize(v[2]) + v[2] + 3, 3, singleKey, v)

\* deriveGroup: the items from ... to - 1, as one leaf or one branch.
deriveGroup(list, from, to) ==
  IF to - from = 1 THEN encodeSingle(list[from + 1], from = 1)
  ELSE Group((IF from = 1 THEN Empties(1) ELSE <<>>)
             \o [i \in 1 .. to - from |-> Leaf(getRlpSize(list[from + i][2]) + 1 + list[from + i][2], 1,
                                               leafVal, list[from + i])]
             \o (IF to - from < Radix THEN Empties((IF from = 1 THEN Radix - 1 ELSE Radix) - (to - from)) ELSE <<>>)
             \o Empties(1))

-----------------------------------------------------------------------------
(* FastHasher.Hash on the buffer b: what it returns, and the buffer it leaves *)

Least(i, j) == IF i < j THEN i ELSE j

Hash(b, list) ==
  LET num == Len(list)
      step1 == Least(num, Small)
      groups == (step1 + Radix - 1) \div Radix
      From(g) == IF g = 0 THEN 1 ELSE Radix * g
      To(g) == Least(step1, Radix * g + Radix)
      Refused == {g \in 0 .. groups - 1 : \E i \in From(g) .. To(g) - 1 : ~getCb(list, i)}
      filled == b \o [g \in 1 .. groups |-> deriveGroup(list, From(g - 1), To(g - 1))]
                  \o Empties((Small - step1) \div Radix)
      all == filled \o <<encodeSingle(list[1], FALSE)>> \o Empties(Radix - Radix \div 2)
  IN IF num = 1
     THEN IF getCb(list, 0) THEN [ok |-> TRUE, dst |-> Append(b, encodeOneItem(list))]
          ELSE [ok |-> FALSE, dst |-> b]
     ELSE IF Refused # {} THEN [ok |-> FALSE, dst |-> <<>>]
     ELSE IF ~getCb(list, 0) THEN [ok |-> FALSE, dst |-> filled]
     ELSE [ok |-> TRUE, dst |-> <<Group(all)>>]

\* Mutant: the hasher goes back to the pool as it is.
resetNothing(b) == b

reset(b) == <<>>

-----------------------------------------------------------------------------
(* The trie *)

\* The key of item i is the encoding of the number i, in nibbles.
Digits(i) == <<i \div Radix, i % Radix>>
ItemKey(i) ==
  (IF i = 0 THEN Digits(Small) ELSE IF i < Small THEN Digits(i) ELSE Digits(Small + 1) \o Digits(i))
    \o <<T!Terminator>>

RECURSIVE InsertItems(_, _, _, _)
InsertItems(h, root, list, i) ==
  LET Rest(r) == InsertItems(r.h, r.root, list, i + 1)
  IN IF i = Len(list) THEN T!RootHash(h, root, {}).e
     ELSE Rest(T!TxnInsert(h, root, ItemKey(i), list[i + 1], 1))

deriveSlow(list) == InsertItems(<<>>, T!Nil, list, 0)

-----------------------------------------------------------------------------
\* What CalculateRoot returns when the hasher of the pool made fast of the list.
Root(fast, list) ==
  IF Len(list) = 0 THEN T!EmptyRoot
  ELSE IF Len(list) <= Small /\ fast.ok THEN Last(fast.dst)
  ELSE deriveSlow(list)

CalculateRoot(list) ==
  LET fast == Hash(dst, list)
  IN /\ calls < MaxCalls
     /\ calls' = calls + 1
     /\ dst' = IF Len(list) \in 1 .. Small THEN reset(fast.dst) ELSE dst
     /\ right' = (right /\ Root(fast, list) = deriveSlow(list))

RootInit == dst = <<>> /\ right = TRUE /\ calls = 0
RootNext == \E list \in Lists : CalculateRoot(list)

-----------------------------------------------------------------------------
\* The root that the pooled hasher writes is the root of the trie of the same
\* items, for every number of them, whatever call used the hasher before.
RootsAgree == right
=============================================================================
