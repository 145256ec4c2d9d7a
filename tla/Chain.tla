------------------------------- MODULE Chain -------------------------------
(***************************************************************************)
(* The blockchain of one node (core/blockchain.go) over its key-value      *)
(* storage (storage/keyvalue.go).  The storage has no transactions: every  *)
(* call of set is a step of its own, after which the process may stop or   *)
(* the next call may return an error.                                      *)
(*                                                                         *)
(* A block is the path of choices that leads to it from the genesis block, *)
(* the empty path.  Only blocks that pass VerifyHeader and processBlock    *)
(* are offered to WriteBlock, so the difficulty of a block is its number.  *)
(* One goroutine at a time writes.  The caches of headers and of           *)
(* difficulties hold what the storage holds and are left out.              *)
(***************************************************************************)
EXTENDS Integers, Sequences, FiniteSets

CONSTANTS
  Blocks,             \* the valid blocks, genesis included
  GenesisDifficulty,  \* difficulty of the genesis header
  None                \* what a read that finds nothing returns

Genesis == <<>>

ASSUME BlocksAssumption ==
  /\ IsFiniteSet(Blocks) /\ Genesis \in Blocks /\ None \notin Blocks
  /\ \A b \in Blocks : b \in Seq(Nat) /\ \A i \in 0 .. Len(b) : SubSeq(b, 1, i) \in Blocks
ASSUME GenesisAssumption == GenesisDifficulty \in Nat \ {0}

VARIABLES
  db,        \* the storage, one field for each prefix of its keys
  node,      \* "down", "starting", "up", "failed" (did not start)
  current,   \* currentHeader, None before ComputeGenesis has set it
  todo,      \* the storage and memory updates the running call has still to do
  announced, \* the heads that dispatchEvent has told the subscribers of
  refused    \* history: the storage has refused a write

vars == <<db, node, current, todo, announced, refused>>

-----------------------------------------------------------------------------
(* Blocks *)

Num(b) == Len(b)
Parent(b) == SubSeq(b, 1, Len(b) - 1)
Ancestor(b, n) == SubSeq(b, 1, n)

\* The ancestors of b from number m down to number n.
Down(b, m, n) == [i \in 1 .. m - n + 1 |-> Ancestor(b, m - i + 1)]

-----------------------------------------------------------------------------
(* Storage *)

EmptyDb == [headers |-> {}, bodies |-> {}, receipts |-> {}, forks |-> {},
            headHash |-> None, headNumber |-> None,
            canonical |-> <<>>, td |-> <<>>]

Init ==
  /\ db = EmptyDb
  /\ node = "down"
  /\ current = None
  /\ todo = <<>>
  /\ announced = {}
  /\ refused = FALSE

W(key, b) == [key |-> key, blk |-> b]

Difficulty(b) == IF b = Genesis THEN GenesisDifficulty ELSE Num(b)

\* The total difficulty of b, from the one of its parent.
TotalDifficulty(d, b) ==
  IF b = Genesis THEN GenesisDifficulty ELSE d.td[Parent(b)] + Difficulty(b)

\* A key of the storage is written.
Put(f, x, y) == [z \in DOMAIN f \cup {x} |-> IF z = x THEN y ELSE f[z]]

Set(d, w) ==
  CASE w.key \in {"headers", "bodies", "receipts"} ->
         [d EXCEPT ![w.key] = @ \cup {w.blk}]
    [] w.key = "forks" -> [d EXCEPT !.forks = (@ \ {Parent(w.blk)}) \cup {w.blk}]
    [] w.key = "headHash" -> [d EXCEPT !.headHash = w.blk]
    [] w.key = "headNumber" -> [d EXCEPT !.headNumber = Num(w.blk)]
    [] w.key = "canonical" -> [d EXCEPT !.canonical = Put(@, Num(w.blk), w.blk)]
    [] w.key = "td" -> [d EXCEPT !.td = Put(@, w.blk, TotalDifficulty(d, w.blk))]

\* advanceHead writes the total difficulty last and then sets the header.
AdvanceHead(b) ==
  <<W("headHash", b), W("headNumber", b), W("canonical", b), W("td", b), W("current", b)>>

\* WriteCanonicalHeader, then setCurrentHeader.
CanonicalWrites(b) == <<W("headers", b)>> \o AdvanceHead(b)

GenesisWrites == CanonicalWrites(Genesis) \o <<W("event", Genesis)>>

\* WriteReceipts and dispatchEvent, after the header.
Finish(b) == <<W("receipts", b), W("event", b)>>

-----------------------------------------------------------------------------
(* WriteBlock *)

\* handleReorg: newChain holds the ancestors of b down to the number of the
\* old head only.  oldChain holds those of the old head down to the common one:
\* it is empty if the old head is that one, and its last element is not there.
ReorgWrites(b) ==
  LET newChain == Down(b, Num(b) - 1, Num(current))
      canonical == [i \in DOMAIN newChain |-> W("canonical", newChain[i])]
  IN IF Ancestor(b, Num(current)) = current
     THEN <<W("panic", b)>>
     ELSE <<W("forks", current)>> \o canonical \o AdvanceHead(b) \o Finish(b)

\* Mutant: a chain with the same total difficulty is enough.
SideWritesEqual(b) ==
  IF Parent(b) \notin DOMAIN db.td THEN <<W("headers", b)>>
  ELSE <<W("headers", b), W("td", b)>> \o
       IF db.td[Parent(b)] + Num(b) >= db.td[current]
       THEN ReorgWrites(b) ELSE <<W("forks", b), W("receipts", b)>>

\* Mutant: any other block at the height of the head is a new head.
SideWritesLatest(b) ==
  IF Parent(b) \notin DOMAIN db.td THEN <<W("headers", b)>>
  ELSE <<W("headers", b), W("td", b)>> \o
       IF Num(b) >= Num(current) /\ b # current
       THEN ReorgWrites(b) ELSE <<W("forks", b), W("receipts", b)>>

\* writeHeaderImpl for a header that is not on top of the current one.  The
\* event of a fork names no new header and is left out.
SideWrites(b) ==
  CASE current \notin DOMAIN db.td -> <<W("headers", b), W("panic", b)>>
    [] Parent(b) \notin DOMAIN db.td -> <<W("headers", b)>>
    [] OTHER ->
         <<W("headers", b), W("td", b)>> \o
         IF db.td[Parent(b)] + Num(b) > db.td[current]
         THEN ReorgWrites(b)
         ELSE <<W("forks", b), W("receipts", b)>>

\* Mutant: the event goes out before the storage is written.
HeaderWritesEventFirst(b) ==
  IF Parent(b) # current THEN SideWrites(b)
  ELSE <<W("event", b)>> \o CanonicalWrites(b) \o <<W("receipts", b)>>

\* writeHeaderImpl; the fast path needs the difficulty of the parent.
HeaderWrites(b) ==
  IF Parent(b) # current THEN SideWrites(b)
  ELSE IF current \in DOMAIN db.td THEN CanonicalWrites(b) \o Finish(b)
  ELSE <<>>

\* processBlock executes the valid block without an error, and then looks for
\* the canonical block of the number before, to compare the gas limits.
Processable(b) == Num(b) - 1 \in DOMAIN db.canonical

\* WriteBlock refuses a block whose parent header it cannot read.
WriteBlock(b) ==
  /\ node = "up"
  /\ todo = <<>>
  /\ b # Genesis
  /\ Parent(b) \in db.headers
  /\ Processable(b)
  /\ todo' = <<W("bodies", b)>> \o HeaderWrites(b)
  /\ UNCHANGED <<db, node, current, announced, refused>>

-----------------------------------------------------------------------------
(* Steps of a call *)

Writes == {"headers", "bodies", "receipts", "forks", "headHash", "headNumber",
           "canonical", "td"}

\* The next thing the running call does.
Doing(keys) == todo # <<>> /\ Head(todo).key \in keys

\* One call of set.
WriteKey ==
  /\ Doing(Writes)
  /\ db' = Set(db, Head(todo))
  /\ todo' = Tail(todo)
  /\ UNCHANGED <<node, current, announced, refused>>

SetCurrentHeader ==
  /\ Doing({"current"})
  /\ current' = Head(todo).blk
  /\ todo' = Tail(todo)
  /\ UNCHANGED <<db, node, announced, refused>>

\* The event of a new head; after the genesis block's the node is up.
DispatchEvent ==
  /\ Doing({"event"})
  /\ announced' = announced \cup {Head(todo).blk}
  /\ node' = "up"
  /\ todo' = Tail(todo)
  /\ UNCHANGED <<db, current, refused>>

-----------------------------------------------------------------------------
(* Start, failures, crashes *)

\* ComputeGenesis on a storage with a head, or on an empty one.
ComputeGenesis ==
  /\ node \in {"down", "failed"}
  /\ UNCHANGED <<db, announced, refused>>
  /\ \/ /\ db.headHash = None
        /\ node' = "starting"
        /\ todo' = GenesisWrites
        /\ UNCHANGED current
     \/ /\ db.headHash # None
        /\ UNCHANGED todo
        /\ IF 0 \in DOMAIN db.canonical /\ db.headHash \in DOMAIN db.td
              /\ db.headHash \in db.headers
           THEN node' = "up" /\ current' = db.headHash
           ELSE node' = "failed" /\ UNCHANGED current

\* set returns an error: WriteBlock gives up where it is, and the head in
\* memory stays; a node that was starting ends.
WriteFails ==
  /\ Doing(Writes)
  /\ todo' = <<>>
  /\ node' = IF node = "starting" THEN "failed" ELSE node
  /\ refused' = TRUE
  /\ UNCHANGED <<db, current, announced>>

Crash ==
  /\ node \in {"up", "starting"}
  /\ node' = "down"
  /\ current' = None
  /\ todo' = <<>>
  /\ UNCHANGED <<db, announced, refused>>

Step ==
  \/ \E b \in Blocks : WriteBlock(b)
  \/ WriteKey \/ SetCurrentHeader \/ DispatchEvent
  \/ ComputeGenesis

Next == Step \/ WriteFails \/ Crash

Spec == Init /\ [][Next]_vars

\* No error and no crash.
SpecReliable == Init /\ [][Step]_vars

-----------------------------------------------------------------------------
(* Properties *)

\* Neither panic of writeHeaderImpl happens, after any crashes, as long as the
\* storage refuses no write: the head in memory has its difficulty in the
\* storage, and a reorganisation has old headers to drop.  The first holds
\* whatever the storage does.  The second does not: two writes that fail late
\* can leave the difficulties of a child and a grandchild of a later head, and
\* then handleReorg finds no old header when a block comes on top of them.
NoPanic ==
  \A i \in DOMAIN todo :
    todo[i].key = "panic" => refused /\ current \in DOMAIN db.td

\* A head that the subscribers have been told of is not lost: a node that is up
\* after any crashes and errors is on a chain at least as long.
AnnouncedKept ==
  node = "up" => \A b \in announced : Num(b) <= Num(current)

\* While the node runs, its head changes only for a block of a chain with a
\* larger total difficulty (writeHeaderImpl), errors in between or not.
HeadImproves ==
  [][current # None /\ current' \notin {None, current} =>
       db.td[current'] > db.td[current]]_vars

\* Between two calls the canonical hashes are the chain of the head ("Update
\* canonical chain numbers").
CanonicalLinked ==
  node = "up" /\ todo = <<>> =>
    \A n \in 0 .. Num(current) :
      n \in DOMAIN db.canonical /\ db.canonical[n] = Ancestor(current, n)
=============================================================================
