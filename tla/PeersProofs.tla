---------------------------- MODULE PeersProofs -----------------------------
(***************************************************************************)
(* Any number of peers and connections, opened, lost and handled in any    *)
(* interleaving: who is in the map of peers, who releases a pending peer,  *)
(* and what the counters of pending peers count.                           *)
(***************************************************************************)
EXTENDS Peers, FiniteSetTheorems, TLAPS

Places == {"none", "callback", "set", "hello", "add", "release", "done"}

\* A connection is told to be gone after it was open, and not while it is.
Shape ==
  /\ pc \in [Conns -> Places]
  /\ open \subseteq Conns /\ told \subseteq Conns /\ drops \subseteq Conns
  /\ open \cap told = {}
  /\ \A c \in open \cup told \cup drops : pc[c] # "none"

LEMMA ShapeInit == Init => Shape
BY DEF Init, Shape, Places

LEMMA ShapeNext == Shape /\ [Next]_vars => Shape'
<1> SUFFICES ASSUME Shape, [Next]_vars PROVE Shape'
  OBVIOUS
<1> USE DEF Shape, Places
<1>1. CASE StartIdentity \/ StartWatching \/ UNCHANGED vars
  BY <1>1 DEF StartIdentity, StartWatching, vars
<1>2. ASSUME NEW c \in Conns, Open(c) \/ Lose(c) PROVE Shape'
  BY <1>2 DEF Open, Lose
<1>3. ASSUME NEW c \in Conns, ConnectedF(c) PROVE Shape'
  BY <1>3 DEF ConnectedF, ClosePeer
<1>4. ASSUME NEW c \in Conns, SetPending(c) \/ HelloOk(c) \/ AddPeer(c) \/ DelPending(c)
      PROVE  Shape'
  BY <1>4 DEF SetPending, HelloOk, AddPeer, DelPending
<1>5. ASSUME NEW c \in Conns, HelloFails(c) \/ DelPeer(c) PROVE Shape'
  BY <1>5 DEF HelloFails, DelPeer, ClosePeer
<1>6. ASSUME NEW c \in Conns, DisconnectedF(c) PROVE Shape'
  BY <1>6 DEF DisconnectedF
<1> QED
  BY <1>1, <1>2, <1>3, <1>4, <1>5, <1>6 DEF Next, Handshake

-----------------------------------------------------------------------------
(* The map of peers *)

\* Whoever is connected or leaving stays so, if connections are only opened and
\* closed; one that is closed has not been told of.
LEMMA Watched ==
  ASSUME Shape, NEW p, Connected(p) \/ Leaving(p),
         told' = told, \A c \in drops : PeerOf[c] = p => c \in drops',
         \A c \in Conns : pc[c] # "none" => pc'[c] # "none",
         \A c \in Conns : c \in open' => c \in open \/ pc[c] = "none"
  PROVE  Connected(p)' \/ Leaving(p)'
<1>1. CASE Connected(p)
  <2>1. PICK c \in Conns : PeerOf[c] = p /\ c \in open
    BY <1>1 DEF Connected, ConnsOf
  <2>2. pc'[c] # "none" /\ c \notin told
    BY <2>1 DEF Shape
  <2> QED
    BY <2>1, <2>2 DEF Connected, Leaving, ConnsOf
<1>2. CASE Leaving(p)
  BY <1>2 DEF Leaving, ConnsOf
<1> QED
  BY <1>1, <1>2

\* However the connections of a peer open, close and shake hands, a peer in the
\* map has a connection or a delPeer to come, but for the two named races.
THEOREM NoGhostHolds == Spec => []NoGhost
<1> DEFINE Inv == Shape /\ NoGhost
<1>1. Init => Inv
  BY ShapeInit DEF Init, NoGhost
<1>2. Inv /\ [Next]_vars => Inv'
  <2> SUFFICES ASSUME Shape, NoGhost, [Next]_vars PROVE NoGhost'
    BY ShapeNext
  <2> DEFINE Kept(p) == Connected(p) \/ Leaving(p) \/ p \in late
  <2>1. CASE StartIdentity \/ StartWatching \/ UNCHANGED vars
    BY <2>1 DEF StartIdentity, StartWatching, vars, NoGhost, Connected, Leaving
  <2>2. ASSUME NEW c \in Conns,
               \/ Open(c) \/ Lose(c) \/ ConnectedF(c) \/ SetPending(c) \/ HelloOk(c)
               \/ HelloFails(c) \/ DelPending(c)
        PROVE  NoGhost'
    <3>1. /\ told' = told /\ drops' = drops /\ peers' = peers /\ late' = late
          /\ \A d \in Conns : pc[d] # "none" => pc'[d] # "none"
          /\ \A d \in Conns : d \in open' => d \in open \/ pc[d] = "none"
      BY <2>2 DEF Open, Lose, ConnectedF, SetPending, HelloOk, HelloFails, DelPending, ClosePeer,
                  Shape
    <3> QED
      BY <3>1, Watched DEF NoGhost
  <2>3. ASSUME NEW c \in Conns, AddPeer(c) PROVE NoGhost'
    <3>1. /\ told' = told /\ drops' = drops /\ open' = open
          /\ \A d \in Conns : pc[d] # "none" => pc'[d] # "none"
          /\ DOMAIN peers' = DOMAIN peers \cup {PeerOf[c]}
          /\ late' = IF Connected(PeerOf[c]) \/ Leaving(PeerOf[c]) THEN late
                     ELSE late \cup {PeerOf[c]}
      BY <2>3 DEF AddPeer, Put, Shape
    <3> QED
      BY <3>1, Watched DEF NoGhost
  <2>4. ASSUME NEW c \in Conns, DisconnectedF(c) PROVE NoGhost'
    <3>1. /\ told' = told \cup {c} /\ open' = open /\ pc' = pc /\ peers' = peers
          /\ drops \subseteq drops' /\ late \subseteq late'
          /\ c \in drops' \/ PeerOf[c] \in late'
      BY <2>4 DEF DisconnectedF
    <3> SUFFICES ASSUME NEW p \in DOMAIN peers PROVE Kept(p)'
      BY <3>1 DEF NoGhost
    <3>2. CASE p = PeerOf[c]
      BY <3>1, <3>2 DEF Leaving, ConnsOf
    <3>3. CASE p # PeerOf[c]
      BY <3>1, <3>3 DEF NoGhost, Connected, Leaving, ConnsOf
    <3> QED
      BY <3>2, <3>3
  <2>5. ASSUME NEW c \in Conns, DelPeer(c) PROVE NoGhost'
    <3>1. /\ told' = told /\ drops' = drops \ {c} /\ pc' = pc
          /\ DOMAIN peers' = DOMAIN peers \ {PeerOf[c]} /\ late' = late \ {PeerOf[c]}
          /\ open' \subseteq open
      BY <2>5 DEF DelPeer, Without, ClosePeer
    <3> QED
      BY <3>1, Watched DEF NoGhost
  <2> QED
    BY <2>1, <2>2, <2>3, <2>4, <2>5 DEF Next, Handshake
<1> QED
  BY <1>1, <1>2, PTL DEF Spec

-----------------------------------------------------------------------------
(* The map of pending peers *)

\* A pending peer has a handshake that has still to run its deferred function.
PendingHeld ==
  \A p \in DOMAIN pending : \E c \in ConnsOf(p) : pc[c] \in {"hello", "add", "release"}

\* Nobody leaves a peer pending: although several connections of a peer may get
\* past the check of isPending, and the first to end calls delPending for all,
\* a peer that is pending has a handshake to end that.
THEOREM PendingIsHeld == Spec => []PendingHeld
<1> DEFINE Inv == Shape /\ PendingHeld
<1>1. Init => Inv
  BY ShapeInit DEF Init, PendingHeld
<1>2. Inv /\ [Next]_vars => Inv'
  <2> SUFFICES ASSUME Shape, PendingHeld, [Next]_vars PROVE PendingHeld'
    BY ShapeNext
  <2>1. CASE StartIdentity \/ StartWatching \/ UNCHANGED vars
    BY <2>1 DEF StartIdentity, StartWatching, vars, PendingHeld, ConnsOf
  <2>2. ASSUME NEW c \in Conns,
               \/ Open(c) \/ Lose(c) \/ ConnectedF(c) \/ HelloOk(c) \/ HelloFails(c)
               \/ AddPeer(c) \/ DisconnectedF(c) \/ DelPeer(c)
        PROVE  PendingHeld'
    <3>1. /\ pending' = pending
          /\ \A d \in Conns : pc[d] \in {"hello", "add", "release"} =>
               pc'[d] \in {"hello", "add", "release"}
      BY <2>2 DEF Open, Lose, ConnectedF, HelloOk, HelloFails, AddPeer, DisconnectedF, DelPeer,
                  Shape
    <3> QED
      BY <3>1 DEF PendingHeld, ConnsOf
  <2>3. ASSUME NEW c \in Conns, SetPending(c) PROVE PendingHeld'
    <3>1. /\ DOMAIN pending' = DOMAIN pending \cup {PeerOf[c]} /\ pc'[c] = "hello"
          /\ \A d \in Conns : pc[d] \in {"hello", "add", "release"} => pc'[d] = pc[d]
      BY <2>3 DEF SetPending, Put, Shape
    <3> QED
      BY <3>1 DEF PendingHeld, ConnsOf
  <2>4. ASSUME NEW c \in Conns, DelPending(c) PROVE PendingHeld'
    <3>1. /\ DOMAIN pending' = DOMAIN pending \ {PeerOf[c]}
          /\ \A d \in Conns : d # c => pc'[d] = pc[d]
      BY <2>4 DEF DelPending, Without, Shape
    <3> QED
      BY <3>1 DEF PendingHeld, ConnsOf
  <2> QED
    BY <2>1, <2>2, <2>3, <2>4 DEF Next, Handshake
<1> QED
  BY <1>1, <1>2, PTL DEF Spec

\* The pending peers of one direction.
PendingOf(d) == {p \in DOMAIN pending : pending[p] = d}

\* pendingInboundCount and pendingOutboundCount count the pending peers.
PendingCounted ==
  /\ IsFiniteSet(DOMAIN pending)
  /\ DOMAIN count = {"in", "out"}
  /\ \A d \in {"in", "out"} : count[d] = Cardinality(PendingOf(d))
  /\ \A p \in DOMAIN pending : pending[p] \in {"in", "out"}

\* The counters that checkSlots reads never drift from the map: the direction
\* that delPending takes off is the one that setPending put on, whichever
\* connection of the peer calls it.
THEOREM PendingIsCounted == Spec => []PendingCounted
<1>1. Init => PendingCounted
  <2> SUFFICES ASSUME Init PROVE PendingCounted
    OBVIOUS
  <2>1. DOMAIN pending = {} /\ count = [in |-> 0, out |-> 0]
    BY DEF Init
  <2>2. \A d : PendingOf(d) = {}
    BY <2>1 DEF PendingOf
  <2>3. IsFiniteSet({}) /\ Cardinality({}) = 0
    BY FS_EmptySet
  <2>4. DOMAIN count = {"in", "out"} /\ \A d \in {"in", "out"} : count[d] = 0
    BY <2>1
  <2> QED
    BY Zenon, <2>1, <2>2, <2>3, <2>4 DEF PendingCounted
<1>2. PendingCounted /\ [Next]_vars => PendingCounted'
  <2> SUFFICES ASSUME PendingCounted, [Next]_vars PROVE PendingCounted'
    OBVIOUS
  <2>1. \A d \in {"in", "out"} : IsFiniteSet(PendingOf(d)) /\ Cardinality(PendingOf(d)) \in Nat
    <3> SUFFICES ASSUME NEW d \in {"in", "out"}
                 PROVE  IsFiniteSet(PendingOf(d)) /\ Cardinality(PendingOf(d)) \in Nat
      OBVIOUS
    <3>1. PendingOf(d) \subseteq DOMAIN pending /\ IsFiniteSet(DOMAIN pending)
      BY DEF PendingCounted, PendingOf
    <3>2. IsFiniteSet(PendingOf(d))
      BY <3>1, FS_Subset
    <3> QED
      BY <3>2, FS_CardinalityType
  <2>2. CASE UNCHANGED <<pending, count>>
    BY <2>2 DEF PendingCounted, PendingOf
  <2>3. ASSUME NEW c \in Conns, SetPending(c), PeerOf[c] \notin DOMAIN pending
        PROVE  PendingCounted'
    <3> DEFINE p == PeerOf[c]
               e == DirOf[c]
    <3>1. /\ pending' = Put(pending, p, e) /\ count' = [count EXCEPT ![e] = @ + 1]
          /\ e \in {"in", "out"}
      BY <2>3, DirAssumption DEF SetPending
    <3>2. /\ DOMAIN pending' = DOMAIN pending \cup {p} /\ pending'[p] = e
          /\ \A q \in DOMAIN pending : pending'[q] = pending[q]
      BY <2>3, <3>1 DEF Put
    <3>3. PendingOf(e)' = PendingOf(e) \cup {p} /\ p \notin PendingOf(e)
      BY <2>3, <3>2 DEF PendingOf
    <3>4. \A d \in {"in", "out"} : d # e => PendingOf(d)' = PendingOf(d)
      BY <2>3, <3>2 DEF PendingOf
    <3>5. Cardinality(PendingOf(e)') = Cardinality(PendingOf(e)) + 1
      BY Zenon, <2>1, <3>1, <3>3, FS_AddElement
    <3>6. IsFiniteSet(DOMAIN pending')
      BY <3>2, FS_AddElement DEF PendingCounted
    <3> HIDE DEF p, e
    <3> QED
      BY <3>1, <3>2, <3>4, <3>5, <3>6 DEF PendingCounted
  <2>4. ASSUME NEW c \in Conns, DelPending(c), PeerOf[c] \in DOMAIN pending
        PROVE  PendingCounted'
    <3> DEFINE p == PeerOf[c]
    <3>0. PICK e \in {"in", "out"} : e = pending[p]
      BY <2>4 DEF PendingCounted
    <3>1. /\ pending' = Without(pending, p) /\ count' = [count EXCEPT ![e] = @ - 1]
      BY <2>4, <3>0 DEF DelPending
    <3>2. /\ DOMAIN pending' = DOMAIN pending \ {p}
          /\ \A q \in DOMAIN pending' : pending'[q] = pending[q]
      BY <3>1 DEF Without
    <3>3. PendingOf(e)' = PendingOf(e) \ {p} /\ p \in PendingOf(e)
      BY <2>4, <3>0, <3>2 DEF PendingOf
    <3>4. \A d \in {"in", "out"} : d # e => PendingOf(d)' = PendingOf(d)
      BY <2>4, <3>0, <3>2 DEF PendingOf
    <3>5. Cardinality(PendingOf(e)') = Cardinality(PendingOf(e)) - 1
      BY Zenon, <2>1, <3>3, FS_RemoveElement
    <3>6. IsFiniteSet(DOMAIN pending')
      BY <3>2, FS_RemoveElement DEF PendingCounted
    <3> HIDE DEF p
    <3> QED
      BY <3>1, <3>2, <3>4, <3>5, <3>6 DEF PendingCounted
  <2>5. ASSUME NEW c \in Conns, SetPending(c) \/ DelPending(c) PROVE PendingCounted'
    <3>1. CASE UNCHANGED <<pending, count>>
      BY <2>2, <3>1
    <3>2. CASE ~UNCHANGED <<pending, count>>
      BY <2>3, <2>4, <2>5, <3>2 DEF SetPending, DelPending
    <3> QED
      BY <3>1, <3>2
  <2>6. CASE UNCHANGED vars \/ StartIdentity \/ StartWatching
    BY <2>2, <2>6 DEF vars, StartIdentity, StartWatching
  <2>7. ASSUME NEW c \in Conns,
               \/ Open(c) \/ Lose(c) \/ ConnectedF(c) \/ HelloOk(c) \/ HelloFails(c)
               \/ AddPeer(c) \/ DisconnectedF(c) \/ DelPeer(c)
        PROVE  PendingCounted'
    BY <2>2, <2>7 DEF Open, Lose, ConnectedF, HelloOk, HelloFails, AddPeer, DisconnectedF, DelPeer
  <2> QED
    BY <2>5, <2>6, <2>7 DEF Next, Handshake
<1> QED
  BY <1>1, <1>2, PTL DEF Spec
=============================================================================
