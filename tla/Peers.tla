------------------------------- MODULE Peers -------------------------------
(***************************************************************************)
(* The peers of one node: connections, handshakes and slots                *)
(* (p2p/identity.go, p2p/server.go).                                       *)
(*                                                                         *)
(* libp2p calls ConnectedF for every connection and, once that has         *)
(* returned, DisconnectedF when the connection is gone; a peer may have    *)
(* several connections.  Every connection runs its own goroutine, and what *)
(* these share (the pending map and its counters, the map of peers and     *)
(* inboundConnCount) is read and written in the separate steps of the      *)
(* code.  Dialling is an outbound connection that opens (see Dial).        *)
(***************************************************************************)
EXTENDS Integers, FiniteSets

CONSTANTS
  Conns,      \* connections that may be opened, each once
  PeerOf,     \* connection -> remote peer
  DirOf,      \* connection -> "in" or "out"
  MaxInbound, MaxOutbound

ASSUME DirAssumption == \A c \in Conns : DirOf[c] \in {"in", "out"}

VARIABLES
  phase,    \* "created", "identity" (initialized is set), "running"
  pc,       \* connection -> where its callback or its handshake is
  open,     \* connections that are open
  told,     \* connections whose DisconnectedF has been called
  drops,    \* connections whose delPeer goroutine has not run yet
  pending,  \* peer -> direction
  count,    \* [in, out]: pendingInboundCount, pendingOutboundCount
  peers,    \* peer -> direction
  inbound,  \* inboundConnCount
  late      \* history: peers added, or left, after nobody would remove them

vars == <<phase, pc, open, told, drops, pending, count, peers, inbound, late>>

ConnsOf(p) == {c \in Conns : PeerOf[c] = p}
Connected(p) == ConnsOf(p) \cap open # {}

\* Somebody will still call delPeer for p.
Leaving(p) ==
  \E c \in ConnsOf(p) : c \in drops \/ (pc[c] # "none" /\ c \notin open \cup told)

ClosePeer(p) == open \ ConnsOf(p)

Put(f, p, d) == [q \in DOMAIN f \cup {p} |-> IF q = p THEN d ELSE f[q]]
Without(f, p) == [q \in DOMAIN f \ {p} |-> f[q]]

Init ==
  /\ phase = "created"
  /\ pc = [c \in Conns |-> "none"]
  /\ open = {} /\ told = {} /\ drops = {}
  /\ pending = <<>> /\ count = [in |-> 0, out |-> 0]
  /\ peers = <<>> /\ inbound = 0
  /\ late = {}

-----------------------------------------------------------------------------
(* Slots *)

\* A negative count is read as zero.
InboundConns == (IF inbound < 0 THEN 0 ELSE inbound) + count["in"]
OutboundConns == (Cardinality(DOMAIN peers) - inbound) + count["out"]

NumOpenSlots ==
  IF MaxOutbound < OutboundConns THEN 0 ELSE MaxOutbound - OutboundConns

SlotsFull(dir) ==
  IF dir = "in" THEN InboundConns >= MaxInbound ELSE NumOpenSlots = 0

-----------------------------------------------------------------------------
(* Start *)

StartIdentity ==
  /\ phase = "created"
  /\ phase' = "identity"
  /\ UNCHANGED <<pc, open, told, drops, pending, count, peers, inbound, late>>

\* The end of Start: from here on DisconnectedF is registered.
StartWatching ==
  /\ phase = "identity"
  /\ phase' = "running"
  /\ UNCHANGED <<pc, open, told, drops, pending, count, peers, inbound, late>>

-----------------------------------------------------------------------------
(* Connections *)

\* A remote peer connects, or runDial does, which asks isConnected before.
Open(c) ==
  /\ pc[c] = "none"
  /\ DirOf[c] = "out" => phase # "created" /\ ~Connected(PeerOf[c])
  /\ open' = open \cup {c}
  /\ pc' = [pc EXCEPT ![c] = "callback"]
  /\ UNCHANGED <<phase, told, drops, pending, count, peers, inbound, late>>

\* The network or the remote peer closes a connection.
Lose(c) ==
  /\ c \in open
  /\ open' = open \ {c}
  /\ UNCHANGED <<phase, pc, told, drops, pending, count, peers, inbound, late>>

\* ConnectedF up to the check of the slots; a connection that is refused is
\* closed together with the others of its peer.
ConnectedF(c) ==
  LET p == PeerOf[c]
      refused == phase = "created" \/ (p \notin DOMAIN pending /\ SlotsFull(DirOf[c]))
  IN /\ pc[c] = "callback"
     /\ open' = IF refused THEN ClosePeer(p) ELSE open
     /\ pc' = [pc EXCEPT ![c] = IF refused \/ p \in DOMAIN pending THEN "done" ELSE "set"]
     /\ UNCHANGED <<phase, told, drops, pending, count, peers, inbound, late>>

\* setPending: another connection of the peer may have been faster.
SetPending(c) ==
  /\ pc[c] = "set"
  /\ pc' = [pc EXCEPT ![c] = "hello"]
  /\ IF PeerOf[c] \in DOMAIN pending
     THEN UNCHANGED <<pending, count>>
     ELSE /\ pending' = Put(pending, PeerOf[c], DirOf[c])
          /\ count' = [count EXCEPT ![DirOf[c]] = @ + 1]
  /\ UNCHANGED <<phase, open, told, drops, peers, inbound, late>>

-----------------------------------------------------------------------------
(* Handshakes *)

\* Hello is answered with the same chain.
HelloOk(c) ==
  /\ pc[c] = "hello"
  /\ Connected(PeerOf[c])
  /\ pc' = [pc EXCEPT ![c] = "add"]
  /\ UNCHANGED <<phase, open, told, drops, pending, count, peers, inbound, late>>

\* Mutant: the deferred function is not run after an error.
HelloFailsAtOnce(c) ==
  /\ pc[c] = "hello"
  /\ pc' = [pc EXCEPT ![c] = "done"]
  /\ open' = ClosePeer(PeerOf[c])
  /\ UNCHANGED <<phase, told, drops, pending, count, peers, inbound, late>>

\* An error or another chain: the peer is disconnected.  Hello is called
\* without a deadline, so that a remote peer that stays connected and silent
\* lets neither of the two happen.
HelloFails(c) ==
  /\ pc[c] = "hello"
  /\ pc' = [pc EXCEPT ![c] = "release"]
  /\ open' = ClosePeer(PeerOf[c])
  /\ UNCHANGED <<phase, told, drops, pending, count, peers, inbound, late>>

\* addPeer: the counter is raised also for a peer that is in the map.
AddPeer(c) ==
  LET p == PeerOf[c]
  IN /\ pc[c] = "add"
     /\ pc' = [pc EXCEPT ![c] = "release"]
     /\ peers' = Put(peers, p, DirOf[c])
     /\ inbound' = inbound + (IF DirOf[c] = "in" THEN 1 ELSE 0)
     /\ late' = IF Connected(p) \/ Leaving(p) THEN late ELSE late \cup {p}
     /\ UNCHANGED <<phase, open, told, drops, pending, count>>

\* The deferred function of the handshake.
DelPending(c) ==
  LET p == PeerOf[c]
  IN /\ pc[c] = "release"
     /\ pc' = [pc EXCEPT ![c] = "done"]
     /\ IF p \in DOMAIN pending
        THEN /\ pending' = Without(pending, p)
             /\ count' = [count EXCEPT ![pending[p]] = @ - 1]
        ELSE UNCHANGED <<pending, count>>
     /\ UNCHANGED <<phase, open, told, drops, peers, inbound, late>>

-----------------------------------------------------------------------------
(* Disconnections *)

\* DisconnectedF starts delPeer; before the end of Start nobody listens.
DisconnectedF(c) ==
  /\ pc[c] \notin {"none", "callback", "set"}
  /\ c \notin open \cup told
  /\ told' = told \cup {c}
  /\ IF phase = "running"
     THEN drops' = drops \cup {c} /\ UNCHANGED late
     ELSE UNCHANGED drops /\ late' = late \cup {PeerOf[c]}
  /\ UNCHANGED <<phase, pc, open, pending, count, peers, inbound>>

\* Mutant: only inbound peers are taken out of the map.
DelPeerInboundOnly(c) ==
  LET p == PeerOf[c]
      in == p \in DOMAIN peers /\ peers[p] = "in"
  IN /\ c \in drops
     /\ drops' = drops \ {c}
     /\ inbound' = inbound - (IF in THEN 1 ELSE 0)
     /\ peers' = IF in THEN Without(peers, p) ELSE peers
     /\ open' = ClosePeer(p)
     /\ late' = late \ {p}
     /\ UNCHANGED <<phase, pc, told, pending, count>>

\* delPeer takes the peer out of the map and closes what is left of it.
DelPeer(c) ==
  LET p == PeerOf[c]
      in == p \in DOMAIN peers /\ peers[p] = "in"
  IN /\ c \in drops
     /\ drops' = drops \ {c}
     /\ inbound' = inbound - (IF in THEN 1 ELSE 0)
     /\ peers' = Without(peers, p)
     /\ open' = ClosePeer(p)
     /\ late' = late \ {p}
     /\ UNCHANGED <<phase, pc, told, pending, count>>

-----------------------------------------------------------------------------
Handshake(c) == SetPending(c) \/ HelloOk(c) \/ HelloFails(c) \/ AddPeer(c) \/ DelPending(c)

\* The steps of a handshake that nobody outside can put off: on a connection
\* that is gone the call of Hello returns with an error.
HandshakeGoesOn(c) ==
  \/ SetPending(c) \/ AddPeer(c) \/ DelPending(c)
  \/ ~Connected(PeerOf[c]) /\ HelloFails(c)

Next ==
  \/ StartIdentity \/ StartWatching
  \/ \E c \in Conns :
       \/ Open(c) \/ Lose(c) \/ ConnectedF(c) \/ Handshake(c)
       \/ DisconnectedF(c) \/ DelPeer(c)

\* A goroutine that can go on does; an answer to Hello need not come.
Spec == Init /\ [][Next]_vars /\ \A c \in Conns : WF_vars(HandshakeGoesOn(c))

-----------------------------------------------------------------------------
(* Properties *)

\* A peer in the map is connected or about to be removed, unless its handshake
\* ended after delPeer had run, or it left before DisconnectedF was registered.
NoGhost == \A p \in DOMAIN peers : Connected(p) \/ Leaving(p) \/ p \in late

\* A peer does not stay pending: whichever of its connections fails, and in
\* whatever order, some handshake calls delPending and the slot is free again,
\* unless the peer stays connected and leaves a Hello unanswered for ever.
PendingEnds ==
  <>[](\A p \in DOMAIN pending : Connected(p) /\ \E c \in ConnsOf(p) : pc[c] = "hello")
=============================================================================
