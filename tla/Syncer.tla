------------------------------- MODULE Syncer -------------------------------
(***************************************************************************)
(* The syncer of one node (syncer/syncer.go, skeleton.go, service.go) and  *)
(* the part of runSyncState that drives it.  Four kinds of goroutines      *)
(* meet in it: the consensus loop, which looks for the best peer and       *)
(* writes blocks; the goroutine of handlePeerEvent, which adds and deletes *)
(* peers; the gRPC handlers of Notify, one per remote node; and the        *)
(* remote nodes, whose chains grow while they are read.                    *)
(*                                                                         *)
(* A block is the path of choices that leads to it from the genesis block, *)
(* as in Chain.  The difficulty of a block is its number (buildBlock), so  *)
(* of two chains the longer one is the heavier one.  Remote nodes write    *)
(* their chains as this one does and answer what service.go reads there.   *)
(* No call has a deadline: one to a node that is connected and does not    *)
(* answer waits for ever.                                                  *)
(***************************************************************************)
EXTENDS Integers, Sequences, FiniteSets, Functions, FiniteSetsExt

CONSTANTS
  Peers,       \* the remote nodes
  Blocks,      \* the valid blocks, genesis included
  Starts,      \* the local heads a run may begin with
  Span,        \* blocks of a slot of the skeleton (10)
  Slots,       \* slots of the skeleton (5)
  MaxEnqueue,  \* blocks of a queue (maxEnqueueSize = 50)
  MaxLosses,   \* bound: connections lost in a run
  None

Genesis == <<>>
Num(b) == Len(b)
Ancestor(b, n) == SubSeq(b, 1, n)
Ancestors(b) == {Ancestor(b, n) : n \in 0 .. Num(b)}

ASSUME PeersAssumption == IsFiniteSet(Peers) /\ None \notin Peers
ASSUME BlocksAssumption ==
  /\ IsFiniteSet(Blocks) /\ Starts \subseteq Blocks /\ None \notin Blocks
  /\ \A b \in Blocks : b \in Seq(Nat) /\ Ancestors(b) \subseteq Blocks
\* What a SyncPeer holds; nil is none of them.
SyncPeer == [status : Blocks, enqueue : Seq(Blocks), up : BOOLEAN]
ASSUME NoneAssumption == None \notin SyncPeer
ASSUME SizesAssumption ==
  Span \in Nat \ {0} /\ Slots \in Nat \ {0} /\ MaxEnqueue \in Nat \ {0} /\ MaxLosses \in Nat

VARIABLES
  node,     \* "run", or why the process panicked
  chain,    \* the local blockchain
  remote,   \* the blockchains of the remote nodes
  link,     \* the remote nodes that are connected
  losses,   \* connections lost so far
  mute,     \* the remote nodes that have stopped to answer calls
  missed,   \* peers lost before handlePeerEvent had subscribed
  events,   \* the p2p events handlePeerEvent has still to handle
  watching, \* handlePeerEvent has subscribed
  adding,   \* the AddPeer that runs
  peers,    \* Syncer.peers
  notify,   \* the Notify of each remote node that is being handled
  sync      \* the consensus goroutine

vars == <<node, chain, remote, link, losses, mute, missed, events, watching, adding, peers, notify,
          sync>>
netVars == <<remote, link, losses, mute, missed>>
peerVars == <<events, watching, adding, peers, notify>>

Idle == [pc |-> "idle"]

\* A blockchain with head b and the blocks of have: canon is the index of the
\* canonical hashes by number.
Chain(b, have) ==
  [have |-> have, head |-> b, canon |-> [n \in 0 .. Num(b) |-> Ancestor(b, n)]]

Init ==
  /\ node = "run"
  /\ \E b \in Starts : chain = Chain(b, Ancestors(b))
  /\ remote \in [Peers -> {Chain(b, {c \in Blocks : Num(c) <= Num(b)}) : b \in Starts}]
  /\ link = Peers
  /\ losses = 0
  /\ mute = {}
  /\ missed = {}
  /\ \E s \in Bijection(1 .. Cardinality(link), link) :
       events = [i \in DOMAIN s |-> [type |-> "connected", peer |-> s[i]]]
  /\ watching = FALSE
  /\ adding = None
  /\ peers = [p \in Peers |-> None]
  /\ notify = [p \in Peers |-> None]
  /\ sync = Idle

-----------------------------------------------------------------------------
(* A blockchain, as core/blockchain.go writes it without failures *)

CanWrite(c, b) ==
  b # Genesis /\ Ancestor(b, Num(b) - 1) \in c.have /\ Num(b) - 1 \in DOMAIN c.canon

\* A reorganisation renames the numbers from the old head on only: below, the
\* hashes of the old chain stay in the index.
Written(c, b) ==
  IF Num(b) <= Num(c.head) THEN [c EXCEPT !.have = @ \cup {b}]
  ELSE [have |-> c.have \cup {b}, head |-> b,
        canon |-> [n \in 0 .. Num(b) |->
                     IF n < Num(c.head) \/ (n = Num(c.head) /\ Ancestor(b, Num(b) - 1) = c.head)
                     THEN c.canon[n] ELSE Ancestor(b, n)]]

-----------------------------------------------------------------------------
(* Remote nodes: their chains, and what their service answers *)

\* A remote node writes b and broadcasts it; the ones it got in a bulk sync,
\* and the ones for nodes it does not know yet, it does not.
RemoteWrites(p, b) ==
  /\ notify[p] = None
  /\ Num(b) > Num(remote[p].head)
  /\ CanWrite(remote[p], b)
  /\ remote' = [remote EXCEPT ![p] = Written(@, b)]
  /\ \/ UNCHANGED notify
     \/ p \in link /\ notify' = [notify EXCEPT ![p] = [blk |-> b, stage |-> "sent"]]
  /\ UNCHANGED <<node, chain, link, losses, mute, missed, events, watching, adding, peers, sync>>

\* A remote node stops to answer, though its connection stays open.
GoesMute(p) ==
  /\ p \notin mute
  /\ mute' = mute \cup {p}
  /\ UNCHANGED <<node, chain, remote, link, losses, missed, peerVars, sync>>

\* The header with number n, or None: GetHeaderByNumber reads the index.
HeaderByNumber(p, n) ==
  IF n \in DOMAIN remote[p].canon THEN remote[p].canon[n] ELSE None

\* Mutant: the header asked for is left out.
GetHeadersAfter(p, b, skip, amount) ==
  IF b \notin remote[p].have THEN <<>>
  ELSE LET more == Min({amount - 1, IF Num(remote[p].head) < Num(b) THEN 0
                                    ELSE (Num(remote[p].head) - Num(b)) \div (skip + 1)})
       IN [i \in 1 .. more |-> HeaderByNumber(p, Num(b) + i * (skip + 1))]

\* GetHeaders from a hash: the header itself and then every (skip + 1)st of the
\* index.
GetHeaders(p, b, skip, amount) ==
  IF b \notin remote[p].have THEN <<>>
  ELSE LET more == Min({amount - 1, IF Num(remote[p].head) < Num(b) THEN 0
                                    ELSE (Num(remote[p].head) - Num(b)) \div (skip + 1)})
       IN <<b>> \o [i \in 1 .. more |-> HeaderByNumber(p, Num(b) + i * (skip + 1))]

-----------------------------------------------------------------------------
(* Connections *)

Event(type, p) ==
  events' = IF watching THEN Append(events, [type |-> type, peer |-> p]) ELSE events

Connect(p) ==
  /\ p \notin link
  /\ link' = link \cup {p}
  /\ Event("connected", p)
  /\ UNCHANGED <<node, chain, remote, losses, mute, missed, watching, adding, peers, notify, sync>>

\* The stream of the connection is dead, the client of it is not closed.
Disconnect(p) ==
  /\ p \in link
  /\ losses < MaxLosses
  /\ losses' = losses + 1
  /\ link' = link \ {p}
  /\ missed' = IF watching THEN missed ELSE missed \cup {p}
  /\ peers' = [peers EXCEPT ![p] = IF @ = None THEN @ ELSE [@ EXCEPT !.up = FALSE]]
  /\ adding' = IF adding # None /\ adding.peer = p THEN [adding EXCEPT !.up = FALSE] ELSE adding
  /\ Event("disconnected", p)
  /\ UNCHANGED <<node, chain, remote, mute, watching, notify, sync>>

-----------------------------------------------------------------------------
(* handlePeerEvent: setupPeers, then the events *)

Subscribe ==
  /\ ~watching
  /\ events = <<>>
  /\ adding = None
  /\ watching' = TRUE
  /\ UNCHANGED <<node, chain, netVars, events, adding, peers, notify, sync>>

NextEvent(type, p) ==
  adding = None /\ events # <<>> /\ Head(events) = [type |-> type, peer |-> p]

\* AddPeer up to the call of GetCurrent.
AddPeer(p) ==
  /\ NextEvent("connected", p)
  /\ events' = Tail(events)
  /\ adding' = IF peers[p] = None /\ p \in link
               THEN [peer |-> p, up |-> TRUE, status |-> None] ELSE None
  /\ UNCHANGED <<node, chain, netVars, watching, peers, notify, sync>>

\* The answer is the status that syncCurrentStatus of the remote node has
\* reached, a head the node has now or has had.
GetCurrent ==
  /\ adding # None
  /\ adding.status = None
  /\ adding.up => adding.peer \notin mute
  /\ IF adding.up
     THEN \E b \in remote[adding.peer].have : adding' = [adding EXCEPT !.status = b]
     ELSE adding' = None
  /\ UNCHANGED <<node, chain, netVars, events, watching, peers, notify, sync>>

StorePeer ==
  /\ adding # None
  /\ adding.status # None
  /\ peers' = [peers EXCEPT ![adding.peer] =
                 [status |-> adding.status, enqueue |-> <<>>, up |-> adding.up]]
  /\ adding' = None
  /\ UNCHANGED <<node, chain, netVars, events, watching, notify, sync>>

\* Mutant: the peer stays when it is connected again.
DeletePeerUnlinked(p) ==
  /\ NextEvent("disconnected", p)
  /\ events' = Tail(events)
  /\ peers' = [peers EXCEPT ![p] = IF p \in link THEN @ ELSE None]
  /\ UNCHANGED <<node, chain, netVars, watching, adding, notify, sync>>

\* The session of the consensus goroutine keeps the peer that is deleted, with
\* the status it has now; so does a Notify that has loaded it.
DeletePeer(p) ==
  /\ NextEvent("disconnected", p)
  /\ events' = Tail(events)
  /\ peers' = [peers EXCEPT ![p] = None]
  /\ notify' = [notify EXCEPT ![p] =
                  IF @ # None /\ @.stage = "loaded" THEN [@ EXCEPT !.stage = "stale"] ELSE @]
  /\ sync' = IF sync.pc # "idle" /\ sync.peer = p /\ sync.live /\ peers[p] # None
             THEN [sync EXCEPT !.live = FALSE, !.seen = peers[p].status] ELSE sync
  /\ UNCHANGED <<node, chain, netVars, watching, adding>>

-----------------------------------------------------------------------------
(* Notify: enqueueBlock, then updatePeerStatus *)

Handling(p, stage) == notify[p] # None /\ notify[p].stage = stage

LoadPeer(p) ==
  /\ Handling(p, "sent")
  /\ notify' = [notify EXCEPT ![p].stage = IF peers[p] = None THEN "queued" ELSE "loaded"]
  /\ UNCHANGED <<node, chain, netVars, events, watching, adding, peers, sync>>

\* appendBlock drops the oldest block of a full queue and wakes popBlock.
AppendBlock(p) ==
  /\ Handling(p, "loaded")
  /\ notify' = [notify EXCEPT ![p].stage = "queued"]
  /\ peers' = [peers EXCEPT ![p].enqueue =
                 Append(IF Len(@) = MaxEnqueue THEN Tail(@) ELSE @, notify[p].blk)]
  /\ sync' = IF sync.pc = "wait" /\ sync.peer = p /\ sync.live
             THEN [sync EXCEPT !.pc = "pop"] ELSE sync
  /\ UNCHANGED <<node, chain, netVars, events, watching, adding>>

\* DeletePeer has closed enqueueCh.
AppendToClosed(p) ==
  /\ Handling(p, "stale")
  /\ node' = "closed channel"
  /\ UNCHANGED <<chain, netVars, peerVars, sync>>

UpdatePeerStatus(p) ==
  /\ Handling(p, "queued")
  /\ peers' = [peers EXCEPT ![p] = IF @ = None THEN @ ELSE [@ EXCEPT !.status = notify[p].blk]]
  /\ notify' = [notify EXCEPT ![p] = None]
  /\ UNCHANGED <<node, chain, netVars, events, watching, adding, sync>>

-----------------------------------------------------------------------------
(* The consensus goroutine: BestPeer *)

At(pc) == sync.pc = pc
Goto(pc) == sync' = [sync EXCEPT !.pc = pc]
syncOnly == <<node, chain, netVars, peerVars>>

Known == {p \in Peers : peers[p] # None}

\* Range visits the peers in any order and keeps the first of equals.
BestPeers ==
  {p \in Known : /\ \A q \in Known : Num(peers[q].status) <= Num(peers[p].status)
                 /\ Num(peers[p].status) > Num(chain.head)}

\* The peer's status, and whether its service can be called.
Status == IF sync.live THEN peers[sync.peer].status ELSE sync.seen
Reachable == sync.live /\ peers[sync.peer].up

\* A call of the peer returns: it answers, or the connection is gone.
Returns == Reachable => sync.peer \notin mute

\* The numbers up to max at which the indexes of both nodes agree.
Common(p, max) == {n \in 0 .. max : HeaderByNumber(p, n) = chain.canon[n]}

\* An error: runSyncState starts again.
Fail == sync' = Idle

\* common is history: what the search has to find.
StartBulkSync(p) ==
  LET max == Min({Num(chain.head), Num(peers[p].status)})
  IN /\ At("idle")
     /\ p \in BestPeers
     /\ sync' = [pc |-> "search", peer |-> p, live |-> TRUE, seen |-> None,
                 min |-> 0, max |-> max, header |-> None, common |-> Common(p, max),
                 start |-> None, lastTarget |-> 0, target |-> 0, slots |-> <<>>,
                 slot |-> <<>>, blocks |-> <<>>]
     /\ UNCHANGED syncOnly

-----------------------------------------------------------------------------
(* findCommonAncestor: one step for each call of the peer *)

Middle == (sync.min + sync.max) \div 2

\* Mutant: the first common header ends the search.
SearchAncestorFirst ==
  /\ At("search")
  /\ sync.min <= sync.max
  /\ Middle = 0 \/ Returns
  /\ LET m == Middle
         found == HeaderByNumber(sync.peer, m)
     IN CASE m = 0 -> sync' = [sync EXCEPT !.header = chain.canon[0], !.pc = "fork"]
          [] m # 0 /\ ~Reachable -> Fail
          [] m # 0 /\ Reachable /\ found = None -> sync' = [sync EXCEPT !.max = m - 1]
          [] m # 0 /\ Reachable /\ found # None ->
               sync' = IF chain.canon[m] = found
                       THEN [sync EXCEPT !.header = found, !.pc = "fork"]
                       ELSE [sync EXCEPT !.max = m - 1]
  /\ UNCHANGED syncOnly

SearchAncestor ==
  /\ At("search")
  /\ sync.min <= sync.max
  /\ Middle = 0 \/ Returns
  /\ LET m == Middle
         found == HeaderByNumber(sync.peer, m)
     IN CASE m = 0 -> sync' = [sync EXCEPT !.header = chain.canon[0], !.pc = "fork"]
          [] m # 0 /\ ~Reachable -> Fail
          [] m # 0 /\ Reachable /\ found = None -> sync' = [sync EXCEPT !.max = m - 1]
          [] m # 0 /\ Reachable /\ found # None ->
               sync' = IF chain.canon[m] = found
                       THEN [sync EXCEPT !.header = found, !.min = m + 1]
                       ELSE [sync EXCEPT !.max = m - 1]
  /\ UNCHANGED syncOnly

SearchEnds ==
  /\ At("search")
  /\ sync.min > sync.max
  /\ IF sync.header = None THEN Fail ELSE Goto("fork")
  /\ UNCHANGED syncOnly

GetFork ==
  /\ At("fork")
  /\ Returns
  /\ LET fork == HeaderByNumber(sync.peer, Num(sync.header) + 1)
     IN IF Reachable /\ fork # None
        THEN sync' = [sync EXCEPT !.start = fork, !.common = {}, !.pc = "target"]
        ELSE Fail
  /\ UNCHANGED syncOnly

-----------------------------------------------------------------------------
(* BulkSyncWithPeer *)

\* isValidSnapshot: a validator goes on to AcceptState, another node watches.
AfterBulkSync(pc) ==
  /\ At("target")
  /\ Num(Status) = sync.lastTarget
  /\ pc \in {"consensus", "watch"}
  /\ Goto(pc)
  /\ UNCHANGED syncOnly

UpdateTarget ==
  /\ At("target")
  /\ Num(Status) # sync.lastTarget
  /\ sync' = [sync EXCEPT !.target = Num(Status), !.pc = "build"]
  /\ UNCHANGED syncOnly

\* The skeleton starts at startBlock itself.
BuildSkeleton ==
  /\ At("build")
  /\ Returns
  /\ IF Reachable
     THEN sync' = [sync EXCEPT !.slots = GetHeaders(sync.peer, sync.start, Span - 1, Slots),
                               !.slot = <<>>, !.blocks = <<>>, !.pc = "fill"]
     ELSE Fail
  /\ UNCHANGED syncOnly

Block(b, body) == [blk |-> b, body |-> body]

\* Without its headers a slot keeps the places that addSkeleton allocated, as
\* many as two headers of the skeleton are apart.
Unfilled == IF Len(sync.slots) = 1 THEN <<>> ELSE [i \in 1 .. Span |-> Block(None, FALSE)]

\* fillSlot asks for the headers of the slot; an error of it is not looked at.
FillHeaders ==
  /\ At("fill")
  /\ sync.slots # <<>>
  /\ Returns
  /\ sync' = IF Reachable
             THEN [sync EXCEPT !.slot = GetHeaders(sync.peer, Head(sync.slots), 0, Span),
                               !.pc = "bodies"]
             ELSE [sync EXCEPT !.slot = Unfilled, !.blocks = @ \o Unfilled, !.slots = Tail(@)]
  /\ UNCHANGED syncOnly

\* ... and then for their bodies.
FillBodies ==
  /\ At("bodies")
  /\ Returns
  /\ LET slot == [i \in DOMAIN sync.slot |-> Block(sync.slot[i], Reachable)]
     IN sync' = [sync EXCEPT !.slot = slot, !.blocks = @ \o slot, !.slots = Tail(@),
                             !.pc = "fill"]
  /\ UNCHANGED syncOnly

StartWriting ==
  /\ At("fill")
  /\ sync.slots = <<>>
  /\ Goto("write")
  /\ UNCHANGED syncOnly

\* WriteBlock of the next block; processBlock refuses one without its body.
WriteNext ==
  /\ At("write")
  /\ sync.blocks # <<>>
  /\ LET b == Head(sync.blocks)
     IN CASE b.blk = None ->
               node' = "no block" /\ UNCHANGED <<chain, sync>>
          [] b.blk # None /\ b.body /\ CanWrite(chain, b.blk) ->
               /\ chain' = Written(chain, b.blk)
               /\ sync' = [sync EXCEPT !.blocks = Tail(@)]
               /\ UNCHANGED node
          [] OTHER -> Fail /\ UNCHANGED <<node, chain>>
  /\ UNCHANGED <<netVars, peerVars>>

\* The last block of the last slot.
LastBlock == sync.slot[Len(sync.slot)].blk

\* Mutant: one block below the target is enough.
LastHeaderEarly ==
  /\ At("write")
  /\ sync.blocks = <<>>
  /\ IF sync.slot = <<>> THEN node' = "no header" /\ UNCHANGED sync
     ELSE LET far == Num(LastBlock) >= sync.target - 1
          IN /\ sync' = [sync EXCEPT !.start = LastBlock,
                                     !.lastTarget = IF far THEN sync.target ELSE @,
                                     !.pc = IF far THEN "target" ELSE "build"]
             /\ UNCHANGED node
  /\ UNCHANGED <<chain, netVars, peerVars>>

\* The last block of the last slot is the next startBlock.
LastHeader ==
  /\ At("write")
  /\ sync.blocks = <<>>
  /\ IF sync.slot = <<>> THEN node' = "no header" /\ UNCHANGED sync
     ELSE /\ sync' = [sync EXCEPT
                        !.start = LastBlock,
                        !.lastTarget = IF Num(LastBlock) >= sync.target THEN sync.target ELSE @,
                        !.pc = IF Num(LastBlock) >= sync.target THEN "target" ELSE "build"]
          /\ UNCHANGED node
  /\ UNCHANGED <<chain, netVars, peerVars>>

-----------------------------------------------------------------------------
(* WatchSyncWithPeer *)

\* purgeBlocks: the blocks up to the local head.
Purged(q, head) ==
  LET at == {i \in DOMAIN q : q[i] = head}
  IN IF at = {} THEN q ELSE SubSeq(q, Max(at) + 1, Len(q))

PurgeBlocks ==
  /\ At("watch")
  /\ Goto("pop")
  /\ peers' = IF sync.live THEN [peers EXCEPT ![sync.peer].enqueue = Purged(@, chain.head)] ELSE peers
  /\ UNCHANGED <<node, chain, netVars, events, watching, adding, notify>>

\* popBlock, WriteBlock and the handler; isValidSnapshot ends the watch.
PopBlock ==
  /\ At("pop")
  /\ sync.live
  /\ peers[sync.peer].enqueue # <<>>
  /\ LET b == Head(peers[sync.peer].enqueue)
     IN IF CanWrite(chain, b)
        THEN chain' = Written(chain, b) /\ (UNCHANGED sync \/ Goto("consensus"))
        ELSE Fail /\ UNCHANGED chain
  /\ peers' = [peers EXCEPT ![sync.peer].enqueue = Tail(@)]
  /\ UNCHANGED <<node, netVars, events, watching, adding, notify>>

WaitForBlock ==
  /\ At("pop")
  /\ sync.live
  /\ peers[sync.peer].enqueue = <<>>
  /\ Goto("wait")
  /\ UNCHANGED syncOnly

\* Mutant: popBlock waits until the peer is deleted.
PopEndsDeleted ==
  /\ At("wait") \/ At("pop")
  /\ ~sync.live
  /\ Fail
  /\ UNCHANGED syncOnly

\* popTimeout has passed, or the peer is deleted (conn and enqueueCh closed).
PopEnds ==
  /\ \/ At("wait")
     \/ At("pop") /\ ~sync.live
  /\ Fail
  /\ UNCHANGED syncOnly

-----------------------------------------------------------------------------
(* AcceptState and the other states of a validator *)

\* runSyncState without a better peer: isValidSnapshot.
StartConsensus ==
  /\ At("idle")
  /\ BestPeers = {}
  /\ sync' = [pc |-> "consensus", peer |-> None, live |-> FALSE]
  /\ UNCHANGED syncOnly

InsertBlock(b) ==
  /\ At("consensus")
  /\ b \in Blocks \ {Genesis}
  /\ Ancestor(b, Num(b) - 1) = chain.head
  /\ chain' = Written(chain, b)
  /\ UNCHANGED <<node, sync, netVars, peerVars>>

\* checkTimeout: a peer that is ahead.
LeaveForSync ==
  /\ At("consensus")
  /\ BestPeers # {}
  /\ Fail
  /\ UNCHANGED syncOnly

-----------------------------------------------------------------------------
PeerStep ==
  Subscribe \/ GetCurrent \/ StorePeer \/ \E p \in Peers : AddPeer(p) \/ DeletePeer(p)

NotifyStep ==
  \E p \in Peers : LoadPeer(p) \/ AppendBlock(p) \/ AppendToClosed(p) \/ UpdatePeerStatus(p)

SyncStep ==
  \/ \E p \in Peers : StartBulkSync(p)
  \/ SearchAncestor \/ SearchEnds \/ GetFork
  \/ (\E pc \in {"consensus", "watch"} : AfterBulkSync(pc)) \/ UpdateTarget
  \/ BuildSkeleton \/ FillHeaders \/ FillBodies \/ StartWriting \/ WriteNext \/ LastHeader
  \/ PurgeBlocks \/ PopBlock \/ WaitForBlock \/ PopEnds
  \/ LeaveForSync

World ==
  \/ \E p \in Peers : Connect(p) \/ Disconnect(p) \/ GoesMute(p)
  \/ \E p \in Peers, b \in Blocks : RemoteWrites(p, b)
  \/ StartConsensus \/ \E b \in Blocks : InsertBlock(b)

Next == node = "run" /\ (PeerStep \/ NotifyStep \/ SyncStep \/ World)

Spec == Init /\ [][Next]_vars

\* The goroutines run; nothing makes a remote node or the network act, and a
\* call that does not return is no step.
Fairness ==
  /\ WF_vars(node = "run" /\ PeerStep)
  /\ WF_vars(node = "run" /\ NotifyStep)
  /\ WF_vars(node = "run" /\ SyncStep)

FairSpec == Spec /\ Fairness

-----------------------------------------------------------------------------
(* Properties *)

\* As long as no connection is lost, neither LastHeader nor appendBlock nor
\* WriteBlock panics, whatever the remote chain does between the calls that
\* build the skeleton and fill it.
NoPanic == node # "run" => losses > 0

\* Every peer whose connection is gone leaves the map: its event is still to
\* be handled, behind the AddPeer that stores it, or it came before
\* handlePeerEvent had subscribed.
DeadPeersLeave ==
  \A p \in Peers :
    peers[p] # None /\ ~peers[p].up =>
      p \in missed \/ \E i \in DOMAIN events : events[i] = [type |-> "disconnected", peer |-> p]

\* findCommonAncestor finds the latest block both nodes had when it began, if
\* the peer's index still holds those they shared and they were the first ones
\* of it: the bounds never pass it by, whatever the remote node writes between
\* two calls.  The one exception is that m == 0 ends the search at genesis
\* while block 1 is not looked at.
LatestCommon ==
  At("fork") =>
    LET latest == Max(sync.common)
    IN (/\ sync.common = 0 .. latest
        /\ \A n \in sync.common : HeaderByNumber(sync.peer, n) = chain.canon[n])
       => Num(sync.header) >= latest \/ (Num(sync.header) = 0 /\ latest = 1)

\* BulkSyncWithPeer as the consensus loop sees it.
State == IF node # "run" \/ At("idle") THEN "rest"
         ELSE IF sync.pc \in {"consensus", "watch", "pop", "wait"} THEN "synced" ELSE "busy"
Goal == IF State # "rest" /\ "lastTarget" \in DOMAIN sync THEN sync.lastTarget ELSE 0
\* The session waits for an answer that need not come.
Hung == State = "busy" /\ ~Returns
CU == INSTANCE CatchUp WITH height <- Num(chain.head), goal <- Goal, state <- State, hung <- Hung
CatchUpSpec == CU!Spec

\* The index of c has the ancestors of its head.
Linked(c) == \A n \in DOMAIN c.canon : c.canon[n] = Ancestor(c.head, n)

\* Once the network is quiet, no peer in the map claims a longer chain than the
\* local one: neither a wake-up that appendBlock loses, nor a queue that
\* overflowed, nor a failed session leaves the node behind for good.  A remote
\* node that stops to answer does, and so does one whose index still has hashes
\* of a chain it has left.
CatchesUp ==
  <>[](\/ node # "run" \/ missed # {} \/ mute # {}
       \/ \E p \in Peers : ~Linked(remote[p])
       \/ BestPeers = {})
=============================================================================
