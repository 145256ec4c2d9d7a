-------------------------------- MODULE Dial --------------------------------
(***************************************************************************)
(* How a node dials: the dial queue (p2p/dial_queue.go), the loop runDial, *)
(* and the calls of Join that wait for a peer (p2p/server.go).             *)
(*                                                                         *)
(* Peer events reach the loop and the join watcher through subscriptions   *)
(* of their own, in order and some time later.  The loop needs to know     *)
(* only that there was one (notes); the join watcher looks at three types, *)
(* and does the same for each.  What a handshake does to slots is in Peers;*)
(* here a peer is away, in a handshake, or connected.                      *)
(***************************************************************************)
EXTENDS Integers, Sequences, FiniteSets, TLC, SequencesExt

CONSTANTS
  Targets,      \* peers that can be dialled
  JoinPeer,     \* JoinPeer[j]: the peer the j-th call of Join asks for
  MaxInputs,    \* bound on the tasks added and removed and the peers that leave
  MaxOutbound,  \* slots for outbound connections
  None

Joins == DOMAIN JoinPeer

VARIABLES
  queue,     \* the heap: tasks [id, peer, prio]
  items,     \* peer -> the last task added for it
  dialer,    \* runDial: [pc, i, task]
  status,    \* peer -> "away", "handshake", "added" (and still pending), "connected"
  notes,     \* events runDial's subscription has still to hand over
  events,    \* peers of the events the join watcher has still to handle
  joins,     \* join -> where the call is
  watchers,  \* joinWatchers: peer -> join
  sending,   \* the join the watcher sends to, with joinWatchersLock held, or None
  tasks,     \* number of tasks so far
  inputs,    \* counter for the bound
  missed     \* history: the loop may wait too long, as a wakeup found nobody waiting
             \* or a free slot was not used

vars == <<queue, items, dialer, status, notes, events, joins, watchers, sending,
          tasks, inputs, missed>>

PriorityRequestedDial == 1
PriorityRandomDial == 10

Init ==
  /\ queue = {} /\ items = <<>>
  /\ dialer = [pc |-> "slots", i |-> 0, task |-> None]
  /\ status = [p \in Targets |-> "away"]
  /\ notes = 0 /\ events = <<>>
  /\ joins = [j \in Joins |-> "none"]
  /\ watchers = <<>> /\ sending = None
  /\ tasks = 0 /\ inputs = 0
  /\ missed = FALSE

\* A peer that is added and still pending takes two slots.
NumOpenSlots ==
  LET n == MaxOutbound - Cardinality({p \in Targets : status[p] # "away"})
                       - Cardinality({p \in Targets : status[p] = "added"})
  IN IF n < 0 THEN 0 ELSE n

Input == inputs < MaxInputs /\ inputs' = inputs + 1

-----------------------------------------------------------------------------
(* The dial queue *)

\* Mutant: nobody is told of a new task.
AddSilently(p, prio) ==
  LET t == [id |-> tasks + 1, peer |-> p, prio |-> prio]
  IN /\ queue' = queue \cup {t}
     /\ items' = (p :> t) @@ items
     /\ tasks' = tasks + 1
     /\ notes' = notes + 1
     /\ UNCHANGED <<dialer, missed>>

\* add, and the event PeerAddedToDialQueue.  A second task for a peer stays
\* beside the first; the loop is woken if it waits in pop.
Add(p, prio) ==
  LET t == [id |-> tasks + 1, peer |-> p, prio |-> prio]
  IN /\ queue' = queue \cup {t}
     /\ items' = (p :> t) @@ items
     /\ tasks' = tasks + 1
     /\ notes' = notes + 1
     /\ dialer' = IF dialer.pc = "pop-wait" THEN [dialer EXCEPT !.pc = "pop"] ELSE dialer
     /\ missed' = (missed \/ dialer.pc = "pop-gap")

\* Discovery, or checkPeerConnections, wants a peer.
AddRandom(p) ==
  /\ Input
  /\ Add(p, PriorityRandomDial)
  /\ UNCHANGED <<status, events, joins, watchers, sending>>

\* del, when the routing table gives up a peer: its last task goes, if it is
\* still in the heap.
Del(p) ==
  /\ Input
  /\ p \in DOMAIN items
  /\ queue' = queue \ {items[p]}
  /\ items' = [q \in DOMAIN items \ {p} |-> items[q]]
  /\ UNCHANGED <<dialer, status, notes, events, joins, watchers, sending, tasks,
                 missed>>

-----------------------------------------------------------------------------
(* runDial *)

Goto(pc) == dialer' = [dialer EXCEPT !.pc = pc]

\* The condition of the inner loop.  A dial is counted twice: i grows, and the
\* slots left shrink, so that the loop may stop before the slots are used up.
CheckSlots ==
  /\ dialer.pc = "slots"
  /\ Goto(IF dialer.i < NumOpenSlots THEN "pop" ELSE "gap")
  /\ missed' = (missed \/ NumOpenSlots \in 1 .. dialer.i)
  /\ UNCHANGED <<queue, items, status, notes, events, joins, watchers, sending, tasks,
                 inputs>>

\* popImpl takes a task that none has a smaller number than.
Pop ==
  /\ dialer.pc = "pop"
  /\ \/ /\ queue = {}
        /\ Goto("pop-gap")
        /\ UNCHANGED queue
     \/ \E t \in queue :
          /\ \A u \in queue : t.prio <= u.prio
          /\ queue' = queue \ {t}
          /\ dialer' = [dialer EXCEPT !.pc = "dial", !.task = t.peer]
  /\ UNCHANGED <<items, status, notes, events, joins, watchers, sending, tasks,
                 inputs, missed>>

\* The loop begins to wait for a task, or for an event.
BeginWait ==
  /\ \/ dialer.pc = "pop-gap" /\ Goto("pop-wait")
     \/ dialer.pc = "gap" /\ Goto("wait")
  /\ UNCHANGED <<queue, items, status, notes, events, joins, watchers, sending, tasks,
                 inputs, missed>>

\* The body of the inner loop: the peer is connected already, the connection
\* fails, or the handshake begins.
Connect ==
  LET p == dialer.task
  IN /\ dialer.pc = "dial"
     /\ dialer' = [pc |-> "slots", i |-> dialer.i + 1, task |-> None]
     /\ \/ /\ status[p] # "away"
           /\ events' = Append(events, p)
           /\ UNCHANGED <<status, notes>>
        \/ /\ status[p] = "away"
           /\ events' = Append(events, p)
           /\ notes' = notes + 1
           /\ UNCHANGED status
        \/ /\ status[p] = "away"
           /\ status' = [status EXCEPT ![p] = "handshake"]
           /\ UNCHANGED <<events, notes>>
     /\ UNCHANGED <<queue, items, joins, watchers, sending, tasks, inputs, missed>>

\* A handshake ends well (PeerConnected, and PeerDialCompleted when it is no
\* longer pending) or not (PeerDialCompleted and PeerDisconnected).
EndHandshake(p) ==
  /\ \/ /\ status[p] = "handshake"
        /\ status' = [status EXCEPT ![p] = "added"]
        /\ events' = Append(events, p)
        /\ notes' = notes + 1
     \/ /\ status[p] = "added"
        /\ status' = [status EXCEPT ![p] = "connected"]
        /\ notes' = notes + 1
        /\ UNCHANGED events
     \/ /\ status[p] = "handshake"
        /\ status' = [status EXCEPT ![p] = "away"]
        /\ notes' = notes + 2
        /\ UNCHANGED events
  /\ UNCHANGED <<queue, items, dialer, joins, watchers, sending, tasks, inputs,
                 missed>>

\* A peer leaves (PeerDisconnected).
Leave(p) ==
  /\ Input
  /\ status[p] = "connected"
  /\ status' = [status EXCEPT ![p] = "away"]
  /\ notes' = notes + 1
  /\ UNCHANGED <<queue, items, dialer, events, joins, watchers, sending, tasks,
                 missed>>

\* The handler of runDial's subscription.
Notify ==
  /\ notes > 0
  /\ notes' = notes - 1
  /\ dialer' = IF dialer.pc = "wait" THEN [dialer EXCEPT !.pc = "slots", !.i = 0] ELSE dialer
  /\ missed' = (missed \/ dialer.pc = "gap")
  /\ UNCHANGED <<queue, items, status, events, joins, watchers, sending, tasks, inputs>>

-----------------------------------------------------------------------------
(* Join *)

\* The peer is queued first, which is all without a timeout ...
Join(j, timeout) ==
  /\ Input
  /\ joins[j] = "none"
  /\ joins' = [joins EXCEPT ![j] = IF timeout THEN "queued" ELSE "done"]
  /\ Add(JoinPeer[j], PriorityRequestedDial)
  /\ UNCHANGED <<status, events, watchers, sending>>

\* ... and then watched: the entry of an earlier call for the peer is replaced.
Watch(j) ==
  /\ joins[j] = "queued" /\ sending = None
  /\ joins' = [joins EXCEPT ![j] = "watch"]
  /\ watchers' = (JoinPeer[j] :> j) @@ watchers
  /\ UNCHANGED <<queue, items, dialer, status, notes, events, sending, tasks,
                 inputs, missed>>

Expire(j) ==
  /\ joins[j] = "watch"
  /\ joins' = [joins EXCEPT ![j] = "expired"]
  /\ UNCHANGED <<queue, items, dialer, status, notes, events, watchers, sending, tasks,
                 inputs, missed>>

Unwatch(p) == [q \in DOMAIN watchers \ {p} |-> watchers[q]]

\* After its timeout the call removes whichever entry the peer has.
GiveUp(j) ==
  /\ joins[j] = "expired" /\ sending = None
  /\ joins' = [joins EXCEPT ![j] = "timeout"]
  /\ watchers' = Unwatch(JoinPeer[j])
  /\ UNCHANGED <<queue, items, dialer, status, notes, events, sending, tasks,
                 inputs, missed>>

\* The join watcher takes an event: with a watcher for the peer it begins to
\* send, under the lock.
HandleEvent ==
  /\ events # <<>> /\ sending = None
  /\ events' = Tail(events)
  /\ sending' = IF Head(events) \in DOMAIN watchers THEN watchers[Head(events)] ELSE None
  /\ UNCHANGED <<queue, items, dialer, status, notes, joins, watchers, tasks,
                 inputs, missed>>

\* Mutant: the lock is not released after the send.
SendAndHold ==
  /\ sending # None /\ joins[sending] = "watch"
  /\ joins' = [joins EXCEPT ![sending] = "done"]
  /\ watchers' = Unwatch(JoinPeer[sending])
  /\ UNCHANGED <<queue, items, dialer, status, notes, events, sending, tasks,
                 inputs, missed>>

\* The send meets a call that still waits.  Whether the peer connected or could
\* not be reached, the call returns no error.
Send ==
  /\ sending # None /\ joins[sending] = "watch"
  /\ joins' = [joins EXCEPT ![sending] = "done"]
  /\ watchers' = Unwatch(JoinPeer[sending])
  /\ sending' = None
  /\ UNCHANGED <<queue, items, dialer, status, notes, events, tasks, inputs, missed>>

-----------------------------------------------------------------------------
DialLoop == CheckSlots \/ Pop \/ BeginWait \/ Connect

JoinStep(j) == Watch(j) \/ Expire(j) \/ GiveUp(j)

Next ==
  \/ DialLoop \/ Notify \/ HandleEvent \/ Send
  \/ \E p \in Targets : AddRandom(p) \/ Del(p) \/ EndHandshake(p) \/ Leave(p)
  \/ \E j \in Joins : JoinStep(j) \/ \E timeout \in BOOLEAN : Join(j, timeout)

\* Goroutines and timers go on.  Nobody has to ask for a peer, and a handshake,
\* whose Hello has no deadline, need not end.
Fairness ==
  /\ WF_vars(DialLoop) /\ WF_vars(Notify) /\ WF_vars(HandleEvent) /\ WF_vars(Send)
  /\ \A j \in Joins : WF_vars(JoinStep(j))

Spec == Init /\ [][Next]_vars /\ Fairness

-----------------------------------------------------------------------------
(* Properties *)

\* Tasks do not stay in the queue while there are slots, unless a wakeup came
\* between a check of runDial or pop and the wait that follows it, or runDial
\* stopped with slots left because it had dialled as many peers in this round.
QueueServed == <>[](queue # {}) => []<>(NumOpenSlots = 0) \/ <>missed

\* Calls of Join return, unless the join watcher sends to a call whose timeout
\* has fired: it holds the lock that call needs to go on.
JoinReturns ==
  []<>(\/ \A j \in Joins : joins[j] \in {"none", "done", "timeout"}
       \/ sending # None /\ joins[sending] = "expired")
=============================================================================
