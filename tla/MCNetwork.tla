----------------------------- MODULE MCNetwork -----------------------------
(* Three services of a node that run beside each other and share no state: a *)
(* behaviour is one of the connections and slots of peers, one of the dial   *)
(* loop and the calls of Join, or one of the filters of clients, and part    *)
(* says which.                                                               *)
EXTENDS Peers, Sequences, TLC

CONSTANT None

\* One peer with connections both ways, and a rival for the inbound slot.
MCConns == {"a1", "a2", "b1"}
MCPeerOf == "a1" :> "a" @@ "a2" :> "a" @@ "b1" :> "b"
MCDirOf == "a1" :> "in" @@ "a2" :> "out" @@ "b1" :> "in"

VARIABLES
  part,
  queue, items, dialer, status, notes, events, joins, watchers, sending, tasks, inputs, unheard,
  stream, watcher, run, filters, heap, blocks, locked, calls, broken, sent, due, missed

\* Two calls of Join for one peer, and a second peer that discovery adds.
D == INSTANCE Dial WITH
       Targets <- {"a", "b"}, JoinPeer <- <<"a", "a">>, MaxInputs <- 2, MaxOutbound <- 1,
       missed <- unheard

\* Blocks 1, 2 and 4 have logs; the receipts of block 3 are not stored.  The
\* first event is a reorganisation, which lists the new head first.
Log(t) == [address |-> "a", topics |-> <<t>>]
Topic == [addresses |-> {}, topics |-> <<{"x"}>>]
Ask(query, ws) == [query |-> query, ws |-> ws]
F == INSTANCE Filters WITH
       Receipts <- (1 :> <<Log("x"), Log("y")>> @@ 2 :> <<Log("x")>> @@ 4 :> <<Log("x")>>),
       Requests <- <<{Ask(Topic, TRUE)}, {Ask(None, FALSE)}, {Ask(None, TRUE), Ask(Topic, FALSE)}>>,
       Events <- <<[old |-> <<1>>, new |-> <<3, 2>>], [old |-> <<>>, new |-> <<4>>]>>,
       MaxInputs <- 3, MaxCut <- 1

dialVars == <<queue, items, dialer, status, notes, events, joins, watchers, sending, tasks, inputs, unheard>>
filterVars == <<stream, watcher, run, filters, heap, blocks, locked, calls, broken, sent, due, missed>>
allVars == <<part, vars, dialVars, filterVars>>

NetworkInit == part \in {"peers", "dial", "filters"} /\ Init /\ D!Init /\ F!Init

PeersStep == part = "peers" /\ Next /\ UNCHANGED <<part, dialVars, filterVars>>
DialStep == part = "dial" /\ D!Next /\ UNCHANGED <<part, vars, filterVars>>
FiltersStep == part = "filters" /\ F!Next /\ UNCHANGED <<part, vars, dialVars>>

NetworkNext == PeersStep \/ DialStep \/ FiltersStep

\* The fairness of each part, where it is the one that runs.
Fairness ==
  /\ \A c \in Conns : WF_vars(part = "peers" /\ HandshakeGoesOn(c))
  /\ WF_dialVars(part = "dial" /\ D!DialLoop)
  /\ WF_dialVars(part = "dial" /\ D!Notify)
  /\ WF_dialVars(part = "dial" /\ D!HandleEvent)
  /\ WF_dialVars(part = "dial" /\ D!Send)
  /\ \A j \in D!Joins : WF_dialVars(part = "dial" /\ D!JoinStep(j))
  /\ WF_filterVars(part = "filters" /\ F!Watch)
  /\ WF_filterVars(part = "filters" /\ F!Loop)
  /\ WF_filterVars(part = "filters" /\ \E i \in F!Ids : F!WakeRun(i))

NetworkSpec == NetworkInit /\ [][NetworkNext]_allVars /\ Fairness

\* A task does not stay in the queue while there are slots (D!QueueServed).
QueueServed == D!QueueServed

\* A call of Join returns (D!JoinReturns).
JoinReturns == D!JoinReturns

\* A client is given what was dispatched, once and in order (F!Delivered).
Delivered == F!Delivered

\* A pushed event is dispatched (F!EventArrives).
EventArrives == F!EventArrives

\* A filter goes, by its client or by its timeout (F!FilterGoes).
FilterGoes == F!FilterGoes
=============================================================================
