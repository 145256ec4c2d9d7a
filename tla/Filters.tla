------------------------------ MODULE Filters ------------------------------
(***************************************************************************)
(* The filters of the JSON-RPC server (rpc/filter_manager.go) fed by the   *)
(* event stream of the blockchain (core/subscription.go).                  *)
(*                                                                         *)
(* Four kinds of goroutine meet here: the writer of blocks pushes events;  *)
(* the watcher takes them from the stream; the loop of Run dispatches them *)
(* and removes filters that are due; the handlers of requests add, poll    *)
(* and uninstall filters.  A section under the manager's lock is one step. *)
(* Each wakeup is a non-blocking send on a channel without a buffer: it    *)
(* reaches a receiver that already waits and is dropped otherwise.         *)
(*                                                                         *)
(* Every filter lives equally long and reads the clock under the lock, so  *)
(* the deadlines are in the order in which the filters were added: filters *)
(* are numbered in that order, and a timer that is set fires at any time.  *)
(***************************************************************************)
EXTENDS Integers, Sequences, FiniteSets, TLC, SequencesExt

CONSTANTS
  Requests,    \* Requests[i]: what the i-th request for a filter may ask for
  Receipts,    \* block -> the logs of its receipts, where they are stored
  Events,      \* the events the blockchain pushes, in order
  MaxInputs,   \* bound on the events pushed and the filters added together
  MaxCut,      \* bound on the messages a connection takes before it fails
  None

\* uuid.New gives every filter an identifier of its own.
Ids == DOMAIN Requests

VARIABLES
  stream,   \* the events pushed, after the empty one of NewBlockchain
  watcher,  \* goroutine of Run: [pc, elem], elem the last event it has taken
  run,      \* loop of Run: [pc, filter], the filter its timer is set for
  filters,  \* id -> [query, ws, block, logs]
  heap,     \* [timer, index]: the heap of identifiers and their positions
  blocks,   \* blockStream
  locked,   \* a call has returned without releasing the lock
  calls,    \* addFilter calls that have not tried to wake the loop yet
  broken,   \* websocket filters whose connection has failed
  sent,     \* history: id -> what its client has been given
  due,      \* history: id -> what has been dispatched since it was added
  missed    \* history: the wakeups that found nobody waiting

vars == <<stream, watcher, run, filters, heap, blocks, locked, calls,
          broken, sent, due, missed>>

-----------------------------------------------------------------------------
(* The heap of deadlines: container/heap over timeHeapImpl *)

Less(h, i, j) == h.timer[i] < h.timer[j]

Swap(h, i, j) ==
  [timer |-> [h.timer EXCEPT ![i] = h.timer[j], ![j] = h.timer[i]],
   index |-> [h.index EXCEPT ![h.timer[j]] = i, ![h.timer[i]] = j]]

RECURSIVE Up(_, _)
Up(h, j) ==
  LET i == j \div 2
  IN IF j = 1 \/ ~Less(h, j, i) THEN h ELSE Up(Swap(h, i, j), i)

\* down looks at the first n elements only.
RECURSIVE Down(_, _, _)
Down(h, i, n) ==
  LET j == IF 2 * i + 1 <= n /\ Less(h, 2 * i + 1, 2 * i) THEN 2 * i + 1 ELSE 2 * i
  IN IF 2 * i > n \/ ~Less(h, j, i) THEN h ELSE Down(Swap(h, i, j), j, n)

Pop(h) ==
  [timer |-> Front(h.timer),
   index |-> [f \in DOMAIN h.index \ {Last(h.timer)} |-> h.index[f]]]

\* heap.Remove: the last element fills the hole and finds its place.
HeapRemove(h, i) ==
  LET n == Len(h.timer)
      s == Swap(h, i, n)
      d == Down(s, i, n - 1)
  IN IF i = n THEN Pop(h) ELSE Pop(IF d # s THEN d ELSE Up(s, i))

-----------------------------------------------------------------------------
(* Logs and blocks *)

\* Match: one of the addresses, and at each position one of the topics; an
\* empty list of either matches everything.
Match(q, log) ==
  /\ q.addresses = {} \/ log.address \in q.addresses
  /\ Len(q.topics) <= Len(log.topics)
  /\ \A i \in DOMAIN q.topics : q.topics[i] = {} \/ log.topics[i] \in q.topics[i]

\* processBlock for one filter; without receipts the block is skipped.
BlockLogs(b, q, removed) ==
  LET hits == SelectSeq(IF b \in DOMAIN Receipts THEN Receipts[b] ELSE <<>>,
                        LAMBDA log : Match(q, log))
  IN [i \in DOMAIN hits |-> [log |-> hits[i], block |-> b, removed |-> removed]]

EventLogs(e, q) ==
  FlattenSeq([i \in DOMAIN e.old |-> BlockLogs(e.old[i], q, TRUE)])
    \o FlattenSeq([i \in DOMAIN e.new |-> BlockLogs(e.new[i], q, FALSE)])

IsBlockFilter(f) == f.query = None

\* getUpdates: the blocks after the one the filter points at.
Updates(f, bs) == SubSeq(bs, f.block + 1, Len(bs))

\* What a filter still has to give its client.
Pending(f, bs) == IF IsBlockFilter(f) THEN Updates(f, bs) ELSE f.logs

Taken(f, bs) == [f EXCEPT !.block = Len(bs), !.logs = <<>>]

-----------------------------------------------------------------------------
(* The event stream *)

Init ==
  /\ stream = <<>>
  /\ watcher = [pc |-> "look", elem |-> 0]
  /\ run = [pc |-> "top", filter |-> None]
  /\ filters = <<>>
  /\ heap = [timer |-> <<>>, index |-> <<>>]
  /\ blocks = <<0>>
  /\ locked = FALSE
  /\ calls = {}
  /\ broken = {}
  /\ sent = <<>> /\ due = <<>>
  /\ missed = {}

\* Mutant: a pushed event wakes nobody.
PushSilent ==
  /\ Len(stream) < Len(Events) /\ Len(stream) + Len(sent) < MaxInputs
  /\ stream' = Append(stream, Events[Len(stream) + 1])
  /\ UNCHANGED <<watcher, run, filters, heap, blocks, locked, calls, broken,
                 sent, due, missed>>

\* push links the event and wakes a watcher that waits; one that has found the
\* list at its end and does not wait yet misses the wakeup.
Push ==
  /\ Len(stream) < Len(Events) /\ Len(stream) + Len(sent) < MaxInputs
  /\ stream' = Append(stream, Events[Len(stream) + 1])
  /\ watcher' = IF watcher.pc = "wait" THEN [watcher EXCEPT !.pc = "look"] ELSE watcher
  /\ missed' = missed \cup (IF watcher.pc = "gap" THEN {"event"} ELSE {})
  /\ UNCHANGED <<run, filters, heap, blocks, locked, calls, broken, sent, due>>

\* GetEvent takes the next event, or goes on to wait for one.
GetEvent ==
  /\ watcher.pc = "look"
  /\ watcher' = IF watcher.elem < Len(stream)
                THEN [pc |-> "send", elem |-> watcher.elem + 1]
                ELSE [watcher EXCEPT !.pc = "gap"]
  /\ UNCHANGED <<stream, run, filters, heap, blocks, locked, calls, broken,
                 sent, due, missed>>

Wait ==
  /\ watcher.pc = "gap"
  /\ watcher' = [watcher EXCEPT !.pc = "wait"]
  /\ UNCHANGED <<stream, run, filters, heap, blocks, locked, calls, broken,
                 sent, due, missed>>

-----------------------------------------------------------------------------
(* Requests *)

\* addFilter up to the release of the lock.  The new filter has the latest
\* deadline of all, so heap.Push leaves it at the end.
AddFilter(i, ask) ==
  /\ ~locked
  /\ i = Len(sent) + 1 /\ Len(stream) + Len(sent) < MaxInputs
  /\ filters' = filters @@ (i :> [query |-> ask.query, ws |-> ask.ws, block |-> Len(blocks), logs |-> <<>>])
  /\ heap' = [timer |-> Append(heap.timer, i),
              index |-> heap.index @@ (i :> Len(heap.timer) + 1)]
  /\ calls' = calls \cup {i}
  /\ sent' = Append(sent, <<>>)
  /\ due' = Append(due, <<>>)
  /\ UNCHANGED <<stream, watcher, run, blocks, locked, broken, missed>>

\* Mutant: addFilter returns without waking the loop.
WakeNobody(i) ==
  /\ i \in calls
  /\ calls' = calls \ {i}
  /\ UNCHANGED <<stream, watcher, run, filters, heap, blocks, locked, broken,
                 sent, due, missed>>

\* The rest of addFilter: a loop that waits starts over; one that has chosen its
\* timer and does not wait yet misses the wakeup.
WakeRun(i) ==
  /\ i \in calls
  /\ calls' = calls \ {i}
  /\ run' = IF run.pc = "select" THEN [run EXCEPT !.pc = "top"] ELSE run
  /\ missed' = missed \cup (IF run.pc = "arm" THEN {"filter"} ELSE {})
  /\ UNCHANGED <<stream, watcher, filters, heap, blocks, locked, broken, sent, due>>

\* Mutant: the filter keeps its place in the stream of blocks and its logs.
GetFilterChangesAgain(i) ==
  /\ ~locked /\ i \in DOMAIN filters /\ ~filters[i].ws
  /\ Pending(filters[i], blocks) # <<>>
  /\ Len(sent[i]) < 4
  /\ sent' = [sent EXCEPT ![i] = @ \o Pending(filters[i], blocks)]
  /\ UNCHANGED <<stream, watcher, run, filters, heap, blocks, locked, calls,
                 broken, due, missed>>

\* GetFilterChanges of a filter that is there and is polled.  (A poll that has
\* nothing to give answers with a list of one empty string, which names no
\* block, and changes nothing.)
GetFilterChanges(i) ==
  /\ ~locked
  /\ i \in DOMAIN filters /\ ~filters[i].ws
  /\ Pending(filters[i], blocks) # <<>>
  /\ sent' = [sent EXCEPT ![i] = @ \o Pending(filters[i], blocks)]
  /\ filters' = [filters EXCEPT ![i] = Taken(@, blocks)]
  /\ UNCHANGED <<stream, watcher, run, heap, blocks, locked, calls, broken,
                 due, missed>>

\* Uninstall of a filter that is there, and of one that is not, which returns
\* with the lock held.
UninstallIn(i) ==
  IF i \in DOMAIN filters
  THEN /\ filters' = [f \in DOMAIN filters \ {i} |-> filters[f]]
       /\ heap' = HeapRemove(heap, heap.index[i])
       /\ UNCHANGED locked
  ELSE locked' = TRUE /\ UNCHANGED <<filters, heap>>

\* A client uninstalls a filter it was given; it may have expired meanwhile.
Uninstall(i) ==
  /\ ~locked
  /\ i \in DOMAIN sent \ calls
  /\ UninstallIn(i)
  /\ UNCHANGED <<stream, watcher, run, blocks, calls, broken, sent, due, missed>>

-----------------------------------------------------------------------------
(* The loop of Run *)

\* nextTimeoutFilter, and the timer set for the filter it returns.
NextTimeoutFilter ==
  /\ run.pc = "top"
  /\ ~locked
  /\ run' = IF filters = <<>> THEN [pc |-> "arm", filter |-> None]
            ELSE [pc |-> "arm", filter |-> heap.timer[1]]
  /\ UNCHANGED <<stream, watcher, filters, heap, blocks, locked, calls, broken,
                 sent, due, missed>>

Select ==
  /\ run.pc = "arm"
  /\ run' = [run EXCEPT !.pc = "select"]
  /\ UNCHANGED <<stream, watcher, filters, heap, blocks, locked, calls, broken,
                 sent, due, missed>>

\* flush of a websocket filter whose connection takes cut more messages: the
\* blocks are passed over whatever is sent, the logs kept when a send fails.
Flush(f, bs, cut) ==
  IF IsBlockFilter(f) \/ cut >= Len(f.logs) THEN Taken(f, bs) ELSE f

Cut(i, cuts) == IF i \in broken THEN 0 ELSE cuts[i]

\* dispatchEvent: blocks and logs reach every filter, and the websocket filters
\* are flushed.  cuts says how many messages each connection takes before it
\* fails; a connection that has failed takes none.
Dispatch(e, cuts) ==
  LET bs == blocks \o e.new
      new(i) == IF IsBlockFilter(filters[i]) THEN e.new ELSE EventLogs(e, filters[i].query)
      in(i) == IF IsBlockFilter(filters[i]) THEN filters[i]
               ELSE [filters[i] EXCEPT !.logs = @ \o new(i)]
      out(i) == Pending(in(i), bs)
      n(i) == Min({Cut(i, cuts), Len(out(i))})
      ws == {i \in DOMAIN filters : filters[i].ws}
  IN /\ blocks' = bs
     /\ filters' = [i \in DOMAIN filters |->
                      IF i \in ws THEN Flush(in(i), bs, Cut(i, cuts)) ELSE in(i)]
     /\ broken' = broken \cup {i \in ws : Cut(i, cuts) < Len(out(i))}
     /\ sent' = [i \in DOMAIN sent |->
                   IF i \in ws THEN sent[i] \o SubSeq(out(i), 1, n(i)) ELSE sent[i]]
     /\ due' = [i \in DOMAIN due |->
                  IF i \in DOMAIN filters THEN due[i] \o new(i) ELSE due[i]]

\* The loop takes the event the watcher holds.  With the lock gone it would stop
\* inside dispatchEvent.
DispatchEvent ==
  /\ run.pc = "select" /\ watcher.pc = "send"
  /\ ~locked
  /\ \E cuts \in [{i \in DOMAIN filters : filters[i].ws} -> 0 .. MaxCut] :
       Dispatch(stream[watcher.elem], cuts)
  /\ watcher' = [watcher EXCEPT !.pc = "look"]
  /\ run' = [run EXCEPT !.pc = "top"]
  /\ UNCHANGED <<stream, heap, locked, calls, missed>>

\* The timer fires: the filter it was set for is uninstalled, or was already.
Expire ==
  /\ run.pc = "select" /\ run.filter # None
  /\ ~locked
  /\ UninstallIn(run.filter)
  /\ run' = [run EXCEPT !.pc = "top"]
  /\ UNCHANGED <<stream, watcher, blocks, calls, broken, sent, due, missed>>

-----------------------------------------------------------------------------
Loop == NextTimeoutFilter \/ Select \/ DispatchEvent \/ Expire

Watch == GetEvent \/ Wait

Next ==
  \/ Push \/ Watch \/ Loop
  \/ \E i \in Ids :
       \/ \E ask \in Requests[i] : AddFilter(i, ask)
       \/ WakeRun(i) \/ GetFilterChanges(i) \/ Uninstall(i)

\* Goroutines that can go on do, a select that can proceed does, a timer fires.
Fairness ==
  WF_vars(Watch) /\ WF_vars(Loop) /\ WF_vars(\E i \in Ids : WakeRun(i))

Spec == Init /\ [][Next]_vars /\ Fairness

-----------------------------------------------------------------------------
(* Properties *)

\* A client is given what was dispatched since its filter was added, in order,
\* nothing twice and nothing left out; a polled filter still holds the rest, a
\* websocket filter has sent everything unless its connection failed.
Delivered ==
  \A i \in DOMAIN sent :
    /\ IsPrefix(sent[i], due[i])
    /\ i \in DOMAIN filters /\ i \notin broken =>
         due[i] = sent[i] \o Pending(filters[i], blocks)
    /\ i \in DOMAIN filters /\ filters[i].ws /\ i \notin broken => sent[i] = due[i]

\* The pushed events are dispatched, to the last one, unless a wakeup came while
\* the watcher was between finding no event and waiting for one, or the lock was
\* lost.
EventArrives ==
  []<>((watcher.elem >= Len(stream) /\ watcher.pc # "send") \/ "event" \in missed \/ locked)

\* A filter goes, by its client or by its timeout, unless the wakeup of a new
\* filter came while the loop was between choosing its timer and waiting, or the
\* lock was lost.
FilterGoes ==
  \A i \in Ids :
    i \in DOMAIN filters ~> i \notin DOMAIN filters \/ "filter" \in missed \/ locked
=============================================================================
