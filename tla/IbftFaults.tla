----------------------------- MODULE IbftFaults -----------------------------
(***************************************************************************)
(* Ibft with syncing and at most MaxFaults failures among the validators   *)
(* of Faulty: a process that dies and starts again (only its chain         *)
(* survives), a sync peer that is lost, a hook that fails after the block  *)
(* was written.                                                            *)
(***************************************************************************)
EXTENDS Ibft

CONSTANTS
  Faulty,    \* the validators that can fail
  MaxFaults  \* bound on the number of failures

ASSUME FaultyAssumption == Faulty \subseteq Validators /\ MaxFaults \in Nat

VARIABLES
  faults, \* the validators that have failed so far
  resumed \* history: see Resumes

varsFaults == <<vars, faults, resumed>>

\* The process dies and starts again: newState, an empty message queue, and
\* SyncState.  The messages of others may still be on their way.
Restart(n) ==
  /\ state' = [state EXCEPT ![n] = "Sync"]
  /\ view' = [view EXCEPT ![n] = View(0, 0)]
  /\ Unlock(n)
  /\ roundMessages' = [roundMessages EXCEPT ![n] = [r \in 0..MaxRound |-> {}]]
  /\ rcQueue' = [rcQueue EXCEPT ![n] = {m \in @ : m.from # n}]
  /\ UNCHANGED <<chain, msgs>>

\* The peer that was ahead is gone when runSyncState asks for it.
SyncPeerLost(n) ==
  /\ state[n] = "Sync"
  /\ PeerAhead(n)
  /\ EnterAccept(n, View(Len(chain[n]) + 1, 0))
  /\ UNCHANGED <<block, locked, chain, msgs>>

\* InsertBlockHook (updateValidators) fails after the block was written: the
\* view does not advance.
InsertHookFails(n) ==
  /\ Validating(n)
  /\ CommitsOnBlock(n) /\ Executes(n)
  /\ commits' = commits \cup SendsCommit(n)
  /\ Unlock(n)
  /\ chain' = [chain EXCEPT ![n] = WriteBlock(n, block[n])]
  /\ EnterRoundChange(n)
  /\ UNCHANGED <<preprepares, prepares>>

FaultStep(n) ==
  /\ Len(faults) < MaxFaults
  /\ faults' = Append(faults, n)
  /\ Restart(n) \/ SyncPeerLost(n) \/ InsertHookFails(n)

\* n has proposed or sealed a block at height h.
Bound(n, h) ==
  \E m \in preprepares \cup commits : m.from = n /\ m.view.seq = h

\* n leaves SyncState for a height at which it has proposed or sealed, or
\* with a lock: runSyncState starts at round 0 whatever was said before.
Resumes(n) ==
  /\ state[n] = "Sync" /\ state'[n] = "Accept"
  /\ Bound(n, view'[n].seq) \/ locked[n]

InitFaults == Init /\ faults = <<>> /\ resumed = FALSE

NextFaults ==
  /\ \/ \E n \in Faulty : FaultStep(n)
     \/ NextSync /\ UNCHANGED faults
  /\ resumed' = (resumed \/ \E n \in Validators : Resumes(n))

SpecFaults == InitFaults /\ [][NextFaults]_varsFaults

\* Restarts, lost peers, failed hooks and syncing cost agreement only when a
\* validator comes out of SyncState at a height where it has proposed or
\* sealed, or with a lock (newState and runSyncState keep nothing of that).
AgreementUnlessResumed == resumed \/ Agreement
=============================================================================
