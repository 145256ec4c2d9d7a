---------------------------- MODULE MCIbftFaults ----------------------------
(* Instances of IbftFaults for TLC. *)
EXTENDS IbftFaults, TLC

CONSTANTS P, A, B, C

\* P proposes at height 1, A at every later height.
MCProposerOf(b) == IF b = Genesis THEN P ELSE A

\* Narrows the search for the fork after a restart: P fails in round 0 of
\* height 1, A takes part from round 1 on, C stays in round 0.
RestartScenario ==
  /\ faults = <<>> => view[P].round = 0 /\ chain[P] = <<>>
  /\ state[A] \in {"Validate", "Sealed"} => view[A].round = 1
  /\ view[C].round = 0

\* The same validator proposes at every height, and the others are
\* interchangeable.
SameProposer(b) == P
Others == Permutations({A, B, C})

\* What follows once a validator has resumed is not explored:
\* AgreementUnlessResumed holds there whatever happens.  A run has a second
\* height, or a second round and then no failure but the proposer's.
NotResumed ==
  /\ ~resumed
  /\ \/ \A n \in Validators : view[n].round = 0
     \/ /\ \A n \in Validators : view[n].seq > 1 => view[n].round = 0
        /\ \A m \in preprepares : m.view.seq = 1
        /\ \A i \in DOMAIN faults : faults[i] = P
=============================================================================
