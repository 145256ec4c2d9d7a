------------------------------- MODULE MCIbft -------------------------------
(* Instances of Ibft for TLC: four validators, or (part) three, where F = 0    *)
(* and a weak certificate is a single message, and one more round.             *)
EXTENDS Ibft, TLC

CONSTANTS P, A, B, C, D, E

\* P and A propose in turn, P at height 1.
MCProposerOf(b) == IF b = Genesis THEN P ELSE IF b.num % 2 = 0 THEN P ELSE A

\* The validators that do not propose at height 1, and those that do not
\* propose at height 1 or 2, are interchangeable.
Others1 == {f @@ g : f \in Permutations({A, B, C}), g \in Permutations({D, E})}

VARIABLES part, state3, view3, block3, locked3, roundMessages3, rcQueue3, chain3,
          preprepares3, prepares3, commits3

Three == INSTANCE Ibft WITH
  Validators <- {P, D, E}, Kinds <- {"good"}, MaxHeight <- 1, MaxRound <- 2,
  state <- state3, view <- view3, block <- block3, locked <- locked3,
  roundMessages <- roundMessages3, rcQueue <- rcQueue3, chain <- chain3,
  preprepares <- preprepares3, prepares <- prepares3, commits <- commits3

vars3 == <<state3, view3, block3, locked3, roundMessages3, rcQueue3, chain3,
           preprepares3, prepares3, commits3>>

InitAnyN == part \in {"four", "three"} /\ Init /\ Three!Init
FourStep == part = "four" /\ Next /\ UNCHANGED <<part, vars3>>
ThreeStep == part = "three" /\ Three!Next /\ UNCHANGED <<part, vars>>
SpecAnyN == InitAnyN /\ [][FourStep \/ ThreeStep]_<<part, vars, vars3>>

\* With four validators or with three, where one RoundChange message of a later
\* round is enough to catch up (runRoundChangeState), no step takes a validator
\* back to an earlier view.
ViewsGrowAnyN ==
  [][/\ \A n \in Validators : view'[n] # view[n] => Later(view'[n], view[n])
     /\ \A n \in {P, D, E} : view3'[n] # view3[n] => Later(view3'[n], view3[n])]_<<vars, vars3>>
=============================================================================
