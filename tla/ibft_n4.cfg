CONSTANTS
  P = P
  A = A
  B = B
  C = C
  D = D
  E = E
  Validators = {P, A, B, C}
  ProposerOf <- MCProposerOf
  Genesis = Genesis
  Nil = Nil
  Kinds = {"good", "badHeader", "badBody"}
  Salts = {1}
  MaxHeight = 1
  MaxRound = 1
SPECIFICATION SpecAnyN
SYMMETRY Others1
INVARIANTS
  IndInv
  Agreement
  SealsArePrepared
PROPERTIES
  LockHeldUntilInserted
  ViewsGrowAnyN
