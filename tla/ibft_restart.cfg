CONSTANTS
  P = P
  A = A
  B = B
  C = C
  Validators = {P, A, B, C}
  ProposerOf <- MCProposerOf
  Genesis = Genesis
  Nil = Nil
  Faulty = {P}
  MaxFaults = 1
  Kinds = {"good"}
  Salts = {1, 2}
  MaxHeight = 1
  MaxRound = 1
SPECIFICATION SpecFaults
CONSTRAINT RestartScenario
INVARIANT Agreement
