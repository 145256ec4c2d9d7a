CONSTANTS
  P = P
  A = A
  B = B
  C = C
  Validators = {P, A, B, C}
  ProposerOf <- MCProposerOf
  Genesis = Genesis
  Nil = Nil
  Faulty = {P, A, B, C}
  MaxFaults = 0
  Kinds = {"good"}
  Salts = {1}
  MaxHeight = 2
  MaxRound = 0
SPECIFICATION SpecFaults
PROPERTY InsertAdvances
