CONSTANTS
  P = P
  A = A
  B = B
  C = C
  Validators = {P, A, B, C}
  ProposerOf <- SameProposer
  Genesis = Genesis
  Nil = Nil
  Faulty = {P, A, B, C}
  MaxFaults = 1
  Kinds = {"good"}
  Salts = {1}
  MaxHeight = 2
  MaxRound = 1
SPECIFICATION SpecFaults
CONSTRAINT NotResumed
SYMMETRY Others
INVARIANT AgreementUnlessResumed
