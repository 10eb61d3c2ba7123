CONSTANTS
  S = S  C = C  n0 = n0  x = x
  Atoms = {S}
  Lits = {n0}
  FVars = {x}
  NDecls = 3
  Defs = {1, 2}
  Quots = {3}
  BuiltIn <- MCBuiltIn
  StandardQuot = TRUE
  KeepGoing = TRUE
  RuledFailure = FALSE
  MaxLoad = 1
  MaxNodes = 5
  MaxDeriving = 2
SPECIFICATION Spec
INVARIANTS HashConsed NoHandleAcrossReclaim
PROPERTIES ImplementsStore
CHECK_DEADLOCK FALSE
