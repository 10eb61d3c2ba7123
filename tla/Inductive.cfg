CONSTANTS
  Declared <- MCDeclared
  Blocks <- MCBlocks
SPECIFICATION Spec
INVARIANTS BlockVerdict AuxiliariesExact RestoresExact RecursorsTyped HypothesesExact
