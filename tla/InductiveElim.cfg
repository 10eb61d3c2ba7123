CONSTANTS
  Declared <- MCDeclared
  Blocks <- WeakExports
SPECIFICATION Spec
INVARIANTS BlockVerdict
