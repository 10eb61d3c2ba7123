CONSTANTS
  a = a  b = b  c = c
  Names = {a, b, c}
  Exports <- EarlyLiteral
  Opts <- PlainOpts
  MaxJobs = 2
SPECIFICATION Spec
INVARIANT AcceptedInOrder
