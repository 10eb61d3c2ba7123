CONSTANTS
  a = a  b = b  c = c
  Names = {a, b, c}
  Exports <- MCExports
  Opts <- MCOpts
  MaxJobs = 2
SPECIFICATION Spec
INVARIANT DocExitZero
