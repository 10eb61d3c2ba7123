CONSTANTS
  a = a  b = b  c = c
  Names = {a, b, c}
  Exports <- MCExports
  Opts <- MCOpts
  MaxJobs = 2
SPECIFICATION FairSpec
INVARIANTS TypeOK ExitZeroMeansAccepted CheckedOnce AcceptedCitesEarlier SoundExportAccepted TotalsAddUp
PROPERTIES ImplementsVerdict Termination
