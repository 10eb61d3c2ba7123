CONSTANTS
  T = T  U = U  J = J  rT = rT  rU = rU  d1 = d1  d2 = d2  p = p
  u = u  w = w  yes = yes  no = no  mono = mono  lu = lu  lw = lw  l0 = l0
  Names = {T, U, J, rT, rU, d1, d2, p}
  Lists = {mono, lu, lw, l0}
  NoParams = mono
  Scopes = {u, w}
  Rels = {yes, no}
  KeepGoing = TRUE
  MaxNest = 1
  Exports <- MCExports
SPECIFICATION Spec
INVARIANTS SessionCurrent SigCurrent VerdictUncached EnvExact
