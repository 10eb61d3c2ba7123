CONSTANTS
  Consts <- MCConsts
  Scripts <- MCScripts
  Unsigned <- MCUnsigned
  PROBE = 2
  MaxFailures = 1
  apply <- Apply
  inst_pi <- InstPi
  lam_dom <- LamDom
  whnf <- Whnf
  step <- StepIn
  value_type <- ValueType
  const_type <- ConstType
  is_prop_type <- IsPropType
  has_unit_type <- OfUnitType
  telescope <- TelescopeOf
  asks_k <- K_Asks
  k_type <- K_Type
  k_ctor <- K_Ctor
  k_major <- K_Major
  iota_with <- Iota
  check_const <- CheckConst
  def_eq <- Equal
  clean <- IsClean
SPECIFICATION Spec
INVARIANTS VerdictRight CachesSound MemoSound ProbeScoped NothingMissing
