CONSTANTS
  Params <- MCParams
  Start <- MCStart
  MaxSize = 8
  Values = {0, 1, 2, 3}
  MaxSteps = 1
  mk_succ_n <- TheMkSuccN
  to_offset <- TheToOffset
  is_never_zero <- TheIsNeverZero
  is_norm_lt <- TheIsNormLt
  push_max_args <- ThePushMaxArgs
  mk_max_list <- TheMkMaxList
  last_of_base <- TheLastOfBase
  all_args <- TheAllArgs
  normalize <- TheNormalized
  is_geq <- TheIsGeq
  lvl_zero <- TheLvlZero
  instantiate_level_params <- TheInstantiated
  params_of <- TheParamsOf
  value <- TheValueOf
  parts <- TheParts
SPECIFICATION Spec
INVARIANTS MeaningKept EquivalentSound ComparisonsSound
CHECK_DEADLOCK FALSE
