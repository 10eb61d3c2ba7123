CONSTANTS
  Decls <- MCDecls
  LetVars <- MCLetVars
  Refls = {"h"}
  Structs = {"p"}
  Programs <- MCPrograms
  Queries <- MCQueries
  MaxNest = 2
  MaxLimits = 1
  get_app_fn <- TheGetAppFn
  get_app_args <- TheGetAppArgs
  mk_apps <- TheMkApps
  loose_bvar_range <- TheLooseBVarRange
  instantiate <- TheInstantiate
  occurs <- TheOccurs
  num_lams <- TheNumLams
  to_ctor_when_K <- TheToCtorWhenK
  to_ctor_when_struct <- TheToCtorWhenStruct
  whnf <- TheWhnf
  normal <- TheNormal
  fuse_term <- TheFuseTerm
  opened <- TheOpened
  is_rec_body <- TheIsRecBody
  shape_of <- TheShape
  shape_ok <- TheShapeOk
  unfolded <- TheUnfolded
  called <- TheCalled
  arm_of <- TheArm
  readback <- TheReadback
  mk_thunks <- TheMkThunks
  can_take <- TheCanTake
  take_args <- TheTakeArgs
  strip <- TheStrip
  mk_hyps <- TheMkHyps
  lit_value <- TheLitValue
  roots <- TheRoots
SPECIFICATION Spec
INVARIANTS ValueMeaning ValueWhnf ResultMeaning NoInternalError Acyclic
PROPERTIES UnfoldingsMeaning ValuesFinal Termination
