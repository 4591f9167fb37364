SPECIFICATION FairSpec
CONSTANTS
  api = api
  cache = cache
  hook = hook
  NoFn = NoFn
  Fns = {api, cache, hook}
  Config <- Mutual
  MaxDepth = 3
  MaxTime = 3
  MaxCalls = 5
INVARIANTS
  TypeOK
  CountersMatchCalls
  CooldownIsRespected
  BelowTwiceTheLimit
  IInv
PROPERTY
  EveryCallReturns
