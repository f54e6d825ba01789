SPECIFICATION EngineSpec
CONSTANTS
  Op = {o1, o2, o3}
  Fn = {f1, f2}
  Nil = Nil
  MaxDepth = 3
  Liberty = {}
  Inst = {o1, o2, o3}
  Feat = {f1, f2}
  NoInst = NoInst
  Cross = TRUE
  MaxFns = 2
  Caller = {i1, i2}
  Req = {o1, o2, o3}
  Addr = {f1, f2}
  None = None
  LateDecisions = 2
  DetachInCallback = TRUE
SYMMETRY Symmetry
INVARIANTS
  ResultsHeard
  ObjectsInStep
  SetExact
  SettledOnce
  ArgsReleasedOnce
