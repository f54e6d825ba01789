SPECIFICATION LifecycleSpec
CONSTANTS
  Inst = {i1, i2}
  Feat = {f1}
  NoInst = NoInst
  Cross = TRUE
  MaxFns = 2
SYMMETRY Symmetry
INVARIANTS
  NextNodeAlive
