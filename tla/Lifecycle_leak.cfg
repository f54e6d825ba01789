SPECIFICATION LifecycleLiveSpec
CONSTANTS
  Inst = {i1, i2}
  Feat = {f1}
  NoInst = NoInst
  Cross = FALSE
  MaxFns = 2
PROPERTIES
  UnneededFreed
