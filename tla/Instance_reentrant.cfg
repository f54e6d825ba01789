SPECIFICATION ResultsSpec
CONSTANTS
  Op = {o1}
  Fn = {f1, f2}
  Nil = Nil
  MaxDepth = 2
  Liberty = {"letgo"}
SYMMETRY Symmetry
INVARIANTS
  RunningDataAlive
