SPECIFICATION Spec
CONSTANTS
  Ev = {e1, e2}
  Cb = {c1}
  MaxNodes = 1
  MaxDepth = 1
  SelfRemoval = TRUE
SYMMETRY Symmetry
INVARIANTS
  CursorAlive
