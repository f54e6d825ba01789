SPECIFICATION ArraysSpec
CONSTANTS
  Block = {e1, e2}
  Junk = Junk
  Holder = {h1}
  Script = h1
  Growth = 1
  MaxSize = 2
  MaxHeld = 2
  Managed = TRUE
  Beyond = FALSE
INVARIANTS
  CountsExact
