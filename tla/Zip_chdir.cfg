SPECIFICATION ZipSpec
CONSTANTS
  Owner = {e1}
  Work = {c1, c2}
  Nowhere = Nowhere
  Workers = 2
  Entries = 1
  Failing = FALSE
  Dirty = FALSE
  Abrupt = FALSE
INVARIANTS
  SuccessMeansExtracted
