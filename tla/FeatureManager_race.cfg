SPECIFICATION Spec
CONSTANTS
  Inst = {i1}
  Thread = {t1}
  None = None
  MaxPosts = 1
  Quiesce = FALSE
INVARIANTS
  PostTouchesLive
