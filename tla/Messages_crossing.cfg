SPECIFICATION ListenersSpec
CONSTANTS
  Service = {s1}
  Topic = {t1}
  Fn = {f1, f2}
  MaxReplies = 1
  MaxCid = 3
  MaxListeners = 2
  MaxPosted = 1
  Crossing = TRUE
INVARIANTS
  ListenersCutOff
