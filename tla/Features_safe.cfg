SPECIFICATION FeaturesSpec
CONSTANTS
  Ev = {e1, e2}
  Cb = {c1, c2, c3}
  MaxNodes = 4
  MaxDepth = 3
  SelfRemoval = FALSE
  Service = {s1}
  Topic = {t1}
  Fn = {e1, e2}
  MaxReplies = 1
  MaxCid = 3
  MaxListeners = 2
  MaxPosted = 1
  Crossing = FALSE
  Download = {d1, d2, d3, d4}
  Page = {e1, e2}
  NoInfo = NoInfo
  Abandon = FALSE
  FileCall = {e1, e2, c3}
  Kinds = {"readText", "readArrayBuffer", "append", "overwrite", "delete",
           "mkdir", "rmdir"}
  Threads = 2
  Sensor = {x1, x2}
  User = {u1, u2}
  Client = {e1, e2}
  NoClient = NoClient
  Subscriber = {e1, e2}
  NoSubscriber = NoSubscriber
  EventName = {b1, b2}
  MaxSubs = 4
  Careless = FALSE
  Block = {e1, e2}
  Junk = Junk
  Holder = {h1, h2}
  Script = h1
  Growth = 1
  MaxSize = 2
  MaxHeld = 2
  Managed = FALSE
  Beyond = FALSE
  Asker = {e1, e2}
  Key = {k1}
  Promise = {q1, q2}
  Place = {p1, p2, p3}
  NoRequest = NoRequest
  MaxQueued = 4
  Reuse = TRUE
  Owner = {e1, e2}
  Work = {c1, c2, c3}
  Nowhere = Nowhere
  Workers = 2
  Entries = 1
  Failing = TRUE
  Dirty = FALSE
  Abrupt = FALSE
  Mishap = {}
  Pair = {k1, p1}
SYMMETRY Symmetry
INVARIANTS
  FeaturesTypeOK
  EventsInOrder
  SnapshotCurrent
  ListenersCutOff
  SharedInfoAlive
  AppendsKept
  SamplesToLive
  PublishReaches
  CalledInTurn
  CountsExact
  AnswerOnItsWay
  ListedUntilFreed
  CryptoExact
