SPECIFICATION TasksAndCallsSpec
CONSTANTS
  Inst = {i1, i2}
  Thread = {t1, t2}
  None = None
  MaxPosts = 3
  Quiesce = TRUE
  MaxParams = 2
  MaxNested = 2
  Latitude = {}
  OptionalsWait = FALSE
  Places <- TwoLevels
  Arguments <- AllArguments
  StoreCall = {f1, f2}
  StorageKey = {k1}
  SharedKey = {p1}
  ClearFails = FALSE
  Preview = {m1, m2, m3}
  Ids = 2
  LeaveWithin = FALSE
  HealthCall = {f1, f2}
  HealthPage = {h1, h2}
  MaxTypes = 2
  MaxTopics = 3
  Setting = {m1, m2, m3}
  PkgCall = {f1, f2}
  Package = {p1}
  Gesture = {m1, m2, m3}
  InputWorkers = 2
INVARIANTS
  RefCountExact
  InOrderOnce
  NothingLeaks
  CallsExact
  ArgumentsOwned
  AnswersKept
  PreviewsInStep
  HealthInStep
  RequestsAccountedFor
PROPERTIES
  ImplementsMailbox
  AcceptedTasksRun
