SPECIFICATION FeaturesSpec
CONSTANTS
  Caller = {i1, i2}
  Req = {r1, r2}
  Addr = {a1, a2}
  None = None
  LateDecisions = 0
  DetachInCallback = FALSE
  Msg = {q1, q2, q3}
  Message = {q1, q2}
  Diagnosis = {d1, d2}
  NoCall = NoCall
  MaxReports = 2
  GetCall = {q1, q2}
  Client = {x1, x2}
  NoClient = NoClient
  GnssTopic = {n1, n2}
  MaxGets = 1
  MaxBatch = 2
  Quit = FALSE
  Dialog = {w1, w2}
  NoDialog = NoDialog
  QueueLimit = 2
  LeaveEarly = FALSE
  FetchCall = {q1, q2}
  FetchPage = {x1, x2}
INVARIANTS
  TypedAndAlive
  AnsweredOnce
  RequestsCutOff
  OneWayToSettle
  TopicForActive
  AnswersOnce
PROPERTIES
  WaitingSettled
  RequestsSettled
  ConnectingWaitEnds
  GetsAndTopicsEnd
  AnswersCome
CHECK_DEADLOCK FALSE
