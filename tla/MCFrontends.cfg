SPECIFICATION MCSpec
CONSTANTS
  proxy1 = proxy1
  c1 = c1
  c2 = c2
  c3 = c3
  post1 = post1
  post2 = post2
  Participants = {proxy1}
  Connections = {c1, c2, c3}
  Owner <- MCOwner
  Threads = {t1}
  NewThreads = {n1}
  RequestIds = {i1}
  MaxRequests = 3
  MaxFailures = 2
  MaxTimers = 7
  MaxGone = 1
  MaxEpochs = 1
  NoConn = NoConn
  Post = {post1, post2}
  Mutation = {m1, m2}
  NoPost = NoPost
  ResultLimit = 1
  ActiveLimit = 1
  MaxGen = 2
  MaxDoc = 2
SYMMETRY MCSymmetry
CHECK_DEADLOCK FALSE
INVARIANTS
  ParticipantInvariant
  PromptInvariant
PROPERTIES
  ParticipantSteps
  ReceiptsAreFinal
