\* Two calls of either host, on one client or on two, with one stray line or exit and duplicate replies.
SPECIFICATION Spec
CONSTANTS
  Calls = {c1, c2}
  Hosts = {h1, h2}
  Capable = {h1}
  Clients = {u1, u2}
  Questions = {q1, q2}
  None = None
  Error = Error
  Dropped = Dropped
  MaxNoise = 1
  MaxReplies = 2
SYMMETRY Symmetric
INVARIANTS TypeOK OwnAnswer DecisionsFit CapabilitiesHonoured NoQuestionAfterEof CleanQuestionsOnOwnCall
PROPERTY PromiseKept
CHECK_DEADLOCK FALSE
