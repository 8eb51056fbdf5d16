\* A stray line on an upstream's stdout, then a second call on the same client.
SPECIFICATION Spec
CONSTANTS
  Calls = {c1, c2}
  Hosts = {h1, h2}
  Capable = {h1}
  Clients = {u1}
  Questions = {q1}
  None = None
  Error = Error
  Dropped = Dropped
  MaxNoise = 1
  MaxReplies = 1
INVARIANT QuestionsOnOwnCall
CHECK_DEADLOCK FALSE
