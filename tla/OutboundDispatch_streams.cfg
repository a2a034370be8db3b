SPECIFICATION Spec
CONSTANTS
  chatC = chatC
  chatD = chatD
  s1 = s1
  s2 = s2
  None = None
  Chats = {chatC, chatD}
  Streams = {s1, s2}
  Plans <- MCPlans
  Limit = 2
  Chunk = 2
  MaxAttempts = 3
  MaxFaults = 2
INVARIANTS
  ShownOnce
  ShownComplete
