SPECIFICATION SubagentsSpec
CONSTANTS
  a1 = a1
  a2 = a2
  r1 = r1
  r2 = r2
  stop = stop
  new = new
  chatA = chatA
  threadA = threadA
  unified = unified
  None = None
  Messages = {a1, a2, r1, stop}
  Results = {r1}
  Keys = {chatA, threadA, unified}
  ChatOf <- MCChatOf
  ChatKey <- MCThreads
  Kind <- MCKind
  UnifiedSession = FALSE
  UnifiedKey = unified
  PendingCapacity = 1
  InjectLimit = 1
  MaxConcurrent = 0
  EagerConsume = TRUE
INVARIANTS
  ResultComesHome
