SPECIFICATION Spec
CONSTANTS
  a1 = a1
  a2 = a2
  a3 = a3
  b1 = b1
  stop = stop
  new = new
  chatA = chatA
  chatB = chatB
  unified = unified
  None = None
  Messages = {a1, b1, stop}
  Keys = {chatA, chatB, unified}
  ChatKey <- MCChatKey
  Kind <- MCKind
  UnifiedSession = TRUE
  UnifiedKey = unified
  PendingCapacity = 5
  InjectLimit = 1
  MaxConcurrent = 0
  EagerConsume = FALSE
PROPERTIES
  StopIsComplete
