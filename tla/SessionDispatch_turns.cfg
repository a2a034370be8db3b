SPECIFICATION FairSpec
CONSTANTS
  a1 = a1
  a2 = a2
  a3 = a3
  b1 = b1
  stop = stop
  new = new
  chatA = chatA
  chatB = chatB
  unified = unified
  None = None
  Messages = {a1, a2, b1, stop, new}
  Keys = {chatA, chatB, unified}
  ChatKey <- MCChatKey
  Kind <- MCKind
  UnifiedSession = FALSE
  UnifiedKey = unified
  PendingCapacity = 5
  InjectLimit = 2
  MaxConcurrent = 1
  EagerConsume = FALSE
INVARIANTS
  HeldOnce
  NoMessageLost
  TurnOwnsPendingQueue
PROPERTIES
  StopIsComplete
  EveryMessageResolved
