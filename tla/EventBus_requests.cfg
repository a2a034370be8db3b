SPECIFICATION FairSpec
CONSTANTS
  ann = ann
  bob = bob
  gw = gw
  d1 = d1
  d2 = d2
  d3 = d3
  r1 = r1
  r2 = r2
  r3 = r3
  None = None
  Members = {ann, bob}
  Gateway = gw
  Directs = {d1, d2, d3}
  Receiver <- MCReceiver
  Requests = {r1, r2, r3}
  Asker <- MCAsker
  Callee <- MCCallee
  Plans <- MCPlans
  MaxRetries = 1
  MaxReplies = 1
  MaxStarts = 1
INVARIANTS
  HandledOnce
PROPERTIES
  ImplementsRequestReply
  ListeningMemberHasNoNewMail
  QueuedEventsServed
