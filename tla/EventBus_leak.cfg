SPECIFICATION Spec
CONSTANTS
  ann = ann
  bob = bob
  gw = gw
  d1 = d1
  d2 = d2
  d3 = d3
  r1 = r1
  r2 = r2
  r3 = r3
  None = None
  Members = {ann, bob}
  Gateway = gw
  Directs = {d1}
  Receiver <- MCReceiver
  Requests = {r1}
  Asker <- MCAsker
  Callee <- MCCallee
  Plans <- MCOnePlan
  MaxRetries = 0
  MaxReplies = 1
  MaxStarts = 2
INVARIANTS
  OfflineMailIsKept
