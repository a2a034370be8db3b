SPECIFICATION RequestFairSpec
CONSTANTS
  a = a
  b = b
  c = c
  NoInstance = NoInstance
  Instances = {a, b, c}
  Primary = a
  Setups <- MCSetups
  Outcomes = {"ok", "timeout", "limit", "server", "quota", "bad", "raise"}
  Texts = {1, 2}
  Retries = 3
  SameLimit = 4
  MaxHops = 6
INVARIANTS
  CallsBounded
  WholeChainAsked
PROPERTIES
  EndsUnlessErrorsChange
