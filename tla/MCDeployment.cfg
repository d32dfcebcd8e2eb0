SPECIFICATION FairDeployment
CONSTANTS
  Requests = {r1, r2}
  RequestTimeout = 1
  ClientTimeout = 1
  ServiceTimeout = 1
  Interval = 1
  PollLimit = 3
  ShutdownTimeout = 2
  RedisLimit = 1
  OrdinaryEdge = 4
  DeviceEdge = 5
  RedisSlack = 1
  Roles = {admin, user}
INVARIANTS
  GatewayOutwaits
  StopIsClean
  
  ServesExactPolicies
PROPERTIES
  EveryRequestEnds
  ServesAgain
