SPECIFICATION FairSpec
CONSTANTS
  u1 = u1
  Requests = {r1, r2}
  NoUser = NoUser
  NoRequest = NoRequest
  Users = {u1, u2}
  Accounts = {1, 2}
  ExternalKeys = {}
  OwnerOf <- MCOneOwner
  MaxKey = 1
INVARIANTS
  ScopeIsLastReplacement
  BindingsSound
  ChatWithinScope
PROPERTIES
  EveryKeyRequestEnds
