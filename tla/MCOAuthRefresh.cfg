SPECIFICATION FairSpec
CONSTANTS
  r1 = r1
  r2 = r2
  i1 = i1
  i2 = i2
  Requests = {r1, r2}
  Instances = {i1, i2}
  InstanceOf <- MCInstanceOf
  Users = {u1, u2}
  Accounts = {a1, a2}
  NoRequest = NoRequest
  NoRow = NoRow
  NoUser = NoUser
  NoAccount = NoAccount
  MaxRow = 1
  MaxToken = 3
INVARIANTS
  NoStaleRefresh
  StoredTokenUsable
  IdentityPreserved
PROPERTIES
  RejectionIsJust
  OnlyOwnerChanges
  VaultSpec
  EveryRequestEnds
