SPECIFICATION Spec
CONSTANTS
  r1 = r1
  r2 = r2
  i1 = i1
  i2 = i2
  Requests = {r1, r2}
  Instances = {i1, i2}
  InstanceOf <- MCInstanceOf
  Users = {u1}
  Accounts = {a1}
  NoRequest = NoRequest
  NoRow = NoRow
  NoUser = NoUser
  NoAccount = NoAccount
  MaxRow = 2
  MaxToken = 3
PROPERTIES
  ReauthorizeRepairs
