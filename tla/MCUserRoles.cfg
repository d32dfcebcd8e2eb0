SPECIFICATION Spec
SYMMETRY MCSymmetry
CONSTANTS
  Instances = {i1, i2}
  Calls = {c1, c2}
  Users = {boot, ann}
  Roles = {"user", "admin"}
  BootUser = boot
  BootRole = "admin"
  Reassigned = {ann}
  NoInstance = NoInstance
  NoUser = NoUser
INVARIANTS
  AloneIsExact
  ClaimsWereAsked
  BootstrapNameIsSafe
