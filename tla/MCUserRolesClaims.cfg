SPECIFICATION Spec
SYMMETRY MCSymmetry
CONSTANTS
  Instances = {i1}
  Calls = {c1, c2}
  Users = {boot}
  Roles = {"user", "admin"}
  BootUser = boot
  BootRole = "admin"
  Reassigned = {boot}
  NoInstance = NoInstance
  NoUser = NoUser
INVARIANTS
  ClaimsAreTheRole
