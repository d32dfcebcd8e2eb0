SPECIFICATION FairConsole
CONSTANTS
  Ids = {i1, i2}
  MaxFlows = 2
  MaxVersion = 2
INVARIANTS
  DeviceViewIsOurs
  SuccessIsEarned
  LinkHasItsTimer
  DeletedStaysGone
  QuietPageIsCurrent
  SavedIsListed
PROPERTIES
  WaitsEnd
