SPECIFICATION FairSpec
CONSTANTS
  Requests = {r1, r2}
  Users = {u1, u2}
  Accounts = {a1, a2}
  NoUser = NoUser
  NoAccount = NoAccount
  NoFlow = NoFlow
  MaxFlow = 2
INVARIANTS
  StoredForStarter
PROPERTIES
  TicketSpec
  EveryCompletionEnds
