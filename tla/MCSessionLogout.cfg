SPECIFICATION Spec
CONSTANTS
  t1 = t1
  c1 = c1
  c2 = c2
  Tabs = {t1}
  Calls = {c1}
  TabOf <- MCOneTab
  Users = {u1}
  NoUser = NoUser
  NoCall = NoCall
  FormTabs = {t1}
  MaxGhosts = 1
  MaxToken = 2
INVARIANTS
  LogoutDeletesSession
