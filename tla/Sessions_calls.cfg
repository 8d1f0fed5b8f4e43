\* Two calls of one tab.
SPECIFICATION FairSpec
CONSTANTS
  t1 = t1
  c1 = c1
  c2 = c2
  Roles = {"bid_manager", "viewer"}
  Tabs = {t1}
  Calls = {c1, c2}
  TabOf <- OneTab
  AccessTTL = 1
  RefreshTTL = 2
  Limit = 2
INVARIANT SessionsTypeOK
INVARIANT CalmCallsSucceed
PROPERTY RoleIsRecent
PROPERTY CallsEnd
