SPECIFICATION HLiveSpec
CONSTANTS
  s1 = s1
  s2 = s2
  t1 = t1
  t2 = t2
  c1 = c1
  c2 = c2
  none = none
  Sessions = {s1, s2}
  Tenants = {t1, t2}
  Conversations = {c1, c2}
  TenantOf <- MCTenantOf
  Requests <- MCRequests
  Vanishing = {s2}
  NoConversation = none
  MaxMessages = 2
CHECK_DEADLOCK FALSE
INVARIANTS HTypeOK Forgotten NothingMissed
PROPERTIES ImplementsBroadcast EventuallyForgotten
