SPECIFICATION ApiSpec
CONSTANTS
  k1 = k1
  k2 = k2
  ta = ta
  tb = tb
  su = su
  adm = adm
  oth = oth
  new = new
  manage = manage
  chats = chats
  bogus = bogus
  c1 = c1
  c2 = c2
  c3 = c3
  n1 = n1
  n2 = n2
  m1 = m1
  m2 = m2
  m3 = m3
  Tasks = {k1, k2}
  Tenants = {ta, tb}
  Users = {su, adm, oth, new}
  RoleIds = {1, 2, 3, 4, 5, 6, 7, 8}
  Codes = {manage, chats}
  Manage = manage
  DefaultRoles <- MCDefaults
  Agent = "agent"
  Superadmin = "superadmin"
  RoleNames = {"agent", "custom"}
  Wishes <- MCWishes
  Operator = adm
  Databases <- MCDatabases
  MaxRequests = 2
  MaxSeedings = 1
  MaxFaults = 1
  CTasks = {k1, k2}
  Contacts = {c1, c2, c3}
  ContactTenant <- MCContactTenant
  Owners = {adm, oth}
  OwnerTenant <- MCOwnerTenant
  TagIds = {1, 2, 3}
  TagNames = {"vip"}
  Fields = {"name"}
  NoOwner = nobody
  NoTag = none
  MaxTagRequests = 3
  MaxTagFaults = 1
  STasks = {k1, k2}
  STenants = {ta, tb}
  AccountIds = {1, 2}
  Numbers = {n1, n2}
  Buckets = {b1}
  Bases = {x1, x2}
  Global <- MCGlobal
  MessageIds = {1, 2}
  NoRow = absent
  Gone = gone
  MaxSends = 2
  MaxChanges = 3
  MaxSendFaults = 2
  Rows = {m1, m2, m3}
  MaxStamp = 3
  PerPage = 2
  Asked = {0, 1, 3}
  MaxPages = 4
  MaxEdits = 3
SYMMETRY MCSymmetry
CHECK_DEADLOCK FALSE
INVARIANTS ApiTypeOK PermissionsAsAsked SystemRolesIntact RolesStayInTenant TagsKept PatchesKept JobIsWhole AnswersTrue PagesComplete
PROPERTIES TenantIsolation
