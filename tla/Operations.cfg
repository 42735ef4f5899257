\* The operational components, each on a small instance.
CONSTANTS
  x1 = x1
  x2 = x2
  y1 = y1
  y2 = y2
  \* payouts
  PayoutIds = {x1, x2}
  Clerks = {y1, y2}
  Amounts = {1, 2}
  Opening = 3
  Earnings = {2}
  MaxCommission = 4
  \* tenants
  t1 = t1
  Tenants = {t1, t2}
  RowIds = {row1, row2}
  Values = {v, w}
  Absent = Absent
  AnyTenant = AnyTenant
  \* accounts
  Emails = {e1, e2}
  Invitees = {e1}
  Home = Home
  InviteIds = {x1, x2}
  Guests = {g1}
  Founders = {y1, y2}
  Slugs = {slug}
  InviteTTL = 1
  MaxDay = 1
  MaxDeaths = 1
  \* messages
  Subs = {s1}
  EndDays = {1}
  Phones = {s1}
  Alerts = {alert}
  Staff = {y1, y2}
  Runs = {x1, x2}
  LastDay = 2
  MaxRows = 3
  MaxRetries = 2
  MaxLosses = 1
  \* channel
  Ids = {1, 2}
  Programs <- AgentPrograms
  MaxOthers = 1
  \* remote
  Sessions = {y1, y2}
  NodeOf <- TwoRouters
  Calls = {x1, x2}
  MaxEdits = 1
  \* pool
  Isps = {o1, o2}
  Registrations = {n1, n2, n3}
  FirstHost = 2
  LastHost = 3
  \* throttle
  Addresses = {ip}
  Identifiers = {y1, y2}
  Attempts = {x1, x2}
  RateLimit = 1
  RateWindow = 1
  MaxCount = 2
  MaxCuts = 1
SPECIFICATION OperationsSpec
SYMMETRY Symmetry
CHECK_DEADLOCK FALSE
INVARIANTS
  OperationsTypeOK
  PaidIffBooked
  OverdrawnOnlyByOverlap
  AccountIffAccepted
  RegisteredGetsAccount
  SentAgainOnlyByOverlap
  SilentOnlyByFault
  RepliesMatch
  StatusMatchesRouters
  AddressSharedOnlyByRace
  LockedOutOnlyByFault
PROPERTY IsolatedSpec
