CONSTANTS
  Parts = {"authorizer", "polling"}
  x1 = x1
  x2 = x2
  tokenA = tokenA
  tokenB = tokenB
  own = own
  order = order
  jtiA = jtiA
  Anon = Anon
  NoJti = NoJti
  Callers = {x1, x2}
  Channels = {own, order}
  Tokens <- MCTokens
  Jti <- MCJti
  Exp <- MCExp
  AllowedLocally <- MCAllowedLocally
  DeniedLocally <- MCDeniedLocally
  TicksPerSecond = 2
  AllowTtl = 2
  DenyTtl = 1
  Timeout = 1
  ApiTtls = {0, 3}
  MaxEntries = 1
  MaxNow = 8
  MaxChanges = 1
  s1 = s1
  everywhere = everywhere
  console = console
  Sockets = {s1}
  Origins <- MCOrigins
  NoOrigins = NoOrigins
  Envs <- MCEnvs
  ApiConfigs <- MCApiConfigs
  Interval = 1
  PollTimeout = 2
  PollNow = 7
  PollChanges = 2
SPECIFICATION ServerSpec
INVARIANTS
  ServerTypeOK
  WaitersAreServed
  InForceEverywhere
  AppliedInTime
  EnforceStartsClean
PROPERTIES
  AnswersAreTheApis
  ExpiredTokensDenied
  PollsStayInOrder
SYMMETRY MCSymmetry
\* Callers are done once time stops, and a server once it is closed.
CHECK_DEADLOCK FALSE
