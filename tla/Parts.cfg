CONSTANTS
  Parts = {"publish", "cache", "rules", "denials", "process"}
  c1 = c1
  c2 = c2
  InvalidChannel = InvalidChannel
  Requests = {r1, r2}
  Channels = {c1, c2}
  Messages <- MCMessages
  Limit = 2
  MaxSkew = 1
  MaxNow = 2
  Keys = {"k1", "k2", "k3"}
  Values = {"v1", "v2"}
  MaxEntries = 2
  MaxTtl = 1
  CacheNow = 2
  Tokens <- MCTokens
  RuleChannels <- MCChannels
  InvalidChannels <- MCInvalidChannels
  MaxLifetime = 2
  RulesNow = 3
  Clients = {"console", "null"}
  Families = {"order", "company"}
  Reasons = {"no_token"}
  DeniedChannels <- MCDeniedChannels
  MaxRows = 3
  MaxDenials = 5
  DenialsNow = 1
  Envs <- MCEnvs
  Payloads <- MCPayloads
  MinKey = 2
  MaxPort = 3
  MaxOriginsLength = 2
SPECIFICATION PartsSpec
INVARIANTS
  PartsTypeOK
  AnswersAreTrue
  OnlyVerifiedIsPublished
  RulesAsDocumented
  CountsAreHonest
PROPERTIES
  EveryRequestAnswered
  ServesLastSet
  EvictionSpares
\* A request that was answered is over, and time stops.
CHECK_DEADLOCK FALSE
