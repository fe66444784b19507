CONSTANTS
  s1 = s1
  c1 = c1
  c2 = c2
  alice1 = alice1
  alice2 = alice2
  bob1 = bob1
  forged = forged
  alice = alice
  bob = bob
  Anon = Anon
  Idle = Idle
  Sockets = {s1}
  Channels = {c1, c2}
  SignedTokens <- MCSignedTokens
  Principals <- MCPrincipals
  Owner <- MCOwner
  BadClaims <- MCBadClaims
  Authorized <- MCAuthorized
  MaxTokens = 2
  MaxBacklog = 3
SPECIFICATION FairSpec
INVARIANTS
  TypeOK
  NoUncheckedInEnforce
  HeldByItsPrincipal
PROPERTIES
  RevokesStaleChannels
  FollowsAccessRules
