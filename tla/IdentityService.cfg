\* A user's key and a token it issues, while an operator revokes, rotates, disables and connects.
CONSTANTS
  None = None
  Nobody = "nobody"
  TenantLabels = {}
  RoleLabels <- MCRoles
  Principal = {"ana", "bot"}
  Profiles <- MCProfiles
  Key = {"k1", "k2", "k3"}
  Token = {"t1"}
  SigningKey = {"s1"}
  Bootstrap = "boot"
  BootPrincipal <- MCBoot
  Presented <- MCPresented
  Call = {"c1"}
  Operator = {"o1"}
  Lifetimes = {None}
  TokenScopes <- MCTokenScopes
  KeyScopes = {{"READ"}}
  CacheTtl = 1
  TokenTtl = 1
  MaxCached = 1
  Lag = 1
  MaxTime = 2
  MaxCommands = 1
  MaxFailures = 1
  InitPrincipals <- MCPrincipals
  InitKeys <- MCKeys
SPECIFICATION Spec
CHECK_DEADLOCK FALSE
INVARIANTS ServedWasSound TokensNarrow
PROPERTIES RefusedForCause HandedOver
