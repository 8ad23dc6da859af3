SPECIFICATION Spec
CONSTANTS
  Workers = {w1, w2}
  REFRESH_TOKEN_TTL = 0
  MaxAccounts = 2
  MaxTokens = 4
  MaxClock = 1
  InTurn = {2}
  None = None
SYMMETRY Symmetric
INVARIANTS
  TokensHaveOwner
  ExchangedIsRevoked
  ExchangedOnce
PROPERTIES
  LogoutRevokesAll
