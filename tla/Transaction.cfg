CONSTANTS
  Keys = {k1}
  Tokens <- MCTokens
  Doubles <- MCDoubles
  HalfRange = 1
  ValidAddresses = {a1}
  InvalidAddresses = {bad}
  HalfWord = 2
  Gases <- MCGases
  Prices <- MCPrices
  Word32 = 5
SPECIFICATION Spec
INVARIANTS
  TypeOK
  BilledWithinGas
  AccountsBalance
PROPERTY
  ImplementsContract
