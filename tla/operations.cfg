SPECIFICATION Spec
CHECK_DEADLOCK FALSE
CONSTANTS
  first = first
  second = second
  alice = alice
  ALICE = ALICE
  bob = bob
  zero = zero
  eth = eth
  usd = usd
  expiry = expiry
  bytes = bytes
  OwnerTexts = {alice, ALICE, bob, zero}
  AddressOf <- MCAddressOf
  ZeroOwner = zero
  BadHex = BadHex
  NoMarket = NoMarket
  Calls = {first, second}
  None = None
  DefaultTypeOption = None
  DefaultConfirmations = 0
  DefaultGas = FALSE
  BlockGasLimitOption = FALSE
  RequestedTypes = {"Simulate","Both","Confirmed","Hash","Invalid"}
  RequestedConfirmations = {0, 1}
  LastConfirmation = 1
  Proxies = {"Signed"}
  Requests <- TwoRequests
  SignedOps <- MCSignedOps
  CommitOptions <- EveryType
  MaxActions = 3
  MaxAuths = 2
INVARIANTS
  RequestsMeanWhatWasAsked
  ReceiptsAreConfirmed
PROPERTIES
  ImplementsIntent
  EveryPromiseSettles
