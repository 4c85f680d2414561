\* A vault kept at the relay: what does a password change that fails leave?
SPECIFICATION VaultsSpec
CONSTANTS
  a = a
  b = b
  reg = reg
  e1 = e1
  p1 = p1
  p2 = p2
  v1 = v1
  v2 = v2
  lan = lan
  own = own
  tunnel = tunnel
  domain = domain
  None = None
  Copy = {a, b}
  Original = a
  Edit = {reg, e1}
  Registration = reg
  Ids <- SixIds
  NoId = 0
  RelayBound = FALSE
  MaxRequests = 4
  MaxFailures = 0
  MaxLosses = 1
PROPERTY UnchangedOnError
CHECK_DEADLOCK FALSE
