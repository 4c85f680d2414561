\* A vault that opens with a file and its restored copy, one lost answer or crash;
\* a vault kept at the relay, two passwords, one crash or failure and one lost answer;
\* a phone's vault, two passwords, one write, two uploads, one failure or crash;
\* two vault IDs on a phone, three vaults, two locks, two file dialogs;
\* a phone's link with two vaults opened and two changes, or one and two routes chosen.
SPECIFICATION VaultsSpec
CONSTANTS
  a = a
  b = b
  reg = reg
  e1 = e1
  p1 = p1
  p2 = p2
  v1 = v1
  v2 = v2
  lan = lan
  own = own
  tunnel = tunnel
  domain = domain
  None = None
  Copy = {a, b}
  Original = a
  Edit = {reg, e1}
  Registration = reg
  Ids <- SixIds
  NoId = 0
  RelayBound = FALSE
  MaxRequests = 3
  MaxFailures = 0
  MaxLosses = 1
INVARIANTS VaultsType NothingLost SetupKept CopiesKept CleanIsUploaded
PROPERTIES ImplementsRegister BackupNeverOlder LinkKept
CHECK_DEADLOCK FALSE
