\* One message, direct or hybrid at one end, one change of mode or lock, one fault.
SPECIFICATION Spec
CONSTANTS
  a = a
  b = b
  c = c
  m1 = m1
  m2 = m2
  Device = {a, b}
  Msg = {m1}
  From <- OneFrom
  To <- OneTo
  Peers <- AllPeers
  Away = {}
  Registered = {a, b}
  Modes <- OneHybrid
  MaxFaults = 1
  MaxChanges = 1
INVARIANTS TypeOK NothingLost
PROPERTIES NoRegress CustodyKept  ImplementsDelivery
