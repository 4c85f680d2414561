\* One message, direct, hybrid and mixed, one fault, fair daemons and network.
SPECIFICATION FairSpec
CONSTANTS
  a = a
  b = b
  c = c
  m1 = m1
  m2 = m2
  Device = {a, b}
  Msg = {m1}
  From <- OneFrom
  To <- OneTo
  Peers <- AllPeers
  Away = {}
  Registered = {a, b}
  Modes <- FallbackIsRead
  MaxFaults = 1
  MaxChanges = 0
PROPERTIES EventuallyStored EventuallyDrained
