\* Two messages to two devices, the older one to a device that is never there.
SPECIFICATION FairSpec
CONSTANTS
  a = a
  b = b
  c = c
  m1 = m1
  m2 = m2
  Device = {a, b, c}
  Msg = {m1, m2}
  From <- FanOutFrom
  To <- FanOutTo
  Peers <- AllPeers
  Away = {c}
  Registered = {a, b}
  Modes <- AllDirect
  MaxFaults = 0
  MaxChanges = 0
PROPERTY QueuedIsTried
