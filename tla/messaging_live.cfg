\* One message in each direction, one fault, fair daemons and relay.
SPECIFICATION FairSpec
CONSTANTS
  a = a
  b = b
  m1 = m1
  m2 = m2
  Device = {a, b}
  Msg = {m1, m2}
  From <- TwoWayFrom
  To <- TwoWayTo
  Polling = {}
  Reported = {}
  Perishable = {}
  PushLimit = 1
  MaxFaults = 1
PROPERTIES EventuallyStored EventuallyDrained
