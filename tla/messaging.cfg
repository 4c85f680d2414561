\* One message, both jobs on both devices, receipts, expiry, two faults.
SPECIFICATION Spec
CONSTANTS
  a = a
  b = b
  m1 = m1
  m2 = m2
  Device = {a, b}
  Msg = {m1}
  From <- OneFrom
  To <- OneTo
  Polling = {a, b}
  Reported = {m1}
  Perishable <- FirstTextPerishable
  PushLimit = 1
  MaxFaults = 2
INVARIANTS TypeOK NothingLost StatusIsBacked NoneStuck
PROPERTIES CustodyKept ImplementsDelivery
