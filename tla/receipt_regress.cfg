\* One message whose 202 may be lost: the receipt comes before the retry's 202.
SPECIFICATION Spec
CONSTANTS
  a = a
  b = b
  m1 = m1
  m2 = m2
  Device = {a, b}
  Msg = {m1}
  From <- OneFrom
  To <- OneTo
  Polling = {}
  Reported = {}
  Perishable = {}
  PushLimit = 2
  MaxFaults = 1
INVARIANT ConfirmedIsShown
