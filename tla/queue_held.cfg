\* A phone whose transport is closed while an attempt waits in its pool: is the message
\* tried again?
SPECIFICATION ServicesSpec
CONSTANTS
  a = a
  b = b
  c = c
  n1 = n1
  n2 = n2
  a1 = a1
  a2 = a2
  v1 = v1
  v2 = v2
  c1 = c1
  c2 = c2
  m1 = m1
  t1 = t1
  t2 = t2
  NoDevice = NoDevice
  NoName = NoName
  None = None
  MaxAuths = 3
  MaxSockets = 2
  MaxLoops = 2
  MaxClears = 2
  MaxLosses = 1
INVARIANT HeldIsRunning
CHECK_DEADLOCK FALSE
