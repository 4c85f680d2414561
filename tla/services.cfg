\* One device's session; two devices and two names; three users with one prekey of each
\* kind, and two phones; two attachments of two chunks; a tab and two vaults; a phone.
SPECIFICATION ServicesSpec
CONSTANTS
  a = a
  b = b
  c = c
  n1 = n1
  n2 = n2
  a1 = a1
  a2 = a2
  v1 = v1
  v2 = v2
  c1 = c1
  c2 = c2
  m1 = m1
  t1 = t1
  t2 = t2
  NoDevice = NoDevice
  NoName = NoName
  None = None
  MaxAuths = 2
  MaxSockets = 2
  MaxLoops = 2
  MaxClears = 2
  MaxLosses = 1
INVARIANTS ServicesType SessionIsCurrent RegistryTracksLatest FirstMessageOpens ScreenBelongs AttachmentsKept NotesInPlace LeavesInOrder ShownOnce
PROPERTIES GoodTokenKept  DecisionStands 
CHECK_DEADLOCK FALSE
