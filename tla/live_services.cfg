\* One relay-bound vault that changes over to a file, one upload that fails; two
\* attachments and two failures; two conversations of one vault and one lost answer;
\* fair timers and requests.
SPECIFICATION LiveSpec
CONSTANTS
  a = a
  b = b
  reg = reg
  e1 = e1
  Copy = {a}
  Original = a
  Edit = {reg, e1}
  Registration = reg
  Ids <- SixIds
  NoId = 0
  RelayBound = TRUE
  MaxRequests = 3
  MaxFailures = 1
  MaxLosses = 0
  a1 = a1
  a2 = a2
  v1 = v1
  c1 = c1
  c2 = c2
  m1 = m1
  None = None
PROPERTIES EventuallyBackedUp EventuallyDownloaded EventuallyShown
CHECK_DEADLOCK FALSE
