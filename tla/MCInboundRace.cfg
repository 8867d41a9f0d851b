SPECIFICATION Spec
CONSTANTS
  q1 = q1
  m1 = m1
  m2 = m2
  h1 = h1
  h2 = h2
  h3 = h3
  Phones = {q1}
  Messages = {m1, m2}
  From <- MCFrom
  MediaMessages = {}
  Unsupported = {}
  Payloads <- MCSeparate
  Handlers = {h1, h2, h3}
  NoMessage = NoMessage
  NoPhone = NoPhone
  MaxDeliveries = 2
  MaxSends = 1
  MaxFaults = 1
SYMMETRY MCTasks
CHECK_DEADLOCK FALSE
INVARIANTS TypeOK AnnouncedOnce AnnouncedIsThere StoredIsAnnounced
PROPERTIES KnownIsStored UserNameKept
