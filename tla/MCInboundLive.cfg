SPECIFICATION LiveSpec
CONSTANTS
  q1 = q1
  m1 = m1
  m2 = m2
  h1 = h1
  h2 = h2
  h3 = h3
  Phones = {q1}
  Messages = {m1, m2}
  From <- MCFrom
  MediaMessages = {m1}
  Unsupported = {m2}
  Payloads <- MCTogether
  Handlers = {h1, h2}
  NoMessage = NoMessage
  NoPhone = NoPhone
  MaxDeliveries = 2
  MaxSends = 1
  MaxFaults = 1
CHECK_DEADLOCK FALSE
PROPERTIES EventuallyHandled
