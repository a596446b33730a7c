SPECIFICATION TicketSpec
CONSTANTS
  t1 = t1
  t2 = t2
  t3 = t3
  m1 = m1
  m2 = m2
  a1 = a1
  a2 = a2
  Tickets = {t1, t2, t3}
  Messages = {m1}
  Admins = {a1}
  AnswersClosed = FALSE
  NoTicket = NoTicket
INVARIANTS OneActive NothingLost
PROPERTIES ClosedStays
