CONSTANTS
  User = {agent, admin}
  Admins = {admin}
  Request = {r1, r2}
  Call = {c1, c2}
  agent = agent
  admin = admin
  r1 = r1
  r2 = r2
  c1 = c1
  c2 = c2
  Session = {s1, s2}
  MaxTokens = 1
  AnswerSizes = {3}
  MaxTurns = 1
  MaxChars = 2
  MaxFaults = 1
  None = None
SPECIFICATION MCSpec
INVARIANTS
  TypeOK
  RowIsWhatWasSent
  HistoryRemembers
  GapNamesItsQuestion
  NegativeRatingKept
PROPERTIES
  RequestsEnd
