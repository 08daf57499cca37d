SPECIFICATION FairSpec
CONSTANTS
  r1 = r1
  r2 = r2
  r3 = r3
  t1 = t1
  t2 = t2
  p1 = p1
  p2 = p2
  NoOne = NoOne
  Requests <- MCRequests
  Tokens <- MCTokens
  Passwords <- MCPasswords
  Ops <- EveryOp
INVARIANTS
  TypeOK
  SingleOutstanding
  LinkUsedOnce
PROPERTIES
  ResetActsOnCurrentRow
  OwnReplacementRetiresLinks
  RequestsEnd
  LinksRefine
