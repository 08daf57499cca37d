SPECIFICATION Spec
CONSTANTS
  a = a
  b = b
  r1 = r1
  r2 = r2
  r3 = r3
  r4 = r4
  NoOne = NoOne
  Users <- MCUsers
  Requests <- MCRequests
  Faulty <- MCFaulty
SYMMETRY MCSymmetry
INVARIANT TypeOK
PROPERTIES
  ActivatedOnce
  RemovalLeavesAdmin
