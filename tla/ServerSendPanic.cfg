SPECIFICATION Spec
CONSTANTS
  Name = {n1, n2}
  Call = {l1, l2}
  Dial = {d1, d2}
  Closer = {p1}
  Acceptor = {a1}
  Server = server
  None = none
  OwnHttp = TRUE
SYMMETRY Symmetry
INVARIANTS CloseSparesSenders
CHECK_DEADLOCK FALSE
