SPECIFICATION FairSpec
CONSTANTS
  Name = {n1}
  Call = {l1}
  Dial = {d1, d2}
  Closer = {p1}
  Acceptor = {a1, a2}
  Server = server
  None = none
  OwnHttp = FALSE
PROPERTIES CloseEndsAccept HandedOver
CHECK_DEADLOCK FALSE
