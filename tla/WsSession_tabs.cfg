SPECIFICATION FairSpec
CONSTANTS
  c1 = c1
  c2 = c2
  p1 = p1
  p2 = p2
  s1 = s1
  s2 = s2
  Conns <- TwoConns
  Pages <- TwoPages
  Sids <- TwoSids
  NoConn = NoConn
  NoSid = NoSid
CHECK_DEADLOCK FALSE
INVARIANTS
  TypeOK
  AcceptedIsServed
PROPERTIES
  ForgottenInTheEnd
