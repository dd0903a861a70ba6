CONSTANTS
  p1 = p1  p2 = p2  w1 = w1  w2 = w2  w3 = w3  Nobody = nobody
  Pipes = {p1}
  Windows = {w1, w2}
  Home <- BothOnOne
  Clustered = TRUE
SPECIFICATION FairSpec
PROPERTIES WindowsHandled FrameEnds CaughtIsJoined
CHECK_DEADLOCK FALSE
