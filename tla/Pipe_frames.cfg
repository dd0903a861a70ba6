CONSTANTS
  p1 = p1  p2 = p2  w1 = w1  w2 = w2  w3 = w3  Nobody = nobody
  Pipes = {p1, p2}
  Windows = {w1, w2, w3}
  Home <- TwoAndOne
  Clustered = FALSE
SPECIFICATION Spec
INVARIANTS TypeOK OneOpensAtATime NothingForgotten SwapsWhatItDrew ClosedAfterInit AssertionsInFrames
PROPERTY Lockstep
CHECK_DEADLOCK FALSE
