SPECIFICATION FairSpec
CONSTANTS
  p1 = p1
  p2 = p2
  p3 = p3
  Name = {p1, p2, p3}
  Passive = {p3}
  Field = {"f"}
  ChannelSize = 3
  MaxAdds = 3
  MaxRemoves = 1
  MaxReturns = 1
  None = None
INVARIANTS RunIsCancellable StartedIsIndexed
 
CHECK_DEADLOCK FALSE
