CONSTANTS
  n1 = n1 n2 = n2 c1 = c1 c2 = c2
  Name = {n1, n2}
  MaxHandlers = 2
  Client = {c1, c2}
  Asked <- AskedFor
  Used = {1}
  Service = Service
  MaxCloses = 1
  MaxFaults = 1
  None = None
SPECIFICATION FairSpec
INVARIANTS TypeOK NothingStranded
PROPERTIES AcceptedIsHandled DestroyEnds ClosesAll
CHECK_DEADLOCK FALSE
