SPECIFICATION FairSpec
CONSTANTS
  Passwords = {p1, p2, p3}
  None = None
  Empty = Empty
  MaxFaults = 1
PROPERTY RerunServes
