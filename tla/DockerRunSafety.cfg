SPECIFICATION FairSpec
CONSTANTS
  Passwords = {p1, p2, p3}
  None = None
  Empty = Empty
  MaxFaults = 3
INVARIANT TypeOK
INVARIANT PasswordFits
INVARIANT ServesOnlyMigrated
PROPERTY RunServes
