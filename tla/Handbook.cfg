SPECIFICATION HandbookSpec
CONSTANTS
  p1 = p1
  p2 = p2
  p3 = p3
  p4 = p4
  m1 = m1
  m2 = m2
  qa = qa
  qb = qb
  n1 = n1
  n2 = n2
  Pages <- MCPages
  PartOf <- MCPartOf
  NavParts <- MCNavParts
  None = None
  MaxEdits = 2
  MaxPushes = 2
  MaxList = 2
  Lines <- MCLines
  MaxHeads = 3
  Menus = {m1, m2}
  Nowhere = Nowhere
  FinePointer = TRUE
  Queries = {qa, qb}
  Empty = Empty
  Spaces = Spaces
  Hits <- MCHits
  MaxFetches = 2
  Documents <- MCDocuments
  Namespaces = {n1, n2}
  NoNamespace = NoNamespace
  Only <- MCOnly
  LocalTools <- MCLocalTools
  MaxTroubles = 1
INVARIANT HandbookTypeOK
INVARIANT LinksLead
INVARIANT ReadingOrder
INVARIANT NothingHidden
INVARIANT ScannersAgree
INVARIANT AnchorsAgree
INVARIANT ChecksReach
INVARIANT OneMenuOpen
INVARIANT HoverKeepsOpen
INVARIANT ResultsFresh
 
PROPERTY NeverGoesBack
PROPERTY LastPushWins
PROPERTY QueryIsAnswered
CHECK_DEADLOCK FALSE
