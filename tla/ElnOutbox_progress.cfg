SPECIFICATION FairSpec
CONSTANTS
  None = None
  Create = Create
  Link = Link
  p1 = p1
  p2 = p2
  r1 = r1
  r2 = r2
  f1 = f1
  f2 = f2
  i1 = i1
  n1 = n1
  n2 = n2
  n3 = n3
  n4 = n4
  ext = ext
  Existing = ext
  FiguresOf <- SharedFigures
  Publishes = {p1}
  Runs = {r1, r2}
  Figures = {f1, f2}
  Items = {i1}
  Pages = {ext, n1, n2}
  Faults = {"transient", "unanswered", "auth"}
  MaxFaults = 1
  MaxCrashes = 0
  MaxLinks = 1
  MaxCode = 2
PROPERTIES PublishArrives
