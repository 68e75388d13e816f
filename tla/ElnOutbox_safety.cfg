SPECIFICATION Spec
CONSTANTS
  None = None
  Create = Create
  Link = Link
  p1 = p1
  p2 = p2
  r1 = r1
  r2 = r2
  f1 = f1
  f2 = f2
  i1 = i1
  n1 = n1
  n2 = n2
  n3 = n3
  n4 = n4
  ext = ext
  Existing = ext
  FiguresOf <- SharedFigures
  Publishes = {p1, p2}
  Runs = {r1}
  Figures = {f1}
  Items = {}
  Pages = {ext, n1, n2, n3}
  Faults = {"unanswered", "auth", "block"}
  MaxFaults = 1
  MaxCrashes = 1
  MaxLinks = 2
  MaxCode = 1
SYMMETRY Symmetry
INVARIANTS SectionsAreWhole PublishedIsOnAPage PagesAccountedFor
