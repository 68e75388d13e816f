SPECIFICATION FairSpec
CONSTANTS
  None = None
  Unanswered = Unanswered
  s1 = s1
  s2 = s2
  Specs = {s1, s2}
  MaxAsks = 4
  MaxEdits = 3
  MaxCommands = 2
CHECK_DEADLOCK FALSE
INVARIANTS BroadcastsConverge
PROPERTIES EngineCarriesOn ImplementsRunTickets
