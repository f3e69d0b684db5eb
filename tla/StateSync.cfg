CONSTANTS
  MaxWrites = 6
  MaxAsked = 2
  Asking = {1}
  Slow = {1}
  MaxDrops = 1
SPECIFICATION Spec
INVARIANTS
  PlayersUpToDate
PROPERTIES
  HeardOnceBegun
