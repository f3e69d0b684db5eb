CONSTANTS
  Game = {g1, g2}
  Upgrader = {u1}
  User = {alice}
  NoClient = none
SPECIFICATION Spec
INVARIANT AllGamesShutdown
