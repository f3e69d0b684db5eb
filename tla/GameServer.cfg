CONSTANTS
  Game = {g1, g2}
  Upgrader = {u1, u2}
  User = {alice}
  NoClient = none
SPECIFICATION FairSpec
INVARIANTS
  NoPanicWhileServing
  WaitIsSound
  OpenConnectionOwned
PROPERTY ShutdownEnds
