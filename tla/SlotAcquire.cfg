\* Four overlapping requests, every interleaving of their Redis commands.
SPECIFICATION Spec
CONSTANTS
  Handler <- MCHandler
  Ask <- MCAsk
  Nobody = Nobody
INVARIANTS
  WinnersOwnTheirKeys
  NothingLeftBehind
  SomebodyWins
PROPERTIES
  GrantedAsAWhole
CHECK_DEADLOCK FALSE
