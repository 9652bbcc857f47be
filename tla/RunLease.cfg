SPECIFICATION FairSpec
CONSTANTS
  Workers = {w1, w2, w3}
  Nobody = Nobody
  TTL = 3
  RenewInterval = 1
  MaxGeneration = 4
INVARIANTS
  OneWriter
PROPERTIES
  NoZombieWrite
  OnlyClockEvicts
  ImplementsFence
  LoserStops
  OrphanExpires
