\* Three requests over two connections, one of them followed; errors, restarts.
CONSTANTS
  r1 = r1
  r2 = r2
  r3 = r3
  Requests = {r1, r2, r3}
  Watched = {r1}
  MaxConns = 2
SPECIFICATION FairSpec
INVARIANTS
  PoolSound
  SearchFallsBack
PROPERTIES
  EveryRequestAnswered
