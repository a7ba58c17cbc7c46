CONSTANTS
  env = env
  health = health
  h3 = h3
  h4 = h4
  h5 = h5
  h6 = h6
  Holder <- MCHolder
  Query <- MCQuery
  Updater <- MCUpdater
  QueryCommandOf <- MCQueryCommandOf
SPECIFICATION QueryFairSpec
INVARIANTS
  QueryInsideLease
PROPERTIES
  LeaseSpec
  QueryEnds
