SPECIFICATION Spec

CONSTANTS
  Lengths <- MCLengths
  Starts <- MCStarts
  Loops <- MCLoops
  RingSize = 2
  Prefill = 2
  QueueSize = 2
  EventSize = 2
  MaxRequests = 2
  MaxFaults = 1

INVARIANTS
  AllHeard
  CursorIsAsked
  SdkExclusive

PROPERTIES
  BegunEnds

\* A session that has been dropped does nothing more.
CHECK_DEADLOCK FALSE
