SPECIFICATION FairCallSpec
CONSTANTS
  Backoff <- MCBackoff
  Rest <- MCRest
  Caller = {c1, c2, c3}
  Threshold = 2
  Cooldown = 10
  Retries = 1
  Timeout = 4
INVARIANTS
  NoStraggler
PROPERTIES
  CallEnds
  Recovers
