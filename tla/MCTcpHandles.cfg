SPECIFICATION FairSpec
CONSTANTS
  Handles = {h1, h2}
  MaxCtx = 3
  MaxConnects = 1
INVARIANTS
  Ownership
  ClaimedOnceInOrder
  ConnectsItself
PROPERTIES
  AcceptedIsClaimed
CHECK_DEADLOCK FALSE
