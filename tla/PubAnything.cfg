SPECIFICATION Spec
CONSTANTS
  l1 = l1  l2 = l2  p0 = p0  p1 = p1  p2 = p2
  NoVersion = NoVersion  NoRecord = NoRecord  Unreachable = Unreachable
  MaxVersions = 64
  Laptops = {l1}
  Agents = {a1}
  Drafts <- OneLaptop
  FirstPosts = {p0}
  Starts = {"fresh", "published", "adopted"}
  CanDelete = TRUE
  CanForce = TRUE
  CanWhole = TRUE
  Faults = {"host", "network", "answer", "fetch", "announce", "caller", "crash"}
  MaxFaults = 1
  MaxPublishes = 1
  MaxRenewals = 1
  MaxSeq = 4
INVARIANT TypeOK
 
CHECK_DEADLOCK FALSE
