SPECIFICATION FairSpec
CONSTANTS
  l1 = l1  l2 = l2  p0 = p0  p1 = p1  p2 = p2
  NoVersion = NoVersion  NoRecord = NoRecord  Unreachable = Unreachable
  MaxVersions = 64
  Laptops = {l1}
  Agents = {a1}
  Drafts <- OneLaptop
  FirstPosts = {p0}
  Starts = {"fresh", "published"}
  CanDelete = FALSE
  CanForce = FALSE
  CanWhole = FALSE
  Faults = {"host", "network", "answer", "caller", "crash"}
  MaxFaults = 2
  MaxPublishes = 1
  MaxRenewals = 1
  MaxSeq = 8
INVARIANT PostsRecoverable
PROPERTY AgentPostsArrive
PROPERTY PublishedAloneArrives
CHECK_DEADLOCK FALSE
