SPECIFICATION EitherSpec
CONSTANTS
  Pages = {p1, p2}
  Slots = {s1, s2}
  Configs = {c1}
  Fees = {f1, f2}
  Prices = {low, high}
  None = None
  MaxAttempts = 2
  MaxChanges = 1
INVARIANT DeployedOnceUnlessCrossed
INVARIANT NothingLost
INVARIANT RecordedIsDeployed
INVARIANT ConnectionFound
INVARIANT ConnectedStays
PROPERTY KeepsTheRest
SYMMETRY ShopSymmetry
