SPECIFICATION Spec
CONSTANTS
  t1 = t1  t2 = t2
  Pages = {t1, t2}
  BrowserOf <- Browsers
  Chains = {c1, c2}
  Prices = {low, high}
  Slots = {s1, s2}
  Hour = 1
  MaxTime = 2
  MaxPlans = 2
  None = None
INVARIANT PaidOnceUnlessTryRejected
INVARIANT CompletedIsSetUp
PROPERTY OldPlansNeverRun
SYMMETRY SetupSymmetry
