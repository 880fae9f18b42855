SPECIFICATION Spec
CONSTANTS
  Tours <- FourTours
  Paths = {p1, p2}
  Values = {a1, a2}
  Shop = Shop
  None = None
  MaxForms = 2
  MaxFails = 1
  MaxLoads = 2
  MaxCalls = 1
 
INVARIANT OwnTextUnlessMixed
PROPERTY ShopAddressKept
PROPERTY AppliedOnceUnlessInterrupted
PROPERTY EditsTakenByName
SYMMETRY ConsoleSymmetry
