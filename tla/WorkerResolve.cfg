SPECIFICATION ResolveSpec
CONSTANTS
  Readers = {q1, q2}
  Routers <- MCRouters
  Gateways <- MCGateways
  Ttl = 1
  MaxWait = 1
  MaxVersion = 2
  Keys = {}  NoKey = NoKey
  Names = {}  NoName = NoName
  Files = {}
  PathOf <- NoPaths
  Versions = {}  NoVersion = NoVersion
  Seqs = {0, 1}
  Requests = {}
  Pushes = {}
SYMMETRY ReaderSymmetry
INVARIANT FreshEnough
