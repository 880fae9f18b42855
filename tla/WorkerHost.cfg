SPECIFICATION HostSpec
CONSTANTS
  k1 = k1  k2 = k2  i0 = i0  i1 = i1  a = a  b = b
  Keys = {k1, k2}  NoKey = NoKey
  Names = {n1, n2}  NoName = NoName
  Files <- MCFiles
  PathOf <- MCPathOf
  Versions <- MCVersions  NoVersion = NoVersion
  Seqs <- MCSeqs
  Requests = {r1, r2}
  Pushes <- MCPushes
  Readers = {}  Routers <- NoSources  Gateways <- NoSources
  Ttl = 1  MaxWait = 0  MaxVersion = 1
CONSTRAINT OneScene
INVARIANT HeadsAreWhole
INVARIANT ServesHeadUnlessCrossed
INVARIANT NamesMatchUnlessCrossed
PROPERTY KeepsPromise
SYMMETRY Symmetry
CHECK_DEADLOCK FALSE
