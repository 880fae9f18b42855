SPECIFICATION Spec
CONSTANTS
  k1 = k1  k2 = k2  i0 = i0  i1 = i1  a = a  b = b
  Keys = {k1}  NoKey = NoKey
  Names = {}  NoName = NoName
  Files <- MCFiles
  PathOf <- MCPathOf
  Versions <- MCVersions  NoVersion = NoVersion
  Seqs <- MCSeqs
  Requests = {r1, r2}
  Pushes <- SiteAndAgent
  Torn = Torn
INVARIANT TypeOK
INVARIANT HeadsAreWhole
PROPERTY KeepsPromise
CHECK_DEADLOCK FALSE
