SPECIFICATION Spec
CONSTANTS
  k1 = k1  k2 = k2  i0 = i0  i1 = i1  a = a  b = b
  Keys = {k1, k2}  NoKey = NoKey
  Names = {n1, n2}  NoName = NoName
  Files <- MCFiles
  PathOf <- MCPathOf
  Versions <- MCVersions  NoVersion = NoVersion
  Seqs <- MCSeqs
  Requests = {r1, r2}
  Pushes <- PushesAndPulls
  Torn = Torn
INVARIANT NamesMatchKeys
INVARIANT ClaimsLast
INVARIANT ConfirmedSurvives
PROPERTY SequenceNeverGoesDown
CHECK_DEADLOCK FALSE
