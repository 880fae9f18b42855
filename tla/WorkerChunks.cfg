SPECIFICATION Spec
CONSTANTS
  N = 3
  NoUpload = NoUpload
  Requests = {r1, r2}
  MaxUploads = 3
INVARIANT HeldWhole
CHECK_DEADLOCK FALSE
