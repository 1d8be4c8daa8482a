CONSTANTS
  MaxKeys = 4
  MayFail = FALSE
SPECIFICATION SessionSpec
INVARIANT DeleteGetsAThread
