CONSTANTS
  m = m  a = a  b = b  d = d  x = x  y = y  cv = cv
  NoCopy = NoCopy
  NoPid = NoPid
  Procs <- MCThreads
  Pages <- MCPages
  CVs <- MCCVs
  Main = m
  Prog <- ProgForks
  K = 2
  NCPUs = 2
SPECIFICATION RunSpec
INVARIANT RunTypeOK
INVARIANT Deterministic
PROPERTY SerialRefinement
PROPERTY Termination
CHECK_DEADLOCK FALSE
