CONSTANTS
  m = m  a = a  b = b  d = d  x = x  y = y  cv = cv
  NoCopy = NoCopy
  NoPid = NoPid
  Procs <- MCThreads
  Pages <- MCPages
  CVs <- MCCVs
  Main = m
  Prog <- ProgPrint
  K = 2
  NCPUs = 2
SPECIFICATION RunSpec
INVARIANT OutputSerial
CHECK_DEADLOCK FALSE
