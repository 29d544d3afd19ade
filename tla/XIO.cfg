CONSTANTS
  m = m  c = c  f = f  g = g  so = so  sk = sk
  NoFd = NoFd
  Procs <- MCProcs
  Main = m
  Fds <- MCFds
  StdFds <- MCStdFds
  Prog <- ProgAll
  AssertsOn = FALSE
SPECIFICATION IOSpec
INVARIANT IOTypeOK
INVARIANT IssueOrder
INVARIANT ListedFdsOpen
CHECK_DEADLOCK FALSE
