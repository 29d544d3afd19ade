\* Four threads, pids 1..4 (pid_max 5), one latch per pid: the latch table
\* is as long as the pid space, so two live pids never share a latch and
\* the only route to a stale latch is a reaped pid handed out again.
CONSTANTS
  m = m
  a = a
  b = b
  c = c
  Threads <- MCThreads
  Main = m
  Prog <- ProgReuse
  PidMax = 5
  StatusLength = 5
  NoPid = 0
SPECIFICATION ThreadSpec
INVARIANT JoinAfterExit
