\* The commit loop against unlocked readers: two processes, two pages,
\* page values 0..1, at most one commit per page.
CONSTANTS
  p1 = p1
  p2 = p2
  x = x
  y = y
  Procs <- MCProcs
  Pages <- MCPages
  K = 2
  MaxVersion = 1
  NoCopy = NoCopy
  NoPid = NoPid
  NoPage = NoPage
SPECIFICATION CommitSpec
SYMMETRY MCSymmetry
INVARIANT CommitTypeOK
INVARIANT NoUntrackedWrite
INVARIANT ReadsMatchVersion
INVARIANT LockHeldInCommit
