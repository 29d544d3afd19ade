\* Two processes allocating small objects after a fork.
CONSTANTS
  m = m
  a = a
  NoRead = NoRead
  NoCopy = NoCopy
  NoPred = NoPred
  Procs <- MCProcs
  Main = m
  PageSize = 64
  HeaderSize = 16
  HeapSize = 128
  MetaSize = 48
  Sizes <- SmallSizes
SPECIFICATION HeapSpec
INVARIANT HeapTypeOK
CHECK_DEADLOCK FALSE
