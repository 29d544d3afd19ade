\* Two processes allocating small objects after a fork: aliasing.
CONSTANTS
  m = m
  a = a
  NoRead = NoRead
  NoCopy = NoCopy
  NoPred = NoPred
  Procs <- MCProcs
  Main = m
  PageSize = 64
  HeaderSize = 16
  HeapSize = 128
  MetaSize = 8
  Sizes <- SmallSizes
SPECIFICATION HeapSpec
INVARIANT NoAlias
CHECK_DEADLOCK FALSE
