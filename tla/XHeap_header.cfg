\* Main alone, with objects of a page: the header placement.
CONSTANTS
  m = m
  a = a
  NoRead = NoRead
  NoCopy = NoCopy
  NoPred = NoPred
  Procs = {m}
  Main = m
  PageSize = 64
  HeaderSize = 16
  HeapSize = 256
  MetaSize = 8
  Sizes <- AllSizes
SPECIFICATION HeapSpec
INVARIANT ObjectInBlock
CHECK_DEADLOCK FALSE
