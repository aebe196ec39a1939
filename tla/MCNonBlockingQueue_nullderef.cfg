\* Two puts and three polls: a put delayed before its tail store moves tail
\* back after two polls have taken both items, and the third poll then
\* finds head and tail apart with nothing after head.
CONSTANTS
  t1 = t1
  t2 = t2
  Threads = {t1, t2}
  MaxPut = 2
  MaxPoll = 3
SPECIFICATION Spec
SYMMETRY ThreadSymmetry
INVARIANT
  NoNullDeref
CHECK_DEADLOCK FALSE
