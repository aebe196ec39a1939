\* Two threads sharing the stack through cloned handles.
CONSTANTS
  t1 = t1
  t2 = t2
  Threads = {t1, t2}
  MaxPush = 2
  MaxPop = 2
SPECIFICATION Spec
INVARIANT NoLostOrDuplicatedValue
CHECK_DEADLOCK FALSE
