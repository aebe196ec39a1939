\* Two threads sharing the stack through cloned handles.
CONSTANTS
  t1 = t1
  t2 = t2
  Threads = {t1, t2}
  MaxPush = 3
  MaxPop = 1
SPECIFICATION Spec
PROPERTY PushReturns
CHECK_DEADLOCK FALSE
