\* One thread: the sequential use test_stack makes of the stack.
CONSTANTS
  t1 = t1
  t2 = t2
  Threads = {t1}
  MaxPush = 3
  MaxPop = 4
SPECIFICATION Spec
PROPERTY ImplementsStack
\* The run ends when the bounded number of calls has been made.
CHECK_DEADLOCK FALSE
