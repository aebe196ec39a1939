\* One put racing one poll: the put's tail store can overtake the poll's
\* tail compare_exchange.
CONSTANTS
  t1 = t1
  t2 = t2
  Threads = {t1, t2}
  MaxPut = 1
  MaxPoll = 1
SPECIFICATION Spec
SYMMETRY ThreadSymmetry
INVARIANT
  NoPanic
CHECK_DEADLOCK FALSE
