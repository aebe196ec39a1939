\* Two threads, three puts and three polls: enough for a poll to overtake an
\* unfinished put, for two calls to race on each CAS, and for a late tail
\* store to leave tail behind head (after which the model stops with a
\* fault, see NoNullDeref).
CONSTANTS
  t1 = t1
  t2 = t2
  Threads = {t1, t2}
  MaxPut = 3
  MaxPoll = 3
SPECIFICATION Spec
PROPERTY
  ImplementsQueue
  
\* The run ends when the bounded number of calls has been made, with
\* threads spinning in a CAS loop that can no longer succeed, or at a fault.
CHECK_DEADLOCK FALSE
