\* Two threads sharing the stack through cloned handles.
CONSTANTS
  t1 = t1
  t2 = t2
  Threads = {t1, t2}
  MaxPush = 3
  MaxPop = 3
SPECIFICATION Spec
SYMMETRY ThreadSymmetry
INVARIANT
  PoppedNeverOnStack

  
\* The run ends when the bounded number of calls has been made, or with
\* threads spinning in a CAS loop that can no longer succeed.
CHECK_DEADLOCK FALSE
