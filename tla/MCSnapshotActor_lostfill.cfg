\* Two clients sharing the actor.
CONSTANTS
  c1 = c1
  c2 = c2
  ClientIds = {c1, c2}
  States = {a1, a2}
  None = None
SPECIFICATION Spec
SYMMETRY ClientSymmetry
INVARIANT
  FilledDataKept
