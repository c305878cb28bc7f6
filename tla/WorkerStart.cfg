SPECIFICATION Spec
CONSTANTS
  Threads = {t1, t2, t3, t4}
  None = None
SYMMETRY Symmetry
INVARIANTS
  StartedOnce
  ReleasedOnlyUnstarted
  
