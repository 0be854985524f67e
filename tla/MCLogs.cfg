SPECIFICATION Spec
CONSTANTS
  Writers = {w1, w2}
  MaxBytes = 2
  MAX_TAIL_LINES = 2
  MaxLines = 6
INVARIANTS RecentIsKept TailIsNewest
