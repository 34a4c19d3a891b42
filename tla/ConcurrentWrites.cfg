CHECK_DEADLOCK FALSE
SPECIFICATION Spec
CONSTANTS
  Threads = {w1, w2}
  Nil = Nil
INVARIANT ReportedWritesKept
