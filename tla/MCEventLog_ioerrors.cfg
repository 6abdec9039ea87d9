SPECIFICATION Spec
CONSTANTS
  Threads = {t1, t2}
  NoThread = NoThread
  Events = {e1, e2}
  Garbage = Garbage
  MaxLines = 3
  IOErrors = TRUE
  Rereads = FALSE
INVARIANTS AckedReadable
