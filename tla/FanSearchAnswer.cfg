SPECIFICATION SearchSpec
CONSTANTS
  Threads = {t1, t2}
  NElems = 5
  PerWorker = 1
  Verdicts = {"hit", "miss", "trap"}
INVARIANTS
  AnswerRight
CHECK_DEADLOCK FALSE
