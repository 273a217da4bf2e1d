CONSTANTS
  t1 = t1
  t2 = t2
  p1 = p1
  p2 = p2
  Nobody = Nobody
  Task = {t1, t2}
  Person = {p1, p2}
SPECIFICATION FairSpec
INVARIANTS
  TypeOK
  OutcomeHasAuthor
  PendingIsAwaited
  PanicLosesAnswer
PROPERTIES
  AnswerEndsWait
CHECK_DEADLOCK FALSE
