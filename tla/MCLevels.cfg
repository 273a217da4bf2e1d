CONSTANTS
  a = a
  b = b
  c = c
  d = d
  w1 = w1
  w2 = w2
  Workflow = {w1, w2}
  Node = {a, b, c, d}
  Structures <- MCStructures
  Capacity = 1
  Known <- MCKnown
SPECIFICATION Spec
INVARIANTS
  TypeOK
  AnswerValid
  CacheSound
  AnswerExact
