SPECIFICATION Spec
CONSTANTS
  r1 = r1
  r2 = r2
  r3 = r3
  b1 = b1
  b2 = b2
  Requests = {r1, r2, r3}
  Bodies = {b1, b2}
  Nobody = Nobody
SYMMETRY Symmetry
INVARIANTS TypeOK Exclusive AnswerKept EffectOnce ReplayFaithful
CHECK_DEADLOCK FALSE
