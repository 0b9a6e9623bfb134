SPECIFICATION Spec
CONSTANTS
  Requests = {q1, q2}
  Records = {k1, k2}
  Children = {c1}
  Values = {v1, v2}
  Previews = TRUE
  Unused = Unused
  Gone = Gone
  Invalid = Invalid
  Nil = Nil
SYMMETRY Symmetry
INVARIANTS EveryWriteIsAudited
CHECK_DEADLOCK FALSE
