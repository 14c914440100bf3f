SPECIFICATION Spec
CONSTANTS
  Email = {e1, e2}
  Subject = {s1, s2}
  Browser = {b1, b2}
  Callback = {q1, q2}
  MaxState = 2
  Nobody = nobody
  NoSubject = noSubject
  Person = {f, p}
  Founder = f
  Anonymous = anonymous
  Invitation = {i1, i2}
  Request = {q1, q2}
  MaxToken = 3
INVARIANT OwnerRemains
CHECK_DEADLOCK FALSE
SYMMETRY Symmetry
