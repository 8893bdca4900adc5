\* Two overlapping calls to the calendar.
CONSTANTS
  Periods = {p1, p2}
  Slots = {1, 2}
  Users = {u1}
  Items = {i1}
  Calls = {q1, q2}
  None = None
SPECIFICATION Spec
SYMMETRY Interchangeable
INVARIANTS ClosedIsSignedOff
