\* Two connections of one tenant; two calls awaiting Redis at a time.
SPECIFICATION Spec
SYMMETRY Symmetry
CONSTANTS
  Session = {s1, s2}
  Channel = {a, b}
  Call = {c1, c2}
  None = None
  MaxFaults = 0
INVARIANTS DisconnectLeaves
\* Connections close and are not opened again.
CHECK_DEADLOCK FALSE
