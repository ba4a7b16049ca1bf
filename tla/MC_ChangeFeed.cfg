\* Two connections of one tenant; two calls awaiting Redis at a time.
SPECIFICATION Spec
SYMMETRY Symmetry
CONSTANTS
  Session = {s1, s2}
  Channel = {a}
  Call = {c1, c2}
  None = None
  MaxFaults = 1
INVARIANTS TypeOK ListenersExact SubscribedIsAttached CloseLetsGo
\* Connections close and are not opened again.
CHECK_DEADLOCK FALSE
