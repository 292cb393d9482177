\* Two channels and two streams.
SPECIFICATION ClientSpec
CONSTANTS
  Existing = {a, b}
  Streams = {s1, s2}
  Blank = Blank
  MaxMoves = 3
INVARIANTS SelectedIsShown
CHECK_DEADLOCK FALSE
