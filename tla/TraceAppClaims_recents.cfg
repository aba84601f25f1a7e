\* Two runs that overlap, and a list with room for both.
CONSTANTS
  Questions = {q1, q2}
  Blank = Blank
  None = None
  HopLists <- TwoHopLists
  StorageLimit = 2
  MaxRuns = 2
SPECIFICATION Spec
INVARIANT RecentsForgetNothing
