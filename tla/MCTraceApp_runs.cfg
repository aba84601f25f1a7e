\* More questions than the recent list holds, three runs that may overlap.
CONSTANTS
  Questions = {q1, q2, q3}
  Blank = Blank
  None = None
  HopLists <- TwoHopLists
  StorageLimit = 2
  MaxRuns = 3
SPECIFICATION Spec
INVARIANT TypeOK
INVARIANT ViewConsistent
INVARIANT SelectionInTrace
INVARIANT BusyMeansPending
INVARIANT RecentsFollowHistory
INVARIANT RecentsWellFormed
SYMMETRY Symmetry
