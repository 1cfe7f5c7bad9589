\* The same instance: are material changes queued?
SPECIFICATION AlertFairSpec
CONSTANTS
  l1 = l1  l2 = l2  i1 = i1
  AlertLeads = {l1, l2}
  Ipos = {i1}
  MaxSnapshots = 3
  ScoreLimit = 2
  MaxCrashes = 1
PROPERTY EventuallyAlerted
