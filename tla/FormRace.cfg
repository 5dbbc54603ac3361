SPECIFICATION FairSpec
CONSTANTS
  f1 = f1
  f2 = f2
  blank = blank
  good = good
  other = other
  bad = bad
  Fields <- TwoFields
  Values = {blank, good, other, bad}
  Typed <- TwoEach
  Blank = blank
  WellFormed = {good, other}
  Attr <- BothRemote
  Replace = {f1}
  AtLoad = {}
  Failures = TRUE
INVARIANT PendingBalance
PROPERTY WaitingEnds
PROPERTY Settles
