SPECIFICATION Spec
CONSTANTS
  f1 = f1
  f2 = f2
  blank = blank
  good = good
  other = other
  bad = bad
  Fields <- TwoFields
  Values = {blank, good, other, bad}
  Typed <- ThreeOne
  Blank = blank
  WellFormed = {good, other}
  Attr <- OneRemote
  Replace = {f1}
  AtLoad = {f1, f2}
  Failures = TRUE
INVARIANT TypeOK
INVARIANT CheckedBeforeSent
PROPERTY TakenBackForCause
PROPERTY WaitingEnds
