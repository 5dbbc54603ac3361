SPECIFICATION Spec

CONSTANTS
  r1 = r1
  r2 = r2
  r3 = r3
  c1 = c1
  c2 = c2
  NoContext = NoContext
  NoRequest = NoRequest
  Requests <- ThreeRequests
  Contexts <- TwoContexts
  MaxFields = 2
  MaxSelected = 4

INVARIANT TypeOK
INVARIANT LostToLateDisposal
INVARIANT NoLeak
INVARIANT EventsCommitted
PROPERTY CommitsOwn

CHECK_DEADLOCK FALSE
SYMMETRY Alike
