SPECIFICATION Spec

CONSTANTS
  ann = ann
  bob = bob
  n1 = n1
  n2 = n2
  w1 = w1
  None = None
  NoRow = NoRow
  Blank = Blank
  Requests = {r1, r2}
  Emails = {ann, bob}
  Numbers = {n1, n2}
  Words = {w1}
  MaxId = 2
  MaxRetries = 1
  MaxListed = 1
  Faults = {"lostAck", "link", "restart"}
  Seeds <- AnnOnly
  Inputs <- FaultCalls

INVARIANT TypeOK
INVARIANT Referential
PROPERTY AnswersFit

SYMMETRY Clients
