SPECIFICATION Spec
CONSTANTS
  Requests = {r1, r2, r3}
  Languages = {"python"}
  size = 2
  None = None
INVARIANT TypeOK
INVARIANT OneRequestPerContainer
INVARIANT BusyOnlyAfterLoss
PROPERTY RequestsAreAnswered
