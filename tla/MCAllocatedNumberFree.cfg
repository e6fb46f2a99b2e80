CONSTANTS
  Companies = {c1, c2}
  MaxYear = 1
  MaxInvoices = 3
  Requests = {r1, r2}
  None = None

SPECIFICATION MCSpec
SYMMETRY Symmetry
PROPERTY AllocatedNumberFree
