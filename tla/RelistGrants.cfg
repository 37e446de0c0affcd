CONSTANTS
  Companies = {mill, t1, t2}
  Curators = {t1}
  Mill = mill
  Designs = {d1}
  Supplier <- OneMill
  Asks = {q1, q2}
  Calls = {k1, k2}
  Nobody = Nobody
SPECIFICATION Spec
SYMMETRY Symmetry
CHECK_DEADLOCK FALSE
INVARIANT AllowedMeansGranted
PROPERTY OnlyTheSupplierLetsOut
