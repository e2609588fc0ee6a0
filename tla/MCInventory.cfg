SPECIFICATION Spec
CONSTANTS
  sale = sale
  adjust = adjust
  reserve = reserve
  release = release
  set = set
  cancel = cancel
  again = again
  reopen = reopen
  edit = edit
  retune = retune
  note = note
  product = product
  variant = variant
  placed = placed
  Calls <- MCCalls
  CallSets <- ThreeOrFour
  Kind <- MCKind
  Items = {product, variant}
  Variants = {variant}
  Lines <- MCLines
  InitialStock <- MCStock
  Threshold <- MCThreshold
  Orders = {placed}
  OrderOf <- MCOrderOf
  NewStatus <- MCNewStatus
INVARIANTS
  TypeOK
  StockAccounted
  StatusFresh
  CancelledOnce
