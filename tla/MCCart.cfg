SPECIFICATION Spec
CONSTANTS
  r1 = r1
  r2 = r2
  p = p
  v = v
  NoVariant = NoVariant
  Requests = {r1, r2}
  Offers <- MCOffers
  Price <- MCPrice
  Stock <- MCStock
  Quantities = {1, 2}
  CouponValue = 4
  CouponMinimum = 3
  LineIds <- MCLineIds
  MaxSent = 4
SYMMETRY MCSymmetry
INVARIANTS
  TypeOK
  ShownCartIsRight
  NoLineLost
  QuantityHitsItsLine
CHECK_DEADLOCK FALSE
