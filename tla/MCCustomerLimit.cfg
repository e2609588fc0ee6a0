SPECIFICATION Spec
CONSTANTS
  r1 = r1
  r2 = r2
  r3 = r3
  product = product
  coupon = coupon
  NoKey = NoKey
  NoProof = NoProof
  NoCoupon = NoCoupon
  Requests <- MCRequests
  Items = {product}
  Variants = {}
  Lines <- MCLines
  InitialStock <- MCInitialStock
  Threshold <- MCThreshold
  Keys = {}
  KeyOf <- MCKeyOf
  Proofs = {}
  ProofOf <- MCProofOf
  Coupons = {coupon}
  CouponOf <- MCCouponOf
  UsageLimit <- MCUsageLimit
  PerCustomerLimit <- MCPerCustomerLimit
  Emails <- MCEmails
  EmailOf <- MCEmailOf
  Lowercase <- MCLowercase
  MaxRetries = 2
  Interruptible = {}
PROPERTY
  CustomerLimitChecked
