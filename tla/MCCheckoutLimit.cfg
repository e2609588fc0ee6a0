SPECIFICATION Spec
CONSTANTS
  r1 = r1
  r2 = r2
  r3 = r3
  product = product
  gift = gift
  variant = variant
  key = key
  proof = proof
  coupon = coupon
  NoKey = NoKey
  NoProof = NoProof
  NoCoupon = NoCoupon
  Requests <- MCRequests
  Items = {product, gift, variant}
  Variants = {variant}
  Lines <- MCLines
  InitialStock <- MCInitialStock
  Threshold <- MCThreshold
  Keys = {key}
  KeyOf <- MCKeyOf
  Proofs = {proof}
  ProofOf <- MCProofOf
  Coupons = {coupon}
  CouponOf <- MCCouponOf
  UsageLimit <- MCUsageLimit
  PerCustomerLimit <- MCPerCustomerLimit
  Emails = {"ali@shop"}
  EmailOf <- MCEmailOf
  Lowercase <- MCLowercase
  MaxRetries = 5
  Interruptible = {}
INVARIANT
  UsageLimitKept
