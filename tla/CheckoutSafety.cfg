SPECIFICATION Spec
CONSTANTS
  None = None
  u1 = u1
  v1 = v1
  v2 = v2
  o1 = o1
  o2 = o2
  k1 = k1
  k2 = k2
  Users <- MCUsers
  Variants <- MCVariants
  Carts <- MCCarts
  Owner <- MCOwner
  CartLines <- MCLines
  CouponCarts = {1}
  WalletCarts = {2}
  InitStock <- MCStock
  OrderIds <- MCOrders
  Calls <- MCCalls
  Kinds = {"charge", "place", "confirm", "return"}
  CartLinkMoves = TRUE
  MaxFaults = 1
SYMMETRY MCSymmetry
INVARIANTS TypeOK DeductedOnce SuccessHasPayment  EveryDiscountIsCounted PaidOrdersAreFulfilled
PROPERTY ImplementsLifecycle
