SPECIFICATION Spec
CONSTANTS
  None = None
  u1 = u1
  v1 = v1
  v2 = v2
  o1 = o1
  o2 = o2
  k1 = k1
  k2 = k2
  Users <- MCUsers
  Variants <- MCVariants1
  Carts <- MCCarts
  Owner <- MCOwner
  CartLines <- MCLines1
  CouponCarts = {}
  WalletCarts = {}
  InitStock <- MCStock1
  OrderIds <- MCOrders
  Calls <- MCCalls
  Kinds = {"charge"}
  CartLinkMoves = FALSE
  MaxFaults = 0
INVARIANT OneOrderPerCharge
