SPECIFICATION FairSpec
CONSTANTS
  None = None
  u1 = u1
  v1 = v1
  v2 = v2
  o1 = o1
  o2 = o2
  k1 = k1
  k2 = k2
  Users <- MCUsers
  Variants <- MCVariants1
  Carts <- MCCarts
  Owner <- MCOwner
  CartLines <- MCLines1
  CouponCarts = {1}
  WalletCarts = {2}
  InitStock <- MCStock1
  OrderIds <- MCOrders
  Calls <- MCCalls
  Kinds = {"charge", "place", "confirm", "return"}
  CartLinkMoves = TRUE
  MaxFaults = 0
PROPERTIES PaymentIsFulfilled CartIsConverted
