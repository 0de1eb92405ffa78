SPECIFICATION Spec
CONSTANTS
  None = None
  ann = ann
  bob = bob
  o1 = o1
  k1 = k1
  k2 = k2
  k3 = k3
  Users <- MCUsers
  Carts <- MCCarts
  Owner <- MCOwner
  Prices = {0, 2}
  InitBalance <- MCBalance
  Orders <- MCOrders
  Buyer <- MCBuyer
  Referrer <- MCReferrer
  Discount <- MCDiscount
  Calls = {k1, k2, k3}
  Careful = {ann}
  JobsOverlap = TRUE
  MaxFaults = 0
SYMMETRY Symmetric
INVARIANT CashbackOnce
