SPECIFICATION Spec
CONSTANTS
  None = None
  Rows <- MCRows
  Stock = 2
  InitCarts <- MCInitCarts
  MaxCarts = 2
  MaxSends = 2
  MaxFaults = 1
INVARIANTS TypeOK SettledIsServer OrderIsAddressed
PROPERTY CartCatchesUp
CHECK_DEADLOCK FALSE
