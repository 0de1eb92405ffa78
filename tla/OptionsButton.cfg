SPECIFICATION Spec
CONSTANTS
  None = None
  Products <- MCProducts
  Stocks <- MCStocks
  MaxStock = 2
  MaxQuantity = 2
  MaxActs = 3

CHECK_DEADLOCK FALSE
PROPERTY AddsWhatIsShown
