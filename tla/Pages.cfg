SPECIFICATION Spec
CONSTANTS
  None = None
  a1 = a1
  t1 = t1
  Convs <- MCConvs
  Admins <- MCAdmins
  Talks <- MCTalks
  ChatActs = 3
  Images <- MCImages
  Galleries <- MCGalleries
  GalleryTabs <- MCGalleryTabs
  Fields <- MCFields
  GalleryEvents = 2
  FormRows <- MCFormRows
  FirstRows = 1
  FormEvents = 2
  FilterActs = 4
  Products <- MCProducts
  Stocks <- MCStocks
  MaxStock = 2
  MaxQuantity = 2
  ProductActs = 3
  MaxKeys = 2
  PromptActs = 4
  PromptFaults = 2
  MaxCarts = 3
  MaxItems = 3
  GuestActs = 4
  GuestFaults = 1
INVARIANTS TypeOK   SelectionNeedsMode SavesToItsRow  ChoicesAreOnTheirWay ControlsShowAddress StoredIsKnown 
PROPERTIES UploadsAreKept  TypedIsKept  ChoiceIsInStock SubscriptionArrives
CHECK_DEADLOCK FALSE
