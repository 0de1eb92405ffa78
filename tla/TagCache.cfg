SPECIFICATION Spec
CONSTANTS
  None = None
  list = list
  products = products
  delivery = delivery
  w1 = w1
  p1 = p1
  p2 = p2
  r1 = r1
  r2 = r2
  Processes = {p1, p2}
  Keys = {list, delivery}
  Tags = {products}
  Readers = {r1, r2}
  Writers = {w1}
  TagsOf <- MCTagsOf
  Changes <- MCChanges
  ClearsKeys <- MCClearsKeys
  ClearsTags <- MCClearsTags
  MaxFaults = 1
INVARIANTS TypeOK SharedCopyIsCurrent LocalCopyIsCurrent IndexCoversCopies
PROPERTY CopiesCatchUp
