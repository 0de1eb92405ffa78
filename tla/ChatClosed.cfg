SPECIFICATION Spec
CONSTANTS
  None = None
  a1 = a1
  Convs <- MCConvs
  Admins <- MCAdmins
  Beginnings <- MCBeginnings
  MaxActs = 3

CHECK_DEADLOCK FALSE
PROPERTY CloseIsPermanent
