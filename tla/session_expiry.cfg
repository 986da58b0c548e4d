\* One user whose session expires while a page shows what it was told.
SPECIFICATION FairSpec
CONSTANTS
  Nobody = "nobody"
  Users = {"ann"}
  Keys = {}
  MaxForms = 1
  MaxAtOnce = 2
PROPERTY
  LandsOnSignIn
CHECK_DEADLOCK FALSE
