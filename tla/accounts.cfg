\* Two users of one tab, one key, two submissions of the sign-in form, and
\* two mutations under way at once.
SPECIFICATION Spec
CONSTANTS
  ann = ann
  bob = bob
  Nobody = Nobody
  Users = {ann, bob}
  Keys = {"k1"}
  MaxForms = 2
  MaxAtOnce = 2
SYMMETRY Symmetry
INVARIANTS
  TypeOK
  ListIsOwn
  RevokedIsGone
  SignedOutStaysOut
CHECK_DEADLOCK FALSE
