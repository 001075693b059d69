SPECIFICATION Spec
SYMMETRY HandleSymmetry
CONSTANTS
  Handle = {h1, h2, h3, h4, h5, h6}
  NULL = NULL
  StatusCode = {200}
  MaxBody = 3
INVARIANTS
  WinTypeOK
  RequestIsLive
  BodyFaithful
PROPERTY RestClosesItsOwn
