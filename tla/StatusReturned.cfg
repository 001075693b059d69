\* IWinHttp.h:116: "gets the status HTTP returned (say, 200 = success)"
SPECIFICATION Spec
CONSTANTS
  Handle = {h1, h2, h3}
  NULL = NULL
  StatusCode = {200, 404}
  MaxBody = 0
INVARIANT StatusReturned
