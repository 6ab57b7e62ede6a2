\* A failing call with an Idempotency-Key beside another call.
SPECIFICATION Spec
CONSTANTS
  Request = {c1, c2}
  Key = {k1}
  NoCall = NoCall
  TTL = 1
  MaxEntries = 1
PROPERTY FailureStaysOwn
