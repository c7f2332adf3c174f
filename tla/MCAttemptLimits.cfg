SPECIFICATION Spec
CONSTANTS
  Account = {a1}
  Counter = {c1}
  Request = {r1, r2, r3}
  MaxAttempts = 3
  MaxLookups = 3
INVARIANT TypeOK
INVARIANT GuessesBounded
INVARIANT LookupsBounded
PROPERTY DeadForEver
CHECK_DEADLOCK FALSE
