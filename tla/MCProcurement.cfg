SPECIFICATION Spec
CONSTANTS
  Tender = {t1, t2}
  Contractor = {c1, c2}
  Application = {a1, a2}
  Bid = {b1, b2}
  Request = {r1, r2}
SYMMETRY Symmetry
INVARIANT TypeOK
INVARIANT OneBidEach
INVARIANT AwardsSound
INVARIANT AuditTrail
PROPERTY AwardsFinal
PROPERTY BiddingEnds
CHECK_DEADLOCK FALSE
