SPECIFICATION FairSpec
CONSTANTS
  Invitation = {i1, i2, i3}
  Worker = {w1, w2, w3}
  Member = member
  Nobody = nobody
INVARIANT TypeOK
INVARIANT DecisionHolds
PROPERTY ServicesAreAtomic
PROPERTY ServicesEnd
