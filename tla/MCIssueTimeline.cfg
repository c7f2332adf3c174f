SPECIFICATION Spec
CONSTANTS
  Issue = {i1}
  Reference = {ref1}
  Status = {submitted, approved, closed}
  Submitted = submitted
  Assignment = {nobody, officer}
  Unassigned = nobody
  Request = {r1, r2, r3}
SYMMETRY Symmetry
INVARIANT TimelineTellsStatus
CHECK_DEADLOCK FALSE
