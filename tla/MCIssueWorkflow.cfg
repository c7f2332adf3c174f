SPECIFICATION Spec
CONSTANTS
  Issue = {i1, i2}
  Reference = {ref1}
  Status = {submitted, approved, closed}
  Submitted = submitted
  Assignment = {nobody, officer, inspector}
  Unassigned = nobody
  Request = {r1, r2, r3}
SYMMETRY Symmetry
INVARIANT TypeOK
INVARIANT ReferencesUnique
INVARIANT StatusInTimeline
INVARIANT AssignmentAudited
INVARIANT MailsToldByTimeline
CHECK_DEADLOCK FALSE
