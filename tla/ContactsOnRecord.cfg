\* Two exports or uploads in flight, two leads, failures and deletions anywhere.
SPECIFICATION Spec
CONSTANTS
  l1 = l1  l2 = l2  r1 = r1  r2 = r2
  Leads <- TwoLeads
  Requests <- TwoRequests
  MaxEvents = 3
  MaxUploads = 1
  MaxDeletes = 1
SYMMETRY Symmetry
CHECK_DEADLOCK FALSE
INVARIANTS TypeOK FileIsOnRecord RepeatsBounded
PROPERTIES RecordIsHistory
