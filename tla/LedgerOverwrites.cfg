\* The code against UploadedEmailKept.
\* Two finders, one lead: every interleaving of the handlers on one row.
SPECIFICATION Spec
CONSTANTS
  w1 = w1  w2 = w2  f1 = f1  f2 = f2  u1 = u1  j1 = j1  NULL = NULL
  Leads <- OneLead
  Workers <- TwoWorkers
  Finds = {f1, f2}
  Junk = {j1}
  Uploads = {u1}
  Labels = {"provided"}
  PolledTiers = {"low", "high"}
  Lists <- OneList
  MAX_FAILED_RETRIES = 2
  QueueLimit = 1
  MaxOps = 2
  MaxItems = 4
SYMMETRY Symmetry
CHECK_DEADLOCK FALSE
PROPERTIES UploadedEmailKept
