\* One finder, two leads in created_at order, a page of one: fairness and the queue order.
SPECIFICATION FairSpec
CONSTANTS
  w1 = w1  w2 = w2  f1 = f1  f2 = f2  u1 = u1  j1 = j1  NULL = NULL
  Leads <- TwoLeads
  Workers <- OneWorker
  Finds = {f1}
  Junk = {}
  Uploads = {}
  Labels = {}
  PolledTiers = {"low"}
  Lists <- BothLeads
  MAX_FAILED_RETRIES = 2
  QueueLimit = 1
  MaxOps = 1
  MaxItems = 20
CHECK_DEADLOCK FALSE
PROPERTIES LowQueueDrains
