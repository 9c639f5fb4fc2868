\* An opener about one episode of a guest quotes the transcript cached of another.
SPECIFICATION Spec
CONSTANTS
  ann = ann  bob = bob  mayA = mayA  mayB = mayB  e1 = e1  e2 = e2  f1 = f1  f2 = f2  w1 = w1
  NULL = NULL
  Leads <- TwoLeads
  Lists <- TwoLists
  Episodes <- TwoEpisodes
  Appearances <- SharedEpisodes
  Scopes <- AllOrAnn
  Fetches <- TwoFetches
  Writers <- OneWriter
  Tries = 2
  MaxJobs = 3
  MaxDeletes = 1
CHECK_DEADLOCK FALSE
INVARIANTS OpenerQuotesItsEpisode
