\* Three uploads, up to two in flight, that may merge the same leads and wait for each other.
SPECIFICATION FairSpec
CONSTANTS
  e1 = e1  e2 = e2  in1 = in1  in1x = in1x  bob = bob  kyr = kyr  co = co
  Values <- SomeValues
  Canon <- Stripped
  Blank <- OtherLetters
  Ids <- SixIds
  Batches <- ThreeBatches
  Files <- MeetingFiles
  MaxOpen = 2
  MaxDeletes = 1
  Finder = Finder
  Found <- FoundEmails
  MaxFinds = 1
  MaxRequeues = 1
CHECK_DEADLOCK FALSE
INVARIANTS TypeOK RowsStayRecognised EmailIdentifies ProvenanceComplete CreatedAddsUp
PROPERTIES UploadsEnd
