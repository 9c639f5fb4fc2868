SPECIFICATION Spec
CONSTANTS
  NULL = NULL
  MIN_LCS_LENGTH = 2
  Ascii <- MCAscii
  Plain = {"a", "b", "c", "w"}
  Junk <- MCJunk
  HostDomains <- MCHostDomains
  Stopwords <- MCStopwords
  PathStop <- MCPathStop
  Specs <- MCSpecs
  Scripts = {"old", "new"}
  Shapes <- MCShapes
  Files <- MCFiles
INVARIANTS TypeOK SeedsComplete BestEmailWins
PROPERTIES SpecsAreKept RegisteredIsRead
