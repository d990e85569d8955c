CONSTANTS
  LineLengths <- SomeLengths
  MaxBytesRange <- SomeMaxBytes
  MaxDocsRange <- SomeMaxDocs
  MaxInput = 5
  Sources <- MCSources
  JsonOf <- MCJsonOf
  Numerals <- MCNumerals
  LeadingZero <- MCLeadingZero
  Qualified <- MCQualified
SPECIFICATION ReadersSpec
INVARIANTS
  InputUnderstood
  NoDocumentLost
  BatchesBounded
  BatchesMaximal
