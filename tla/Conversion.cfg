SPECIFICATION Spec
CONSTANTS
  Texts <- MCTexts
  Quoted <- MCQuoted
  AsRead <- MCAsRead
  Rank <- MCRank
  Numerals <- MCNumerals
  ParseNumber <- MCParseNumber
  Lowercase <- MCLowercase
  Root <- MCRoot
  Documents <- MCDocuments
  Scalars <- MCScalars
  Paths <- MCPaths
  Arguments <- MCArguments
  Urls <- MCUrls
INVARIANTS
  QueryAsAsked
  OnlyUrlsSent
  AnswerStandsForDocument
  FindsTheElement
  MissingIsReported
CHECK_DEADLOCK FALSE
