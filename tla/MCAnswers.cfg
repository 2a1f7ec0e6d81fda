SPECIFICATION Spec
CONSTANTS
  Null = Null
  Strings <- MCStrings
  Blank <- MCBlank
  Spaces <- MCSpaces
  WithNul <- MCWithNul
  Emails <- MCEmails
  SafeKeys <- MCSafeKeys
  ReservedKeys <- MCReservedKeys
  Length <- MCLength
  PipeLength <- MCPipeLength
  Number <- MCNumber
  IsoDate <- MCIsoDate
  MaxLabel = 1
  MaxText = 3
  Unit = 2
  MinInteger <- MCMinInteger
  MaxInteger = 2
  LargestDecimal = 6
  Drafts <- MCDrafts
  Requests <- MCRequests
INVARIANTS TypeOK OnlyLongLabelsFail ReportShowsAnswers RetriesByMeaning EveryFieldAnswerable
