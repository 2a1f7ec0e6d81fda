SPECIFICATION FairSpec
CONSTANTS
  open = open
  members = members
  signed = signed
  visitor = visitor
  NoDefinition = NoDefinition
  Nobody = Nobody
  NoCall = NoCall
  Untouched = Untouched
  NoInsert = NoInsert
  NoAnswer = NoAnswer
  NoReceipt = NoReceipt
  MaxVersion = 2
  Definitions <- MCDefinitions
  MemberOnly <- MCMemberOnly
  Ids = {i1, i2}
  Keys = {k1}
  Bodies <- MCBodies
  Signed <- MCSigned
  WantsEvent <- MCSigned
  Fits <- MCFits
  Requests = {p1, p2}
INVARIANTS NoStaleDecision SchemaNeverRefuses SuccessIsDurable
PROPERTIES Linearizable RetriesNeverConflict RequestsEnd
