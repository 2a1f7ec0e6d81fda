SPECIFICATION DeliverySpec
CONSTANTS
  open = open
  plain = plain
  kafka = kafka
  kafka2 = kafka2
  NoDefinition = NoDefinition
  NoSubmission = NoSubmission
  Nobody = Nobody
  MaxVersion = 1
  MaxPool = 2
  MaxFailures = 2
  Definitions <- MCDefinitions
  MemberOnly = {}
  Ids = {i1, i2}
  Keys = {k1}
  Bodies <- MCBodies
  Signed = {}
  WantsEvent <- MCWantsEvent
  Fits <- MCFits
  Requests = {p1, p2}
INVARIANTS DeliveryTypeOK OnlySavedContentIsSent RecordedMeansAccepted DuplicatesNeedFailure
SYMMETRY MCSymmetry
