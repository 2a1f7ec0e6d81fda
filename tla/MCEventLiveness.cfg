SPECIFICATION FairDeliverySpec
CONSTANTS
  open = open
  plain = plain
  kafka = kafka
  kafka2 = kafka2
  NoDefinition = NoDefinition
  NoSubmission = NoSubmission
  Nobody = Nobody
  MaxVersion = 1
  MaxPool = 2
  MaxFailures = 1
  Definitions <- MCDefinitions
  MemberOnly = {}
  Ids = {i1}
  Keys = {k1}
  Bodies <- FewBodies
  Signed = {}
  WantsEvent <- FewBodies
  Fits <- FewFits
  Requests = {p1, p2}
PROPERTIES CallsEnd EventuallyDelivered
