SPECIFICATION ApiSpec
CONSTANTS
  open = open
  members = members
  hello = hello
  admin = admin
  member = member
  build = build
  reporter = reporter
  oversized = oversized
  NoDefinition = NoDefinition
  NoToken = NoToken
  BadToken = BadToken
  Absent = Absent
  NoMember = NoMember
  Nobody = Nobody
  MaxVersion = 2
  Definitions <- MCDefinitions
  MemberOnly <- MCMemberOnly
  Ids = {i1, i2}
  Keys = {k1, k2}
  Bodies <- MCBodies
  Signed <- MCSigned
  WantsEvent = {}
  Fits <- MCFits
  Claims <- MCClaims
  LowerCase <- MCLowerCase
  Identities <- MCIdentities
  Usable <- MCUsable
  Numeric <- MCNumeric
  Contents <- MCContents
INVARIANTS ApiTypeOK LiveIsNewest AuditNamesEditors ReceiptsStayWithMember
PROPERTIES VersionsOnlyAdvance AuditIsFinal
