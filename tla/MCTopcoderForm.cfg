SPECIFICATION FairSpec
CONSTANTS
  public = public
  members = members
  alice = alice
  NoToken = NoToken
  None = None
  FormKeys <- MCFormKeys
  MemberForms <- MCMemberForms
  Answers = {a1, a2}
  Visitors <- MCVisitors
  MaxVersion = 2
  MaxLoads = 3
  MaxClicks = 2
INVARIANTS ClientTypeOK SuccessIsReal RetriesStoreOnce OneSubmissionAtATime
PROPERTY PageSettles
CHECK_DEADLOCK FALSE
