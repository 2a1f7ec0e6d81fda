------------------------------- MODULE MCApi -------------------------------
(* Two editors, one of them a member with a legacy token without subject,  *)
(* a build machine, and callers who may not edit: a reporter, a machine    *)
(* with human roles, a human with a machine's scopes, an Auth0 user        *)
(* without member id, and a token no actor can be made of.  One definition *)
(* is for anybody, one for members.                                        *)
EXTENDS Api

CONSTANTS open, members, hello,
  admin, member, build, reporter, oversized

MCDefinitions == {open, members}
MCMemberOnly == {members}
MCContents == {hello}
MCIdentities == {member, oversized}
MCUsable == {admin, member, build, reporter}
MCNumeric == {member}
MCBodies == [content : MCContents, member : MCIdentities \cup {NoMember}]
MCSigned == {b \in MCBodies : b.member # NoMember}
MCFits == MCDefinitions \X MCBodies

MCLowerCase ==
  [r \in {"Administrator", "administrator", "Forms Administrator", "Forms Reporter"} |->
     CASE r = "Administrator" -> "administrator"
       [] r = "Forms Administrator" -> "forms administrator"
       [] r = "Forms Reporter" -> "forms reporter"
       [] OTHER -> r]

NoClaims ==
  [roles |-> Absent, nsRoles |-> Absent, scope |-> Absent, scopes |-> Absent,
   isMachine |-> FALSE, userId |-> Absent, nsUserId |-> Absent, sub |-> Absent]

MCClaims ==
  { [NoClaims EXCEPT !.roles = {"Administrator"}, !.sub = admin],
    [NoClaims EXCEPT !.nsRoles = {"Forms Administrator"}, !.userId = member],
    [NoClaims EXCEPT !.scope = {"manage:forms"}, !.isMachine = TRUE, !.sub = build],
    [NoClaims EXCEPT !.roles = {"Forms Reporter"}, !.sub = reporter,
                     !.scope = {"manage:forms"}],
    [NoClaims EXCEPT !.roles = {"administrator"}, !.isMachine = TRUE,
                     !.sub = reporter, !.userId = member],
    [NoClaims EXCEPT !.nsUserId = oversized, !.sub = reporter] }
=============================================================================
