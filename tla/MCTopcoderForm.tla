--------------------------- MODULE MCTopcoderForm ---------------------------
(* A page that switches between a public and a member form and back, with  *)
(* two clicks on two contents by a visitor who may sign in or out.         *)
EXTENDS TopcoderForm

CONSTANTS public, members, alice

MCFormKeys == {public, members}
MCMemberForms == {members}
MCVisitors == {NoToken, alice}
=============================================================================
