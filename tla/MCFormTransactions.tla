------------------------- MODULE MCFormTransactions -------------------------
(* Two concurrent requests on a form with two revisions, two definitions   *)
(* (one for members only), one idempotency key and two bodies.             *)
EXTENDS FormTransactions

CONSTANTS open, members, signed, visitor

MCDefinitions == {open, members}
MCMemberOnly == {members}
MCBodies == {signed, visitor}
MCSigned == {signed}
MCFits == MCDefinitions \X MCBodies
=============================================================================
