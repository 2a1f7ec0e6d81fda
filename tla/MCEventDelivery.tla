-------------------------- MODULE MCEventDelivery --------------------------
(* One published revision, two concurrent calls, and bodies with the same  *)
(* answers that differ in the Kafka opt-in only.                           *)
EXTENDS EventDelivery, TLC

CONSTANTS open, plain, kafka, kafka2

MCDefinitions == {open}
MCBodies == {plain, kafka, kafka2}
MCWantsEvent == {kafka, kafka2}
MCFits == MCDefinitions \X MCBodies

FewBodies == {kafka}
FewFits == MCDefinitions \X FewBodies

MCSymmetry == Permutations(Requests) \cup Permutations(Ids)
=============================================================================
