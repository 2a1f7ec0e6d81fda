----------------------------- MODULE MCRelease -----------------------------
(* Two runs of the deploy job, which may come in either order: the second  *)
(* commit brings a second migration.                                       *)
EXTENDS Release

MCCommit == [r \in Revisions |-> r]
=============================================================================
