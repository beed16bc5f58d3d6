------------------------- MODULE MCProfileSettings -------------------------
(***************************************************************************)
(* Two workspaces with a recording each, one of them the owner's.          *)
(***************************************************************************)
EXTENDS ProfileSettings

CONSTANTS m1, m2, ours, theirs
=============================================================================
