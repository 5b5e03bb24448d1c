----------------------------- MODULE MCGameLoop -----------------------------
(***************************************************************************)
(* GameLoop for TLC.  The constants are in the .cfg files.                 *)
(***************************************************************************)
EXTENDS GameLoop

=============================================================================
