------------------------------- MODULE MCUpdate -------------------------------
(* A small instance of Update: the deploy script uploads an image that fits  *)
(* the staging area, another uploader one that does not.                     *)
EXTENDS Update, TLC

CONSTANTS script, big

MCUploads == {script, big}
MCSize == (script :> 2) @@ (big :> 3)
MCTries == (script :> 3) @@ (big :> 2)
=============================================================================
