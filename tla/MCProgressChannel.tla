-------------------------- MODULE MCProgressChannel --------------------------
(***************************************************************************)
(* The instances of ProgressChannel that TLC checks; the .cfg files give   *)
(* the sizes.                                                              *)
(***************************************************************************)
EXTENDS ProgressChannel

=============================================================================
