----------------------------- MODULE MCUserData -----------------------------
(***************************************************************************)
(* Instances of UserData: two files of two contents, so that one name may   *)
(* hold different things in the two roots, and a start may be cut off       *)
(* between two files.                                                       *)
(***************************************************************************)
EXTENDS UserData
=============================================================================
