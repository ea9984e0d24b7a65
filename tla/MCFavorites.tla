---------------------------- MODULE MCFavorites ----------------------------
(***************************************************************************)
(* Instances of Favorites: enough names for a batch with a file that stays  *)
(* behind, and one group beside the default one.                            *)
(***************************************************************************)
EXTENDS Favorites
=============================================================================
