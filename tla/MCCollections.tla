---------------------------- MODULE MCCollections ----------------------------
(* A few values, wrapped at every place.                                   *)
EXTENDS Collections
=============================================================================
