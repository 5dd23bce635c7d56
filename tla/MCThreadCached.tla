--------------------------- MODULE MCThreadCached ---------------------------
(* Nested calls through a few gates and a few initialisers.                *)
EXTENDS ThreadCached
=============================================================================
