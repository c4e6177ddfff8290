--------------------------- MODULE MCObjectService ---------------------------
(***************************************************************************)
(* Small instances of ObjectService for TLC.                                *)
(***************************************************************************)
EXTENDS ObjectService, TLC

\* Requests are interchangeable, and so are objects.
Perms == Permutations(Proc) \cup Permutations(Obj)
=============================================================================
