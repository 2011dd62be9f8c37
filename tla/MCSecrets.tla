------------------------------ MODULE MCSecrets ------------------------------
(***************************************************************************)
(* SessionCache for TLC.                                                   *)
(***************************************************************************)
EXTENDS SessionCache, TLC

Perms == Permutations(SessionIds) \union Permutations(Slots) \union Permutations(Requests)
=============================================================================
