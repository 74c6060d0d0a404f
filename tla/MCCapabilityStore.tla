------------------------- MODULE MCCapabilityStore --------------------------
(***************************************************************************)
(* CapabilityStore with two administrators and a scope inside another.     *)
(***************************************************************************)
EXTENDS CapabilityStore, TLC

\* The administrators and the tools are only compared for equality.
Symmetry == Permutations(Admins) \union Permutations(ToolSets)
=============================================================================
