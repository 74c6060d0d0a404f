------------------------- MODULE MCCapabilityLookup -------------------------
(***************************************************************************)
(* CapabilityLookup with two kernels, and two files that operators fill    *)
(* and change while the kernels load.  For the tenant acme and namespace   *)
(* eu, the agent eu::bot has the key acme::eu::eu::bot, which is also that *)
(* of the agent bot for the tenant acme::eu and the same namespace; the    *)
(* tenant "_" has the keys of no tenant.                                   *)
(***************************************************************************)
EXTENDS CapabilityLookup, TLC

MCAgents == {<<"bot">>, <<"eu", "::", "bot">>}
MCTenants == {<<"acme">>, <<"acme", "::", "eu">>, <<"_">>}
MCNamespaces == {<<"eu">>}

\* Kernels and files are only compared for equality.
Symmetry == Permutations(Kernels) \union Permutations(Files)
=============================================================================
