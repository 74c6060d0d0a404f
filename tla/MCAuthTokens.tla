---------------------------- MODULE MCAuthTokens ----------------------------
(***************************************************************************)
(* AuthTokens with two servers, two terminals and two subjects.            *)
(***************************************************************************)
EXTENDS AuthTokens, TLC

\* No --expires-minutes, and a negative one.
MCLifetimes == {0, -1}

\* Servers, terminals and subjects are only compared for equality.
Symmetry == Permutations(Servers) \union Permutations(Terminals) \union Permutations(Subjects)
=============================================================================
