---------------------------- MODULE MCRateLimit -----------------------------
(***************************************************************************)
(* RateLimit with two workers, a tenant and a tool that carry overrides,   *)
(* and thresholds small enough to be reached.                              *)
(***************************************************************************)
EXTENDS RateLimit, TLC

CONSTANTS acme, other, exec, http

MCTenantLimit == [t \in Tenants |-> IF t = acme THEN 2 ELSE NULL]
MCToolLimit == [k \in Tools |-> IF k = exec THEN 1 ELSE NULL]

\* Workers and agents are only compared for equality.
Symmetry == Permutations(Workers) \union Permutations(Agents)
=============================================================================
