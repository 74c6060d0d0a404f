---------------------------- MODULE Capabilities ----------------------------
(***************************************************************************)
(* Whom a capability manifest is for: what CapabilityManager, over files,  *)
(* and CapabilityStore, over the database, have in common.                 *)
(***************************************************************************)

CONSTANTS
    Agents, Tenants, Namespaces,
    NULL           \* the tenant or namespace of a manifest that has none

ASSUME CapabilityAssumption == NULL \notin Tenants \union Namespaces

Scopes == [agent : Agents, tenant : Tenants \union {NULL}, namespace : Namespaces \union {NULL}]
=============================================================================
