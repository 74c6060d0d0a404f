-------------------------- MODULE ManifestRegister --------------------------
(***************************************************************************)
(* What the capability store promises its administrators: a table of       *)
(* manifests, of which some are in force in their scope, changed by one    *)
(* command at a time.  capability-activate leaves the manifest alone in    *)
(* force; capability-bump puts the new version in the place of the old.    *)
(***************************************************************************)
EXTENDS Naturals, Sequences

CONSTANTS Scopes, ToolSets

VARIABLES
    entries,       \* the manifests, oldest first: a scope and its tools
    inForce        \* inForce[s]: the manifests active in scope s

vars == <<entries, inForce>>

Init ==
    /\ entries = <<>>
    /\ inForce = [s \in Scopes |-> {}]

Create(s, tools, activate) ==
    /\ entries' = Append(entries, [scope |-> s, tools |-> tools])
    /\ inForce' = IF activate
                  THEN [inForce EXCEPT ![s] = @ \union {Len(entries) + 1}] ELSE inForce

Activate(i) ==
    /\ inForce' = [inForce EXCEPT ![entries[i].scope] = {i}]
    /\ UNCHANGED entries

Deactivate(i) ==
    /\ inForce' = [inForce EXCEPT ![entries[i].scope] = @ \ {i}]
    /\ UNCHANGED entries

UpdateTools(i, tools, activate) ==
    /\ entries' = [entries EXCEPT ![i].tools = tools]
    /\ inForce' = IF activate THEN [inForce EXCEPT ![entries[i].scope] = {i}] ELSE inForce

Bump(i, activate) ==
    /\ entries' = Append(entries, entries[i])
    /\ inForce' = IF activate
                  THEN [inForce EXCEPT ![entries[i].scope] = (@ \ {i}) \union {Len(entries) + 1}]
                  ELSE inForce

Next ==
    \/ \E s \in Scopes, tools \in ToolSets, activate \in BOOLEAN : Create(s, tools, activate)
    \/ \E i \in 1..Len(entries) :
          \/ Activate(i)
          \/ Deactivate(i)
          \/ \E tools \in ToolSets, activate \in BOOLEAN : UpdateTools(i, tools, activate)
          \/ \E activate \in BOOLEAN : Bump(i, activate)

Spec == Init /\ [][Next]_vars
=============================================================================
