-------------------------- MODULE MCKernelRequest ---------------------------
(***************************************************************************)
(* KernelRequest with requests of two agents, in every enforcement mode,   *)
(* with and without OPA.                                                   *)
(***************************************************************************)
EXTENDS KernelRequest, TLC

CONSTANTS alice, bob

Of(agent, tool, target, risk) ==
    [agent |-> agent, tool |-> tool, target |-> target, tenant |-> TRUE, risk |-> risk]

\* A read, a call out, a request of somebody else, an exec, a read at critical risk.
MCCalls ==
    { Of(alice, "read_file", "plain", "low"),
      Of(alice, "http_request", "https", "low"),
      Of(bob, "list_directory", "plain", "high"),
      Of(bob, "exec", "plain", "medium"),
      Of(bob, "read_file", "plain", "critical") }

Standard == [opa |-> TRUE, availability |-> "degraded", enforcement |-> "quarantine",
             autoApprove |-> FALSE, sandboxType |-> "dev", posture |-> TRUE]

\* The defaults; strict mode, without and with automatic approval; no OPA and no sandbox,
\* with automatic approval; a sandbox that is not good enough.
MCConfigs ==
    { Standard,
      [Standard EXCEPT !.availability = "strict", !.enforcement = "approval_required"],
      [Standard EXCEPT !.availability = "strict", !.autoApprove = TRUE],
      [Standard EXCEPT !.opa = FALSE, !.sandboxType = "none", !.autoApprove = TRUE],
      [Standard EXCEPT !.enforcement = "sandbox", !.posture = FALSE] }

\* The built-in policy, which leaves nothing open, for what takes three requests.
LocalConfig == [Standard EXCEPT !.opa = FALSE]

AllConfigs == MCConfigs \union {LocalConfig}

SandboxConfigs == { [Standard EXCEPT !.enforcement = "sandbox"] }

\* What the history of an agent is made of.
ChainCalls == {c \in MCCalls : c.tool \in Reads \union {"http_request"}}

\* Three requests of the chain under the built-in policy; two of any kind under the
\* other settings, where the third is not sent.
Bounded ==
    IF config = LocalConfig
    THEN \A r \in Requests : call[r] \in ChainCalls
    ELSE \E r \in Requests : /\ call[r] = Of(bob, "exec", "plain", "medium")
                             /\ req[r].pc = "new"

\* Requests are only compared for equality.
Symmetry == Permutations(Requests)
=============================================================================
