-------------------------- MODULE ApprovalRegister --------------------------
(***************************************************************************)
(* What an approval promises to its users, without processes, database     *)
(* sessions, crashes of half-done work or a clock.  A reviewer's decision  *)
(* is one write of verdict and reviewer together; a permit to run the held *)
(* action exists only while it is taken from an approving decision, names  *)
(* the reviewer of that decision, and gives at most one effect.            *)
(***************************************************************************)
EXTENDS Sequences

CONSTANTS
    Approvals,     \* identities of approval requests
    Approvers,     \* identities of reviewers
    Replayers,     \* slots for replays of approved requests
    NULL           \* no reviewer, no permit

VARIABLES
    ruling,        \* ruling[a]: status of a, and the reviewer it is due to
    decided,       \* decided[a]: the decisions made on a, in order
    permits,       \* permits[r]: the approval slot r may act on, or NULL
    effects        \* the actions performed, in order

abstractVars == <<ruling, decided, permits, effects>>

Init ==
    /\ ruling = [a \in Approvals |-> [status |-> "absent", approver |-> NULL]]
    /\ decided = [a \in Approvals |-> <<>>]
    /\ permits = [r \in Replayers |-> NULL]
    /\ effects = <<>>

Open(a) ==
    /\ ruling[a].status = "absent"
    /\ ruling' = [ruling EXCEPT ![a] = [status |-> "pending", approver |-> NULL]]
    /\ UNCHANGED <<decided, permits, effects>>

Rule(a, verdict, approver) ==
    /\ ruling[a].status # "absent"
    /\ ruling' = [ruling EXCEPT ![a] = [status |-> verdict, approver |-> approver]]
    /\ decided' = [decided EXCEPT ![a] =
                     Append(@, [verdict |-> verdict, approver |-> approver])]
    /\ UNCHANGED <<permits, effects>>

Permit(r, a) ==
    /\ permits[r] = NULL
    /\ ruling[a].status = "approved"
    /\ permits' = [permits EXCEPT ![r] = [id |-> a, approver |-> ruling[a].approver]]
    /\ UNCHANGED <<ruling, decided, effects>>

Act(r) ==
    /\ permits[r] # NULL
    /\ effects' = Append(effects, permits[r])
    /\ permits' = [permits EXCEPT ![r] = NULL]
    /\ UNCHANGED <<ruling, decided>>

Drop(r) ==
    /\ permits[r] # NULL
    /\ permits' = [permits EXCEPT ![r] = NULL]
    /\ UNCHANGED <<ruling, decided, effects>>

Next ==
    \/ \E a \in Approvals :
          \/ Open(a)
          \/ \E v \in {"approved", "denied"}, u \in Approvers : Rule(a, v, u)
    \/ \E r \in Replayers :
          \/ \E a \in Approvals : Permit(r, a)
          \/ Act(r)
          \/ Drop(r)

Spec == Init /\ [][Next]_abstractVars
=============================================================================
