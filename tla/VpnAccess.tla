----------------------------- MODULE VpnAccess -----------------------------
(***************************************************************************)
(* What the lifecycle of one VPN configuration promises, whichever backend *)
(* carries it out: VpnConfiguration (domain/entities/vpn.py) and the paid  *)
(* access of its subscription, without tasks, attempts, leases and calls.  *)
(* VpnNode and PanelTask implement it.                                     *)
(***************************************************************************)
EXTENDS Integers

VARIABLES
    subscription,   \* subscriptions.status
    period,         \* a funded period covers the present moment
    status,         \* vpn_configurations.status
    desired,        \* vpn_configurations.desired_state
    generation,     \* vpn_configurations.generation
    client          \* the backend has the client

access == <<subscription, period>>
row    == <<status, desired, generation>>
vars   == <<access, row, client>>

CurrentAccess == subscription = "active" /\ period

Init ==
    /\ subscription = "active"
    /\ period = TRUE
    /\ status = "absent"
    /\ desired = "active"
    /\ generation = 1
    /\ client = FALSE

\* The clock, payments, refunds and the end of the subscription.
AccessChanges ==
    /\ subscription = "ended" => subscription' = "ended"
    /\ subscription' \in {"active", "ended"} /\ period' \in BOOLEAN
    /\ UNCHANGED <<row, client>>

Create ==
    /\ status = "absent" /\ CurrentAccess
    /\ status' = "provisioning"
    /\ UNCHANGED <<access, desired, generation, client>>

\* Only paid time turns a configuration on, and only with its client there.
Activate ==
    /\ status = "provisioning" /\ period /\ client
    /\ status' = "active"
    /\ UNCHANGED <<access, desired, generation, client>>

FailProvisioning ==
    /\ status = "provisioning"
    /\ status' = "failed"
    /\ UNCHANGED <<access, desired, generation, client>>

\* begin_revoke, retry_revoke, cancel_provisioning_for_revoke and
\* request_cleanup_from_failed.
BeginRevoke ==
    /\ status \in {"provisioning", "active", "failed", "revoke_failed"}
    /\ status' = "revoking"
    /\ desired' = "revoked"
    /\ generation' = generation + 1
    /\ UNCHANGED <<access, client>>

EndRevoke ==
    /\ status = "revoking"
    /\ status' \in {"revoked", "revoke_failed"}
    /\ UNCHANGED <<access, desired, generation, client>>

\* The backend works on the client; never on that of an active row.
ClientChanges ==
    /\ status # "active"
    /\ client' = ~client
    /\ UNCHANGED <<access, row>>

Next ==
    \/ AccessChanges
    \/ Create \/ Activate \/ FailProvisioning \/ BeginRevoke \/ EndRevoke
    \/ ClientChanges

Spec == Init /\ [][Next]_vars
=============================================================================
