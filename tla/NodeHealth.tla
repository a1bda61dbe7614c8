----------------------------- MODULE NodeHealth -----------------------------
(***************************************************************************)
(* What the panel knows of its nodes, and how it places configurations:    *)
(*   SyncNodeStatus           application/use_cases/sync_nodes.py          *)
(*   NodeRepository           .../repositories/nodes.py (probes, status)   *)
(*   NodeAdministration       application/use_cases/node_administration.py *)
(*   NodeAvailabilityPolicy, WeightedNodeSelector                          *)
(*                            domain/services/node_selection.py            *)
(*   ServerRepository         .../repositories/servers.py (candidates)     *)
(*   ProvisionVpn._select_endpoint                                         *)
(*                                                                         *)
(* A probe is one node's part of a run of SyncNodeStatus, a placement one  *)
(* transaction of ProvisionVpn.  One action is one transaction or one call *)
(* of a node; a placement takes several, because it waits for the row lock *)
(* of the node it has chosen and reads the node again behind it.           *)
(***************************************************************************)
EXTENDS Integers

CONSTANTS
    Nodes,
    Probes,      \* probes that may be under way at a time
    Placements,  \* placements that may be under way at a time
    Capacity,    \* Capacity[n]: the max_clients that node n reports
    MaxActive    \* bound: the active_clients that a node reports

ASSUME CapacityAssumption  == Capacity \in [Nodes -> Nat \ {0}]
ASSUME MaxActiveAssumption == MaxActive \in Nat

\* No token, no lock; and the token of a probe that has gone.
CONSTANTS None, Gone
ASSUME TokensAssumption ==
    /\ None # Gone
    /\ {None, Gone} \cap (Probes \cup Placements) = {}

VARIABLES
    node,       \* nodes: the row and its is_enabled
    health,     \* node_status.health_status, "none" without a row
    fresh,      \* last_checked_at is not older than stale_after_seconds
    active,     \* node_status.active_clients, NULL as 0
    max,        \* node_status.max_clients, NULL as 0
    token,      \* node_status.probe_lease_token
    live,       \* probe_lease_expires_at is ahead
    stage,      \* where a probe is
    target,     \* the node of a probe
    overtaken,  \* history: probes whose node was claimed by a later one
    lock,       \* who holds the row lock of a node
    step,       \* where a placement is
    choice,     \* the node it has selected
    reserved    \* configurations that hold a slot of the node

statusVars == <<health, fresh, active, max>>
leaseVars  == <<token, live>>
probeVars  == <<stage, target, overtaken>>
placeVars  == <<lock, step, choice, reserved>>
vars == <<node, statusVars, leaseVars, probeVars, placeVars>>

NodeStatus == {"unknown", "online", "offline", "degraded"}
Stage      == {"idle", "claimed", "manual"}
Step       == {"idle", "selected", "locked", "checked"}

\* NodeHealthSnapshot, as far as it is stored in columns; and any exception
\* of the call or of from_payload, which is stored as offline.
Snapshots == [status : NodeStatus, active : 0..MaxActive]
Failed    == [status |-> "failed", active |-> 0]
Reports   == Snapshots \cup {Failed}

Init ==
    /\ node = [n \in Nodes |-> "absent"]
    /\ health = [n \in Nodes |-> "none"]
    /\ fresh = [n \in Nodes |-> FALSE]
    /\ active = [n \in Nodes |-> 0]
    /\ max = [n \in Nodes |-> 0]
    /\ token = [n \in Nodes |-> None]
    /\ live = [n \in Nodes |-> FALSE]
    /\ stage = [p \in Probes |-> "idle"]
    /\ target = [p \in Probes |-> None]
    /\ overtaken = {}
    /\ lock = [n \in Nodes |-> None]
    /\ step = [w \in Placements |-> "idle"]
    /\ choice = [w \in Placements |-> None]
    /\ reserved = [n \in Nodes |-> 0]

-----------------------------------------------------------------------------
(* Probes                                                                  *)

\* A node is created without a row of node_status.
create_node(n, enabled) ==
    /\ node[n] = "absent"
    /\ node' = [node EXCEPT ![n] = IF enabled THEN "enabled" ELSE "disabled"]
    /\ UNCHANGED <<statusVars, leaseVars, probeVars, placeVars>>

\* Mutant: a lease that has run out is not taken over.
UnleasedOnly(n) == token[n] = None

Unleased(n) == token[n] = None \/ ~live[n]

\* The rows are locked with SKIP LOCKED.
claim_due_probe_targets(p, n) ==
    /\ stage[p] = "idle"
    /\ node[n] = "enabled" /\ health[n] # "none"
    /\ ~fresh[n]
    /\ Unleased(n) /\ lock[n] = None
    /\ token' = [token EXCEPT ![n] = p]
    /\ live' = [live EXCEPT ![n] = TRUE]
    /\ stage' = [stage EXCEPT ![p] = "claimed"]
    /\ target' = [target EXCEPT ![p] = n]
    /\ overtaken' = (overtaken \ {p}) \cup
          {q \in Probes \ {p} : target[q] = n /\ stage[q] = "claimed"}
    /\ UNCHANGED <<node, statusVars, placeVars>>

\* NodeAdministration.sync_node: no claim, and no token.
sync_node(p, n) ==
    /\ stage[p] = "idle"
    /\ node[n] # "absent"
    /\ stage' = [stage EXCEPT ![p] = "manual"]
    /\ target' = [target EXCEPT ![p] = n]
    /\ overtaken' = overtaken \ {p}
    /\ UNCHANGED <<node, statusVars, leaseVars, placeVars>>

\* What a report says of the columns, if its metrics are stored.
HealthIn(r)  == IF r = Failed THEN "offline" ELSE r.status
MaxIn(r, n)  == IF r = Failed THEN 0 ELSE Capacity[n]

EndProbe(p) ==
    /\ stage' = [stage EXCEPT ![p] = "idle"]
    /\ target' = [target EXCEPT ![p] = None]
    /\ overtaken' = overtaken \ {p}

\* Mutant: the token is not compared.
OwnsAnyProbe(p) == TRUE

OwnsProbe(p) == token[target[p]] = p

\* The node has answered r.  Both tables are updated in one transaction,
\* which waits for the row lock.
finalize_probe(p, r) ==
    LET n == target[p] IN
    /\ stage[p] = "claimed"
    /\ lock[n] = None
    /\ OwnsProbe(p)
    /\ health' = [health EXCEPT ![n] = HealthIn(r)]
    /\ fresh' = [fresh EXCEPT ![n] = TRUE]
    /\ active' = [active EXCEPT ![n] = r.active]
    /\ max' = [max EXCEPT ![n] = MaxIn(r, n)]
    /\ token' = [token EXCEPT ![n] = None]
    /\ live' = [live EXCEPT ![n] = FALSE]
    /\ EndProbe(p)
    /\ UNCHANGED <<node, placeVars>>

\* rowcount is not 1: nothing is written, whatever the node has answered.
ProbeIsDropped(p) ==
    /\ stage[p] = "claimed"
    /\ ~OwnsProbe(p)
    /\ EndProbe(p)
    /\ UNCHANGED <<node, statusVars, leaseVars, placeVars>>

\* upsert_node_status sets the capacity only in the row that it finds.
upsert_node_status(p, r) ==
    LET n == target[p] IN
    /\ stage[p] = "manual"
    /\ lock[n] = None
    /\ health' = [health EXCEPT ![n] = HealthIn(r)]
    /\ fresh' = [fresh EXCEPT ![n] = TRUE]
    /\ active' = [active EXCEPT ![n] = IF health[n] = "none" THEN @ ELSE r.active]
    /\ max' = [max EXCEPT ![n] = IF health[n] = "none" THEN @ ELSE MaxIn(r, n)]
    /\ EndProbe(p)
    /\ UNCHANGED <<node, leaseVars, placeVars>>

\* The call of the node failed.  The capacity that was known stays.
mark_node_unreachable(p) ==
    LET n == target[p] IN
    /\ stage[p] = "manual"
    /\ lock[n] = None
    /\ health' = [health EXCEPT ![n] = "offline"]
    /\ fresh' = [fresh EXCEPT ![n] = TRUE]
    /\ EndProbe(p)
    /\ UNCHANGED <<node, active, max, leaseVars, placeVars>>

\* The node has no credential, or the worker stops: the claim stays until
\* its lease has run out.
ProbeStops(p) ==
    /\ stage[p] # "idle"
    /\ token' = [n \in Nodes |-> IF token[n] = p THEN Gone ELSE token[n]]
    /\ EndProbe(p)
    /\ UNCHANGED <<node, statusVars, live, placeVars>>

LeaseRunsOut(n) ==
    /\ live[n]
    /\ live' = [live EXCEPT ![n] = FALSE]
    /\ UNCHANGED <<node, statusVars, token, probeVars, placeVars>>

HealthGoesStale(n) ==
    /\ fresh[n]
    /\ fresh' = [fresh EXCEPT ![n] = FALSE]
    /\ UNCHANGED <<node, health, active, max, leaseVars, probeVars, placeVars>>

-----------------------------------------------------------------------------
(* Placements                                                              *)

effective_clients(n) == IF active[n] > reserved[n] THEN active[n] ELSE reserved[n]

\* NodeAvailabilityPolicy
allows_operation(n) ==
    fresh[n] /\ health[n] \in {"online", "degraded"}

eligible(n) ==
    /\ max[n] > 0
    /\ node[n] = "enabled" /\ allows_operation(n)
    /\ effective_clients(n) < max[n]

\* The nodes the weighted draw may hit.
Pool ==
    LET online == {n \in Nodes : eligible(n) /\ health[n] = "online"} IN
    IF online # {} THEN online ELSE {n \in Nodes : eligible(n)}

Select(w, n) ==
    /\ step[w] = "idle"
    /\ n \in Pool
    /\ step' = [step EXCEPT ![w] = "selected"]
    /\ choice' = [choice EXCEPT ![w] = n]
    /\ UNCHANGED <<node, statusVars, leaseVars, probeVars, lock, reserved>>

\* Mutant: the row is read without FOR UPDATE.
ReadNode(w) ==
    /\ step[w] = "selected"
    /\ step' = [step EXCEPT ![w] = "locked"]
    /\ UNCHANGED <<node, statusVars, leaseVars, probeVars, lock, choice, reserved>>

\* lock_and_revalidate_candidate, its first statement.
LockNode(w) ==
    /\ step[w] = "selected"
    /\ lock[choice[w]] = None
    /\ lock' = [lock EXCEPT ![choice[w]] = w]
    /\ step' = [step EXCEPT ![w] = "locked"]
    /\ UNCHANGED <<node, statusVars, leaseVars, probeVars, choice, reserved>>

\* The transaction ends, and its lock with it.
EndPlacement(w) ==
    /\ lock' = [n \in Nodes |-> IF lock[n] = w THEN None ELSE lock[n]]
    /\ step' = [step EXCEPT ![w] = "idle"]
    /\ choice' = [choice EXCEPT ![w] = None]

\* Mutant: the selection is trusted.
StillSelected(w) == TRUE

StillEligible(w) == eligible(choice[w])

\* Its second statement, and the check of what it has read.
Revalidate(w) ==
    /\ step[w] = "locked"
    /\ StillEligible(w)
    /\ step' = [step EXCEPT ![w] = "checked"]
    /\ UNCHANGED <<node, statusVars, leaseVars, probeVars, lock, choice, reserved>>

\* waiting_for_node_capacity, or the transaction is rolled back.
PlacementEnds(w) ==
    /\ step[w] # "idle"
    /\ EndPlacement(w)
    /\ UNCHANGED <<node, statusVars, leaseVars, probeVars, reserved>>

\* The configuration and its task are inserted and committed.
Place(w) ==
    /\ step[w] = "checked"
    /\ reserved' = [reserved EXCEPT ![choice[w]] = @ + 1]
    /\ EndPlacement(w)
    /\ UNCHANGED <<node, statusVars, leaseVars, probeVars>>

\* A configuration reaches a status that reserves no capacity.
SlotIsFreed(n) ==
    /\ reserved[n] > 0
    /\ reserved' = [reserved EXCEPT ![n] = @ - 1]
    /\ UNCHANGED <<node, statusVars, leaseVars, probeVars, lock, step, choice>>

-----------------------------------------------------------------------------

Next ==
    \/ \E n \in Nodes, e \in BOOLEAN : create_node(n, e)
    \/ \E p \in Probes, n \in Nodes :
          claim_due_probe_targets(p, n) \/ sync_node(p, n)
    \/ \E p \in Probes, r \in Reports : finalize_probe(p, r)
    \/ \E p \in Probes, r \in Snapshots : upsert_node_status(p, r)
    \/ \E p \in Probes :
          ProbeIsDropped(p) \/ mark_node_unreachable(p) \/ ProbeStops(p)
    \/ \E n \in Nodes :
          LeaseRunsOut(n) \/ HealthGoesStale(n) \/ SlotIsFreed(n)
    \/ \E w \in Placements, n \in Nodes : Select(w, n)
    \/ \E w \in Placements :
          LockNode(w) \/ Revalidate(w) \/ PlacementEnds(w) \/ Place(w)

Spec == Init /\ [][Next]_vars

-----------------------------------------------------------------------------
(* Properties                                                              *)

\* Rows, probes and placements hold only the values of the code; a lock is
\* held exactly by the placement that works behind it.
TypeOK ==
    /\ node \in [Nodes -> {"absent", "enabled", "disabled"}]
    /\ health \in [Nodes -> NodeStatus \cup {"none"}]
    /\ fresh \in [Nodes -> BOOLEAN]
    /\ active \in [Nodes -> Nat]
    /\ max \in [Nodes -> Nat]
    /\ token \in [Nodes -> Probes \cup {None, Gone}]
    /\ live \in [Nodes -> BOOLEAN]
    /\ stage \in [Probes -> Stage]
    /\ target \in [Probes -> Nodes \cup {None}]
    /\ overtaken \subseteq Probes
    /\ lock \in [Nodes -> Placements \cup {None}]
    /\ step \in [Placements -> Step]
    /\ choice \in [Placements -> Nodes \cup {None}]
    /\ reserved \in [Nodes -> Nat]
    /\ \A n \in Nodes, w \in Placements :
          lock[n] = w <=> choice[w] = n /\ step[w] \in {"locked", "checked"}

\* No node is given more configurations than it has room for, although
\* placements select in parallel from what they have read without a lock
\* (lock_and_revalidate_candidate).
NoOverbooking == \A n \in Nodes : reserved[n] <= Capacity[n]

\* A configuration is placed on a node that is, by its latest committed
\* status, enabled and able to work: no probe changes that between the check
\* and the insertion, since the status is stored under the same row lock.
PlacedOnUsableNode ==
    \A w \in Placements :
        step[w] = "checked" =>
            /\ node[choice[w]] = "enabled"
            /\ health[choice[w]] \in {"online", "degraded"}

\* A slow probe leaves no trace once its node was claimed again: what it
\* found out is older than what the later probe will (finalize_probe).
OvertakenProbeIsDropped ==
    [][\A p \in overtaken :
          stage[p] = "claimed" /\ stage'[p] = "idle"
             => UNCHANGED statusVars /\ UNCHANGED live]_vars

\* The claim of a node's probe as a lease.
ProbeLease(n) == INSTANCE Lease WITH
    Nobody <- None,
    Lost   <- Gone,
    owner  <- token[n],
    live   <- live[n],
    atWork <- {p \in Probes : stage[p] = "claimed" /\ target[p] = n}

\* Spec implements Lease, for every node: no probe takes a node over while the
\* lease of another one runs, and none ends another's claim
\* (claim_due_probe_targets, finalize_probe).
ImplementsLease ==
    /\ \A n \in Nodes : ProbeLease(n)!Init
    /\ [][\A n \in Nodes : ProbeLease(n)!Next \/ UNCHANGED ProbeLease(n)!vars]_vars

-----------------------------------------------------------------------------
(* Fairness.  The sync job runs from cron, calls of nodes have a timeout,  *)
(* transactions come to their end and time passes.  Not every probe stops, *)
(* is overtaken before its node answers, or meets a locked row: the lease  *)
(* of a probe outlasts the timeouts of its calls.                          *)

PlacementGoesOn(w) == LockNode(w) \/ Revalidate(w) \/ PlacementEnds(w)

Fairness ==
    /\ \A n \in Nodes :
          /\ SF_vars(\E p \in Probes : claim_due_probe_targets(p, n))
          /\ SF_vars(\E p \in Probes, r \in Reports :
                       target[p] = n /\ finalize_probe(p, r))
          /\ WF_vars(token[n] = Gone /\ LeaseRunsOut(n))
    /\ \A p \in Probes :
          /\ WF_vars(ProbeIsDropped(p))
          /\ SF_vars(mark_node_unreachable(p))
    /\ \A w \in Placements : WF_vars(step[w] # "selected" /\ PlacementGoesOn(w))

FairSpec == Spec /\ Fairness

\* A node that has gone stale is probed again, whatever probes stop on the
\* way, if it has a status at all: a node that was created gets its first
\* status from sync_node only.
StaleIsProbed ==
    \A n \in Nodes :
        node[n] = "enabled" /\ health[n] # "none" /\ ~fresh[n] ~> fresh[n]

=============================================================================
