-------------------------- MODULE NodeHealthProofs --------------------------
(***************************************************************************)
(* Placements and probes of any number on any number of nodes: no node is  *)
(* overbooked, no overtaken probe is stored, and the claim of a node's     *)
(* probe is a lease.                                                       *)
(***************************************************************************)
EXTENDS NodeHealth, TLAPS

\* What runs has a node to work on.
Occupied ==
    /\ \A p \in Probes : stage[p] # "idle" => target[p] \in Nodes
    /\ \A w \in Placements : step[w] # "idle" => choice[w] \in Nodes

\* A capacity that is known is the one the node has.
CapacityIsKnown == \A n \in Nodes : max[n] \in {0, Capacity[n]}

\* Behind the lock there is room until the placement is committed.
RoomIsKept ==
    \A w \in Placements :
        step[w] = "checked" => reserved[choice[w]] < Capacity[choice[w]]

\* An overtaken probe does not hold the token of its node.
OvertakenHasNoToken ==
    \A p \in overtaken : stage[p] = "claimed" => token[target[p]] # p

Inv ==
    /\ TypeOK /\ Occupied /\ CapacityIsKnown /\ RoomIsKept
    /\ NoOverbooking /\ PlacedOnUsableNode /\ OvertakenHasNoToken

\* Setting one value of a function keeps its type.
LEMMA ExceptType ==
  ASSUME NEW S, NEW T, NEW f \in [S -> T], NEW x, NEW v \in T
  PROVE  [f EXCEPT ![x] = v] \in [S -> T]
  OBVIOUS

USE CapacityAssumption, MaxActiveAssumption, TokensAssumption

-----------------------------------------------------------------------------

LEMMA InitInv == Init => Inv
  BY DEF Init, Inv, TypeOK, Occupied, CapacityIsKnown, RoomIsKept, NoOverbooking,
         PlacedOnUsableNode, OvertakenHasNoToken, NodeStatus, Stage, Step

\* A placement that holds the lock of its node is the only one that does.
LEMMA LockIsExclusive ==
  ASSUME TypeOK, NEW v \in Placements, NEW w \in Placements, v # w,
         step[v] \in {"locked", "checked"}, step[w] \in {"locked", "checked"},
         choice[v] \in Nodes
  PROVE  choice[v] # choice[w]
  BY DEF TypeOK

\* A checked placement keeps everyone else from the row of its node.
LEMMA CheckedIsLocked ==
  ASSUME Inv, NEW w \in Placements, step[w] = "checked"
  PROVE  choice[w] \in Nodes /\ lock[choice[w]] # None
  BY DEF Inv, TypeOK, Occupied

\* Steps that touch only probes and leases.
LEMMA ProbeStep ==
  ASSUME Inv,
         \/ \E p \in Probes, n \in Nodes :
               claim_due_probe_targets(p, n) \/ sync_node(p, n)
         \/ \E p \in Probes : ProbeIsDropped(p) \/ ProbeStops(p)
         \/ \E n \in Nodes : LeaseRunsOut(n)
  PROVE  Inv'
<1>n. UNCHANGED <<node, statusVars, placeVars>>
  BY DEF claim_due_probe_targets, sync_node, ProbeIsDropped, ProbeStops,
         LeaseRunsOut
<1>1. TypeOK'
  <2>0. token' \in [Nodes -> Probes \cup {None, Gone}]
    BY DEF Inv, TypeOK, claim_due_probe_targets, sync_node, ProbeIsDropped,
           ProbeStops, LeaseRunsOut, leaseVars
  <2>1. live' \in [Nodes -> BOOLEAN]
    <3>1. \/ live' = live
          \/ \E n \in Nodes, b \in BOOLEAN : live' = [live EXCEPT ![n] = b]
      BY DEF claim_due_probe_targets, sync_node, ProbeIsDropped, ProbeStops,
             LeaseRunsOut, leaseVars
    <3> QED
      BY <3>1 DEF Inv, TypeOK
  <2>2. /\ stage' \in [Probes -> Stage]
        /\ target' \in [Probes -> Nodes \cup {None}]
        /\ overtaken' \subseteq Probes
    BY DEF Inv, TypeOK, Stage, claim_due_probe_targets, sync_node,
           ProbeIsDropped, ProbeStops, EndProbe, LeaseRunsOut, probeVars
  <2> QED
    BY <1>n, <2>0, <2>1, <2>2 DEF Inv, TypeOK, statusVars, placeVars
<1>2. Occupied'
  BY <1>n DEF Inv, TypeOK, Occupied, Stage, placeVars, claim_due_probe_targets,
         sync_node, ProbeIsDropped, ProbeStops, EndProbe, LeaseRunsOut, probeVars
<1>3. CapacityIsKnown' /\ RoomIsKept' /\ NoOverbooking' /\ PlacedOnUsableNode'
  BY <1>n DEF Inv, CapacityIsKnown, RoomIsKept, NoOverbooking,
     PlacedOnUsableNode, statusVars, placeVars
<1>4. OvertakenHasNoToken'
  BY DEF Inv, TypeOK, Occupied, OvertakenHasNoToken, Stage,
         claim_due_probe_targets, sync_node, ProbeIsDropped, ProbeStops,
         EndProbe, LeaseRunsOut, leaseVars, probeVars
<1> QED
  BY <1>1, <1>2, <1>3, <1>4 DEF Inv

\* Storing a status needs the row lock, so no placement is behind it.
LEMMA StatusStep ==
  ASSUME Inv, NEW p \in Probes,
         \/ \E r \in Reports : finalize_probe(p, r)
         \/ \E r \in Snapshots : upsert_node_status(p, r)
         \/ mark_node_unreachable(p)
  PROVE  Inv'
<1>n. target[p] \in Nodes /\ lock[target[p]] = None /\ placeVars' = placeVars
      /\ node' = node
  BY DEF Inv, Occupied, finalize_probe, upsert_node_status,
         mark_node_unreachable
<1>m. \A r \in Reports : /\ HealthIn(r) \in NodeStatus
                         /\ r.active \in Nat
                         /\ MaxIn(r, target[p]) \in {0, Capacity[target[p]]}
  BY DEF Reports, Snapshots, Failed, HealthIn, MaxIn, NodeStatus
<1>s. Snapshots \subseteq Reports
  BY DEF Reports
<1>1. TypeOK'
  <2>1. /\ \E h \in NodeStatus : health' = [health EXCEPT ![target[p]] = h]
        /\ fresh' = [fresh EXCEPT ![target[p]] = TRUE]
    BY <1>m, <1>s DEF NodeStatus, finalize_probe, upsert_node_status,
       mark_node_unreachable
  <2>4. /\ \E k \in Nat : active' = [active EXCEPT ![target[p]] = k]
        /\ \E k \in Nat : max' = [max EXCEPT ![target[p]] = k]
    <3>1. active[target[p]] \in Nat /\ max[target[p]] \in Nat
      BY <1>n DEF Inv, TypeOK
    <3>2. \A r \in Reports : MaxIn(r, target[p]) \in Nat
      BY <1>n, <1>m
    <3>3. /\ active = [active EXCEPT ![target[p]] = active[target[p]]]
          /\ max = [max EXCEPT ![target[p]] = max[target[p]]]
      BY DEF Inv, TypeOK
    <3> QED
      BY <1>m, <1>s, <3>1, <3>2, <3>3 DEF finalize_probe, upsert_node_status,
         mark_node_unreachable
  <2>2. \/ token' = token /\ live' = live
        \/ /\ token' = [token EXCEPT ![target[p]] = None]
           /\ live' = [live EXCEPT ![target[p]] = FALSE]
    BY DEF finalize_probe, upsert_node_status, mark_node_unreachable, leaseVars
  <2>3. /\ stage' \in [Probes -> Stage]
        /\ target' \in [Probes -> Nodes \cup {None}]
        /\ overtaken' \subseteq Probes
    BY DEF Inv, TypeOK, Stage, finalize_probe, upsert_node_status,
       mark_node_unreachable, EndProbe
  <2>5. /\ health' \in [Nodes -> NodeStatus \cup {"none"}]
        /\ active' \in [Nodes -> Nat] /\ max' \in [Nodes -> Nat]
        /\ token' \in [Nodes -> Probes \cup {None, Gone}]
    <3>0. /\ health \in [Nodes -> NodeStatus \cup {"none"}]
          /\ active \in [Nodes -> Nat] /\ max \in [Nodes -> Nat]
          /\ token \in [Nodes -> Probes \cup {None, Gone}]
      BY DEF Inv, TypeOK
    <3>1. health' \in [Nodes -> NodeStatus \cup {"none"}]
      <4>1. PICK h \in NodeStatus : health' = [health EXCEPT ![target[p]] = h]
        BY <2>1
      <4> QED
        BY <3>0, <4>1, ExceptType
    <3>2. active' \in [Nodes -> Nat] /\ max' \in [Nodes -> Nat]
      <4>1. PICK k \in Nat : active' = [active EXCEPT ![target[p]] = k]
        BY <2>4
      <4>2. PICK m \in Nat : max' = [max EXCEPT ![target[p]] = m]
        BY <2>4
      <4> QED
        BY <3>0, <4>1, <4>2, ExceptType
    <3>3. token' \in [Nodes -> Probes \cup {None, Gone}]
      BY <2>2, <3>0, ExceptType
    <3> QED
      BY <3>1, <3>2, <3>3
  <2>6. fresh' \in [Nodes -> BOOLEAN]
    BY <2>1 DEF Inv, TypeOK
  <2>7. live' \in [Nodes -> BOOLEAN]
    <3>1. live \in [Nodes -> BOOLEAN] /\ FALSE \in BOOLEAN
      BY DEF Inv, TypeOK
    <3> QED
      BY <2>2, <3>1, ExceptType, Zenon
  <2> QED
    BY <1>n, <2>3, <2>5, <2>6, <2>7 DEF Inv, TypeOK, placeVars
<1>2. Occupied'
  BY <1>n DEF Inv, TypeOK, Occupied, Stage, finalize_probe, upsert_node_status,
     mark_node_unreachable, EndProbe, placeVars
<1>3. CapacityIsKnown'
  BY <1>n, <1>m, <1>s DEF Inv, TypeOK, CapacityIsKnown, finalize_probe,
     upsert_node_status, mark_node_unreachable
<1>4. RoomIsKept' /\ NoOverbooking'
  BY <1>n DEF Inv, RoomIsKept, NoOverbooking, placeVars
<1>5. PlacedOnUsableNode'
  <2> SUFFICES ASSUME NEW w \in Placements, step'[w] = "checked"
               PROVE  /\ node'[choice'[w]] = "enabled"
                      /\ health'[choice'[w]] \in {"online", "degraded"}
    BY DEF PlacedOnUsableNode
  <2>1. step[w] = "checked" /\ choice' = choice
    BY <1>n DEF placeVars
  <2>2. choice[w] \in Nodes /\ choice[w] # target[p]
    BY <1>n, <2>1, CheckedIsLocked
  <2>3. health'[choice[w]] = health[choice[w]]
    BY <1>n, <2>2 DEF Inv, TypeOK, finalize_probe, upsert_node_status,
       mark_node_unreachable
  <2> QED
    BY <1>n, <2>1, <2>3 DEF Inv, PlacedOnUsableNode
<1>6. OvertakenHasNoToken'
  BY <1>n DEF Inv, TypeOK, Occupied, OvertakenHasNoToken, finalize_probe,
     upsert_node_status, mark_node_unreachable, EndProbe, leaseVars
<1> QED
  BY <1>1, <1>2, <1>3, <1>4, <1>5, <1>6 DEF Inv

\* A configuration is placed where its check has found room.
LEMMA PlacementStep ==
  ASSUME Inv, NEW w \in Placements,
         \/ \E n \in Nodes : Select(w, n)
         \/ LockNode(w) \/ Revalidate(w) \/ PlacementEnds(w) \/ Place(w)
  PROVE  Inv'
<1>n. UNCHANGED <<node, statusVars, leaseVars, probeVars>>
  BY DEF Select, LockNode, Revalidate, PlacementEnds, Place
<1>1. TypeOK'
  <2>1. CASE \E n \in Nodes : Select(w, n)
    BY <2>1, <1>n DEF Inv, TypeOK, Step, Select, statusVars, leaseVars, probeVars
  <2>2. CASE LockNode(w)
    <3>1. /\ lock' \in [Nodes -> Placements \cup {None}]
          /\ step' \in [Placements -> Step]
          /\ choice' = choice /\ reserved' = reserved
      BY <2>2 DEF Inv, TypeOK, Occupied, Step, LockNode
    <3>2. ASSUME NEW n \in Nodes, NEW v \in Placements
          PROVE  lock'[n] = v <=> choice[v] = n /\ step'[v] \in {"locked", "checked"}
      <4>1. CASE v = w
        BY <2>2, <4>1 DEF Inv, TypeOK, Occupied, LockNode
      <4>2. CASE v # w
        BY <2>2, <4>2 DEF Inv, TypeOK, Occupied, LockNode
      <4> QED
        BY <4>1, <4>2
    <3> QED
      BY <1>n, <3>1, <3>2 DEF Inv, TypeOK, statusVars, leaseVars, probeVars
  <2>3. CASE Revalidate(w)
    BY <2>3, <1>n DEF Inv, TypeOK, Step, Revalidate, statusVars, leaseVars, probeVars
  <2>4. CASE PlacementEnds(w)
    BY <2>4, <1>n DEF Inv, TypeOK, Step, PlacementEnds, EndPlacement, statusVars, leaseVars, probeVars
  <2>5. CASE Place(w)
    <3>1. reserved' \in [Nodes -> Nat]
      BY <2>5 DEF Inv, TypeOK, Occupied, Place
    <3>2. /\ lock' \in [Nodes -> Placements \cup {None}]
          /\ step' \in [Placements -> Step]
          /\ choice' \in [Placements -> Nodes \cup {None}]
      BY <2>5 DEF Inv, TypeOK, Step, Place, EndPlacement
    <3>3. ASSUME NEW n \in Nodes, NEW v \in Placements
          PROVE  lock'[n] = v <=> choice'[v] = n /\ step'[v] \in {"locked", "checked"}
      BY <2>5 DEF Inv, TypeOK, Step, Place, EndPlacement
    <3> QED
      BY <1>n, <3>1, <3>2, <3>3 DEF Inv, TypeOK, statusVars, leaseVars, probeVars
  <2> QED
    BY <2>1, <2>2, <2>3, <2>4, <2>5
<1>2. Occupied'
  BY <1>n DEF Inv, TypeOK, Occupied, Step, Select, LockNode, Revalidate,
     PlacementEnds, Place, EndPlacement, probeVars
<1>3. CapacityIsKnown' /\ OvertakenHasNoToken'
  BY <1>n DEF Inv, CapacityIsKnown, OvertakenHasNoToken, statusVars, leaseVars, probeVars
<1>4. ASSUME Revalidate(w)
      PROVE  /\ reserved[choice[w]] < Capacity[choice[w]]
             /\ node[choice[w]] = "enabled"
             /\ health[choice[w]] \in {"online", "degraded"}
  BY <1>4 DEF Inv, TypeOK, Occupied, CapacityIsKnown, Revalidate, StillEligible,
     eligible, allows_operation, effective_clients
<1>5. RoomIsKept'
  <2>1. CASE Place(w)
    <3> SUFFICES ASSUME NEW v \in Placements, step'[v] = "checked"
                 PROVE  reserved'[choice'[v]] < Capacity[choice'[v]]
      BY DEF RoomIsKept
    <3>1. v # w /\ step[v] = "checked" /\ choice'[v] = choice[v]
      BY <2>1 DEF Inv, TypeOK, Place, EndPlacement
    <3>2. choice[v] # choice[w] /\ choice[v] \in Nodes
      BY <2>1, <3>1, LockIsExclusive DEF Inv, Occupied, Place
    <3> QED
      BY <2>1, <3>1, <3>2 DEF Inv, TypeOK, RoomIsKept, Place
  <2>2. CASE ~Place(w)
    BY <2>2, <1>4 DEF Inv, TypeOK, RoomIsKept, Select, LockNode, Revalidate,
       PlacementEnds, EndPlacement
  <2> QED
    BY <2>1, <2>2
<1>6. NoOverbooking'
  BY DEF Inv, TypeOK, Occupied, NoOverbooking, RoomIsKept, Select, LockNode,
     Revalidate, PlacementEnds, Place
<1>7. PlacedOnUsableNode'
  BY <1>n, <1>4 DEF Inv, TypeOK, PlacedOnUsableNode, Select, LockNode, Revalidate,
     PlacementEnds, Place, EndPlacement, statusVars
<1> QED
  BY <1>1, <1>2, <1>3, <1>5, <1>6, <1>7 DEF Inv

\* The steps of the rest of the system.
LEMMA OtherStep ==
  ASSUME Inv, NEW n \in Nodes,
         \/ \E e \in BOOLEAN : create_node(n, e)
         \/ HealthGoesStale(n) \/ SlotIsFreed(n)
  PROVE  Inv'
<1>1. TypeOK'
  <2>1. CASE \E e \in BOOLEAN : create_node(n, e)
    BY <2>1 DEF Inv, TypeOK, create_node, statusVars, leaseVars, probeVars, placeVars
  <2>2. CASE HealthGoesStale(n)
    BY <2>2 DEF Inv, TypeOK, HealthGoesStale, leaseVars, probeVars, placeVars
  <2>3. CASE SlotIsFreed(n)
    BY <2>3 DEF Inv, TypeOK, SlotIsFreed, statusVars, leaseVars, probeVars
  <2> QED
    BY <2>1, <2>2, <2>3
<1>3. Occupied' /\ CapacityIsKnown' /\ OvertakenHasNoToken'
  BY DEF Inv, Occupied, CapacityIsKnown, OvertakenHasNoToken, create_node,
     HealthGoesStale, SlotIsFreed, statusVars, leaseVars, probeVars, placeVars
<1>2. RoomIsKept' /\ NoOverbooking' /\ PlacedOnUsableNode'
  BY DEF Inv, TypeOK, Occupied, RoomIsKept, NoOverbooking, PlacedOnUsableNode,
     create_node, HealthGoesStale, SlotIsFreed, statusVars, placeVars
<1> QED
  BY <1>1, <1>2, <1>3 DEF Inv

LEMMA NextInv == Inv /\ [Next]_vars => Inv'
<1> SUFFICES ASSUME Inv, [Next]_vars PROVE Inv'
  OBVIOUS
<1>1. CASE \/ \E p \in Probes, n \in Nodes :
                 claim_due_probe_targets(p, n) \/ sync_node(p, n)
           \/ \E p \in Probes : ProbeIsDropped(p) \/ ProbeStops(p)
           \/ \E n \in Nodes : LeaseRunsOut(n)
  BY <1>1, ProbeStep
<1>2. CASE \E p \in Probes :
             \/ \E r \in Reports : finalize_probe(p, r)
             \/ \E r \in Snapshots : upsert_node_status(p, r)
             \/ mark_node_unreachable(p)
  BY <1>2, StatusStep
<1>3. CASE \E w \in Placements :
             \/ \E n \in Nodes : Select(w, n)
             \/ LockNode(w) \/ Revalidate(w) \/ PlacementEnds(w) \/ Place(w)
  BY <1>3, PlacementStep
<1>4. CASE \E n \in Nodes :
             \/ \E e \in BOOLEAN : create_node(n, e)
             \/ HealthGoesStale(n) \/ SlotIsFreed(n)
  BY <1>4, OtherStep
<1>5. CASE UNCHANGED vars
  BY <1>5 DEF vars, statusVars, leaseVars, probeVars, placeVars, Inv, TypeOK,
     Occupied, CapacityIsKnown, RoomIsKept, NoOverbooking, PlacedOnUsableNode,
     OvertakenHasNoToken
<1> QED
  BY <1>1, <1>2, <1>3, <1>4, <1>5 DEF Next

LEMMA AlwaysInv == Spec => []Inv
  BY InitInv, NextInv, PTL DEF Spec

-----------------------------------------------------------------------------

\* Rows, probes and placements keep to the values of the code, and a row lock
\* is held exactly by the placement that works behind it
\* (lock_and_revalidate_candidate).
THEOREM TypeCorrect == Spec => []TypeOK
  BY AlwaysInv, PTL DEF Inv

\* However many placements run at the same time on however many nodes, none
\* is given more configurations than the max_clients it reports
\* (_select_endpoint, lock_and_revalidate_candidate).
THEOREM NodesAreNotOverbooked == Spec => []NoOverbooking
  BY AlwaysInv, PTL DEF Inv

\* No probe changes the status of a node between the check of a placement
\* and its commit (lock_and_revalidate_candidate, finalize_probe).
THEOREM PlacementsAreOnUsableNodes == Spec => []PlacedOnUsableNode
  BY AlwaysInv, PTL DEF Inv

\* A probe whose node was claimed again stores nothing (finalize_probe).
THEOREM LateProbesAreDropped == Spec => OvertakenProbeIsDropped
<1>1. ASSUME Inv, [Next]_vars, NEW p \in overtaken,
             stage[p] = "claimed", stage'[p] = "idle"
      PROVE  UNCHANGED statusVars /\ UNCHANGED live
  <2>1. p \in Probes /\ ~OwnsProbe(p)
    BY <1>1 DEF Inv, TypeOK, OvertakenHasNoToken, OwnsProbe
  <2>2. ProbeIsDropped(p) \/ ProbeStops(p)
    BY <1>1, <2>1 DEF Inv, TypeOK, Next, vars, statusVars, leaseVars, probeVars,
       placeVars, create_node, claim_due_probe_targets, sync_node, finalize_probe,
       ProbeIsDropped, upsert_node_status, mark_node_unreachable, ProbeStops,
       EndProbe, LeaseRunsOut, HealthGoesStale, SlotIsFreed, Select, LockNode,
       Revalidate, PlacementEnds, Place
  <2> QED
    BY <2>2 DEF ProbeIsDropped, ProbeStops, leaseVars
<1>2. Inv /\ [Next]_vars =>
        [\A p \in overtaken :
            stage[p] = "claimed" /\ stage'[p] = "idle"
               => UNCHANGED statusVars /\ UNCHANGED live]_vars
  BY <1>1
<1> QED
  BY <1>2, AlwaysInv, PTL DEF Spec, OvertakenProbeIsDropped

-----------------------------------------------------------------------------
(* The claim of a node's probe as a lease                                  *)

\* The token in a row is the one of a probe that is under way for it.
TokenIsAtWork ==
    \A n \in Nodes :
        token[n] \in Probes => stage[token[n]] = "claimed" /\ target[token[n]] = n

LeaseInv == Inv /\ TokenIsAtWork

AtWork(n) == {p \in Probes : stage[p] = "claimed" /\ target[p] = n}

\* The steps that leave all tokens and all probes with a claim alone.
QuietSteps ==
    \/ \E n \in Nodes, e \in BOOLEAN : create_node(n, e)
    \/ \E p \in Probes, n \in Nodes : sync_node(p, n)
    \/ \E p \in Probes, r \in Snapshots : upsert_node_status(p, r)
    \/ \E p \in Probes : mark_node_unreachable(p)
    \/ \E n \in Nodes : HealthGoesStale(n) \/ SlotIsFreed(n)
    \/ \E w \in Placements :
          \/ \E n \in Nodes : Select(w, n)
          \/ LockNode(w) \/ Revalidate(w) \/ PlacementEnds(w) \/ Place(w)
    \/ UNCHANGED vars

LEMMA QuietStep ==
  ASSUME TypeOK, QuietSteps
  PROVE  /\ UNCHANGED leaseVars
         /\ \A p \in Probes :
               /\ stage[p] = "claimed" <=> stage'[p] = "claimed"
               /\ stage[p] = "claimed" => target'[p] = target[p]
<1>1. CASE \/ \E p \in Probes, n \in Nodes : sync_node(p, n)
           \/ \E p \in Probes, r \in Snapshots : upsert_node_status(p, r)
           \/ \E p \in Probes : mark_node_unreachable(p)
  BY <1>1 DEF TypeOK, sync_node, upsert_node_status, mark_node_unreachable, EndProbe
<1>2. CASE UNCHANGED <<leaseVars, probeVars>>
  BY <1>2 DEF probeVars
<1> QED
  BY <1>1, <1>2 DEF QuietSteps, create_node, HealthGoesStale, SlotIsFreed, Select, LockNode,
     Revalidate, PlacementEnds, Place, vars

\* The end of a probe, whatever it leaves behind.
LEMMA ProbeEnds ==
  ASSUME TypeOK, NEW p \in Probes, EndProbe(p)
  PROVE  /\ stage'[p] # "claimed"
         /\ \A q \in Probes \ {p} : stage'[q] = stage[q] /\ target'[q] = target[q]
         /\ \A n \in Nodes : AtWork(n)' = AtWork(n) \ {p}
  BY DEF TypeOK, EndProbe, AtWork

LEMMA NextTokenIsAtWork == LeaseInv /\ [Next]_vars => TokenIsAtWork'
<1> SUFFICES ASSUME LeaseInv, [Next]_vars, NEW m \in Nodes, token'[m] \in Probes
             PROVE  stage'[token'[m]] = "claimed" /\ target'[token'[m]] = m
  BY DEF TokenIsAtWork
<1> DEFINE Goal == stage'[token'[m]] = "claimed" /\ target'[token'[m]] = m
<1>1. TypeOK /\ TokenIsAtWork
  BY DEF LeaseInv, Inv
<1>2. CASE QuietSteps
  BY <1>1, <1>2, QuietStep DEF TokenIsAtWork, leaseVars
<1>3. ASSUME NEW p \in Probes, NEW n \in Nodes, claim_due_probe_targets(p, n)
      PROVE  Goal
  BY <1>1, <1>3 DEF TypeOK, TokenIsAtWork, claim_due_probe_targets
<1>4. ASSUME NEW p \in Probes, EndProbe(p), token'[m] # p, token'[m] = token[m]
      PROVE  Goal
  BY <1>1, <1>4, ProbeEnds DEF TokenIsAtWork
<1>5. ASSUME NEW p \in Probes, NEW r \in Reports, finalize_probe(p, r)
      PROVE  Goal
  <2>1. EndProbe(p) /\ stage[p] = "claimed" /\ target[p] \in Nodes
    BY <1>5 DEF finalize_probe, LeaseInv, Inv, Occupied
  <2>2. m # target[p]
    BY <1>1, <1>5, <2>1 DEF finalize_probe, TypeOK
  <2>3. token'[m] = token[m]
    BY <1>1, <1>5, <2>2 DEF finalize_probe, TypeOK
  <2> QED
    BY <1>1, <1>4, <2>1, <2>2, <2>3 DEF TokenIsAtWork
<1>6. ASSUME NEW p \in Probes, ProbeIsDropped(p) PROVE Goal
  BY <1>1, <1>4, <1>6 DEF ProbeIsDropped, OwnsProbe, leaseVars, TokenIsAtWork
<1>7. ASSUME NEW p \in Probes, ProbeStops(p) PROVE Goal
  BY <1>4, <1>7 DEF ProbeStops
<1>8. ASSUME NEW n \in Nodes, LeaseRunsOut(n) PROVE Goal
  BY <1>1, <1>8 DEF LeaseRunsOut, probeVars, TokenIsAtWork
<1> QED
  BY <1>2, <1>3, <1>5, <1>6, <1>7, <1>8 DEF Next, QuietSteps

LeasedStep(n) == ProbeLease(n)!Next \/ UNCHANGED ProbeLease(n)!vars

\* What is stored for one node leaves the others alone.
LEMMA OthersKeep ==
  ASSUME NEW S, NEW f \in [Nodes -> S], NEW g, NEW n, NEW b, NEW m \in Nodes,
         g = [f EXCEPT ![n] = b], n # m
  PROVE  g[m] = f[m]
  OBVIOUS

LEMMA ClaimOfOther ==
  ASSUME TypeOK, NEW p \in Probes, NEW n \in Nodes, NEW m \in Nodes, n # m,
         claim_due_probe_targets(p, n)
  PROVE  token'[m] = token[m] /\ live'[m] = live[m]
<1>1. /\ token' = [token EXCEPT ![n] = p]
      /\ live' = [live EXCEPT ![n] = TRUE]
  BY DEF claim_due_probe_targets
<1>2. token \in [Nodes -> Probes \cup {None, Gone}] /\ live \in [Nodes -> BOOLEAN]
  BY DEF TypeOK
<1>3. token'[m] = token[m]
  BY <1>1, <1>2, OthersKeep
<1>4. live'[m] = live[m]
  BY <1>1, <1>2, OthersKeep, Zenon
<1> QED
  BY <1>3, <1>4

LEMMA EndOfOther ==
  ASSUME TypeOK, NEW p \in Probes, NEW r, NEW m \in Nodes, target[p] # m,
         finalize_probe(p, r)
  PROVE  token'[m] = token[m] /\ live'[m] = live[m]
<1>1. /\ token' = [token EXCEPT ![target[p]] = None]
      /\ live' = [live EXCEPT ![target[p]] = FALSE]
  BY DEF finalize_probe
<1>2. token \in [Nodes -> Probes \cup {None, Gone}] /\ live \in [Nodes -> BOOLEAN]
  BY DEF TypeOK
<1>3. token'[m] = token[m]
  BY <1>1, <1>2, OthersKeep
<1>4. live'[m] = live[m]
  BY <1>1, <1>2, OthersKeep, Zenon
<1> QED
  BY <1>3, <1>4

LEMMA StepIsLeased ==
  ASSUME LeaseInv, [Next]_vars, NEW m \in Nodes
  PROVE  LeasedStep(m)
<1>1. TypeOK /\ TokenIsAtWork
  BY DEF LeaseInv, Inv
<1>2. CASE token'[m] = token[m] /\ live'[m] = live[m] /\ AtWork(m)' = AtWork(m)
  BY <1>2 DEF AtWork, LeasedStep, ProbeLease!vars
<1>3. CASE QuietSteps
  <2>1. AtWork(m)' = AtWork(m)
    BY <1>1, <1>3, QuietStep DEF AtWork
  <2> QED
    BY <1>1, <1>2, <1>3, <2>1, QuietStep DEF leaseVars
<1>4. ASSUME NEW p \in Probes, NEW n \in Nodes, claim_due_probe_targets(p, n)
      PROVE  LeasedStep(m)
  <2>1. CASE n = m
    <3>1. /\ token[m] = None \/ ~live[m]
          /\ token'[m] = p /\ live'[m] = TRUE
      BY <1>1, <1>4, <2>1 DEF TypeOK, claim_due_probe_targets, Unleased
    <3>2. p \notin AtWork(m) /\ AtWork(m)' = AtWork(m) \cup {p}
      BY <1>1, <1>4, <2>1 DEF TypeOK, claim_due_probe_targets, AtWork
    <3> QED
      BY <3>1, <3>2 DEF AtWork, LeasedStep, ProbeLease!Next, ProbeLease!Acquire
  <2>2. CASE n # m
    <3>1. AtWork(m)' = AtWork(m)
      BY <1>1, <1>4, <2>2 DEF TypeOK, claim_due_probe_targets, AtWork
    <3>2. token'[m] = token[m] /\ live'[m] = live[m]
      BY <1>1, <1>4, <2>2, ClaimOfOther
    <3> QED
      BY <1>2, <3>1, <3>2
  <2> QED
    BY <2>1, <2>2
<1>5. ASSUME NEW p \in Probes, NEW r \in Reports, finalize_probe(p, r)
      PROVE  LeasedStep(m)
  <2>1. AtWork(m)' = AtWork(m) \ {p} /\ token[target[p]] = p /\ stage[p] = "claimed"
    BY <1>1, <1>5, ProbeEnds DEF finalize_probe, OwnsProbe
  <2>2. CASE target[p] = m
    <3>1. p \in AtWork(m) /\ token'[m] = None
      BY <1>1, <1>5, <2>1, <2>2 DEF TypeOK, finalize_probe, AtWork
    <3> QED
      BY <2>1, <2>2, <3>1 DEF AtWork, LeasedStep, ProbeLease!Next, ProbeLease!Release
  <2>3. CASE target[p] # m
    <3>1. p \notin AtWork(m)
      BY <2>3 DEF AtWork
    <3>2. token'[m] = token[m] /\ live'[m] = live[m]
      BY <1>1, <1>5, <2>3, EndOfOther
    <3> QED
      BY <1>2, <2>1, <3>1, <3>2
  <2> QED
    BY <2>2, <2>3
<1>6. ASSUME NEW p \in Probes, ProbeIsDropped(p) \/ ProbeStops(p)
      PROVE  LeasedStep(m)
  <2>1. AtWork(m)' = AtWork(m) \ {p}
    BY <1>1, <1>6, ProbeEnds DEF ProbeIsDropped, ProbeStops
  <2>2. /\ live'[m] = live[m]
        /\ token'[m] = token[m] \/ (token[m] = p /\ token'[m] = Gone)
    BY <1>6 DEF ProbeIsDropped, ProbeStops, leaseVars
  <2>3. CASE p \in AtWork(m)
    BY <2>1, <2>2, <2>3 DEF AtWork, LeasedStep, ProbeLease!Next, ProbeLease!Leave
  <2>4. CASE p \notin AtWork(m)
    <3>1. token[m] # p
      BY <1>1, <2>4 DEF TokenIsAtWork, AtWork
    <3> QED
      BY <1>2, <2>1, <2>2, <2>4, <3>1
  <2> QED
    BY <2>3, <2>4
<1>7. ASSUME NEW n \in Nodes, LeaseRunsOut(n) PROVE LeasedStep(m)
  <2>1. token' = token /\ AtWork(m)' = AtWork(m)
    BY <1>7 DEF LeaseRunsOut, probeVars, AtWork
  <2>2. live'[m] = FALSE \/ live'[m] = live[m]
    BY <1>1, <1>7 DEF LeaseRunsOut, TypeOK
  <2>3. CASE live'[m] = FALSE
    BY <2>1, <2>3 DEF AtWork, LeasedStep, ProbeLease!Next, ProbeLease!Expire
  <2> QED
    BY <1>2, <2>1, <2>2, <2>3
<1> QED
  BY <1>3, <1>4, <1>5, <1>6, <1>7 DEF Next, QuietSteps

\* For any number of probes and nodes, the claim of a node's probe is a lease:
\* no probe takes a node over while the lease of another one runs, and the
\* claim is ended by its own probe only (claim_due_probe_targets,
\* finalize_probe).
THEOREM ProbesAreLeased == Spec => ImplementsLease
<1>1. Init => LeaseInv /\ \A n \in Nodes : ProbeLease(n)!Init
  <2>1. Init => TokenIsAtWork
    BY DEF Init, TokenIsAtWork
  <2>2. Init => \A n \in Nodes : ProbeLease(n)!Init
    BY DEF Init, ProbeLease!Init
  <2> QED
    BY <2>1, <2>2, InitInv DEF LeaseInv
<1>2. LeaseInv /\ [Next]_vars => LeaseInv'
  BY NextInv, NextTokenIsAtWork DEF LeaseInv
<1>3. LeaseInv /\ [Next]_vars => [\A n \in Nodes : LeasedStep(n)]_vars
  BY StepIsLeased
<1> QED
  BY <1>1, <1>2, <1>3, PTL DEF Spec, ImplementsLease, LeasedStep

=============================================================================
