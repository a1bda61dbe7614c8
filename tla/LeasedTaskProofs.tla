------------------------- MODULE LeasedTaskProofs -------------------------
(***************************************************************************)
(* A task under a lease keeps to Lease.  VpnNode and PanelTask implement   *)
(* LeasedTask (VpnNodeProofs, PanelTaskProofs), so their tasks do as well. *)
(***************************************************************************)
EXTENDS LeasedTask, TLAPS

\* The running claim has a worker of its own.
WorkersInv ==
    /\ DOMAIN worker = Claims
    /\ claim \in Nat
    /\ task = "held" => claim \in Claims

\* A task under a lease is a lease: only an open task or one whose lease has
\* run out is taken, and nobody but the owner ends a running claim.
THEOREM TaskIsLease == Spec => AsLease!Spec
<1> DEFINE Owner == IF task = "held" THEN claim ELSE 0
           AtWork == {c \in Claims : worker[c] # "idle"}
<1>1. Init => WorkersInv /\ AsLease!Init
  BY DEF Init, WorkersInv, AsLease!Init
<1>2. WorkersInv /\ [Next]_vars => WorkersInv'
  BY DEF WorkersInv, Next, vars, Take, Spend, Work, Expire, Succeed, GiveUp, Recover, Set
<1>3. WorkersInv /\ [Next]_vars => [AsLease!Next]_(AsLease!vars)
  <2> SUFFICES ASSUME WorkersInv, [Next]_vars
               PROVE  AsLease!Next \/ UNCHANGED AsLease!vars
    OBVIOUS
  <2>1. ASSUME NEW c \in Claims, Work(c) PROVE AsLease!Next \/ UNCHANGED AsLease!vars
    <3>1. /\ Owner' = Owner /\ lease' = lease
          /\ AtWork' = IF worker'[c] = "idle" THEN AtWork \ {c} ELSE AtWork
          /\ c \in AtWork
      BY <2>1 DEF Work, Set, WorkersInv
    <3> QED BY <3>1 DEF AsLease!Next, AsLease!Leave, AsLease!vars
  <2>2. CASE Take
    <3>1. /\ Owner = 0 /\ Owner' = claim + 1 /\ lease'
          /\ claim + 1 \notin AtWork /\ AtWork' = AtWork \cup {claim + 1}
          /\ claim + 1 \notin {0, -1}
      BY <2>2 DEF Take, Set, WorkersInv
    <3> QED BY <3>1 DEF AsLease!Next, AsLease!Acquire
  <2>3. CASE Spend
    BY <2>3 DEF Spend, AsLease!vars
  <2>4. CASE Expire
    BY <2>4 DEF Expire, AsLease!Next, AsLease!Expire
  <2>5. CASE Succeed \/ GiveUp
    <3>1. /\ Owner = claim /\ Owner' = 0
          /\ claim \in AtWork /\ AtWork' = AtWork \ {claim}
      BY <2>5 DEF Succeed, GiveUp, Set, WorkersInv
    <3> QED BY <3>1, <2>5 DEF AsLease!Next, AsLease!Release
  <2>6. CASE Recover
    BY <2>6 DEF Recover, AsLease!Next, AsLease!Reclaim
  <2>7. CASE UNCHANGED vars
    BY <2>7 DEF vars, AsLease!vars
  <2> QED BY <2>1, <2>2, <2>3, <2>4, <2>5, <2>6, <2>7 DEF Next
<1> QED BY <1>1, <1>2, <1>3, PTL DEF Spec, AsLease!Spec
=============================================================================
