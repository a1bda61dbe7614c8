---------------------------- MODULE LeasedTask ----------------------------
(***************************************************************************)
(* A task that is carried out under a lease, as the dispatchers of nodes   *)
(* and panels promise it: claims are numbered, each has one worker, and    *)
(* success is recorded once, by the worker of the running claim, for its   *)
(* own work and while its lease runs.  VpnNode and PanelTask implement it  *)
(* for each of their tasks; it implements Lease.                           *)
(***************************************************************************)
EXTENDS Integers

CONSTANT Claims     \* the numbers of the claims

VARIABLES
    task,       \* "open" to claims, "held" by one, or at its end
    claim,      \* the number of the last claim
    lease,      \* the lease of the running claim is ahead
    worker      \* how far the worker of a claim is

vars == <<task, claim, lease, worker>>

Init ==
    /\ task = "open"
    /\ claim = 0
    /\ lease = FALSE
    /\ worker = [c \in Claims |-> "idle"]

Set(c, w) == worker' = [worker EXCEPT ![c] = w]

\* The number is new: no earlier worker can be taken for the new one.
Take ==
    /\ task = "open"
    /\ claim + 1 \in Claims
    /\ \A c \in Claims : c > claim => worker[c] = "idle"
    /\ task' = "held"
    /\ claim' = claim + 1
    /\ lease' = TRUE
    /\ Set(claim + 1, "busy")

\* A claim is spent without work.
Spend ==
    /\ task = "open"
    /\ claim' = claim + 1
    /\ task' \in {"open", "failed"}
    /\ UNCHANGED <<lease, worker>>

\* Any worker goes on, also one that has lost its task: nobody stops it.
\* Success may still have to be undone, but failure does not turn into success.
Work(c) ==
    /\ UNCHANGED <<task, claim, lease>>
    /\ worker[c] # "idle"
    /\ worker'[c] \in {"idle", "busy", "succeeded", "failed"}
    /\ worker[c] = "failed" => worker'[c] = "idle"
    /\ Set(c, worker'[c])

Expire ==
    /\ lease
    /\ lease' = FALSE
    /\ UNCHANGED <<task, claim, worker>>

Succeed ==
    /\ task = "held" /\ lease
    /\ worker[claim] = "succeeded"
    /\ task' = "succeeded"
    /\ lease' = FALSE
    /\ Set(claim, "idle")
    /\ UNCHANGED claim

GiveUp ==
    /\ task = "held"
    /\ worker[claim] = "failed"
    /\ task' \in {"open", "failed"}
    /\ lease' = FALSE
    /\ Set(claim, "idle")
    /\ UNCHANGED claim

\* Only a lease that has run out lets others end a claim.
Recover ==
    /\ task = "held" /\ ~lease
    /\ task' \in {"open", "failed"}
    /\ UNCHANGED <<claim, lease, worker>>

Next ==
    \/ \E c \in Claims : Work(c)
    \/ Take \/ Spend \/ Expire \/ Succeed \/ GiveUp \/ Recover

Spec == Init /\ [][Next]_vars

\* A task as a lease: the running claim is its owner.
AsLease == INSTANCE Lease WITH
    Nobody <- 0,
    Lost   <- -1,
    owner  <- IF task = "held" THEN claim ELSE 0,
    live   <- lease,
    atWork <- {c \in Claims : worker[c] # "idle"}
=============================================================================
