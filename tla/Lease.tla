------------------------------- MODULE Lease -------------------------------
(***************************************************************************)
(* What every lease of the program promises, whatever it protects: a token *)
(* in a row and the time until which it is good.  The holder of a token    *)
(* may be slow, dead or overtaken; it cannot be stopped, so it may only    *)
(* find out that the token is no longer in the row.                        *)
(*                                                                         *)
(* Implemented by the claims of invoice creation (InvoiceCreation), the    *)
(* rows of the agent's journal (NodeJournal), the probes of a node         *)
(* (NodeHealth), the reconciliation (Reconciliation), and the tasks of     *)
(* nodes and panels by way of LeasedTask.                                  *)
(***************************************************************************)

CONSTANTS
    Nobody,     \* there is no token in the row
    Lost        \* the token in the row is known to nobody any more

VARIABLES
    owner,      \* the token in the row
    live,       \* its expiry is ahead
    atWork      \* the tokens whose holders are alive, overtaken ones included

vars == <<owner, live, atWork>>

Init == owner = Nobody /\ atWork = {}

\* Only a free row, or one whose lease has run out, is taken, with a token
\* that nobody works with.
Acquire ==
    /\ owner = Nobody \/ ~live
    /\ owner' \notin atWork \cup {Nobody, Lost}
    /\ live' = TRUE
    /\ atWork' = atWork \cup {owner'}

\* Also after the expiry, as long as nobody else has taken the row.
Renew ==
    /\ owner \in atWork
    /\ live' = TRUE
    /\ UNCHANGED <<owner, atWork>>

Expire ==
    /\ live' = FALSE
    /\ UNCHANGED <<owner, atWork>>

\* The owner gives the row back with the end of its own work.
Release ==
    /\ owner \in atWork
    /\ owner' = Nobody
    /\ atWork' = atWork \ {owner}

\* A lease that has run out is cleared; its holder may still be at work.
Reclaim ==
    /\ ~live
    /\ owner' = Nobody
    /\ UNCHANGED <<live, atWork>>

\* A holder stops without giving the row back: it has died, or it was
\* overtaken and the row is another's.
Leave(t) ==
    /\ t \in atWork
    /\ atWork' = atWork \ {t}
    /\ owner' = owner \/ (owner = t /\ owner' = Lost)
    /\ UNCHANGED live

Next ==
    \/ Acquire \/ Renew \/ Expire \/ Release \/ Reclaim
    \/ \E t \in atWork : Leave(t)

Spec == Init /\ [][Next]_vars
=============================================================================
