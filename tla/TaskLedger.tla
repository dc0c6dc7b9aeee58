----------------------------- MODULE TaskLedger -----------------------------
(***************************************************************************)
(* What the PC runner promises about the dispatches it is sent, with no    *)
(* connection, thread or file in sight: a dispatch is executed under       *)
(* mutual exclusion, its answer is kept until the server has confirmed it, *)
(* and while the process lives it is never executed again.  A confirmed    *)
(* answer is retired after its retention period.  Only a restart may       *)
(* forget, or bring back a retired answer that the history file still has. *)
(*                                                                         *)
(* TaskDelivery implements this specification (see RefinesLedger there).   *)
(***************************************************************************)
EXTENDS Naturals

CONSTANT Dispatches     \* taskId:dispatchId keys

VARIABLES
    ledger,         \* what the process knows of each dispatch
    starts          \* how often the process was started again

Standings == {"fresh", "running", "answered", "confirmed", "retired"}

LedgerTypeOK == ledger \in [Dispatches -> Standings]

Init == ledger = [d \in Dispatches |-> "fresh"] /\ starts = 0

\* Confirmed answers past their retention period go whenever the history is
\* written.
Tidy(l, R) == [d \in Dispatches |-> IF d \in R /\ l[d] = "confirmed" THEN "retired" ELSE l[d]]

Begin(d) ==
    /\ ledger[d] = "fresh"
    /\ \A e \in Dispatches : ledger[e] # "running"
    /\ ledger' = [ledger EXCEPT ![d] = "running"] /\ UNCHANGED starts

Answer(d) ==
    /\ ledger[d] = "running"
    /\ \E R \in SUBSET Dispatches : ledger' = Tidy([ledger EXCEPT ![d] = "answered"], R)
    /\ UNCHANGED starts

Confirm(d) ==
    /\ ledger[d] \in {"answered", "confirmed"}
    /\ \E R \in SUBSET Dispatches : ledger' = Tidy([ledger EXCEPT ![d] = "confirmed"], R)
    /\ UNCHANGED starts

\* What is left of a standing when the process restarts from its history file.
Survives(s) ==
    CASE s = "confirmed" -> {"confirmed", "answered", "fresh", "retired"}
      [] s = "answered"  -> {"answered", "fresh", "retired"}
      [] s = "retired"   -> {"retired", "answered"}
      [] OTHER           -> {"fresh"}

Restart ==
    /\ starts' = starts + 1
    /\ ledger' \in [Dispatches -> Standings]
    /\ \A d \in Dispatches : ledger'[d] \in Survives(ledger[d])

Next == (\E d \in Dispatches : Begin(d) \/ Answer(d) \/ Confirm(d)) \/ Restart

Spec == Init /\ [][Next]_<<ledger, starts>>
=============================================================================
