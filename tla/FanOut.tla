------------------------------- MODULE FanOut -------------------------------
(***************************************************************************)
(* What reconcile of the Driver controller relies on when it runs its      *)
(* reconcilers with utils.RunConcurrently: each of them reports exactly    *)
(* once, in any order, and when all have, the iteration ends with an error *)
(* iff one of them reported one.  Driver.tla runs its tasks this way.      *)
(***************************************************************************)
CONSTANT Fns

VARIABLES
    pending,   \* the functions that have not reported
    failed,    \* the functions that reported an error
    outcome    \* of the iteration: "none" yet, "nil" or "error"

vars == <<pending, failed, outcome>>

Init == pending = Fns /\ failed = {} /\ outcome = "none"

Report(f) ==
    /\ f \in pending
    /\ pending' = pending \ {f}
    /\ failed' \in {failed, failed \cup {f}}
    /\ UNCHANGED outcome

Join ==
    /\ pending = {} /\ outcome = "none"
    /\ outcome' = IF failed = {} THEN "nil" ELSE "error"
    /\ UNCHANGED <<pending, failed>>

Next == Join \/ \E f \in Fns : Report(f)

\* The iteration ends.
Ends == <>(outcome # "none")

Spec == Init /\ [][Next]_vars /\ Ends
=============================================================================
