------------------------------ MODULE Lifecycle ------------------------------
(***************************************************************************)
(* What the angls promise to the users of "angl list", "exec" and "stop":  *)
(* the states of daemon/process.go (lines 27-36) and when the one child    *)
(* may exist.  No locks, goroutines, contexts or channels.                 *)
(***************************************************************************)
CONSTANTS
    Angls,
    Launches  \* names for the children, one per start at least

VARIABLES
    shown,    \* the state Status shows of each angl
    children  \* the children the operating system runs for each

vars == <<shown, children>>

Resting == {"stopped", "disabled", "failed"}
Childless(a) == children[a] = {}
Show(a, s) == shown' = [shown EXCEPT ![a] = s] /\ UNCHANGED children

Init ==
    /\ shown \in [Angls -> Resting]
    /\ children = [a \in Angls |-> {}]

\* Start, or Exec at rest: nothing is left of an earlier run.
Request(a) == shown[a] \in Resting /\ Childless(a) /\ Show(a, "starting")

\* The only way to a child: none exists, and the angl is shown as starting.
Launch(a) ==
    /\ shown[a] = "starting" /\ Childless(a)
    /\ \E l \in Launches : children' = [children EXCEPT ![a] = {l}]
    /\ UNCHANGED shown

Confirm(a) == shown[a] = "starting" /\ Show(a, "running")

Exit(a) ==
    /\ ~Childless(a)
    /\ children' = [children EXCEPT ![a] = {}]
    /\ UNCHANGED shown

\* A failed launch or an exit: try again later, or give up.
GiveWay(a) ==
    /\ shown[a] \in {"starting", "running"} /\ Childless(a)
    /\ Show(a, "backoff") \/ Show(a, "failed")

Retry(a) == shown[a] = "backoff" /\ Show(a, "starting")

\* The end of a Stop: the child is gone before the state says so.
Settle(a) ==
    /\ shown[a] \in {"running", "backoff"} /\ Childless(a)
    /\ Show(a, "stopped") \/ Show(a, "disabled")

Next == \E a \in Angls :
    Request(a) \/ Launch(a) \/ Confirm(a) \/ Exit(a) \/ GiveWay(a) \/ Retry(a)
        \/ Settle(a)

Spec == Init /\ [][Next]_vars
=============================================================================
