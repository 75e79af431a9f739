----------------------------- MODULE TaskBoard -----------------------------
(***************************************************************************)
(* What the Go server may rely on of the research executor, whatever runs  *)
(* inside it: a task is accepted at most once, it ends at most once, and   *)
(* its ending is never replaced.  Executor implements this specification;  *)
(* ResearchRun's variable exec is a board of this kind.                     *)
(***************************************************************************)
CONSTANT Tasks

VARIABLE status

Ended  == {"ok", "failed", "canceled"}
Status == {"absent", "active"} \cup Ended

\* What one task may do in a step.  A restart ends many tasks at once.
Advances(old, new) ==
    \/ new = old
    \/ old = "absent" /\ new = "active"
    \/ old = "active" /\ new \in Ended

Init == status = [t \in Tasks |-> "absent"]

Next == /\ status' \in [Tasks -> Status]
        /\ \A t \in Tasks : Advances(status[t], status'[t])

Spec == Init /\ [][Next]_status

=============================================================================
