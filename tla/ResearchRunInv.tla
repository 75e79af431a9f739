--------------------------- MODULE ResearchRunInv ---------------------------
(***************************************************************************)
(* The inductive invariant behind the safety properties of ResearchRun: what *)
(* the processes may rely on of the values they read some statements ago.   *)
(***************************************************************************)
EXTENDS ResearchRun

Closed(r) == row[r].status \in Terminal \cup {"canceling"}
Stopped(r, k) == exec[r][k] \notin {"absent", "active"}

\* A process at work has a run; a goroutine of a role lives within its orchestrator.
Local ==
    /\ \A o \in Orchs : orch[o].pc # "idle" => orch[o].run \in Runs
    /\ \A o \in Orchs : orch[o].beating => orch[o].pc # "idle"
    /\ \A o \in Orchs, k \in Roles : role[o][k] # "off" => orch[o].pc # "idle"
    /\ \A p \in Procs : fin[p].pc # "idle" => fin[p].run \in Runs
    /\ \A q \in Requests : req[q].pc # "idle" => req[q].run \in Runs
    /\ worker.pc \in {"timeoutRevoke", "reapRevoke"} => worker.cur \in Runs

\* Nothing touches a row before it is inserted.
Fresh == \A r \in Runs : row[r].status = "absent" => row[r].version = 0

\* A remembered version is never ahead of the row, and while it is the row's the
\* status is the one the process left or read there.
FencesOf(o) ==
    LET r == orch[o].run IN
    /\ orch[o].pc \in {"research", "roles", "verify"} => orch[o].fence <= row[r].version
    /\ orch[o].pc \in {"research", "roles"} /\ row[r].version = orch[o].fence =>
            row[r].status = "researching"
    /\ orch[o].pc = "verify" /\ row[r].version = orch[o].fence => row[r].status = "verifying"

ReapFences ==
    worker.pc \in {"reap", "reapRevoke"} => \A e \in worker.todo :
        /\ e[2] <= row[e[1]].version
        /\ row[e[1]].version = e[2] => row[e[1]].status \in {"researching", "verifying"}

Fenced == ReapFences /\ \A o \in Orchs : FencesOf(o)

\* Whoever is about to revoke, to cancel tasks or to mark a row deleted works on a run
\* that is closed, and canceled tasks belong to closed runs.
FinCloses(p) ==
    /\ fin[p].pc # "idle" => Closed(fin[p].run)
    /\ fin[p].pc \in {"mark", "tasks"} => row[fin[p].run].status = "canceled"

ReqCloses(q) ==
    /\ req[q].pc \in {"revoke", "cancelTasks", "finalizing"} => Closed(req[q].run)
    /\ req[q].pc = "mark" => row[req[q].run].status = "canceled"

WorkerCloses ==
    /\ worker.pc = "converge" => \A e \in worker.todo : Closed(e[1])
    /\ worker.pc = "reapRevoke" => Closed(worker.cur)

OrchCloses(o) == orch[o].pc = "revoke" => Closed(orch[o].run)

TasksClosed == \A r \in Runs, k \in Roles : task[r][k] = "canceled" => Closed(r)

Closing == /\ \A p \in Procs : FinCloses(p)
           /\ \A q \in Requests : ReqCloses(q)
           /\ \A o \in Orchs : OrchCloses(o)
           /\ WorkerCloses /\ TasksClosed

\* The acknowledgements collected by finalizeCancel stay true until its update.
AcksOf(p) ==
    LET r == fin[p].run IN
    /\ fin[p].pc = "cancel" /\ fin[p].acked => \A k \in Roles \ fin[p].left : Stopped(r, k)
    /\ fin[p].pc = "update" /\ row[r].status = "canceling" =>
            row[r].lease # "live" \/ \A k \in Roles : Stopped(r, k)

Acked == \A p \in Procs : AcksOf(p)

Typed == TypeOK /\ Local

IInv == /\ Typed /\ Fresh /\ Fenced /\ Closing /\ Acked
        /\ ReportMatchesRun /\ DeletedIsClosed /\ FenceExclusive

=============================================================================
