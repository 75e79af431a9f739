---------------------------- MODULE ResearchRun ----------------------------
(***************************************************************************)
(* The life of a research run in app/server/service/finance: one row of    *)
(* finance_research_runs, written by four kinds of process that share      *)
(* nothing but the database and the executor.                              *)
(*                                                                         *)
(*   - user requests: CancelResearch and DeleteResearch;                   *)
(*   - the worker: one Tick every two seconds (queue timeouts, reaping of  *)
(*     lost leases, convergence of cancellations, retention, claiming);    *)
(*   - one Orchestrator per claim (freeze, research, synthesize, verify),  *)
(*     with a heartbeat and one goroutine per role;                        *)
(*   - the Python executor, which runs the role tasks.                     *)
(*                                                                         *)
(* One action is one SQL statement, one transaction or one HTTP call.  A   *)
(* value read by a statement and used by a later one is kept in the        *)
(* process that read it: this is where the races are.                      *)
(*                                                                         *)
(* Clocks are abstracted to what the code asks of them: lease_until is     *)
(* "none" (NULL), "live" or "expired"; deadline_at and the queue timeout   *)
(* are Booleans that say whether the instant has passed.                   *)
(***************************************************************************)
EXTENDS Naturals, FiniteSets

CONSTANTS
    Runs,           \* research runs that may be created
    Owners,         \* users
    OwnerOf,        \* the user that creates each run
    Roles,          \* RoleSupporter, RoleChallenger
    Orchs,          \* orchestrator goroutines alive at once (a bound)
    Requests,       \* cancel and delete requests, each served once (a bound)
    Worker,         \* the process of StartWorker
    NoRun,          \* "no run" in the local state of a process
    GlobalActiveMax,\* activity limit over all users
    MaxCrashes,     \* crashes of the Go server (a bound)
    Lossy,          \* whether calls to the executor may fail or lose the answer
    MonthPasses     \* whether the window modelled is long enough for retention

ASSUME OwnerOfAssumption == OwnerOf \in [Runs -> Owners]
ASSUME NamesAssumption   == NoRun \notin Runs /\ Worker \notin Requests
ASSUME LimitsAssumption  == GlobalActiveMax \in Nat /\ MaxCrashes \in Nat
ASSUME WindowAssumption  == Lossy \in BOOLEAN /\ MonthPasses \in BOOLEAN

VARIABLES
    row,        \* finance_research_runs, with status "absent" before the insert
    report,     \* quality_status of the published finance_reports row, or "none"
    task,       \* finance_research_tasks: status of each role's row
    token,      \* finance_internal_tokens and tool grants of the run, aggregated
    exec,       \* status of each role's task in the executor's own database
    orch,       \* local state of the orchestrator goroutines
    role,       \* local state of their role goroutines
    worker,     \* local state of Tick
    fin,        \* local state of finalizeCancel, in each process that may call it
    req,        \* local state of the user requests
    crashes

database == <<row, report, task, token>>
vars == <<row, report, task, token, exec, orch, role, worker, fin, req, crashes>>

----------------------------------------------------------------------------
(* Rows and local states *)

Active   == {"queued", "researching", "verifying", "canceling"}
Terminal == {"completed", "incomplete", "failed", "canceled"}
Stages   == {"queued", "researching", "verifying", "canceling", "deleting",
             "canceled", "done", "lease_lost", "queue_timeout"}

RunRow == [status : {"absent"} \cup Active \cup Terminal, stage : Stages,
           version : Nat, lease : {"none", "live", "expired"},
           waited : BOOLEAN, overdue : BOOLEAN, deleted : BOOLEAN]

AbsentRow == [status |-> "absent", stage |-> "queued", version |-> 0, lease |-> "none",
              waited |-> FALSE, overdue |-> FALSE, deleted |-> FALSE]

TaskStatus == {"absent", "queued", "ok", "failed", "canceled"}
ExecStatus == {"absent", "active", "ok", "failed", "canceled"}

Procs == Requests \cup {Worker}

IdleOrch == [pc |-> "idle", run |-> NoRun, fence |-> 0, beating |-> FALSE]
IdleFin  == [pc |-> "idle", run |-> NoRun, left |-> {}, acked |-> FALSE, deleting |-> FALSE]
IdleReq  == [pc |-> "idle", run |-> NoRun, kind |-> "none", left |-> {}, active |-> FALSE]
IdleWorker == [pc |-> "idle", todo |-> {}, cur |-> NoRun]
IdleRoles  == [p \in Roles |-> "off"]

OrchPC   == {"idle", "load", "freeze", "research", "roles", "verify", "revoke"}
RolePC   == {"off", "renew", "token", "submit", "wait", "writeOk", "writeBad", "ok", "bad"}
WorkerPC == {"idle", "timeout", "timeoutRevoke", "reap", "reapRevoke", "converge", "claim"}
FinPC    == {"idle", "cancel", "update", "mark", "tasks"}
ReqPC    == {"idle", "revoke", "cancelTasks", "finalizing", "mark", "done"}
MaybeRun == Runs \cup {NoRun}

OrchState   == [pc : OrchPC, run : MaybeRun, fence : Nat, beating : BOOLEAN]
WorkerState == [pc : WorkerPC, todo : SUBSET (Runs \X Nat), cur : MaybeRun]
FinState    == [pc : FinPC, run : MaybeRun, left : SUBSET Roles, acked : BOOLEAN,
                deleting : BOOLEAN]
ReqState    == [pc : ReqPC, run : MaybeRun, kind : {"none", "cancel", "delete"},
                left : SUBSET Roles, active : BOOLEAN]

TypeOK ==
    /\ row    \in [Runs -> RunRow]
    /\ report \in [Runs -> {"none", "completed", "incomplete"}]
    /\ task   \in [Runs -> [Roles -> TaskStatus]]
    /\ token  \in [Runs -> {"none", "live", "revoked"}]
    /\ exec   \in [Runs -> [Roles -> ExecStatus]]
    /\ orch   \in [Orchs -> OrchState]
    /\ role   \in [Orchs -> [Roles -> RolePC]]
    /\ worker \in WorkerState
    /\ fin    \in [Procs -> FinState]
    /\ req    \in [Requests -> ReqState]
    /\ crashes \in Nat

Init ==
    /\ row    = [r \in Runs |-> AbsentRow]
    /\ report = [r \in Runs |-> "none"]
    /\ task   = [r \in Runs |-> [p \in Roles |-> "absent"]]
    /\ token  = [r \in Runs |-> "none"]
    /\ exec   = [r \in Runs |-> [p \in Roles |-> "absent"]]
    /\ orch   = [o \in Orchs |-> IdleOrch]
    /\ role   = [o \in Orchs |-> IdleRoles]
    /\ worker = IdleWorker
    /\ fin    = [p \in Procs |-> IdleFin]
    /\ req    = [q \in Requests |-> IdleReq]
    /\ crashes = 0

----------------------------------------------------------------------------
(* Predicates and statements shared by the processes *)

\* runIsCanceled
IsCanceled(r) == row[r].deleted \/ row[r].status \in {"canceling", "canceled"}

CanCASUnfenced(r, version, allowed) == ~row[r].deleted

\* The WHERE clause of casUpdateRun.
CanCAS(r, version, allowed) ==
    row[r].version = version /\ ~row[r].deleted /\ row[r].status \in allowed

\* The row that closes a run: a terminal status, the next version, no lease.
ClosedAs(r, version, status, stage) ==
    [row[r] EXCEPT !.status = status, !.stage = stage, !.version = version + 1, !.lease = "none"]

\* The row whose cancellation starts: the lease stays, its holder must see the status.
CancelingAs(r, stage) ==
    [row[r] EXCEPT !.status = "canceling", !.stage = stage, !.version = @ + 1]

\* The row of a closed run that its owner deletes.
DeletedRow(r) == [row[r] EXCEPT !.deleted = TRUE, !.version = @ + 1, !.lease = "none"]

\* revokeTokens
RevokeTokens(r) == token' = [token EXCEPT ![r] = IF @ = "live" THEN "revoked" ELSE @]

\* The WHERE clause of renewLease; the update sets lease_until alone.
CanRenew(r) == row[r].lease # "none" /\ row[r].status \in {"researching", "verifying"}
RenewedRow(r) == [row[r] EXCEPT !.lease = "live"]

ActiveRuns == {r \in Runs : row[r].status \in Active}

----------------------------------------------------------------------------
(* CreateResearch: its insert, one step guarded by the unique index and the *)
(* scheduler lock.  Drafts and idempotency keys are left out.               *)

CreateResearch(r) ==
    /\ row[r].status = "absent"
    /\ \A s \in ActiveRuns : OwnerOf[s] # OwnerOf[r]
    /\ Cardinality({s \in ActiveRuns : ~row[s].deleted}) < GlobalActiveMax
    /\ row'  = [row EXCEPT ![r] = [AbsentRow EXCEPT !.status = "queued", !.version = 1]]
    /\ task' = [task EXCEPT ![r] = [p \in Roles |-> "queued"]]
    /\ UNCHANGED <<report, token, exec, orch, role, worker, fin, req, crashes>>

----------------------------------------------------------------------------
(* Time *)

QueueTimeoutPasses(r) ==
    /\ row[r].status = "queued" /\ ~row[r].waited
    /\ row' = [row EXCEPT ![r].waited = TRUE]
    /\ UNCHANGED <<report, task, token, exec, orch, role, worker, fin, req, crashes>>

DeadlinePasses(r) ==
    /\ row[r].status \in {"researching", "verifying"} /\ ~row[r].overdue
    /\ row' = [row EXCEPT ![r].overdue = TRUE]
    /\ UNCHANGED <<report, task, token, exec, orch, role, worker, fin, req, crashes>>

LeaseExpires(r) ==
    /\ row[r].lease = "live"
    /\ row' = [row EXCEPT ![r].lease = "expired"]
    /\ UNCHANGED <<report, task, token, exec, orch, role, worker, fin, req, crashes>>

----------------------------------------------------------------------------
(* finalizeCancel, run by process p: the cancel call of each task, then     *)
(* revokeTokens and the load of the row, then the update, then the          *)
(* statements that follow it.  "deleting" is the stage read by the load.    *)

StartFinalize(p, r) ==
    fin' = [fin EXCEPT ![p] = [pc |-> "cancel", run |-> r, left |-> Roles,
                               acked |-> TRUE, deleting |-> FALSE]]

CanceledOver(r, p) == [exec EXCEPT ![r][p] = IF @ = "absent" THEN @ ELSE "canceled"]

\* HTTPResearchClient.Cancel: a task the executor does not know is a 404, which
\* this client reports as PYTHON_ERROR; only a terminal snapshot acknowledges.
CanceledIn(r, p) == [exec EXCEPT ![r][p] = IF @ = "active" THEN "canceled" ELSE @]

AcknowledgedByAbsence(r, k) == TRUE

Acknowledged(r, k) == exec[r][k] # "absent"

FinCancelTask(p, k) ==
    /\ fin[p].pc = "cancel" /\ k \in fin[p].left
    /\ \/ /\ exec' = CanceledIn(fin[p].run, k)
          /\ fin' = [fin EXCEPT ![p].left = @ \ {k},
                                ![p].acked = @ /\ Acknowledged(fin[p].run, k)]
       \/ /\ Lossy
          /\ exec' \in {exec, CanceledIn(fin[p].run, k)}
          /\ fin' = [fin EXCEPT ![p].left = @ \ {k}, ![p].acked = FALSE]
    /\ UNCHANGED <<database, orch, role, worker, req, crashes>>

MayFinalizeAckOnly(p, r) == fin[p].acked

\* CANCEL_IN_PROGRESS unless every task is acknowledged or the lease is over.
MayFinalize(p, r) == fin[p].acked \/ row[r].lease # "live"

FinLoad(p) ==
    LET r == fin[p].run IN
    /\ fin[p].pc = "cancel" /\ fin[p].left = {}
    /\ RevokeTokens(r)
    /\ fin' = IF MayFinalize(p, r)
              THEN [fin EXCEPT ![p].pc = "update", ![p].deleting = row[r].stage = "deleting"]
              ELSE [fin EXCEPT ![p] = IdleFin]
    /\ UNCHANGED <<row, report, task, exec, orch, role, worker, req, crashes>>

FinUpdate(p) ==
    LET r == fin[p].run IN
    /\ fin[p].pc = "update"
    /\ IF row[r].status = "canceling"
       THEN /\ row' = [row EXCEPT ![r] = ClosedAs(r, row[r].version, "canceled", "canceled")]
            /\ fin' = [fin EXCEPT ![p].pc = IF fin[p].deleting THEN "mark" ELSE "tasks"]
       ELSE /\ fin' = [fin EXCEPT ![p] = IdleFin]
            /\ UNCHANGED row
    /\ UNCHANGED <<report, task, token, exec, orch, role, worker, req, crashes>>

FinMarkDeleted(p) ==
    /\ fin[p].pc = "mark"
    /\ row' = [row EXCEPT ![fin[p].run].deleted = TRUE]
    /\ fin' = [fin EXCEPT ![p].pc = "tasks"]
    /\ UNCHANGED <<report, task, token, exec, orch, role, worker, req, crashes>>

FinTasks(p) ==
    /\ fin[p].pc = "tasks"
    /\ task' = [task EXCEPT ![fin[p].run] = [k \in Roles |-> "canceled"]]
    /\ fin' = [fin EXCEPT ![p] = IdleFin]
    /\ UNCHANGED <<row, report, token, exec, orch, role, worker, req, crashes>>

FinNext(p) == \/ \E k \in Roles : FinCancelTask(p, k)
              \/ FinLoad(p) \/ FinUpdate(p) \/ FinMarkDeleted(p) \/ FinTasks(p)

----------------------------------------------------------------------------
(* User requests *)

\* The transaction of CancelResearch.  A closed or canceling run is left alone,
\* and a run no worker has leased is canceled on the spot.
CancelResearch(q, r) ==
    LET open       == row[r].status \in {"queued", "researching", "verifying"}
        dispatched == row[r].status \in {"researching", "verifying"} \/ row[r].lease # "none"
    IN
    /\ req[q].pc = "idle"
    /\ row[r].status # "absent" /\ ~row[r].deleted
    /\ row' = CASE open /\ dispatched ->
                     [row EXCEPT ![r] = CancelingAs(r, "canceling")]
                [] open /\ ~dispatched ->
                     [row EXCEPT ![r] = ClosedAs(r, row[r].version, "canceled", "canceled")]
                [] OTHER -> row
    /\ task' = IF open THEN [task EXCEPT ![r] = [k \in Roles |-> "canceled"]] ELSE task
    /\ req' = [req EXCEPT ![q] = [pc |-> "revoke", run |-> r, kind |-> "cancel", left |-> Roles,
                                  active |-> open /\ dispatched]]
    /\ UNCHANGED <<report, token, exec, orch, role, worker, fin, crashes>>

WasActiveNotCanceling(r) == row[r].status \in Active \ {"canceling"}

\* wasActive of DeleteResearch
WasActive(r) == row[r].status \in Active

\* The transaction of DeleteResearch: an active run only starts to be canceled.
DeleteResearch(q, r) ==
    LET active == WasActive(r) IN
    /\ req[q].pc = "idle"
    /\ row[r].status # "absent"
    /\ row' = CASE row[r].deleted -> row
                [] ~row[r].deleted /\ active ->
                     [row EXCEPT ![r] = CancelingAs(r, "deleting")]
                [] OTHER ->
                     [row EXCEPT ![r] = DeletedRow(r)]
    /\ req' = [req EXCEPT ![q] = [pc |-> "revoke", run |-> r, kind |-> "delete", left |-> {},
                                  active |-> active /\ ~row[r].deleted]]
    /\ UNCHANGED <<report, task, token, exec, orch, role, worker, fin, crashes>>

ReqRevoke(q) ==
    /\ req[q].pc = "revoke"
    /\ RevokeTokens(req[q].run)
    /\ IF req[q].active
       THEN /\ StartFinalize(q, req[q].run)
            /\ req' = [req EXCEPT ![q].pc = "finalizing"]
       ELSE /\ req' = [req EXCEPT ![q].pc = "cancelTasks"]
            /\ UNCHANGED fin
    /\ UNCHANGED <<row, report, task, exec, orch, role, worker, crashes>>

\* CancelResearch tells the executor even when it did not wait for it.
ReqCancelTask(q, k) ==
    /\ req[q].pc = "cancelTasks" /\ k \in req[q].left
    /\ exec' \in {CanceledIn(req[q].run, k)} \cup (IF Lossy THEN {exec} ELSE {})
    /\ req' = [req EXCEPT ![q].left = @ \ {k}]
    /\ UNCHANGED <<database, orch, role, worker, fin, crashes>>

\* The rest of the handler: DeleteResearch reloads the row it was canceling.
ReqReload(q) ==
    LET r == req[q].run IN
    /\ \/ req[q].pc = "cancelTasks" /\ req[q].left = {}
       \/ req[q].pc = "finalizing" /\ fin[q].pc = "idle"
    /\ req' = [req EXCEPT ![q].pc =
                 IF /\ req[q].kind = "delete" /\ req[q].active
                    /\ row[r].status = "canceled" /\ ~row[r].deleted
                 THEN "mark" ELSE "done"]
    /\ UNCHANGED <<database, exec, orch, role, worker, fin, crashes>>

ReqMarkDeleted(q) ==
    /\ req[q].pc = "mark"
    /\ row' = [row EXCEPT ![req[q].run].deleted = TRUE]
    /\ req' = [req EXCEPT ![q].pc = "done"]
    /\ UNCHANGED <<report, task, token, exec, orch, role, worker, fin, crashes>>

ReqNext(q) == \/ ReqRevoke(q) \/ ReqReload(q) \/ ReqMarkDeleted(q)
              \/ \E k \in Roles : ReqCancelTask(q, k)

----------------------------------------------------------------------------
(* Tick.  Each phase reads its list once and then writes run by run.        *)

Queued(r)    == row[r].status = "queued" /\ ~row[r].deleted
Stamped(set) == {<<r, row[r].version>> : r \in set}
Phase(pc, set) == worker' = [pc |-> pc, todo |-> Stamped(set), cur |-> NoRun]

TickStart ==
    /\ worker.pc = "idle"
    /\ Phase("timeout", {r \in Runs : Queued(r) /\ row[r].waited})
    /\ UNCHANGED <<database, exec, orch, role, fin, req, crashes>>

\* failQueueTimeouts: the status is checked again, the tokens are revoked whatever it is.
FailQueueTimeout(e) ==
    LET r == e[1] IN
    /\ worker.pc = "timeout" /\ e \in worker.todo
    /\ row' = IF row[r].status = "queued"
              THEN [row EXCEPT ![r] = ClosedAs(r, row[r].version, "failed", "queue_timeout")] ELSE row
    /\ worker' = [pc |-> "timeoutRevoke", todo |-> worker.todo \ {e}, cur |-> r]
    /\ UNCHANGED <<report, task, token, exec, orch, role, fin, req, crashes>>

WorkerRevoke ==
    /\ worker.pc \in {"timeoutRevoke", "reapRevoke"}
    /\ RevokeTokens(worker.cur)
    /\ worker' = [worker EXCEPT !.cur = NoRun,
                    !.pc = IF @ = "timeoutRevoke" THEN "timeout" ELSE "reap"]
    /\ UNCHANGED <<row, report, task, exec, orch, role, fin, req, crashes>>

ReapableResearching(r) ==
    row[r].status = "researching" /\ row[r].lease = "expired" /\ ~row[r].deleted

Reapable(r) == /\ row[r].status \in {"researching", "verifying"}
               /\ row[r].lease = "expired" /\ ~row[r].deleted

ReapStart ==
    /\ worker.pc = "timeout" /\ worker.todo = {}
    /\ Phase("reap", {r \in Runs : Reapable(r)})
    /\ UNCHANGED <<database, exec, orch, role, fin, req, crashes>>

ReapUnfenced(e) ==
    LET r == e[1] IN
    /\ worker.pc = "reap" /\ e \in worker.todo
    /\ row' = [row EXCEPT ![r] = ClosedAs(r, row[r].version, "incomplete", "lease_lost")]
    /\ worker' = [pc |-> "reapRevoke", todo |-> worker.todo \ {e}, cur |-> r]
    /\ UNCHANGED <<report, task, token, exec, orch, role, fin, req, crashes>>

\* reapExpiredLeases: only the version is checked again, and a renewal leaves it alone.
ReapExpiredLease(e) ==
    LET r == e[1] IN
    /\ worker.pc = "reap" /\ e \in worker.todo
    /\ IF row[r].version = e[2]
       THEN /\ row' = [row EXCEPT ![r] = ClosedAs(r, e[2], "incomplete", "lease_lost")]
            /\ worker' = [pc |-> "reapRevoke", todo |-> worker.todo \ {e}, cur |-> r]
       ELSE /\ worker' = [worker EXCEPT !.todo = @ \ {e}]
            /\ UNCHANGED row
    /\ UNCHANGED <<report, task, token, exec, orch, role, fin, req, crashes>>

ConvergeStart ==
    /\ worker.pc = "reap" /\ worker.todo = {}
    /\ Phase("converge", {r \in Runs : row[r].status = "canceling"})
    /\ UNCHANGED <<database, exec, orch, role, fin, req, crashes>>

\* convergeCancels
ConvergeCancel(e) ==
    /\ worker.pc = "converge" /\ e \in worker.todo /\ fin[Worker].pc = "idle"
    /\ StartFinalize(Worker, e[1])
    /\ worker' = [worker EXCEPT !.todo = @ \ {e}]
    /\ UNCHANGED <<database, exec, orch, role, req, crashes>>

\* The last statement of PurgeRetention hides runs created a month ago, which the
\* phases above have closed long before; then Tick reads the runs it may claim.
\* GlobalActiveMax bounds that list too, and never less than all of it.
ClaimStart ==
    /\ worker.pc = "converge" /\ worker.todo = {} /\ fin[Worker].pc = "idle"
    /\ \E old \in SUBSET {r \in Runs : MonthPasses /\ row[r].status \in Terminal
                                                  /\ ~row[r].deleted} :
          row' = [r \in Runs |-> IF r \in old THEN [row[r] EXCEPT !.deleted = TRUE] ELSE row[r]]
    /\ Phase("claim", {r \in Runs : Queued(r) /\ row[r].lease # "live"})
    /\ UNCHANGED <<report, task, token, exec, orch, role, fin, req, crashes>>

\* The claim checks the status again, not the lease, and leaves the version alone.
Claim(e, o) ==
    LET r == e[1] IN
    /\ worker.pc = "claim" /\ e \in worker.todo
    /\ row[r].status = "queued" /\ orch[o].pc = "idle"
    /\ row' = [row EXCEPT ![r].lease = "live"]
    /\ orch' = [orch EXCEPT ![o] = [IdleOrch EXCEPT !.pc = "load", !.run = r]]
    /\ worker' = [worker EXCEPT !.todo = @ \ {e}]
    /\ UNCHANGED <<report, task, token, exec, role, fin, req, crashes>>

SkipClaim(e) ==
    /\ worker.pc = "claim" /\ e \in worker.todo /\ row[e[1]].status # "queued"
    /\ worker' = [worker EXCEPT !.todo = @ \ {e}]
    /\ UNCHANGED <<database, exec, orch, role, fin, req, crashes>>

TickEnd ==
    /\ worker.pc = "claim" /\ worker.todo = {}
    /\ worker' = IdleWorker
    /\ UNCHANGED <<database, exec, orch, role, fin, req, crashes>>

WorkerNext ==
    \/ TickStart \/ WorkerRevoke \/ ReapStart \/ ConvergeStart \/ ClaimStart \/ TickEnd
    \/ \E e \in worker.todo :
          \/ FailQueueTimeout(e) \/ ReapExpiredLease(e) \/ ConvergeCancel(e) \/ SkipClaim(e)
          \/ \E o \in Orchs : Claim(e, o)

----------------------------------------------------------------------------
(* Orchestrator.  orch[o].fence is the version read by freeze, then the     *)
(* version this orchestrator has itself written (FenceVersion).             *)

OrchEnds(o) == /\ orch' = [orch EXCEPT ![o] = IdleOrch]
               /\ role' = [role EXCEPT ![o] = IdleRoles]

\* freeze: the load and the check before the compare-and-set.
OrchLoad(o) ==
    LET r == orch[o].run IN
    /\ orch[o].pc = "load"
    /\ IF IsCanceled(r)
       THEN OrchEnds(o)
       ELSE /\ orch' = [orch EXCEPT ![o].pc = "freeze", ![o].fence = row[r].version]
            /\ UNCHANGED role
    /\ UNCHANGED <<database, exec, worker, fin, req, crashes>>

OrchFreeze(o) ==
    LET r == orch[o].run IN
    /\ orch[o].pc = "freeze"
    /\ IF CanCAS(r, orch[o].fence, {"queued"})
       THEN /\ row' = [row EXCEPT ![r] =
                         [@ EXCEPT !.status = "researching", !.stage = "researching",
                                   !.version = orch[o].fence + 1, !.lease = "live",
                                   !.overdue = FALSE]]
            /\ orch' = [orch EXCEPT ![o].pc = "research", ![o].fence = @ + 1]
            /\ UNCHANGED role
       ELSE OrchEnds(o) /\ UNCHANGED row
    /\ UNCHANGED <<report, task, token, exec, worker, fin, req, crashes>>

\* research: starts the heartbeat and one goroutine per task.
OrchResearch(o) ==
    /\ orch[o].pc = "research"
    /\ IF IsCanceled(orch[o].run)
       THEN OrchEnds(o)
       ELSE /\ orch' = [orch EXCEPT ![o].pc = "roles", ![o].beating = TRUE]
            /\ role' = [role EXCEPT ![o] = [k \in Roles |-> "renew"]]
    /\ UNCHANGED <<database, exec, worker, fin, req, crashes>>

Heartbeat(o) ==
    LET r == orch[o].run IN
    /\ orch[o].beating
    /\ IF CanRenew(r)
       THEN row' = [row EXCEPT ![r] = RenewedRow(r)] /\ UNCHANGED orch
       ELSE orch' = [orch EXCEPT ![o].beating = FALSE] /\ UNCHANGED row
    /\ UNCHANGED <<report, task, token, exec, role, worker, fin, req, crashes>>

RoleGoes(o, k, pc) == role' = [role EXCEPT ![o][k] = pc]

RoleRenew(o, k) ==
    LET r == orch[o].run IN
    /\ role[o][k] = "renew"
    /\ IF CanRenew(r)
       THEN row' = [row EXCEPT ![r] = RenewedRow(r)] /\ RoleGoes(o, k, "token")
       ELSE UNCHANGED row /\ RoleGoes(o, k, "bad")
    /\ UNCHANGED <<report, task, token, exec, orch, worker, fin, req, crashes>>

\* IssueTaskToken looks at the deadline, not at the status; a failure is an empty token.
RoleToken(o, k) ==
    LET r == orch[o].run IN
    /\ role[o][k] = "token"
    /\ token' = IF row[r].overdue THEN token ELSE [token EXCEPT ![r] = "live"]
    /\ RoleGoes(o, k, "submit")
    /\ UNCHANGED <<row, report, task, exec, orch, worker, fin, req, crashes>>

\* A submitted task that the executor already has is left as it is.
SubmittedIn(r, k) == [exec EXCEPT ![r][k] = IF @ = "absent" THEN "active" ELSE @]

RoleSubmit(o, k) ==
    LET r == orch[o].run IN
    /\ role[o][k] = "submit"
    /\ \/ exec' = SubmittedIn(r, k) /\ RoleGoes(o, k, "wait")
       \/ Lossy /\ exec' \in {exec, SubmittedIn(r, k)} /\ RoleGoes(o, k, "bad")
    /\ UNCHANGED <<database, orch, worker, fin, req, crashes>>

\* One turn of the loop of waitTask.  It renews the lease on the first turn and then
\* at most every LeaseRenew: here a turn renews or not.
RoleWait(o, k) ==
    LET r == orch[o].run IN
    /\ role[o][k] = "wait"
    /\ \/ /\ row[r].overdue \/ ~CanRenew(r) \/ IsCanceled(r) \/ Lossy
          /\ UNCHANGED row /\ RoleGoes(o, k, "bad")
       \/ /\ ~row[r].overdue /\ ~IsCanceled(r) /\ exec[r][k] # "absent"
          /\ \/ UNCHANGED row
             \/ CanRenew(r) /\ row' = [row EXCEPT ![r] = RenewedRow(r)]
          /\ RoleGoes(o, k, CASE exec[r][k] = "ok"       -> "writeOk"
                              [] exec[r][k] = "failed"   -> "writeBad"
                              [] exec[r][k] = "canceled" -> "bad"
                              [] OTHER                   -> "wait")
    /\ UNCHANGED <<report, task, token, exec, orch, worker, fin, req, crashes>>

AcceptsUntilTerminal(r) == ~row[r].deleted /\ row[r].status \notin Terminal

\* The check of WriteTaskResult.
AcceptsResult(r) == ~row[r].deleted /\ row[r].status \notin Terminal \cup {"canceling"}

\* WriteTaskResult, under the lock of the run's row.
RoleWrite(o, k) ==
    LET r  == orch[o].run
        ok == role[o][k] = "writeOk"
    IN
    /\ role[o][k] \in {"writeOk", "writeBad"}
    /\ IF AcceptsResult(r)
       THEN /\ task' = [task EXCEPT ![r][k] = IF ok THEN "ok" ELSE "failed"]
            /\ RoleGoes(o, k, IF ok THEN "ok" ELSE "bad")
       ELSE RoleGoes(o, k, "bad") /\ UNCHANGED task
    /\ UNCHANGED <<row, report, token, exec, orch, worker, fin, req, crashes>>

RolesDone(o) == \A k \in Roles : role[o][k] \in {"ok", "bad"}
Quality(o)   == IF \A k \in Roles : role[o][k] = "ok" THEN "completed" ELSE "incomplete"

\* synthesize: the compare-and-set covers the check on the load before it.
OrchSynthesize(o) ==
    LET r == orch[o].run IN
    /\ orch[o].pc = "roles" /\ RolesDone(o)
    /\ IF CanCAS(r, orch[o].fence, {"queued", "researching"})
       THEN /\ row' = [row EXCEPT ![r] = [@ EXCEPT !.status = "verifying", !.stage = "verifying",
                                                   !.version = orch[o].fence + 1]]
            /\ orch' = [orch EXCEPT ![o] = [@ EXCEPT !.pc = "verify", !.beating = FALSE,
                                                     !.fence = orch[o].fence + 1]]
            /\ UNCHANGED role
       ELSE OrchEnds(o) /\ UNCHANGED row
    /\ UNCHANGED <<report, task, token, exec, worker, fin, req, crashes>>

\* verify, when the run failed or the report did not validate: failOrIncomplete.
CanFail(r, fence) ==
    /\ row[r].version = fence /\ ~row[r].deleted
    /\ row[r].status \notin {"canceled", "canceling", "completed", "failed"}

OrchFail(o) ==
    LET r == orch[o].run IN
    /\ orch[o].pc = "verify"
    /\ IF CanFail(r, orch[o].fence)
       THEN /\ row' = [row EXCEPT ![r] = ClosedAs(r, orch[o].fence, "failed", "done")]
            /\ orch' = [orch EXCEPT ![o].pc = "revoke"]
            /\ UNCHANGED role
       ELSE OrchEnds(o) /\ UNCHANGED row
    /\ UNCHANGED <<report, task, token, exec, worker, fin, req, crashes>>

OrchRevoke(o) ==
    /\ orch[o].pc = "revoke"
    /\ RevokeTokens(orch[o].run)
    /\ OrchEnds(o)
    /\ UNCHANGED <<row, report, task, exec, worker, fin, req, crashes>>

\* Publish, one transaction under the row lock.
CanPublish(r, fence) ==
    /\ ~IsCanceled(r)
    /\ row[r].status = "verifying"
    /\ row[r].lease = "live" /\ ~row[r].overdue
    /\ row[r].version = fence

OrchPublish(o) ==
    LET r == orch[o].run IN
    /\ orch[o].pc = "verify"
    /\ \E k \in Roles : role[o][k] = "ok"
    /\ CanPublish(r, orch[o].fence)
    /\ row' = [row EXCEPT ![r] = ClosedAs(r, row[r].version, Quality(o), "done")]
    /\ report' = [report EXCEPT ![r] = Quality(o)]
    /\ OrchEnds(o)
    /\ UNCHANGED <<task, token, exec, worker, fin, req, crashes>>

\* Publish rolled back: a check or a gate refused, and the error ends the workflow.
OrchPublishRefused(o) ==
    /\ orch[o].pc = "verify"
    /\ OrchEnds(o)
    /\ UNCHANGED <<database, exec, worker, fin, req, crashes>>

OrchNext(o) ==
    \/ OrchLoad(o) \/ OrchFreeze(o) \/ OrchResearch(o) \/ OrchSynthesize(o)
    \/ OrchFail(o) \/ OrchRevoke(o) \/ OrchPublish(o) \/ OrchPublishRefused(o)
    \/ \E k \in Roles : RoleRenew(o, k) \/ RoleToken(o, k) \/ RoleSubmit(o, k)
                        \/ RoleWait(o, k) \/ RoleWrite(o, k)

----------------------------------------------------------------------------
(* The executor finishes a task (a restart of the executor fails every task *)
(* it was running), and the Go server crashes and restarts: every goroutine *)
(* is lost, the database and the executor stay.                             *)

ExecFinish(r, k) ==
    /\ exec[r][k] = "active"
    /\ exec' \in {[exec EXCEPT ![r][k] = s] : s \in {"ok", "failed"}}
    /\ UNCHANGED <<database, orch, role, worker, fin, req, crashes>>

Crash ==
    /\ crashes < MaxCrashes
    /\ crashes' = crashes + 1
    /\ orch'   = [o \in Orchs |-> IdleOrch]
    /\ role'   = [o \in Orchs |-> IdleRoles]
    /\ worker' = IdleWorker
    /\ fin'    = [p \in Procs |-> IdleFin]
    /\ req'    = [q \in Requests |-> IF req[q].pc = "idle" THEN req[q]
                                     ELSE [req[q] EXCEPT !.pc = "done"]]
    /\ UNCHANGED <<database, exec>>

----------------------------------------------------------------------------

Next ==
    \/ \E r \in Runs : CreateResearch(r) \/ QueueTimeoutPasses(r) \/ DeadlinePasses(r)
                       \/ LeaseExpires(r)
    \/ \E r \in Runs, k \in Roles : ExecFinish(r, k)
    \/ \E q \in Requests, r \in Runs : CancelResearch(q, r) \/ DeleteResearch(q, r)
    \/ \E q \in Requests : ReqNext(q)
    \/ \E p \in Procs : FinNext(p)
    \/ WorkerNext
    \/ \E o \in Orchs : OrchNext(o) \/ Heartbeat(o)
    \/ Crash

Spec == Init /\ [][Next]_vars

\* A lease runs out when nothing renews it: an orchestrator that beats keeps it.
Held(r) == CanRenew(r) /\ \E o \in Orchs : orch[o].run = r /\ orch[o].beating

Fairness ==
    /\ WF_vars(WorkerNext)
    /\ \A p \in Procs    : WF_vars(FinNext(p))
    /\ \A q \in Requests : WF_vars(ReqNext(q))
    /\ \A o \in Orchs    : WF_vars(OrchNext(o))
    /\ \A r \in Runs     : /\ WF_vars(QueueTimeoutPasses(r))
                           /\ WF_vars(DeadlinePasses(r))
                           /\ WF_vars(LeaseExpires(r) /\ ~Held(r))

FairSpec == Spec /\ Fairness

----------------------------------------------------------------------------
(* Safety *)

\* A published report and the row of its run agree for ever: whoever cancels, reaps,
\* times out or deletes, in whatever order, no report is published for a run that is
\* not closed by that publication, and none is overwritten by a later closer.
ReportMatchesRun ==
    \A r \in Runs :
        /\ report[r] # "none" => row[r].status = report[r] /\ row[r].stage = "done"
        /\ row[r].status = "completed" => report[r] = "completed"

\* An orchestrator past freeze holds the run's fence while the row has its version.
HoldsFence(o) == /\ orch[o].pc \in {"research", "roles", "verify"}
                 /\ row[orch[o].run].version = orch[o].fence

\* A run claimed twice (its lease ran out before freeze) has one writer: two
\* orchestrators never both pass the version check of the run they share.
FenceExclusive ==
    \A o1, o2 \in Orchs :
        HoldsFence(o1) /\ HoldsFence(o2) /\ orch[o1].run = orch[o2].run => o1 = o2

\* deleted_at is never set on a run that still counts as active: the limits, which
\* skip deleted rows, would forget a run whose workers are still at work.
DeletedIsClosed == \A r \in Runs : row[r].deleted => row[r].status \in Terminal

(* Action properties *)

LegalStep ==
    {<<"absent", "queued">>, <<"canceling", "canceled">>}
    \cup {"queued"} \X {"researching", "failed", "canceling", "canceled"}
    \cup {"researching"} \X {"verifying", "incomplete", "canceling"}
    \cup {"verifying"} \X {"completed", "incomplete", "failed", "canceling"}

\* Writers that hold values read earlier move a run only along the documented graph:
\* a closed run stays closed, a canceling run is only canceled, and each change of
\* status takes the next version, which is what fences every other writer out.
StatusOnlyAdvances ==
    [][\A r \in Runs : row'[r].status # row[r].status =>
            /\ <<row[r].status, row'[r].status>> \in LegalStep
            /\ row'[r].version = row[r].version + 1]_vars

\* The late answer of a role never revives a task that a cancellation closed.
CanceledTaskStays ==
    [][\A r \in Runs, k \in Roles :
            task[r][k] = "canceled" => task'[r][k] = "canceled"]_vars

\* A run becomes canceled only when its workers have stopped or its lease is over,
\* although the acknowledgements and the lease were read some statements before.
ConfirmedCancel ==
    [][\A r \in Runs : row[r].status = "canceling" /\ row'[r].status = "canceled" =>
            \/ row[r].lease # "live"
            \/ \A k \in Roles : exec[r][k] \notin {"absent", "active"}]_vars

\* Tokens are revoked under an open run by nobody but failQueueTimeouts, which does not
\* look whether its update found the run still queued.
RevokesClosedRuns ==
    [][\A r \in Runs : token[r] = "live" /\ token'[r] = "revoked" =>
            \/ row[r].status \in Terminal \cup {"canceling"}
            \/ worker.pc = "timeoutRevoke" /\ worker.cur = r]_vars

\* "No new outbound call after a cancellation" (spec, B-26): no task is submitted for a
\* run that is canceling, canceled or deleted.
NoSubmitAfterCancel ==
    [][\A r \in Runs, k \in Roles :
            exec[r][k] = "absent" /\ exec'[r][k] # "absent" => ~IsCanceled(r)]_vars

Board == INSTANCE TaskBoard
            WITH Tasks <- Runs \X Roles, status <- [t \in Runs \X Roles |-> exec[t[1]][t[2]]]

\* What this module takes for granted of the executor is the contract that the module
\* Executor implements: a task submitted twice or canceled late still ends once.
ExecutorContract == Board!Spec

(* Liveness, under FairSpec *)

\* A cancellation that was accepted ends: the executor may be unreachable, the server
\* may crash, the lease runs out and a later tick converges.
CancelConverges ==
    \A r \in Runs : row[r].status = "canceling" ~> row[r].status = "canceled"

\* Every run ends: queued runs by the queue timeout, others by their orchestrator or,
\* when it is lost or its report is refused, by the reaper.
RunEnds == \A r \in Runs : row[r].status = "queued" ~> row[r].status \in Terminal

\* A run whose deletion was accepted is deleted, within less than the month after
\* which retention would delete it anyway.
DeleteHonoured ==
    \A q \in Requests, r \in Runs :
        req[q].kind = "delete" /\ req[q].run = r ~> row[r].deleted

=============================================================================
