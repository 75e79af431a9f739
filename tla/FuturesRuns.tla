---------------------------- MODULE FuturesRuns ----------------------------
(***************************************************************************)
(* Futures research runs (app/server/service/futures: domain_runs.go,      *)
(* runs.go, scheduler.go, worker_client.go): creation under an advisory    *)
(* lock, the scheduler with two slots per server, the execution of a run   *)
(* with its lease, cancellation, deletion and the maintenance that fails   *)
(* what ran out of time.  A run executes at most once: nothing puts it     *)
(* back in the queue.  What the report says is in FuturesEvidence.         *)
(***************************************************************************)
EXTENDS Integers, FiniteSets

CONSTANTS
    FRuns,      \* run ids
    OwnerOf,    \* [FRuns -> user]
    Executions, \* goroutines of the scheduler
    DailyRuns,  \* runs a user may create on a day (5)
    ExecutingMax \* runs executing at a time (2)

VARIABLES
    frun,  \* futures_runs
    exec,  \* what each slot is doing
    told   \* notifications written, as <<run, kind>>

frVars == <<frun, exec, told>>

FActive == {"queued", "running", "canceling"}
FDone == {"succeeded", "failed", "canceled"}

NoRun == [status |-> "none", lease |-> "none", due |-> FALSE, cancel |-> FALSE,
          snapshot |-> FALSE, report |-> FALSE, deleted |-> FALSE]
Free == [pc |-> "free", run |-> CHOOSE r \in FRuns : TRUE, renewing |-> FALSE]

FRunInit ==
    /\ frun = [r \in FRuns |-> NoRun]
    /\ exec = [x \in Executions |-> Free]
    /\ told = {}

Live(r) == frun[r].status # "none" /\ ~frun[r].deleted

----------------------------------------------------------------------------
(* CreateRun: quotas are counted under the advisory lock of the owner.     *)
CreateRun(r) ==
    /\ frun[r].status = "none"
    /\ ~\E s \in FRuns : OwnerOf[s] = OwnerOf[r] /\ Live(s) /\ frun[s].status \in FActive
    /\ Cardinality({s \in FRuns : OwnerOf[s] = OwnerOf[r] /\ frun[s].status # "none"}) < DailyRuns
    /\ frun' = [frun EXCEPT ![r] = [NoRun EXCEPT !.status = "queued"]]
    /\ UNCHANGED <<exec, told>>

(* CancelRun *)
CancelRun(r) ==
    /\ Live(r) /\ frun[r].status \in {"queued", "running"}
    /\ frun' = IF frun[r].status = "queued"
                 THEN [frun EXCEPT ![r].status = "canceled", ![r].cancel = TRUE, ![r].lease = "none"]
                 ELSE [frun EXCEPT ![r].status = "canceling", ![r].cancel = TRUE]
    /\ UNCHANGED <<exec, told>>

(* DeleteRun hides the run in any status; the execution is not told. *)
DeleteRun(r) ==
    /\ Live(r)
    /\ frun' = [frun EXCEPT ![r].deleted = TRUE]
    /\ UNCHANGED <<exec, told>>

----------------------------------------------------------------------------
(* ClaimQueuedRun, under an advisory lock of its own *)
(* Mutant: a run whose lease ran out is claimed once more. *)
QueuedOrLost(r) == Live(r) /\ (frun[r].status = "queued" \/ frun[r].lease = "expired")

Queued(r) == Live(r) /\ frun[r].status = "queued"

Executing == {r \in FRuns : Live(r) /\ frun[r].status = "running"}

ClaimQueuedRun(x, r) ==
    /\ exec[x].pc = "free" /\ Queued(r)
    /\ Cardinality(Executing) < ExecutingMax
    /\ frun' = [frun EXCEPT ![r].status = "running", ![r].lease = "live", ![r].due = FALSE]
    /\ exec' = [exec EXCEPT ![x] = [pc |-> "claimed", run |-> r, renewing |-> FALSE]]
    /\ UNCHANGED told

(* ExecuteRun: freeze the manifest into the run, grant, start the renewer, *)
(* post the task.                                                          *)
FreezeAndPost(x) ==
    LET r == exec[x].run IN
    /\ exec[x].pc = "claimed"
    /\ IF Live(r)
         THEN /\ frun' = [frun EXCEPT ![r].snapshot = TRUE]
              /\ exec' = [exec EXCEPT ![x].pc = "posted", ![x].renewing = TRUE]
         ELSE /\ exec' = [exec EXCEPT ![x].pc = "acknowledge"]
              /\ UNCHANGED frun
    /\ UNCHANGED told

(* Unauthorized, misconfigured, or a statement failed. *)
RefuseToStart(x) ==
    /\ exec[x].pc = "claimed"
    /\ exec' = [exec EXCEPT ![x].pc = "acknowledge"]
    /\ UNCHANGED <<frun, told>>

(* RenewRunLease: the first refusal ends the renewer, not the execution. *)
Renewable(r) == Live(r) /\ frun[r].status = "running"

RenewRunLease(x) ==
    LET r == exec[x].run IN
    /\ exec[x].pc = "posted" /\ exec[x].renewing
    /\ IF Renewable(r)
         THEN frun' = [frun EXCEPT ![r].lease = "live"] /\ UNCHANGED exec
         ELSE exec' = [exec EXCEPT ![x].renewing = FALSE] /\ UNCHANGED frun
    /\ UNCHANGED told

(* The worker answers with a candidate that VerifyCandidate accepts, or    *)
(* with an error, a refused candidate or nothing before the timeout.       *)
WorkerAnswers(x) ==
    /\ exec[x].pc = "posted"
    /\ \E pc \in {"complete", "acknowledge"} :
          exec' = [exec EXCEPT ![x].pc = pc, ![x].renewing = FALSE]
    /\ UNCHANGED <<frun, told>>

(* CompleteRun *)
Completable(r) ==
    /\ Live(r) /\ ~frun[r].cancel /\ frun[r].status = "running"
    /\ frun[r].lease = "live" /\ ~frun[r].due

CompleteRun(x) ==
    LET r == exec[x].run IN
    /\ exec[x].pc = "complete"
    /\ IF Completable(r)
         THEN /\ frun' = [frun EXCEPT ![r].status = "succeeded", ![r].report = TRUE]
              /\ told' = told \cup {<<r, "run_succeeded">>}
              /\ exec' = [exec EXCEPT ![x] = Free]
         ELSE /\ exec' = [exec EXCEPT ![x].pc = "acknowledge"]
              /\ UNCHANGED <<frun, told>>

(* After an error: AcknowledgeCanceledRun, and where there is nothing to   *)
(* acknowledge, FailRun in a later statement.                              *)
AcknowledgeCanceledRun(x) ==
    LET r == exec[x].run IN
    /\ exec[x].pc = "acknowledge"
    /\ IF Live(r) /\ frun[r].status = "canceling"
         THEN /\ frun' = [frun EXCEPT ![r].status = "canceled", ![r].lease = "none"]
              /\ exec' = [exec EXCEPT ![x] = Free]
         ELSE /\ exec' = [exec EXCEPT ![x].pc = "fail"]
              /\ UNCHANGED frun
    /\ UNCHANGED told

(* Mutant: a late failure closes whatever is active. *)
FailableActive(r) == Live(r) /\ frun[r].status \in FActive

Failable(r) == Live(r) /\ frun[r].status = "running" /\ ~frun[r].cancel

FailRun(x) ==
    LET r == exec[x].run IN
    /\ exec[x].pc = "fail"
    /\ exec' = [exec EXCEPT ![x] = Free]
    /\ IF Failable(r)
         THEN /\ frun' = [frun EXCEPT ![r].status = "failed", ![r].lease = "none"]
              /\ told' = told \cup {<<r, "run_failed">>}
         ELSE UNCHANGED <<frun, told>>

----------------------------------------------------------------------------
(* Time: a lease that is not renewed runs out, a deadline passes; the      *)
(* deadline of a queued run is renewed when it is claimed.                 *)
LeaseExpires(r) ==
    /\ frun[r].lease = "live"
    /\ frun' = [frun EXCEPT ![r].lease = "expired"]
    /\ UNCHANGED <<exec, told>>

DeadlinePasses(r) ==
    /\ frun[r].status \in FActive /\ ~frun[r].due
    /\ frun' = [frun EXCEPT ![r].due = TRUE]
    /\ UNCHANGED <<exec, told>>

(* ExpireStaleRuns, in the maintenance of every server *)
StaleRunning(r) ==
    Live(r) /\ frun[r].status = "running" /\ (frun[r].lease = "expired" \/ frun[r].due)

Stale(r) ==
    /\ Live(r)
    /\ \/ frun[r].status = "queued" /\ frun[r].due
       \/ frun[r].status \in {"running", "canceling"} /\ (frun[r].lease = "expired" \/ frun[r].due)

ExpireStaleRuns ==
    /\ \E r \in FRuns : Stale(r)
    /\ frun' = [r \in FRuns |->
          IF ~Stale(r) THEN frun[r]
          ELSE [frun[r] EXCEPT !.lease = "none",
                  !.status = IF frun[r].status = "canceling" THEN "canceled" ELSE "failed"]]
    /\ UNCHANGED <<exec, told>>

(* The server stops: its goroutines are gone, the rows stay. *)
ServerStops ==
    /\ \E x \in Executions : exec[x] # Free
    /\ exec' = [x \in Executions |-> Free]
    /\ UNCHANGED <<frun, told>>

FRunNext ==
    \/ \E r \in FRuns :
          \/ CreateRun(r) \/ CancelRun(r) \/ DeleteRun(r)
          \/ LeaseExpires(r) \/ DeadlinePasses(r)
    \/ \E x \in Executions :
          \/ \E r \in FRuns : ClaimQueuedRun(x, r)
          \/ FreezeAndPost(x) \/ RefuseToStart(x) \/ RenewRunLease(x) \/ WorkerAnswers(x)
          \/ CompleteRun(x) \/ AcknowledgeCanceledRun(x) \/ FailRun(x)
    \/ ExpireStaleRuns \/ ServerStops

FRunSpec == FRunInit /\ [][FRunNext]_frVars

----------------------------------------------------------------------------
(* StartRunScheduler, ExecuteRun: whatever happens to leases, rows and the *)
(* server, no run is executed by two goroutines, a report rests on a       *)
(* frozen manifest, and a user is told one ending of a run, the one it     *)
(* came to.                                                                *)
ExecutesOnce ==
    /\ \A x, y \in Executions :
          exec[x].pc # "free" /\ exec[y].pc # "free" /\ exec[x].run = exec[y].run => x = y
    /\ \A r \in FRuns :
          /\ frun[r].report => frun[r].snapshot
          /\ <<r, "run_succeeded">> \in told => frun[r].status = "succeeded"
          /\ <<r, "run_failed">> \in told => frun[r].status = "failed"

(* CancelRun: whatever the execution, the maintenance and a deletion do    *)
(* around it, a run that the user canceled ends canceled: it never turns   *)
(* into a failed or a succeeded one, and a finished run never changes its  *)
(* status.                                                                 *)
CanceledStaysCanceled ==
    [][\A r \in FRuns :
          /\ frun[r].cancel => frun'[r].status \in {frun[r].status, "canceled"}
          /\ frun[r].status \in FDone => frun'[r].status = frun[r].status]_frVars

(* ExpireStaleRuns: a run does not stay active for ever, even if the       *)
(* server that executed it is gone: it ends, or it is deleted.             *)
FuturesRunEnds ==
    \A r \in FRuns :
        frun[r].status \in FActive ~> (frun[r].status \in FDone \/ frun[r].deleted)
============================================================================
