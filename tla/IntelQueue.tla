----------------------------- MODULE IntelQueue -----------------------------
(***************************************************************************)
(* The job queue of the intel module: service/intel/worker.go and          *)
(* budget.go.  Servers share the table finance_intel_jobs; a job is        *)
(* claimed under a lease of 120 seconds that nothing renews, processed by  *)
(* statements of their own, and completed under the fence of its lease     *)
(* epoch.  An extraction calls the paid model once per claim, after it has *)
(* reserved a call from the budget of the day.                             *)
(*                                                                         *)
(* Jobs exist in the live namespace alone (their routes are the            *)
(* administrator's, and a demo session is never one): no reset changes     *)
(* their generation, which is left out.  One day is modelled.              *)
(***************************************************************************)
EXTENDS Naturals, FiniteSets

CONSTANTS
    Jobs,
    KindOf,         \* "extract" or "ingest"
    Workers,        \* goroutines of StartWorker, one per server
    NoJob,
    CallLimit,      \* reservations the token limit of a day pays for
    MaxCrashes,     \* servers stopped, or statements that fail (a bound)
    MaxSlow         \* leases that run out under a worker still at work (a bound)

ASSUME JobsAssumption  == IsFiniteSet(Jobs)
ASSUME KindAssumption  == KindOf \in [Jobs -> {"extract", "ingest"}] /\ NoJob \notin Jobs
ASSUME BoundAssumption == CallLimit \in Nat /\ MaxCrashes \in Nat /\ MaxSlow \in Nat

VARIABLES
    job,        \* finance_intel_jobs, with status "absent" before the insert
    usage,      \* finance_intel_usage: a row <<j, n>> for attempt n at job j
    settled,    \* its rows with status settled
    unknown,    \* its rows with status usage_unknown
    stored,     \* finance_intel_extraction_runs: a row <<j, n>> for the result of attempt n
    review,     \* finance_intel_review_items: a row <<j, n>> asked for by attempt n
    worker,     \* local state of ProcessJob in each worker
    calls,      \* requests that the model has received for each job
    crashes, slow

vars == <<job, usage, settled, unknown, stored, review, worker, calls, crashes, slow>>
rows == <<job, usage, settled, unknown, stored, review>>

----------------------------------------------------------------------------

Outcomes == {"succeeded", "partial", "failed"}
JobRow   == [status : {"absent", "queued", "running"} \cup Outcomes, epoch : Nat,
             created : Nat, lease : {"none", "live", "expired"}, attempts : Nat]

AbsentJob == [status |-> "absent", epoch |-> 0, created |-> 0,
              lease |-> "none", attempts |-> 0]

\* A JobLease and how far ProcessJob has come with it.
WorkerState == [pc : {"idle", "prepare", "fetch", "reserve", "call", "settle", "store",
                      "review", "complete"},
                job : Jobs \cup {NoJob}, epoch : Nat, attempt : Nat,
                outcome : Outcomes \cup {"none"}]

IdleWorker == [pc |-> "idle", job |-> NoJob, epoch |-> 0, attempt |-> 0, outcome |-> "none"]

Rows == Jobs \X (Nat \ {0})

TypeOK ==
    /\ job \in [Jobs -> JobRow]
    /\ usage \subseteq Rows /\ stored \subseteq Rows /\ review \subseteq Rows
    /\ settled \subseteq usage /\ unknown \subseteq usage
    /\ worker \in [Workers -> WorkerState]
    /\ calls \in [Jobs -> Nat]
    /\ crashes \in Nat /\ slow \in Nat

QueueInit ==
    /\ job = [j \in Jobs |-> AbsentJob]
    /\ usage = {} /\ settled = {} /\ unknown = {} /\ stored = {} /\ review = {}
    /\ worker = [w \in Workers |-> IdleWorker]
    /\ calls = [j \in Jobs |-> 0]
    /\ crashes = 0 /\ slow = 0

\* The row of usage, result or review item that worker w writes.
RowOf(w) == <<worker[w].job, worker[w].attempt>>

Goes(w, pc) == worker' = [worker EXCEPT ![w].pc = pc]
Ends(w, outcome) == worker' = [worker EXCEPT ![w].pc = "complete", ![w].outcome = outcome]

----------------------------------------------------------------------------
(* The queue *)

Known == {j \in Jobs : job[j].status # "absent"}

\* CreateIngestionJob and ImportSourceRevision
CreateJob(j) ==
    /\ job[j].status = "absent"
    /\ job' = [job EXCEPT ![j].status = "queued", ![j].created = Cardinality(Known)]
    /\ UNCHANGED <<usage, settled, unknown, stored, review, worker, calls, crashes, slow>>

ClaimableQueued(j) == job[j].status = "queued"

Claimable(j) == job[j].status = "queued" \/ (job[j].status = "running" /\ job[j].lease = "expired")

ClaimedKeepsEpoch(j) ==
    [job[j] EXCEPT !.status = "running", !.lease = "live", !.epoch = 1, !.attempts = @ + 1]

Claimed(j) ==
    [job[j] EXCEPT !.status = "running", !.lease = "live", !.epoch = @ + 1, !.attempts = @ + 1]

\* The oldest job that may be claimed.
ClaimJob(w) == \E j \in Jobs :
    /\ worker[w].pc = "idle" /\ Claimable(j)
    /\ \A k \in Jobs : Claimable(k) => job[j].created <= job[k].created
    /\ job' = [job EXCEPT ![j] = Claimed(j)]
    /\ worker' = [worker EXCEPT ![w] = [pc |-> "prepare", job |-> j, epoch |-> Claimed(j).epoch,
                                        attempt |-> Claimed(j).attempts, outcome |-> "none"]]
    /\ UNCHANGED <<usage, settled, unknown, stored, review, calls, crashes, slow>>

\* Nothing happens unless the job still runs under the epoch of this lease; whether the
\* lease has run out meanwhile is not asked.
CompleteJob(w) ==
    LET j == worker[w].job IN
    /\ worker[w].pc = "complete"
    /\ job' = IF job[j].status = "running" /\ job[j].epoch = worker[w].epoch
              THEN [job EXCEPT ![j].status = worker[w].outcome, ![j].lease = "none"] ELSE job
    /\ worker' = [worker EXCEPT ![w] = IdleWorker]
    /\ UNCHANGED <<usage, settled, unknown, stored, review, calls, crashes, slow>>

----------------------------------------------------------------------------
(* ProcessJob and processIngestionJob *)

\* An extraction without a model asks for a manual review at once; one whose frozen
\* model configuration is no longer the active one fails.
Prepare(w) ==
    LET kind == KindOf[worker[w].job] IN
    /\ worker[w].pc = "prepare"
    /\ \/ kind = "ingest"  /\ Goes(w, "fetch")
       \/ kind = "extract" /\ (Goes(w, "reserve") \/ \E o \in {"partial", "failed"} : Ends(w, o))
    /\ UNCHANGED <<rows, calls, crashes, slow>>

\* Instruments are written again with the same values; tools that an administrator must
\* look at first leave a review item.
Fetch(w) ==
    /\ worker[w].pc = "fetch"
    /\ \/ \E outcome \in Outcomes : Ends(w, outcome)
       \/ worker' = [worker EXCEPT ![w].pc = "review", ![w].outcome = "partial"]
    /\ UNCHANGED <<rows, calls, crashes, slow>>

BusyOthers(j) == {k \in Jobs \ {j} : KindOf[k] = "extract" /\ job[k].status = "running"}

\* ReserveModelUsage, one transaction under the lock of the budget.
Reserve(w) ==
    LET j == worker[w].job IN
    /\ worker[w].pc = "reserve"
    /\ IF Cardinality(BusyOthers(j)) >= 2 \/ Cardinality(usage) >= CallLimit
       THEN Ends(w, "failed") /\ UNCHANGED usage
       ELSE Goes(w, "call") /\ usage' = usage \cup {RowOf(w)}
    /\ UNCHANGED <<job, settled, unknown, stored, review, calls, crashes, slow>>

\* Extract: a request that cannot be built is not sent.
CallModel(w) ==
    LET j == worker[w].job IN
    /\ worker[w].pc = "call"
    /\ \/ /\ calls' = [calls EXCEPT ![j] = @ + 1]
          /\ \E outcome \in Outcomes :
                worker' = [worker EXCEPT ![w].pc = "settle", ![w].outcome = outcome]
       \/ /\ worker' = [worker EXCEPT ![w].pc = "settle", ![w].outcome = "failed"]
          /\ UNCHANGED calls
    /\ UNCHANGED <<rows, crashes, slow>>

\* SettleModelUsage
Settle(w) ==
    LET good == worker[w].outcome = "succeeded" IN
    /\ worker[w].pc = "settle"
    /\ settled' = IF good THEN settled \cup {RowOf(w)} ELSE settled \ {RowOf(w)}
    /\ unknown' = IF good THEN unknown \ {RowOf(w)} ELSE unknown \cup {RowOf(w)}
    /\ Goes(w, IF good THEN "store" ELSE "complete")
    /\ UNCHANGED <<job, usage, stored, review, calls, crashes, slow>>

\* The table takes results of the first two attempts alone; another one is an error,
\* with which ProcessJob returns and leaves the job running.
Store(w) ==
    /\ worker[w].pc = "store"
    /\ IF worker[w].attempt <= 2
       THEN stored' = stored \cup {RowOf(w)} /\ Goes(w, "review")
       ELSE worker' = [worker EXCEPT ![w] = IdleWorker] /\ UNCHANGED stored
    /\ UNCHANGED <<job, usage, settled, unknown, review, calls, crashes, slow>>

Review(w) ==
    /\ worker[w].pc = "review"
    /\ review' = review \cup {RowOf(w)}
    /\ Goes(w, "complete")
    /\ UNCHANGED <<job, usage, settled, unknown, stored, calls, crashes, slow>>

----------------------------------------------------------------------------
(* The environment *)

WorkerLost(w) ==
    /\ worker[w].pc # "idle" /\ crashes < MaxCrashes
    /\ crashes' = crashes + 1
    /\ worker' = [worker EXCEPT ![w] = IdleWorker]
    /\ UNCHANGED <<rows, calls, slow>>

Held(j) == \E w \in Workers : worker[w].job = j /\ worker[w].epoch = job[j].epoch

RunsOut(j) == /\ job[j].status = "running" /\ job[j].lease = "live"
              /\ job' = [job EXCEPT ![j].lease = "expired"]
              /\ UNCHANGED <<usage, settled, unknown, stored, review, worker, calls, crashes>>

LeaseRunsOut(j)      == ~Held(j) /\ RunsOut(j) /\ UNCHANGED slow
LeaseRunsOutUnder(j) == Held(j) /\ RunsOut(j) /\ slow < MaxSlow /\ slow' = slow + 1

Process(w) == \/ Prepare(w) \/ Fetch(w) \/ Reserve(w) \/ CallModel(w) \/ Settle(w)
              \/ Store(w) \/ Review(w) \/ CompleteJob(w)

QueueNext ==
    \/ \E j \in Jobs : CreateJob(j) \/ LeaseRunsOut(j) \/ LeaseRunsOutUnder(j)
    \/ \E w \in Workers : ClaimJob(w) \/ Process(w) \/ WorkerLost(w)

QueueSpec == QueueInit /\ [][QueueNext]_vars

\* Workers claim at every tick, calls have time limits, abandoned leases run out.
Fairness == /\ \A w \in Workers : WF_vars(ClaimJob(w)) /\ WF_vars(Process(w))
            /\ \A j \in Jobs : WF_vars(LeaseRunsOut(j))

FairSpec == QueueSpec /\ Fairness

----------------------------------------------------------------------------

\* Every call that the model has received, by whatever worker at whatever attempt, has a
\* reservation of its own, and the limit of the day pays for all of them.
CallsArePaid ==
    /\ \A j \in Jobs : calls[j] <= Cardinality({r \in usage : r[1] = j})
    /\ Cardinality(usage) <= CallLimit

\* "Two extractions at once" (spec, 6.5): jobs are counted, not calls, so that this is
\* true as long as no lease runs out under a worker.
AtMostTwoCalls ==
    slow = 0 => ~\E u, v, w \in Workers :
                    u # v /\ v # w /\ w # u /\ \A x \in {u, v, w} : worker[x].pc = "call"

\* A row of usage is settled once: no two attempts share it.
SettledOnce ==
    [][\A r \in usage : /\ r \in settled => r \in settled' /\ r \notin unknown'
                        /\ r \in unknown => r \in unknown' /\ r \notin settled']_vars

\* A job that succeeded has a result and a review item of an attempt at it.
SucceededHasResult ==
    \A j \in Jobs : job[j].status = "succeeded" /\ KindOf[j] = "extract" =>
        \E r \in stored \cap review : r[1] = j

\* A worker whose lease was taken over does not decide the outcome of the job.
OutcomeIsLatest ==
    [][\A j \in Jobs : job[j].status = "running" /\ job'[j].status \in Outcomes =>
            \A w \in Workers : worker[w].job = j /\ worker[w].attempt < job[j].attempts =>
                worker'[w] = worker[w]]_vars

\* Every job ends, by a worker or, when its results are refused, by the budget.
JobEnds == \A j \in Jobs : job[j].status = "queued" ~> job[j].status \in Outcomes

\* "At most three claims" (spec, 6.5)
AttemptsBounded == \A j \in Jobs : job[j].attempts <= 3

=============================================================================
