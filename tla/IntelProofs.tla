---------------------------- MODULE IntelProofs ----------------------------
(***************************************************************************)
(* The job queue, the demo spaces and the lists of the intel module, proved for *)
(* all values of the constants.                                            *)
(***************************************************************************)
EXTENDS IntelQueue, IntelSpace, ListPages, TLAPS, FiniteSetTheorems,
        WellFoundedInduction

----------------------------------------------------------------------------
(***************************************************************************)
(* IntelQueue for any number of jobs, servers, crashes and leases that run out *)
(* under a worker.  Everything rests on one fact: a claim takes a new number, *)
(* which is the epoch of its lease and the number of its attempt, so that no *)
(* two workers ever share a row, and the number of a worker that was overtaken *)
(* is behind its job's.                                                    *)
(***************************************************************************)

At(w, pcs) == worker[w].pc \in pcs

\* A claim and its worker carry one number, and numbers are not given twice.
Numbered ==
    /\ \A j \in Jobs : job[j].epoch = job[j].attempts
    /\ \A w \in Workers : ~At(w, {"idle"}) =>
          /\ worker[w].job \in Jobs
          /\ worker[w].attempt = worker[w].epoch /\ worker[w].attempt > 0
          /\ worker[w].attempt <= job[worker[w].job].attempts
    /\ \A w \in Workers : At(w, {"idle"}) => worker[w].job = NoJob
    /\ \A v, w \in Workers : ~At(v, {"idle"}) /\ ~At(w, {"idle"}) /\ v # w => RowOf(v) # RowOf(w)
    /\ \A r \in usage : r[2] <= job[r[1]].attempts

\* The reservation of an attempt is made, used and settled once, in this order.
Reserved ==
    /\ settled \cap unknown = {}
    /\ \A w \in Workers :
        /\ At(w, {"prepare", "fetch", "reserve"}) => RowOf(w) \notin usage
        /\ At(w, {"call", "settle"}) =>
              RowOf(w) \in usage /\ RowOf(w) \notin settled /\ RowOf(w) \notin unknown

\* An extraction only succeeds by way of Store and Review.
Resulted ==
    /\ \A w \in Workers : ~At(w, {"idle"}) /\ KindOf[worker[w].job] = "extract" =>
          /\ ~At(w, {"fetch"})
          /\ At(w, {"review"}) => RowOf(w) \in stored
          /\ At(w, {"complete"}) /\ worker[w].outcome = "succeeded" => RowOf(w) \in stored \cap review
    /\ \A w \in Workers : At(w, {"settle", "store", "review", "complete"}) => worker[w].outcome # "none"
    /\ SucceededHasResult

QueueInv == TypeOK /\ Numbered /\ Reserved /\ Resulted

LEMMA QueueInitInv == QueueInit => QueueInv
  BY KindAssumption DEF QueueInit, QueueInv, TypeOK, Numbered, Reserved, Resulted, SucceededHasResult, At, RowOf,
     JobRow, AbsentJob, WorkerState, IdleWorker, Outcomes

----------------------------------------------------------------------------

\* Steps of one worker that claim and reserve nothing: it goes to another statement, it
\* ends its job, or it is lost.
LEMMA WorkerGoes ==
    ASSUME QueueInv, NEW w \in Workers, ~At(w, {"idle"}), NEW u \in WorkerState,
           worker' = [worker EXCEPT ![w] = u],
           \/ u = IdleWorker
           \/ /\ u.pc # "idle" /\ u.job = worker[w].job /\ u.epoch = worker[w].epoch
              /\ u.attempt = worker[w].attempt
              /\ \/ u.pc \in {"fetch", "reserve"} /\ At(w, {"prepare", "fetch", "reserve"})
                 \/ u.pc = "settle" /\ At(w, {"call"})
                 \/ u.pc \in {"store", "review", "complete"}
              /\ u.pc \in {"settle", "store", "review", "complete"} => u.outcome # "none"
              /\ KindOf[worker[w].job] = "extract" =>
                    /\ u.pc # "fetch"
                    /\ u.pc = "review" => RowOf(w) \in stored'
                    /\ u.pc = "complete" /\ u.outcome = "succeeded" => RowOf(w) \in stored' \cap review',
           job' \in [Jobs -> JobRow],
           \A j \in Jobs :
              /\ job'[j].epoch = job[j].epoch /\ job'[j].attempts = job[j].attempts
              /\ job'[j].status = "succeeded" /\ KindOf[j] = "extract" =>
                    job[j].status = "succeeded" \/ \E r \in stored' \cap review' : r[1] = j,
           UNCHANGED <<usage, settled, unknown>>,
           stored \subseteq stored', review \subseteq review',
           stored' \subseteq Rows, review' \subseteq Rows, calls' \in [Jobs -> Nat], crashes' \in Nat, slow' \in Nat
    PROVE  QueueInv'
<1> USE DEF QueueInv
<1>1. worker'[w] = u /\ \A v \in Workers : v # w => worker'[v] = worker[v]
  BY DEF TypeOK
<1>2. TypeOK'
  BY DEF TypeOK
<1>3. IdleWorker.pc = "idle" /\ IdleWorker.job = NoJob
  BY DEF IdleWorker
<1>4. \A v \in Workers : ~At(v, {"idle"})' => ~At(v, {"idle"}) /\ RowOf(v)' = RowOf(v)
                         /\ worker'[v].job = worker[v].job /\ worker'[v].attempt = worker[v].attempt
                         /\ worker'[v].epoch = worker[v].epoch
  BY <1>1, <1>3 DEF At, RowOf
<1>5. Numbered'
  <2>1. \A v \in Workers : At(v, {"idle"})' => worker'[v].job = NoJob
    BY <1>1, <1>3 DEF Numbered, At
  <2>. QED
    BY <1>4, <2>1 DEF Numbered, TypeOK, Rows
<1>6. Reserved'
  <2>1. ASSUME NEW v \in Workers PROVE
          /\ At(v, {"prepare", "fetch", "reserve"})' => At(v, {"prepare", "fetch", "reserve"}) /\ RowOf(v)' = RowOf(v)
          /\ At(v, {"call", "settle"})' => At(v, {"call", "settle"}) /\ RowOf(v)' = RowOf(v)
    BY <1>1, <1>3, <1>4 DEF At
  <2>. QED
    BY <2>1 DEF Reserved
<1>7. Resulted'
  <2>1. SucceededHasResult'
    BY DEF Resulted, SucceededHasResult
  <2>2. ASSUME NEW v \in Workers, ~At(v, {"idle"})', KindOf[worker'[v].job] = "extract" PROVE
          /\ ~At(v, {"fetch"})'
          /\ At(v, {"review"})' => RowOf(v)' \in stored'
          /\ At(v, {"complete"})' /\ worker'[v].outcome = "succeeded" => RowOf(v)' \in stored' \cap review'
    BY <2>2, <1>1, <1>3, <1>4 DEF Resulted, At
  <2>3. \A v \in Workers : At(v, {"settle", "store", "review", "complete"})' => worker'[v].outcome # "none"
    BY <1>1, <1>3 DEF Resulted, At
  <2>. QED
    BY <2>1, <2>2, <2>3 DEF Resulted
<1>. QED
  BY <1>2, <1>5, <1>6, <1>7

\* Steps that change the row of a job and no worker: its numbers stay, and it does not
\* become succeeded.
LEMMA JobMoves ==
    ASSUME QueueInv, NEW j \in Jobs, NEW b \in JobRow, job' = [job EXCEPT ![j] = b],
           b.epoch = job[j].epoch, b.attempts = job[j].attempts,
           b.status = "succeeded" => job[j].status = "succeeded",
           UNCHANGED <<usage, settled, unknown, stored, review, worker, calls>>,
           crashes' \in Nat, slow' \in Nat
    PROVE  QueueInv'
<1> USE DEF QueueInv
<1>1. job'[j] = b /\ \A k \in Jobs : k # j => job'[k] = job[k]
  BY DEF TypeOK
<1>2. TypeOK'
  BY DEF TypeOK
<1>3. \A k \in Jobs : job'[k].epoch = job[k].epoch /\ job'[k].attempts = job[k].attempts
                      /\ (job'[k].status = "succeeded" => job[k].status = "succeeded")
  BY <1>1
<1>4. \A r \in usage : r[1] \in Jobs
  BY DEF TypeOK, Rows
<1>5. Numbered'
  BY <1>3, <1>4 DEF Numbered, At, RowOf
<1>6. Reserved' /\ Resulted'
  BY <1>3 DEF Reserved, Resulted, SucceededHasResult, At, RowOf
<1>. QED
  BY <1>2, <1>5, <1>6

LEMMA ClaimedRow ==
    ASSUME NEW r \in JobRow, r.epoch = r.attempts
    PROVE  LET b == [r EXCEPT !.status = "running", !.lease = "live", !.epoch = r.epoch + 1,
                              !.attempts = r.attempts + 1]
               n == r.attempts + 1
           IN  b \in JobRow /\ b.epoch = n /\ b.attempts = n /\ b.status = "running" /\ n \in Nat \ {0}
<1> DEFINE n == r.attempts + 1
           b1 == [r EXCEPT !.status = "running"]
           b2 == [b1 EXCEPT !.lease = "live"]
           b3 == [b2 EXCEPT !.epoch = n]
           b4 == [b3 EXCEPT !.attempts = n]
<1>1. n \in Nat \ {0} /\ r.epoch + 1 = n
  BY DEF JobRow
<1>2. b1 \in JobRow /\ b1.status = "running"
  BY DEF JobRow
<1> HIDE DEF n, b1
<1>3. b2 \in JobRow /\ b2.status = "running"
  BY <1>2 DEF JobRow
<1> HIDE DEF b2
<1>4. b3 \in JobRow /\ b3.status = "running" /\ b3.epoch = n
  BY <1>1, <1>3 DEF JobRow
<1> HIDE DEF b3
<1>5. b4 \in JobRow /\ b4.status = "running" /\ b4.epoch = n /\ b4.attempts = n
  BY <1>1, <1>4 DEF JobRow
<1>. QED
  BY <1>1, <1>5 DEF n, b1, b2, b3

\* ClaimJob: the number of the claim is new to the job and to the table of usage.
LEMMA ClaimStep == ASSUME QueueInv, NEW w \in Workers, ClaimJob(w) PROVE QueueInv'
<1> USE DEF QueueInv
<1>1. PICK j \in Jobs :
        /\ worker[w].pc = "idle" /\ Claimable(j)
        /\ job' = [job EXCEPT ![j] = Claimed(j)]
        /\ worker' = [worker EXCEPT ![w] = [pc |-> "prepare", job |-> j, epoch |-> Claimed(j).epoch,
                                            attempt |-> Claimed(j).attempts, outcome |-> "none"]]
        /\ UNCHANGED <<usage, settled, unknown, stored, review, calls, crashes, slow>>
  BY DEF ClaimJob
<1> DEFINE n == job[j].attempts + 1
           b == Claimed(j)
           u == [pc |-> "prepare", job |-> j, epoch |-> b.epoch, attempt |-> b.attempts, outcome |-> "none"]
<1>a. job[j] \in JobRow /\ job[j].epoch = job[j].attempts
  BY DEF TypeOK, Numbered
<1>2. /\ b \in JobRow /\ b.epoch = n /\ b.attempts = n /\ b.status = "running" /\ n \in Nat \ {0}
  BY <1>a, ClaimedRow DEF Claimed
<1>3. /\ u \in WorkerState /\ u.pc = "prepare" /\ u.job = j /\ u.epoch = n /\ u.attempt = n
  BY <1>2 DEF WorkerState
<1> HIDE DEF u, b
<1>4. /\ job'[j] = b /\ \A k \in Jobs : k # j => job'[k] = job[k]
      /\ worker'[w] = u /\ \A v \in Workers : v # w => worker'[v] = worker[v]
  BY <1>1 DEF TypeOK, u, b
<1>5. TypeOK'
  BY <1>1, <1>2, <1>3 DEF TypeOK, u, b
<1>6. \A k \in Jobs : job'[k].epoch = job'[k].attempts /\ job[k].attempts <= job'[k].attempts
                      /\ job[k].attempts \in Nat /\ job'[k].attempts \in Nat
  BY <1>2, <1>4 DEF TypeOK, JobRow, Numbered
<1>7. RowOf(w)' = <<j, n>> /\ \A v \in Workers : v # w => RowOf(v)' = RowOf(v)
  BY <1>3, <1>4 DEF RowOf
<1>8. \A v \in Workers : v # w /\ ~At(v, {"idle"}) => RowOf(v) # <<j, n>>
  BY DEF Numbered, RowOf, TypeOK, WorkerState, JobRow
<1>9. \A r \in usage : r \in Jobs \X Nat /\ r # <<j, n>>
  BY DEF Numbered, TypeOK, Rows, JobRow
<1>10. Numbered'
  <2>1. ASSUME NEW v \in Workers, ~At(v, {"idle"})' PROVE
          /\ worker'[v].job \in Jobs
          /\ worker'[v].attempt = worker'[v].epoch /\ worker'[v].attempt > 0
          /\ worker'[v].attempt <= job'[worker'[v].job].attempts
    <3>1. CASE v = w
      BY <3>1, <1>2, <1>3, <1>4
    <3>2. CASE v # w
      <4>1. /\ worker[v].job \in Jobs /\ worker[v].attempt = worker[v].epoch /\ worker[v].attempt > 0
            /\ worker[v].attempt <= job[worker[v].job].attempts /\ worker[v].attempt \in Nat
        BY <2>1, <3>2, <1>4 DEF Numbered, At, TypeOK, WorkerState
      <4>. QED
        BY <4>1, <3>2, <1>4, <1>6
    <3>. QED
      BY <3>1, <3>2
  <2>2. \A v \in Workers : At(v, {"idle"})' => worker'[v].job = NoJob
    BY <1>3, <1>4 DEF Numbered, At
  <2>3. ASSUME NEW v \in Workers, NEW x \in Workers, ~At(v, {"idle"})', ~At(x, {"idle"})', v # x
        PROVE  RowOf(v)' # RowOf(x)'
    BY <2>3, <1>4, <1>7, <1>8 DEF Numbered, At
  <2>4. \A r \in usage' : r[2] <= job'[r[1]].attempts
    BY <1>1, <1>6, <1>9 DEF Numbered
  <2>. QED
    BY <2>1, <2>2, <2>3, <2>4, <1>6 DEF Numbered
<1>11. Reserved'
  BY <1>1, <1>3, <1>4, <1>7, <1>9 DEF Reserved, At
<1>12. Resulted'
  <2>1. SucceededHasResult'
    BY <1>1, <1>2, <1>4 DEF Resulted, SucceededHasResult
  <2>. QED
    BY <2>1, <1>1, <1>3, <1>4, <1>7 DEF Resulted, At
<1>. QED
  BY <1>5, <1>10, <1>11, <1>12

\* CompleteJob: a job that ends as succeeded has the result of the worker that ended it.
LEMMA CompleteStep == ASSUME QueueInv, NEW w \in Workers, CompleteJob(w) PROVE QueueInv'
<1> USE DEF QueueInv
<1> DEFINE j == worker[w].job
           own == job[j].status = "running" /\ job[j].epoch = worker[w].epoch
           b == [job[j] EXCEPT !.status = worker[w].outcome, !.lease = "none"]
<1>1. /\ j \in Jobs /\ worker[w].pc = "complete" /\ worker' = [worker EXCEPT ![w] = IdleWorker]
      /\ job' = IF own THEN [job EXCEPT ![j].status = worker[w].outcome, ![j].lease = "none"] ELSE job
      /\ UNCHANGED <<usage, settled, unknown, stored, review, calls, crashes, slow>>
  BY DEF CompleteJob, Numbered, At
<1>2. b \in JobRow /\ b.epoch = job[j].epoch /\ b.attempts = job[j].attempts /\ b.status = worker[w].outcome
  BY <1>1 DEF TypeOK, JobRow, WorkerState, Resulted, At
<1> HIDE DEF b
<1>3. job' = IF own THEN [job EXCEPT ![j] = b] ELSE job
  BY <1>1 DEF b
<1>4. ~At(w, {"idle"}) /\ IdleWorker \in WorkerState
  BY <1>1 DEF At, IdleWorker, WorkerState
<1>5. job' \in [Jobs -> JobRow]
  BY <1>1, <1>2, <1>3 DEF TypeOK
<1>6. ASSUME NEW k \in Jobs PROVE
        /\ job'[k].epoch = job[k].epoch /\ job'[k].attempts = job[k].attempts
        /\ job'[k].status = "succeeded" /\ KindOf[k] = "extract" =>
              job[k].status = "succeeded" \/ \E r \in stored' \cap review' : r[1] = k
  <2>1. CASE k # j \/ ~own
    BY <2>1, <1>1, <1>3 DEF TypeOK
  <2>2. CASE k = j /\ own
    <3>1. job'[k] = b
      BY <2>2, <1>1, <1>3 DEF TypeOK
    <3>2. worker[w].outcome = "succeeded" /\ KindOf[k] = "extract" => <<k, worker[w].attempt>> \in stored \cap review
      BY <2>2, <1>1, <1>4 DEF Resulted, At, RowOf
    <3>. QED
      BY <3>1, <3>2, <2>2, <1>1, <1>2
  <2>. QED
    BY <2>1, <2>2
<1>7. /\ stored \subseteq stored' /\ review \subseteq review' /\ stored' \subseteq Rows /\ review' \subseteq Rows
      /\ calls' \in [Jobs -> Nat] /\ crashes' \in Nat /\ slow' \in Nat
  BY <1>1 DEF TypeOK
<1>. QED
  BY <1>1, <1>4, <1>5, <1>6, <1>7, WorkerGoes
\* A worker that goes on keeps its lease and its attempt.
LEMMA RowMoved ==
    ASSUME TypeOK, NEW w \in Workers, NEW u \in WorkerState, worker' = [worker EXCEPT ![w] = u],
           u.job = worker[w].job, u.attempt = worker[w].attempt
    PROVE  /\ worker'[w] = u /\ RowOf(w)' = RowOf(w)
           /\ \A v \in Workers : v # w => worker'[v] = worker[v] /\ RowOf(v)' = RowOf(v)
  BY DEF TypeOK, RowOf

\* Reserve when the budget pays: the row is new, and the worker's own.
LEMMA ReserveTakes ==
    ASSUME QueueInv, NEW w \in Workers, At(w, {"reserve"}), Goes(w, "call"),
           usage' = usage \cup {RowOf(w)},
           UNCHANGED <<job, settled, unknown, stored, review, calls, crashes, slow>>
    PROVE  QueueInv'
<1> USE DEF QueueInv
<1> DEFINE u == [worker[w] EXCEPT !.pc = "call"]
<1>1. /\ u \in WorkerState /\ u.pc = "call" /\ u.job = worker[w].job /\ u.attempt = worker[w].attempt
      /\ u.epoch = worker[w].epoch /\ worker' = [worker EXCEPT ![w] = u]
  BY DEF Goes, TypeOK, WorkerState
<1> HIDE DEF u
<1>2. /\ worker'[w] = u /\ RowOf(w)' = RowOf(w)
      /\ \A v \in Workers : v # w => worker'[v] = worker[v] /\ RowOf(v)' = RowOf(v)
  BY <1>1, RowMoved
<1>3. /\ worker[w].job \in Jobs /\ worker[w].attempt > 0 /\ worker[w].attempt \in Nat
      /\ worker[w].attempt <= job[worker[w].job].attempts
  BY DEF Numbered, At, TypeOK, WorkerState
<1>4. RowOf(w) \in Rows /\ RowOf(w)[1] = worker[w].job /\ RowOf(w)[2] = worker[w].attempt
  BY <1>3 DEF RowOf, Rows
<1>5. TypeOK'
  BY <1>1, <1>4 DEF TypeOK
<1>6. Numbered'
  <2>1. \A v \in Workers : /\ worker'[v].job = worker[v].job /\ worker'[v].attempt = worker[v].attempt
                           /\ worker'[v].epoch = worker[v].epoch /\ RowOf(v)' = RowOf(v)
                           /\ (At(v, {"idle"})' <=> At(v, {"idle"}))
    BY <1>1, <1>2 DEF At
  <2>2. \A r \in usage' : r[2] <= job'[r[1]].attempts
    BY <1>3, <1>4 DEF Numbered
  <2>. QED
    BY <2>1, <2>2 DEF Numbered
<1>7. RowOf(w) \notin usage /\ \A v \in Workers : v # w /\ ~At(v, {"idle"}) => RowOf(v) # RowOf(w)
  BY DEF Reserved, Numbered, At
<1>8. Reserved'
  BY <1>1, <1>2, <1>7 DEF Reserved, At, TypeOK
<1>9. Resulted'
  BY <1>1, <1>2 DEF Resulted, SucceededHasResult, At
<1>. QED
  BY <1>5, <1>6, <1>8, <1>9

\* Settle writes the row of its own attempt, which nobody else waits for.
LEMMA SettleStep == ASSUME QueueInv, NEW w \in Workers, Settle(w) PROVE QueueInv'
<1> USE DEF QueueInv
<1> DEFINE good == worker[w].outcome = "succeeded"
           u == [worker[w] EXCEPT !.pc = IF good THEN "store" ELSE "complete"]
<1>1. /\ At(w, {"settle"}) /\ worker' = [worker EXCEPT ![w] = u]
      /\ settled' = IF good THEN settled \cup {RowOf(w)} ELSE settled \ {RowOf(w)}
      /\ unknown' = IF good THEN unknown \ {RowOf(w)} ELSE unknown \cup {RowOf(w)}
      /\ UNCHANGED <<job, usage, stored, review, calls, crashes, slow>>
  BY DEF Settle, Goes, At
<1>2. /\ u \in WorkerState /\ u.job = worker[w].job /\ u.attempt = worker[w].attempt
      /\ u.epoch = worker[w].epoch /\ u.outcome = worker[w].outcome
      /\ u.pc = IF good THEN "store" ELSE "complete"
  BY DEF TypeOK, WorkerState
<1> HIDE DEF u
<1>3. /\ worker'[w] = u /\ RowOf(w)' = RowOf(w)
      /\ \A v \in Workers : v # w => worker'[v] = worker[v] /\ RowOf(v)' = RowOf(v)
  BY <1>1, <1>2, RowMoved
<1>4. RowOf(w) \in usage
  BY <1>1 DEF Reserved, At
<1>5. TypeOK'
  BY <1>1, <1>2, <1>4 DEF TypeOK
<1>6. Numbered'
  <2>1. \A v \in Workers : /\ worker'[v].job = worker[v].job /\ worker'[v].attempt = worker[v].attempt
                           /\ worker'[v].epoch = worker[v].epoch /\ RowOf(v)' = RowOf(v)
                           /\ (At(v, {"idle"})' <=> At(v, {"idle"}))
    BY <1>1, <1>2, <1>3 DEF At
  <2>. QED
    BY <1>1, <2>1 DEF Numbered
<1>7. \A v \in Workers : v # w /\ ~At(v, {"idle"}) => RowOf(v) # RowOf(w)
  BY <1>1 DEF Numbered, At
<1>8. Reserved'
  BY <1>1, <1>2, <1>3, <1>7 DEF Reserved, At
<1>9. Resulted'
  BY <1>1, <1>2, <1>3 DEF Resulted, SucceededHasResult, At
<1>. QED
  BY <1>5, <1>6, <1>8, <1>9

----------------------------------------------------------------------------

\* The statements of ProcessJob, one by one.
LEMMA ProcessStep == ASSUME QueueInv, NEW w \in Workers, Process(w) PROVE QueueInv'
<1> USE DEF QueueInv
<1> DEFINE j == worker[w].job
<1>t. /\ stored \subseteq Rows /\ review \subseteq Rows /\ calls \in [Jobs -> Nat]
      /\ crashes \in Nat /\ slow \in Nat /\ job \in [Jobs -> JobRow]
      /\ worker \in [Workers -> WorkerState] /\ worker[w] \in WorkerState
  BY DEF TypeOK
<1>r. ~At(w, {"idle"}) => RowOf(w) \in Rows /\ j \in Jobs /\ KindOf[j] \in {"extract", "ingest"}
  BY <1>t, KindAssumption DEF Numbered, RowOf, Rows, WorkerState
<1> DEFINE goes(pc) == [worker[w] EXCEPT !.pc = pc]
           ends(pc, outcome) == [worker[w] EXCEPT !.pc = pc, !.outcome = outcome]
<1>g. ASSUME NEW pc \in {"fetch", "reserve", "call", "settle", "store", "review", "complete"}
      PROVE  /\ goes(pc) \in WorkerState /\ goes(pc).pc = pc /\ goes(pc).job = j
             /\ goes(pc).epoch = worker[w].epoch /\ goes(pc).attempt = worker[w].attempt
             /\ goes(pc).outcome = worker[w].outcome
  BY <1>t DEF WorkerState
<1>e. ASSUME NEW pc \in {"settle", "review", "complete"}, NEW outcome \in Outcomes
      PROVE  /\ ends(pc, outcome) \in WorkerState /\ ends(pc, outcome).pc = pc /\ ends(pc, outcome).job = j
             /\ ends(pc, outcome).epoch = worker[w].epoch /\ ends(pc, outcome).attempt = worker[w].attempt
             /\ ends(pc, outcome).outcome = outcome
  BY <1>t DEF WorkerState
<1>i. IdleWorker \in WorkerState
  BY DEF IdleWorker, WorkerState
<1>o. "none" \notin Outcomes
  BY DEF Outcomes
<1>y. \A pc \in {"fetch", "reserve", "call", "settle", "store", "review", "complete"} :
        Goes(w, pc) => worker' = [worker EXCEPT ![w] = goes(pc)]
  BY DEF Goes
<1>z. \A outcome \in Outcomes : Ends(w, outcome) => worker' = [worker EXCEPT ![w] = ends("complete", outcome)]
  BY <1>t DEF Ends
<1> HIDE DEF goes, ends
<1>E. ASSUME NEW o \in Outcomes, Ends(w, o), ~At(w, {"idle"}), KindOf[j] = "extract" => o # "succeeded",
             UNCHANGED <<job, usage, settled, unknown, stored, review, calls, crashes, slow>>
      PROVE  QueueInv'
  <2> DEFINE u == ends("complete", o)
  <2>1. /\ u \in WorkerState /\ worker' = [worker EXCEPT ![w] = u] /\ u.pc = "complete" /\ u.job = j
        /\ u.epoch = worker[w].epoch /\ u.attempt = worker[w].attempt /\ u.outcome = o
    BY <1>E, <1>z, <1>e
  <2> HIDE DEF u, QueueInv
  <2>. QED
    BY <1>t, <1>E, <1>o, <2>1, WorkerGoes
<1>1. CASE Prepare(w)
  <2>1. At(w, {"prepare"}) /\ ~At(w, {"idle"}) /\ UNCHANGED <<job, usage, settled, unknown, stored, review, calls, crashes, slow>>
    BY <1>1 DEF Prepare, At, rows
  <2>2. ASSUME NEW pc \in {"fetch", "reserve"}, Goes(w, pc), pc = "fetch" => KindOf[j] = "ingest" PROVE QueueInv'
    <3> DEFINE u == goes(pc)
    <3>1. /\ u \in WorkerState /\ u.pc = pc /\ u.job = j /\ u.epoch = worker[w].epoch
          /\ u.attempt = worker[w].attempt /\ worker' = [worker EXCEPT ![w] = u]
      BY <2>2, <1>g, <1>y
    <3>2. At(w, {"prepare", "fetch", "reserve"})
      BY <2>1 DEF At
    <3> HIDE DEF u, QueueInv
    <3>. QED
      BY <1>t, <2>1, <2>2, <3>1, <3>2, WorkerGoes
  <2>3. CASE KindOf[j] = "ingest" /\ Goes(w, "fetch")
    BY <2>2, <2>3
  <2>4. ASSUME NEW o \in {"partial", "failed"}, Ends(w, o) PROVE QueueInv'
    BY <2>1, <2>4, <1>E DEF Outcomes
  <2>. QED
    BY <1>1, <2>2, <2>3, <2>4 DEF Prepare
<1>2. CASE Fetch(w)
  <2>1. At(w, {"fetch"}) /\ ~At(w, {"idle"}) /\ UNCHANGED <<job, usage, settled, unknown, stored, review, calls, crashes, slow>>
    BY <1>2 DEF Fetch, At, rows
  <2>2. KindOf[j] # "extract"
    BY <2>1 DEF Resulted
  <2>3. ASSUME NEW o \in Outcomes, Ends(w, o) PROVE QueueInv'
    BY <2>1, <2>2, <2>3, <1>E
  <2>4. CASE worker' = [worker EXCEPT ![w].pc = "review", ![w].outcome = "partial"]
    <3> DEFINE u == ends("review", "partial")
    <3>1. worker' = [worker EXCEPT ![w] = u]
      BY <2>4, <1>t DEF ends
    <3>2. /\ u \in WorkerState /\ u.pc = "review" /\ u.job = j /\ u.epoch = worker[w].epoch
          /\ u.attempt = worker[w].attempt /\ u.outcome = "partial"
      BY <1>e DEF Outcomes
    <3> HIDE DEF u, QueueInv
    <3>. QED
      BY <1>t, <2>1, <2>2, <3>1, <3>2, WorkerGoes
  <2>. QED
    BY <1>2, <2>3, <2>4 DEF Fetch
<1>3. CASE Reserve(w)
  <2>1. At(w, {"reserve"}) /\ ~At(w, {"idle"}) /\ UNCHANGED <<job, settled, unknown, stored, review, calls, crashes, slow>>
    BY <1>3 DEF Reserve, At
  <2>2. CASE Ends(w, "failed") /\ UNCHANGED usage
    BY <2>1, <2>2, <1>E DEF Outcomes
  <2>3. CASE Goes(w, "call") /\ usage' = usage \cup {RowOf(w)}
    BY <2>1, <2>3, ReserveTakes
  <2>. QED
    BY <1>3, <2>2, <2>3 DEF Reserve
<1>4. CASE CallModel(w)
  <2>1. At(w, {"call"}) /\ ~At(w, {"idle"}) /\ UNCHANGED <<job, usage, settled, unknown, stored, review, crashes, slow>>
    BY <1>4 DEF CallModel, At, rows
  <2>2. calls' \in [Jobs -> Nat]
    BY <1>4, <1>t DEF CallModel
  <2>3. PICK o \in Outcomes : worker' = [worker EXCEPT ![w].pc = "settle", ![w].outcome = o]
    BY <1>4 DEF CallModel, Outcomes
  <2> DEFINE u == ends("settle", o)
  <2>4. worker' = [worker EXCEPT ![w] = u]
    BY <2>3, <1>t DEF ends
  <2>5. /\ u \in WorkerState /\ u.pc = "settle" /\ u.job = j /\ u.epoch = worker[w].epoch
        /\ u.attempt = worker[w].attempt /\ u.outcome # "none"
    BY <1>e, <1>o
  <2> HIDE DEF u, QueueInv
  <2>. QED
    BY <1>t, <2>1, <2>2, <2>4, <2>5, WorkerGoes
<1>5. CASE Settle(w)
  BY <1>5, SettleStep
<1>6. CASE Store(w)
  <2>1. At(w, {"store"}) /\ ~At(w, {"idle"}) /\ UNCHANGED <<job, usage, settled, unknown, review, calls, crashes, slow>>
    BY <1>6 DEF Store, At
  <2>2. CASE stored' = stored \cup {RowOf(w)} /\ Goes(w, "review")
    <3> DEFINE u == goes("review")
    <3>1. /\ u \in WorkerState /\ u.pc = "review" /\ u.job = j /\ u.epoch = worker[w].epoch
          /\ u.attempt = worker[w].attempt /\ u.outcome # "none" /\ worker' = [worker EXCEPT ![w] = u]
      BY <2>1, <2>2, <1>g, <1>y DEF Resulted, At
    <3>2. stored \subseteq stored' /\ stored' \subseteq Rows /\ RowOf(w) \in stored'
      BY <2>1, <2>2, <1>t, <1>r
    <3> HIDE DEF u, QueueInv
    <3>. QED
      BY <1>t, <2>1, <3>1, <3>2, WorkerGoes
  <2>3. CASE worker' = [worker EXCEPT ![w] = IdleWorker] /\ UNCHANGED stored
    <3> HIDE DEF QueueInv
    <3>. QED
      BY <1>t, <1>i, <2>1, <2>3, WorkerGoes
  <2>. QED
    BY <1>6, <2>2, <2>3 DEF Store
<1>7. CASE Review(w)
  <2> DEFINE u == goes("complete")
  <2>1. /\ At(w, {"review"}) /\ ~At(w, {"idle"}) /\ review' = review \cup {RowOf(w)}
        /\ UNCHANGED <<job, usage, settled, unknown, stored, calls, crashes, slow>>
    BY <1>7 DEF Review, At
  <2>2. /\ u \in WorkerState /\ u.pc = "complete" /\ u.job = j /\ u.epoch = worker[w].epoch
        /\ u.attempt = worker[w].attempt /\ u.outcome # "none" /\ worker' = [worker EXCEPT ![w] = u]
    BY <1>7, <2>1, <1>g, <1>y DEF Review, Resulted, At
  <2>3. /\ review \subseteq review' /\ review' \subseteq Rows
        /\ KindOf[j] = "extract" => RowOf(w) \in stored' \cap review'
    BY <2>1, <1>t, <1>r DEF Resulted
  <2> HIDE DEF u, QueueInv
  <2>. QED
    BY <1>t, <2>1, <2>2, <2>3, WorkerGoes
<1>8. CASE CompleteJob(w)
  BY <1>8, CompleteStep
<1>. QED
  BY <1>1, <1>2, <1>3, <1>4, <1>5, <1>6, <1>7, <1>8 DEF Process

LEMMA QueueStepInv == QueueInv /\ [QueueNext]_vars => QueueInv'
<1> SUFFICES ASSUME QueueInv, [QueueNext]_vars PROVE QueueInv'
  OBVIOUS
<1> USE DEF QueueInv
<1>t. /\ stored \subseteq Rows /\ review \subseteq Rows /\ calls \in [Jobs -> Nat]
      /\ crashes \in Nat /\ slow \in Nat /\ job \in [Jobs -> JobRow] /\ worker \in [Workers -> WorkerState]
  BY DEF TypeOK
<1>1. CASE UNCHANGED vars
  BY <1>1 DEF vars, TypeOK, Numbered, Reserved, Resulted, SucceededHasResult, At, RowOf
<1>2. ASSUME NEW j \in Jobs, CreateJob(j) PROVE QueueInv'
  <2> DEFINE b == [job[j] EXCEPT !.status = "queued", !.created = Cardinality(Known)]
  <2>1. Cardinality(Known) \in Nat
    BY JobsAssumption, FS_Subset, FS_CardinalityType DEF Known
  <2>2. /\ b \in JobRow /\ b.epoch = job[j].epoch /\ b.attempts = job[j].attempts
        /\ b.status = "queued"
    BY <2>1, <1>t DEF JobRow
  <2>3. job' = [job EXCEPT ![j] = b] /\ UNCHANGED <<usage, settled, unknown, stored, review, worker, calls, crashes, slow>>
    BY <1>2 DEF CreateJob
  <2> HIDE DEF b
  <2>. QED
    BY <1>t, <2>2, <2>3, JobMoves
<1>3. ASSUME NEW j \in Jobs, LeaseRunsOut(j) \/ LeaseRunsOutUnder(j) PROVE QueueInv'
  <2> DEFINE b == [job[j] EXCEPT !.lease = "expired"]
  <2>1. /\ b \in JobRow /\ b.epoch = job[j].epoch /\ b.attempts = job[j].attempts
        /\ b.status = job[j].status
    BY <1>t DEF JobRow
  <2>2. job' = [job EXCEPT ![j] = b] /\ UNCHANGED <<usage, settled, unknown, stored, review, worker, calls, crashes>>
    BY <1>3 DEF LeaseRunsOut, LeaseRunsOutUnder, RunsOut
  <2>3. slow' \in Nat
    BY <1>3, <1>t DEF LeaseRunsOut, LeaseRunsOutUnder
  <2> HIDE DEF b
  <2>. QED
    BY <1>t, <2>1, <2>2, <2>3, JobMoves
<1>4. ASSUME NEW w \in Workers, ClaimJob(w) PROVE QueueInv'
  BY <1>4, ClaimStep
<1>5. ASSUME NEW w \in Workers, Process(w) PROVE QueueInv'
  BY <1>5, ProcessStep
<1>6. ASSUME NEW w \in Workers, WorkerLost(w) PROVE QueueInv'
  <2>1. /\ ~At(w, {"idle"}) /\ worker' = [worker EXCEPT ![w] = IdleWorker] /\ crashes' = crashes + 1
        /\ UNCHANGED <<job, usage, settled, unknown, stored, review, calls, slow>>
    BY <1>6 DEF WorkerLost, At, rows
  <2>2. IdleWorker \in WorkerState
    BY DEF IdleWorker, WorkerState
  <2>3. crashes' \in Nat
    BY <1>t, <2>1
  <2> HIDE DEF QueueInv
  <2>. QED
    BY <1>t, <2>1, <2>2, <2>3, WorkerGoes
<1>. QED
  BY <1>1, <1>2, <1>3, <1>4, <1>5, <1>6 DEF QueueNext
\* Types of the queue and of its tables.
THEOREM TypeCorrect == QueueSpec => []TypeOK
  BY QueueInitInv, QueueStepInv, PTL DEF QueueSpec, QueueInv

\* An extraction that succeeded has a result and a review item of one attempt at it
\* (ProcessJob stores both before it completes the job).
THEOREM SuccessHasResult == QueueSpec => []SucceededHasResult
  BY QueueInitInv, QueueStepInv, PTL DEF QueueSpec, QueueInv, Resulted

\* CompleteJob: a worker whose lease was taken over does not decide the outcome of the
\* job, however late it comes.
THEOREM LatestDecides == QueueSpec => OutcomeIsLatest
<1>1. ASSUME QueueInv, [QueueNext]_vars, NEW j \in Jobs, job[j].status = "running", job'[j].status \in Outcomes,
             NEW v \in Workers, worker[v].job = j, worker[v].attempt < job[j].attempts
      PROVE  worker'[v] = worker[v]
  <2> USE <1>1 DEF QueueInv
  <2>1. PICK w \in Workers : CompleteJob(w) /\ worker[w].job = j /\ job[j].epoch = worker[w].epoch
    <3>1. \A w \in Workers : Process(w) => (CompleteJob(w) \/ UNCHANGED job)
      BY DEF Process, Prepare, Fetch, Reserve, CallModel, Settle, Store, Review, rows
    <3>2. \A w \in Workers : ~ClaimJob(w)
      <4>1. ASSUME NEW w \in Workers, ClaimJob(w) PROVE FALSE
        <5>1. PICK k \in Jobs : job' = [job EXCEPT ![k] = Claimed(k)]
          BY <4>1 DEF ClaimJob
        <5>2. job[k] \in JobRow /\ job[k].epoch = job[k].attempts
          BY DEF TypeOK, Numbered
        <5>3. Claimed(k).status = "running"
          BY <5>2, ClaimedRow DEF Claimed
        <5>4. job'[j] = job[j] \/ (k = j /\ job'[j] = Claimed(k))
          BY <5>1 DEF TypeOK
        <5>. QED
          BY <1>1, <5>3, <5>4 DEF Outcomes
      <4>. QED
        BY <4>1
    <3>3. \A k \in Jobs : ~CreateJob(k) /\ ~LeaseRunsOut(k) /\ ~LeaseRunsOutUnder(k)
      BY <1>1 DEF CreateJob, LeaseRunsOut, LeaseRunsOutUnder, RunsOut, TypeOK, JobRow, Outcomes
    <3>4. job' # job
      BY <1>1 DEF Outcomes
    <3>5. PICK w \in Workers : CompleteJob(w)
      BY <1>1, <3>1, <3>2, <3>3, <3>4 DEF QueueNext, vars, WorkerLost, rows
    <3>6. worker[w].job = j /\ job[j].epoch = worker[w].epoch
      BY <1>1, <3>4, <3>5 DEF CompleteJob, TypeOK, Outcomes
    <3>. QED
      BY <3>5, <3>6
  <2>2. worker[w].attempt = job[j].attempts /\ job[j].attempts \in Nat
    BY <2>1 DEF CompleteJob, Numbered, At, TypeOK, JobRow
  <2>3. v # w
    BY <1>1, <2>2
  <2>. QED
    BY <2>1, <2>3 DEF CompleteJob, TypeOK
<1>2. QueueInv /\ [QueueNext]_vars =>
        [\A j \in Jobs : job[j].status = "running" /\ job'[j].status \in Outcomes =>
            \A w \in Workers : worker[w].job = j /\ worker[w].attempt < job[j].attempts =>
                worker'[w] = worker[w]]_vars
  BY <1>1
<1>. QED
  BY <1>2, QueueInitInv, QueueStepInv, PTL DEF QueueSpec, OutcomeIsLatest

\* SettleModelUsage: no row of usage is settled twice, whoever claims its job again.
THEOREM SettlesOnce == QueueSpec => SettledOnce
<1>1. ASSUME QueueInv, [QueueNext]_vars, NEW r \in usage
      PROVE  /\ r \in settled => r \in settled' /\ r \notin unknown'
             /\ r \in unknown => r \in unknown' /\ r \notin settled'
  <2> USE <1>1 DEF QueueInv
  <2>1. CASE UNCHANGED <<settled, unknown>>
    BY <2>1 DEF Reserved
  <2>2. ASSUME NEW w \in Workers, Settle(w)
        PROVE  /\ r \in settled => r \in settled' /\ r \notin unknown'
               /\ r \in unknown => r \in unknown' /\ r \notin settled'
    BY <2>2 DEF Settle, Reserved, At
  <2>3. UNCHANGED <<settled, unknown>> \/ \E w \in Workers : Settle(w)
    <3>1. \A w \in Workers : Process(w) => Settle(w) \/ UNCHANGED <<settled, unknown>>
      BY DEF Process, Prepare, Fetch, Reserve, CallModel, Store, Review, CompleteJob, rows
    <3>. QED
      BY <1>1, <3>1 DEF QueueNext, vars, CreateJob, LeaseRunsOut, LeaseRunsOutUnder, RunsOut, ClaimJob, WorkerLost, rows
  <2>. QED
    BY <2>1, <2>2, <2>3
<1>2. QueueInv /\ [QueueNext]_vars =>
        [\A r \in usage : /\ r \in settled => r \in settled' /\ r \notin unknown'
                          /\ r \in unknown => r \in unknown' /\ r \notin settled']_vars
  BY <1>1
<1>. QED
  BY <1>2, QueueInitInv, QueueStepInv, PTL DEF QueueSpec, SettledOnce

----------------------------------------------------------------------------

\* Reservations of job j whose call is over or lost; one that a worker holds before its
\* call has not been used yet.
Used(j) == {r \in usage : r[1] = j /\ ~\E w \in Workers : At(w, {"call"}) /\ RowOf(w) = r}

Paid == /\ IsFiniteSet(usage) /\ Cardinality(usage) <= CallLimit
        /\ \A j \in Jobs : calls[j] <= Cardinality(Used(j))

\* Steps after which every job has no fewer used reservations, and no more calls.
LEMMA UsedGrows ==
    ASSUME TypeOK, Paid, UNCHANGED calls, IsFiniteSet(usage'), Cardinality(usage') <= CallLimit,
           \A j \in Jobs : Used(j) \subseteq Used(j)'
    PROVE  Paid'
<1>1. ASSUME NEW j \in Jobs PROVE calls'[j] <= Cardinality(Used(j)')
  <2>1. IsFiniteSet(Used(j)')
    BY FS_Subset DEF Used
  <2>2. IsFiniteSet(Used(j)) /\ Cardinality(Used(j)) <= Cardinality(Used(j)')
    BY <2>1, FS_Subset
  <2>3. Cardinality(Used(j)) \in Nat /\ Cardinality(Used(j)') \in Nat
    BY <2>1, <2>2, FS_CardinalityType
  <2>4. calls'[j] = calls[j] /\ calls[j] \in Nat /\ calls[j] <= Cardinality(Used(j))
    BY DEF Paid, TypeOK
  <2>. QED
    BY <2>2, <2>3, <2>4
<1>. QED
  BY <1>1 DEF Paid

\* Steps after which the workers at their call are the same as before, or fewer.
LEMMA NoNewCall ==
    ASSUME TypeOK, Paid, UNCHANGED <<usage, calls>>,
           \A w \in Workers : At(w, {"call"})' => At(w, {"call"}) /\ RowOf(w)' = RowOf(w)
    PROVE  Paid'
<1>1. \A j \in Jobs : Used(j) \subseteq Used(j)'
  BY DEF Used
<1>2. IsFiniteSet(usage') /\ Cardinality(usage') <= CallLimit
  BY DEF Paid
<1>. QED
  BY <1>1, <1>2, UsedGrows

\* A new reservation has not been used: its worker is about to call.
LEMMA ReservePaid == ASSUME QueueInv, Paid, NEW w \in Workers, Reserve(w) PROVE Paid'
<1>t. TypeOK /\ At(w, {"reserve"}) /\ UNCHANGED calls
  BY DEF QueueInv, Reserve, At
<1>1. CASE Ends(w, "failed") /\ UNCHANGED usage
  <2>1. \A v \in Workers : At(v, {"call"})' => At(v, {"call"}) /\ RowOf(v)' = RowOf(v)
    BY <1>t, <1>1 DEF Ends, TypeOK, At, RowOf
  <2>. QED
    BY <1>t, <1>1, <2>1, NoNewCall
<1>2. CASE Cardinality(usage) < CallLimit /\ Goes(w, "call") /\ usage' = usage \cup {RowOf(w)}
  <2>1. RowOf(w) \notin usage
    BY <1>t DEF QueueInv, Reserved, At
  <2>2. IsFiniteSet(usage') /\ Cardinality(usage') <= CallLimit
    <3>1. IsFiniteSet(usage) /\ Cardinality(usage) \in Nat
      BY FS_CardinalityType DEF Paid
    <3>2. IsFiniteSet(usage') /\ Cardinality(usage') = Cardinality(usage) + 1
      BY <1>2, <2>1, <3>1, FS_AddElement
    <3>. QED
      BY <1>2, <3>1, <3>2, BoundAssumption
  <2>3. \A v \in Workers : /\ RowOf(v)' = RowOf(v)
                           /\ At(v, {"call"})' => At(v, {"call"}) \/ v = w
    BY <1>2, <1>t DEF Goes, TypeOK, At, RowOf, WorkerState
  <2>4. \A j \in Jobs : Used(j) \subseteq Used(j)'
    BY <1>2, <2>1, <2>3 DEF Used
  <2>. QED
    BY <1>t, <2>2, <2>4, UsedGrows
<1>. QED
  <2>1. Cardinality(usage) \in Nat /\ CallLimit \in Nat
    BY FS_CardinalityType, BoundAssumption DEF Paid
  <2>. QED
    BY <1>1, <1>2, <2>1 DEF Reserve

\* A call uses the reservation of its own attempt.
LEMMA CallPaid == ASSUME QueueInv, Paid, NEW w \in Workers, CallModel(w) PROVE Paid'
<1>t. TypeOK /\ At(w, {"call"}) /\ UNCHANGED usage /\ worker[w].job \in Jobs
  BY DEF QueueInv, CallModel, At, rows, Numbered
<1>j. PICK j \in Jobs : j = worker[w].job
  BY <1>t
<1>1. PICK o \in Outcomes : worker' = [worker EXCEPT ![w].pc = "settle", ![w].outcome = o]
  BY DEF CallModel, Outcomes
<1>2. \A v \in Workers : RowOf(v)' = RowOf(v) /\ (At(v, {"call"})' <=> At(v, {"call"}) /\ v # w)
  BY <1>1, <1>t DEF TypeOK, At, RowOf, WorkerState
<1>3. CASE UNCHANGED calls
  BY <1>t, <1>2, <1>3, NoNewCall
<1>4. CASE calls' = [calls EXCEPT ![j] = @ + 1]
  <2>1. /\ RowOf(w) \in usage /\ RowOf(w)[1] = j
        /\ \A v \in Workers : v # w /\ At(v, {"call"}) => RowOf(v) # RowOf(w)
    BY <1>t, <1>j DEF QueueInv, Reserved, Numbered, At, RowOf
  <2>2. RowOf(w) \notin Used(j) /\ Used(j) \cup {RowOf(w)} \subseteq Used(j)'
    BY <1>t, <1>2, <2>1 DEF Used
  <2>3. \A k \in Jobs : Used(k) \subseteq Used(k)' /\ IsFiniteSet(Used(k)) /\ IsFiniteSet(Used(k)')
    BY <1>t, <1>2, FS_Subset DEF Used, Paid
  <2>4. \A k \in Jobs : /\ Cardinality(Used(k)) <= Cardinality(Used(k)')
                        /\ Cardinality(Used(k)) \in Nat /\ Cardinality(Used(k)') \in Nat
    BY <2>3, FS_Subset, FS_CardinalityType
  <2>5. Cardinality(Used(j)) + 1 <= Cardinality(Used(j)')
    <3>1. Cardinality(Used(j) \cup {RowOf(w)}) = Cardinality(Used(j)) + 1
      BY <1>t, <2>2, <2>3, FS_AddElement
    <3>2. Cardinality(Used(j) \cup {RowOf(w)}) <= Cardinality(Used(j)')
      BY <1>t, <2>2, <2>3, FS_Subset
    <3>. QED
      BY <3>1, <3>2
  <2>6. \A k \in Jobs : calls[k] \in Nat /\ calls[k] <= Cardinality(Used(k))
    BY <1>t DEF Paid, TypeOK
  <2>7. \A k \in Jobs : calls'[k] = IF k = j THEN calls[k] + 1 ELSE calls[k]
    BY <1>t, <1>4 DEF TypeOK
  <2>8. \A k \in Jobs : calls'[k] <= Cardinality(Used(k)')
    BY <1>t, <2>4, <2>5, <2>6, <2>7
  <2>. QED
    BY <1>t, <2>8 DEF Paid
<1>. QED
  BY <1>j, <1>3, <1>4 DEF CallModel

LEMMA StepPaid == QueueInv /\ Paid /\ [QueueNext]_vars => Paid'
<1> SUFFICES ASSUME QueueInv, Paid, [QueueNext]_vars PROVE Paid'
  OBVIOUS
<1>t. TypeOK
  BY DEF QueueInv
<1>1. ASSUME NEW w \in Workers, Reserve(w) PROVE Paid'
  BY <1>1, ReservePaid
<1>2. ASSUME NEW w \in Workers, CallModel(w) PROVE Paid'
  BY <1>2, CallPaid
<1>3. CASE UNCHANGED <<usage, calls, worker>>
  BY <1>t, <1>3, NoNewCall DEF At, RowOf
<1>4. ASSUME NEW w \in Workers, UNCHANGED <<usage, calls>>, NEW u, worker' = [worker EXCEPT ![w] = u],
             u.pc # "call"
      PROVE  Paid'
  <2>1. \A v \in Workers : At(v, {"call"})' => At(v, {"call"}) /\ RowOf(v)' = RowOf(v)
    BY <1>t, <1>4 DEF TypeOK, At, RowOf
  <2>. QED
    BY <1>t, <1>4, <2>1, NoNewCall
<1>5. ASSUME NEW w \in Workers, ClaimJob(w) \/ WorkerLost(w) \/ CompleteJob(w) PROVE Paid'
  <2>1. UNCHANGED <<usage, calls>> /\ \E u : worker' = [worker EXCEPT ![w] = u] /\ u.pc # "call"
    BY <1>5 DEF ClaimJob, WorkerLost, CompleteJob, rows, IdleWorker
  <2>. QED
    BY <2>1, <1>4
<1>6. ASSUME NEW w \in Workers, Prepare(w) \/ Fetch(w) \/ Settle(w) \/ Store(w) \/ Review(w) PROVE Paid'
  <2>1. UNCHANGED <<usage, calls>>
    BY <1>6 DEF Prepare, Fetch, Settle, Store, Review, rows
  <2>2. \A v \in Workers : At(v, {"call"})' => At(v, {"call"}) /\ RowOf(v)' = RowOf(v)
    BY <1>6, <1>t DEF Prepare, Fetch, Settle, Store, Review, Goes, Ends, TypeOK, At, RowOf, WorkerState, IdleWorker
  <2>. QED
    BY <1>t, <2>1, <2>2, NoNewCall
<1>7. CASE UNCHANGED vars
  BY <1>3, <1>7 DEF vars
<1>8. ASSUME NEW j \in Jobs, CreateJob(j) \/ LeaseRunsOut(j) \/ LeaseRunsOutUnder(j) PROVE Paid'
  BY <1>3, <1>8 DEF CreateJob, LeaseRunsOut, LeaseRunsOutUnder, RunsOut
<1>. QED
  BY <1>1, <1>2, <1>5, <1>6, <1>7, <1>8 DEF QueueNext, Process

\* Every call that the model has received has a reservation of its own, and the limit of
\* the day pays for all of them (ReserveModelUsage), whatever crashes and whichever
\* leases run out.
THEOREM EveryCallPaid == QueueSpec => []CallsArePaid
<1>1. QueueInit => Paid
  <2>1. QueueInit => usage = {} /\ \A j \in Jobs : Used(j) = {} /\ calls[j] = 0
    BY DEF QueueInit, Used
  <2>. QED
    BY <2>1, FS_EmptySet, BoundAssumption DEF Paid
<1>2. QueueInv /\ Paid => CallsArePaid
  <2> SUFFICES ASSUME QueueInv, Paid, NEW j \in Jobs
               PROVE  calls[j] <= Cardinality({r \in usage : r[1] = j})
    BY DEF CallsArePaid, Paid
  <2> DEFINE all == {r \in usage : r[1] = j}
  <2>1. IsFiniteSet(all) /\ Used(j) \subseteq all
    BY FS_Subset DEF Used, Paid
  <2>2. Cardinality(Used(j)) <= Cardinality(all) /\ IsFiniteSet(Used(j))
    BY <2>1, FS_Subset
  <2>3. Cardinality(Used(j)) \in Nat /\ Cardinality(all) \in Nat
    BY <2>1, <2>2, FS_CardinalityType
  <2>4. calls[j] \in Nat /\ calls[j] <= Cardinality(Used(j))
    BY DEF Paid, QueueInv, TypeOK
  <2>. QED
    BY <2>2, <2>3, <2>4
<1>. QED
  BY <1>1, <1>2, QueueInitInv, QueueStepInv, StepPaid, PTL DEF QueueSpec

----------------------------------------------------------------------------

\* As long as no lease has run out under a worker, its job runs for it alone.
Alone == slow = 0 =>
    \A w \in Workers : ~At(w, {"idle"}) =>
        LET j == worker[w].job IN
            job[j].status = "running" /\ job[j].lease = "live" /\ job[j].epoch = worker[w].epoch

Extracts == \A w \in Workers : At(w, {"reserve", "call"}) => KindOf[worker[w].job] = "extract"

LEMMA NotShared ==
    ASSUME QueueInv, Alone, slow = 0
    PROVE  \A v, w \in Workers : ~At(v, {"idle"}) /\ ~At(w, {"idle"}) /\ v # w => worker[v].job # worker[w].job
  BY DEF QueueInv, Numbered, Alone, RowOf

LEMMA StepAlone == QueueInv /\ Alone /\ [QueueNext]_vars => Alone'
<1> SUFFICES ASSUME QueueInv, Alone, [QueueNext]_vars, slow' = 0 PROVE Alone'
  BY DEF Alone
<1>t. TypeOK /\ \A w \in Workers : ~At(w, {"idle"}) => worker[w].job \in Jobs
  BY DEF QueueInv, Numbered
<1>s. slow = 0
  <2>1. slow \in Nat /\ (slow' = slow \/ slow' = slow + 1)
    BY <1>t DEF TypeOK, QueueNext, vars, CreateJob, LeaseRunsOut, LeaseRunsOutUnder, RunsOut, ClaimJob, WorkerLost,
       Process, Prepare, Fetch, Reserve, CallModel, Settle, Store, Review, CompleteJob
  <2>. QED
    BY <2>1
<1>o. \A v, w \in Workers : ~At(v, {"idle"}) /\ ~At(w, {"idle"}) /\ v # w => worker[v].job # worker[w].job
  BY <1>s, NotShared
<1>a. \A w \in Workers : ~At(w, {"idle"}) =>
          /\ job[worker[w].job].status = "running" /\ job[worker[w].job].lease = "live"
          /\ job[worker[w].job].epoch = worker[w].epoch
  BY <1>s DEF Alone
<1>2. ASSUME NEW w \in Workers, Prepare(w) \/ Fetch(w) \/ Reserve(w) \/ CallModel(w) \/ Settle(w) \/ Store(w)
                                \/ Review(w) \/ WorkerLost(w)
      PROVE  Alone'
  <2>1. ~At(w, {"idle"}) /\ UNCHANGED job
    BY <1>2 DEF Prepare, Fetch, Reserve, CallModel, Settle, Store, Review, WorkerLost, At, rows
  <2>2. \A v \in Workers : /\ v # w => worker'[v] = worker[v]
                           /\ worker'[v].pc # "idle" => /\ worker[v].pc # "idle" /\ worker'[v].job = worker[v].job
                                                        /\ worker'[v].epoch = worker[v].epoch
    BY <1>2, <1>t, <2>1 DEF Prepare, Fetch, Reserve, CallModel, Settle, Store, Review, WorkerLost, Goes, Ends,
       TypeOK, WorkerState, IdleWorker, At
  <2>. QED
    BY <1>a, <2>1, <2>2 DEF Alone, At
<1>3. ASSUME NEW w \in Workers, CompleteJob(w) PROVE Alone'
  <2>1. /\ ~At(w, {"idle"}) /\ worker' = [worker EXCEPT ![w] = IdleWorker]
        /\ \A k \in Jobs : k # worker[w].job => job'[k] = job[k]
    BY <1>3, <1>t DEF CompleteJob, At, TypeOK
  <2>2. \A v \in Workers : ~At(v, {"idle"})' => v # w /\ worker'[v] = worker[v] /\ ~At(v, {"idle"})
    BY <1>t, <2>1 DEF TypeOK, IdleWorker, At
  <2>. QED
    BY <1>a, <1>o, <1>t, <2>1, <2>2 DEF Alone
<1>4. ASSUME NEW w \in Workers, ClaimJob(w) PROVE Alone'
  <2>1. PICK j \in Jobs :
          /\ Claimable(j) /\ job' = [job EXCEPT ![j] = Claimed(j)]
          /\ worker' = [worker EXCEPT ![w] = [pc |-> "prepare", job |-> j, epoch |-> Claimed(j).epoch,
                                              attempt |-> Claimed(j).attempts, outcome |-> "none"]]
    BY <1>4 DEF ClaimJob
  <2>2. job[j] \in JobRow /\ job[j].epoch = job[j].attempts
    BY <1>t DEF TypeOK, QueueInv, Numbered
  <2>3. /\ job'[j] = Claimed(j) /\ Claimed(j).status = "running" /\ Claimed(j).lease = "live"
        /\ \A k \in Jobs : k # j => job'[k] = job[k]
    BY <1>t, <2>1, <2>2 DEF TypeOK, Claimed, JobRow
  <2>4. /\ worker'[w].job = j /\ worker'[w].epoch = Claimed(j).epoch
        /\ \A v \in Workers : v # w => worker'[v] = worker[v]
    BY <1>t, <2>1 DEF TypeOK
  <2>5. \A v \in Workers : ~At(v, {"idle"}) => worker[v].job # j
    BY <1>a, <2>1 DEF Claimable
  <2>. QED
    BY <1>a, <1>t, <2>3, <2>4, <2>5 DEF Alone, At
<1>5. ASSUME NEW j \in Jobs, CreateJob(j) \/ LeaseRunsOut(j) PROVE Alone'
  <2>1. \A v \in Workers : ~At(v, {"idle"}) => worker[v].job # j
    BY <1>5, <1>a DEF CreateJob, LeaseRunsOut, Held
  <2>2. UNCHANGED worker /\ \A k \in Jobs : k # j => job'[k] = job[k]
    BY <1>5, <1>t DEF CreateJob, LeaseRunsOut, RunsOut, TypeOK
  <2>. QED
    BY <1>a, <1>t, <2>1, <2>2 DEF Alone, At
<1>6. ASSUME NEW j \in Jobs, LeaseRunsOutUnder(j) PROVE FALSE
  BY <1>6, <1>s DEF LeaseRunsOutUnder
<1>7. CASE UNCHANGED vars
  BY <1>7, <1>a DEF vars, Alone, At
<1>. QED
  BY <1>2, <1>3, <1>4, <1>5, <1>6, <1>7 DEF QueueNext, Process

LEMMA StepExtracts == QueueInv /\ Extracts /\ [QueueNext]_vars => Extracts'
<1> SUFFICES ASSUME QueueInv, Extracts, [QueueNext]_vars, NEW w \in Workers, At(w, {"reserve", "call"})'
             PROVE  KindOf[worker'[w].job] = "extract"
  BY DEF Extracts
<1>t. TypeOK
  BY DEF QueueInv
<1>1. CASE worker'[w] = worker[w]
  BY <1>1 DEF Extracts, At
<1>2. CASE worker'[w] # worker[w]
  <2>1. \A v \in Workers : Prepare(v) \/ Fetch(v) \/ Reserve(v) \/ CallModel(v) \/ Settle(v) \/ Store(v)
                           \/ Review(v) \/ CompleteJob(v) \/ WorkerLost(v) \/ ClaimJob(v) => v = w
    BY <1>2, <1>t DEF Prepare, Fetch, Reserve, CallModel, Settle, Store, Review, CompleteJob, WorkerLost, ClaimJob,
       Goes, Ends, TypeOK
  <2>2. Prepare(w) \/ Reserve(w)
    <3>1. ~(Fetch(w) \/ CallModel(w) \/ Settle(w) \/ Store(w) \/ Review(w) \/ CompleteJob(w) \/ WorkerLost(w) \/ ClaimJob(w))
      BY <1>t DEF Fetch, CallModel, Settle, Store, Review, CompleteJob, WorkerLost, ClaimJob, Goes, Ends,
         TypeOK, WorkerState, IdleWorker, At
    <3>. QED
      BY <1>2, <2>1, <3>1 DEF QueueNext, Process, vars, CreateJob, LeaseRunsOut, LeaseRunsOutUnder, RunsOut
  <2>3. CASE Prepare(w)
    BY <2>3, <1>t DEF Prepare, Goes, Ends, TypeOK, WorkerState, At
  <2>4. CASE Reserve(w)
    BY <2>4, <1>t DEF Reserve, Goes, Ends, TypeOK, WorkerState, At, Extracts
  <2>. QED
    BY <2>2, <2>3, <2>4
<1>. QED
  BY <1>1, <1>2

\* The jobs of two workers that are at their call are counted by a third that reserves.
LEMMA TwoAreBusy ==
    ASSUME QueueInv, Alone, Extracts, slow = 0, NEW u \in Workers, NEW v \in Workers, NEW w \in Workers,
           u # v, v # w, w # u, At(u, {"call"}), At(v, {"call"}), At(w, {"reserve"})
    PROVE  Cardinality(BusyOthers(worker[w].job)) >= 2
<1> DEFINE a == worker[u].job
           b == worker[v].job
           busy == BusyOthers(worker[w].job)
<1>1. a # b /\ a # worker[w].job /\ b # worker[w].job
  BY NotShared DEF At
<1>2. {a, b} \subseteq busy
  <2>1. a \in Jobs /\ b \in Jobs
    BY DEF QueueInv, Numbered, At
  <2>2. job[a].status = "running" /\ job[b].status = "running"
    BY DEF Alone, At
  <2>3. KindOf[a] = "extract" /\ KindOf[b] = "extract"
    BY DEF Extracts, At
  <2>. QED
    BY <1>1, <2>1, <2>2, <2>3 DEF BusyOthers
<1>3. IsFiniteSet(busy)
  BY JobsAssumption, FS_Subset DEF BusyOthers
<1>4. IsFiniteSet({a}) /\ Cardinality({a}) = 1
  BY FS_Singleton
<1>5. Cardinality({a} \cup {b}) = 2
  <2>1. b \notin {a}
    BY <1>1
  <2>2. Cardinality({a} \cup {b}) = Cardinality({a}) + 1
    BY <1>4, <2>1, FS_AddElement
  <2>. QED
    BY <1>4, <2>2
<1>6. Cardinality({a, b}) = 2 /\ Cardinality({a, b}) <= Cardinality(busy)
  <2>1. {a} \cup {b} = {a, b}
    OBVIOUS
  <2>. QED
    BY <1>2, <1>3, <1>5, <2>1, FS_Subset
<1>7. Cardinality(busy) \in Nat
  BY <1>3, FS_CardinalityType
<1>. QED
  BY <1>6, <1>7

LEMMA StepTwoCalls == QueueInv /\ Alone /\ Extracts /\ AtMostTwoCalls /\ [QueueNext]_vars => AtMostTwoCalls'
<1> SUFFICES ASSUME QueueInv, Alone, Extracts, AtMostTwoCalls, [QueueNext]_vars, slow' = 0,
                    NEW u \in Workers, NEW v \in Workers, NEW w \in Workers, u # v, v # w, w # u,
                    At(u, {"call"})', At(v, {"call"})', At(w, {"call"})'
             PROVE  FALSE
  BY DEF AtMostTwoCalls, At
<1>t. TypeOK
  BY DEF QueueInv
<1>s. slow = 0
  <2>1. slow \in Nat /\ (slow' = slow \/ slow' = slow + 1)
    BY <1>t DEF TypeOK, QueueNext, vars, CreateJob, LeaseRunsOut, LeaseRunsOutUnder, RunsOut, ClaimJob, WorkerLost,
       Process, Prepare, Fetch, Reserve, CallModel, Settle, Store, Review, CompleteJob
  <2>. QED
    BY <2>1
<1>1. \A x \in Workers : At(x, {"call"})' /\ ~At(x, {"call"}) =>
         /\ At(x, {"reserve"}) /\ Cardinality(BusyOthers(worker[x].job)) < 2
         /\ \A y \in Workers : y # x => worker'[y] = worker[y]
  <2> SUFFICES ASSUME NEW x \in Workers, At(x, {"call"})', ~At(x, {"call"})
               PROVE  /\ At(x, {"reserve"}) /\ Cardinality(BusyOthers(worker[x].job)) < 2
                      /\ \A y \in Workers : y # x => worker'[y] = worker[y]
    OBVIOUS
  <2>1. \A y \in Workers : Prepare(y) \/ Fetch(y) \/ Reserve(y) \/ CallModel(y) \/ Settle(y) \/ Store(y)
                           \/ Review(y) \/ CompleteJob(y) \/ WorkerLost(y) \/ ClaimJob(y) => y = x
    BY <1>t DEF Prepare, Fetch, Reserve, CallModel, Settle, Store, Review, CompleteJob, WorkerLost, ClaimJob,
       Goes, Ends, TypeOK, At
  <2>2. Reserve(x)
    <3>1. ~(Prepare(x) \/ Fetch(x) \/ CallModel(x) \/ Settle(x) \/ Store(x) \/ Review(x) \/ CompleteJob(x)
            \/ WorkerLost(x) \/ ClaimJob(x))
      BY <1>t DEF Prepare, Fetch, CallModel, Settle, Store, Review, CompleteJob, WorkerLost, ClaimJob, Goes, Ends,
         TypeOK, WorkerState, IdleWorker, At
    <3>. QED
      BY <2>1, <3>1 DEF QueueNext, Process, vars, CreateJob, LeaseRunsOut, LeaseRunsOutUnder, RunsOut, At
  <2>3. Cardinality(BusyOthers(worker[x].job)) < 2
    <3>1. ~(Cardinality(BusyOthers(worker[x].job)) >= 2)
      <4>1. ~Ends(x, "failed")
        BY <1>t DEF Ends, TypeOK, WorkerState, At
      <4>. QED
        BY <2>2, <4>1 DEF Reserve
    <3>2. Cardinality(BusyOthers(worker[x].job)) \in Nat
      BY JobsAssumption, FS_Subset, FS_CardinalityType DEF BusyOthers
    <3>. QED
      BY <3>1, <3>2
  <2>. QED
    BY <2>2, <2>3, <1>t DEF Reserve, Goes, Ends, TypeOK, At
<1>2. CASE At(u, {"call"}) /\ At(v, {"call"}) /\ At(w, {"call"})
  BY <1>2, <1>s DEF AtMostTwoCalls, At
<1>3. \A x, y, z \in Workers : x # y /\ y # z /\ z # x /\ At(z, {"call"})' /\ ~At(z, {"call"})
                               /\ At(x, {"call"})' /\ At(y, {"call"})' => FALSE
  <2> SUFFICES ASSUME NEW x \in Workers, NEW y \in Workers, NEW z \in Workers, x # y, y # z, z # x,
                      At(z, {"call"})', ~At(z, {"call"}), At(x, {"call"})', At(y, {"call"})'
               PROVE  FALSE
    OBVIOUS
  <2>1. /\ At(z, {"reserve"}) /\ Cardinality(BusyOthers(worker[z].job)) < 2
        /\ At(x, {"call"}) /\ At(y, {"call"})
    BY <1>1 DEF At
  <2>2. Cardinality(BusyOthers(worker[z].job)) >= 2
    BY <1>s, <2>1, TwoAreBusy
  <2>3. Cardinality(BusyOthers(worker[z].job)) \in Nat
    BY JobsAssumption, FS_Subset, FS_CardinalityType DEF BusyOthers
  <2>. QED
    BY <2>1, <2>2, <2>3
<1>. QED
  BY <1>2, <1>3

\* ReserveModelUsage lets two extractions call the model at once, however many servers there
\* are and whatever crashes, as long as no lease runs out under a worker.
THEOREM TwoCallsAtOnce == QueueSpec => []AtMostTwoCalls
<1>1. QueueInit => Alone /\ Extracts /\ AtMostTwoCalls
  BY DEF QueueInit, Alone, Extracts, AtMostTwoCalls, IdleWorker, At
<1>. QED
  BY <1>1, QueueInitInv, QueueStepInv, StepAlone, StepExtracts, StepTwoCalls, PTL DEF QueueSpec

----------------------------------------------------------------------------
(***************************************************************************)
(* IntelSpace: one generation of a space replays a step once, and a request *)
(* that is repeated under its key moves it once.                           *)
(***************************************************************************)

SpaceRec == [gen : Nat, ver : Nat, step : Nat]
BodyRec == [op : {"none", "step", "reset"}, ver : Nat]
CallRec == [pc : {"idle", "scoped", "run", "ok", "failed"}, gen : Nat,
            op : {"none", "watch", "mute", "unmute", "unwatch", "read", "ignore", "step", "reset"},
            key : IsKeys \cup {"none"}]
NotifRec == [step : Nat, gen : Nat, status : {"unread", "read", "ignored"},
             out : {"pending", "processing", "sent", "cancelled"}]

\* A key asks for the version it found, and once its request has moved the replay
\* this version is past for good.
SpaceInv ==
    /\ space \in SpaceRec
    /\ body \in [IsKeys -> BodyRec]
    /\ icall \in [IsCalls -> CallRec]
    /\ notif \subseteq NotifRec
    /\ advanced \in [IsKeys -> {0, 1}]
    /\ \A c \in IsCalls : icall[c].pc = "run" => icall[c].key \in IsKeys
    /\ \A c \in IsCalls : icall[c].key \in IsKeys => body[icall[c].key] # NoBody
    /\ \A k \in IsKeys : body[k].ver <= space.ver
    /\ \A k \in IsKeys : body[k] = NoBody => advanced[k] = 0
    /\ \A k \in IsKeys : advanced[k] = 1 => body[k].ver < space.ver
    /\ SpaceIsOneGeneration

LEMMA SpaceInitInv == ASSUME SpaceInit PROVE SpaceInv
<1>1. space \in SpaceRec /\ NoBody \in BodyRec /\ Idle \in CallRec
  BY DEF SpaceInit, SpaceRec, BodyRec, NoBody, CallRec, Idle
<1>2. \A k \in IsKeys : body[k] = NoBody /\ NoBody.ver = 0 /\ advanced[k] = 0
  BY DEF SpaceInit, NoBody
<1>3. \A c \in IsCalls : icall[c] = Idle /\ Idle.pc = "idle" /\ Idle.key \notin IsKeys
  BY SpaceAssumption DEF SpaceInit, Idle
<1>4. SpaceIsOneGeneration
  BY DEF SpaceInit, SpaceIsOneGeneration
<1>5. body \in [IsKeys -> BodyRec] /\ icall \in [IsCalls -> CallRec] /\ advanced \in [IsKeys -> {0, 1}]
  BY <1>1 DEF SpaceInit
<1>6. space.ver = 0 /\ notif = {}
  BY DEF SpaceInit
<1>. QED
  BY <1>1, <1>2, <1>3, <1>4, <1>5, <1>6 DEF SpaceInv

\* A call gets another record; the keys it may use have a body.
LEMMA CallSteps ==
    ASSUME SpaceInv, NEW c \in IsCalls, NEW r \in CallRec, icall' = [icall EXCEPT ![c] = r],
           r.pc = "run" => r.key \in IsKeys
    PROVE  /\ icall' \in [IsCalls -> CallRec]
           /\ \A d \in IsCalls : icall'[d].pc = "run" => icall'[d].key \in IsKeys
           /\ \A d \in IsCalls : icall'[d] = IF d = c THEN r ELSE icall[d]
  BY DEF SpaceInv

LEMMA IdleIsACall == Idle \in CallRec /\ Idle.pc # "run" /\ Idle.key \notin IsKeys
  BY SpaceAssumption DEF Idle, CallRec

\* Nothing moves: the replay, the bodies and what moved them stay.
LEMMA NoMove ==
    ASSUME SpaceInv, NEW c \in IsCalls, NEW r \in CallRec, icall' = [icall EXCEPT ![c] = r],
           r.pc = "run" => r.key \in IsKeys, r.key \in IsKeys => r.key = icall[c].key,
           UNCHANGED <<space, body, advanced>>,
           sub' \in {0, sub, space.gen}, mute' \in {0, mute, space.gen},
           notif' \subseteq NotifRec, \A n \in notif' : n.gen = space.gen
    PROVE  SpaceInv'
<1>1. /\ icall' \in [IsCalls -> CallRec]
      /\ \A d \in IsCalls : icall'[d].pc = "run" => icall'[d].key \in IsKeys
      /\ \A d \in IsCalls : icall'[d] = IF d = c THEN r ELSE icall[d]
  BY CallSteps
<1>2. \A d \in IsCalls : icall'[d].key \in IsKeys => body'[icall'[d].key] # NoBody
  BY <1>1 DEF SpaceInv
<1>3. SpaceIsOneGeneration'
  BY DEF SpaceInv, SpaceIsOneGeneration
<1>. QED
  BY <1>1, <1>2, <1>3 DEF SpaceInv

LEMMA EndIsNoMove ==
    ASSUME SpaceInv, NEW c \in IsCalls, End(c), UNCHANGED <<space, body, advanced>>,
           sub' \in {0, sub, space.gen}, mute' \in {0, mute, space.gen},
           notif' \subseteq NotifRec, \A n \in notif' : n.gen = space.gen
    PROVE  SpaceInv'
  BY NoMove, IdleIsACall DEF End

\* One notification is replaced by another of the same generation.
LEMMA NotifSet ==
    ASSUME SpaceInv, NEW n \in notif
    PROVE  /\ n \in NotifRec /\ n.gen = space.gen
           /\ \A s \in {"unread", "read", "ignored"} :
                 [n EXCEPT !.status = s] \in NotifRec /\ [n EXCEPT !.status = s].gen = n.gen
           /\ \A o \in {"pending", "processing", "sent", "cancelled"} :
                 [n EXCEPT !.out = o] \in NotifRec /\ [n EXCEPT !.out = o].gen = n.gen
<1>1. n \in NotifRec /\ n.gen = space.gen
  BY DEF SpaceInv, SpaceIsOneGeneration
<1>2. ASSUME NEW s \in {"unread", "read", "ignored"}
      PROVE  [n EXCEPT !.status = s] \in NotifRec /\ [n EXCEPT !.status = s].gen = n.gen
  BY <1>1 DEF NotifRec
<1>3. ASSUME NEW o \in {"pending", "processing", "sent", "cancelled"}
      PROVE  [n EXCEPT !.out = o] \in NotifRec /\ [n EXCEPT !.out = o].gen = n.gen
  BY <1>1 DEF NotifRec
<1>. QED
  BY <1>1, <1>2, <1>3

LEMMA OldNotifs == ASSUME SpaceInv PROVE notif \subseteq NotifRec /\ \A n \in notif : n.gen = space.gen
  BY DEF SpaceInv, SpaceIsOneGeneration

----------------------------------------------------------------------------
LEMMA ResolveKeepsInv ==
    ASSUME SpaceInv, NEW c \in IsCalls,
           \/ \E op \in {"watch", "mute", "unmute", "unwatch", "read", "ignore"} : ResolveScope(c, op)
           \/ \E op \in {"step", "reset"}, k \in IsKeys : ResolveReplay(c, op, k)
    PROVE  SpaceInv'
<1>0. space.gen \in Nat /\ space.ver \in Nat
  BY DEF SpaceInv, SpaceRec
<1>1. ASSUME NEW op \in {"watch", "mute", "unmute", "unwatch", "read", "ignore"}, ResolveScope(c, op)
      PROVE  SpaceInv'
  <2>1. PICK r : r = [pc |-> "scoped", gen |-> space.gen, op |-> op, key |-> "none"]
    OBVIOUS
  <2>2. r \in CallRec /\ r.pc = "scoped" /\ r.key \notin IsKeys
    BY <1>0, <2>1, SpaceAssumption DEF CallRec
  <2>. QED
    BY <1>1, <2>1, <2>2, NoMove, OldNotifs DEF ResolveScope
<1>2. ASSUME NEW op \in {"step", "reset"}, NEW k \in IsKeys, ResolveReplay(c, op, k) PROVE SpaceInv'
  <2>1. PICK r : r = [pc |-> "scoped", gen |-> space.gen, op |-> op, key |-> k]
    OBVIOUS
  <2>2. r \in CallRec /\ r.pc = "scoped" /\ r.key = k
    BY <1>0, <2>1 DEF CallRec
  <2>3. PICK b : b = [op |-> op, ver |-> space.ver]
    OBVIOUS
  <2>4. b \in BodyRec /\ b # NoBody /\ b.ver = space.ver
    <3>1. b.op = op /\ NoBody.op = "none"
      BY <2>3 DEF NoBody
    <3>. QED
      BY <1>0, <2>3, <3>1 DEF BodyRec
  <2>5. /\ icall' = [icall EXCEPT ![c] = r] /\ UNCHANGED <<space, sub, mute, notif, advanced>>
        /\ body' = IF body[k] = NoBody THEN [body EXCEPT ![k] = b] ELSE body
    BY <1>2, <2>1, <2>3 DEF ResolveReplay
  <2>6. /\ body' \in [IsKeys -> BodyRec] /\ body'[k] # NoBody
        /\ \A q \in IsKeys : body'[q] = body[q] \/ (q = k /\ body[k] = NoBody /\ body'[k] = b)
    <3>1. body \in [IsKeys -> BodyRec]
      BY DEF SpaceInv
    <3>2. CASE body[k] = NoBody /\ body' = [body EXCEPT ![k] = b]
      BY <2>4, <3>1, <3>2
    <3>3. CASE body[k] # NoBody /\ body' = body
      <4>1. body' = body /\ body'[k] # NoBody
        BY <3>3
      <4>. QED
        BY <3>1, <4>1, Zenon
    <3>. QED
      BY <2>5, <3>2, <3>3
  <2>7. /\ icall' \in [IsCalls -> CallRec]
        /\ \A d \in IsCalls : icall'[d].pc = "run" => icall'[d].key \in IsKeys
        /\ \A d \in IsCalls : icall'[d] = IF d = c THEN r ELSE icall[d]
    BY <2>2, <2>5, CallSteps
  <2>8. \A d \in IsCalls : icall'[d].key \in IsKeys => body'[icall'[d].key] # NoBody
    BY <2>2, <2>4, <2>6, <2>7 DEF SpaceInv
  <2>9. \A q \in IsKeys : body'[q].ver <= space.ver
    BY <1>0, <2>4, <2>6 DEF SpaceInv
  <2>10. \A q \in IsKeys : (body'[q] = NoBody => advanced[q] = 0) /\ (advanced[q] = 1 => body'[q].ver < space.ver)
    BY <2>4, <2>6 DEF SpaceInv
  <2>11. SpaceIsOneGeneration'
    BY <2>5 DEF SpaceInv, SpaceIsOneGeneration
  <2>. QED
    BY <2>5, <2>6, <2>7, <2>8, <2>9, <2>10, <2>11 DEF SpaceInv
<1>. QED
  BY <1>1, <1>2

LEMMA RequestsKeepInv ==
    ASSUME SpaceInv, NEW c \in IsCalls,
           AddWatchlist(c) \/ RemoveWatchlist(c) \/ SetMute(c) \/ PatchNotification(c)
    PROVE  SpaceInv'
<1>1. CASE AddWatchlist(c)
  BY <1>1, EndIsNoMove, OldNotifs DEF AddWatchlist, Asks, SameGeneration
<1>2. CASE RemoveWatchlist(c)
  <2>1. notif' \subseteq NotifRec /\ \A n \in notif' : n.gen = space.gen
    <3>1. \A m \in notif' : \E n \in notif :
              m = [n EXCEPT !.out = IF n.out = "pending" THEN "cancelled" ELSE n.out]
      BY <1>2 DEF RemoveWatchlist
    <3>2. ASSUME NEW m \in notif' PROVE m \in NotifRec /\ m.gen = space.gen
      <4>1. PICK n \in notif : m = [n EXCEPT !.out = IF n.out = "pending" THEN "cancelled" ELSE n.out]
        BY <3>1
      <4>2. PICK o : o = IF n.out = "pending" THEN "cancelled" ELSE n.out
        OBVIOUS
      <4>3. o \in {"pending", "processing", "sent", "cancelled"} /\ m = [n EXCEPT !.out = o]
        BY <4>1, <4>2, OldNotifs DEF NotifRec
      <4>. QED
        BY <4>3, NotifSet
    <3>. QED
      BY <3>2
  <2>. QED
    BY <1>2, <2>1, EndIsNoMove DEF RemoveWatchlist, Asks
<1>3. CASE SetMute(c)
  BY <1>3, EndIsNoMove, OldNotifs DEF SetMute, Asks, SameGeneration
<1>4. CASE PatchNotification(c)
  <2>1. PICK status : status = IF icall[c].op = "read" THEN "read" ELSE "ignored"
    OBVIOUS
  <2>2. PICK n \in notif : \/ notif' = (notif \ {n}) \cup {[n EXCEPT !.status = status]}
                           \/ notif' = notif
    BY <1>4, <2>1 DEF PatchNotification
  <2>3. [n EXCEPT !.status = status] \in NotifRec /\ [n EXCEPT !.status = status].gen = space.gen
    <3>1. status \in {"unread", "read", "ignored"}
      BY <2>1
    <3>2. /\ \A s \in {"unread", "read", "ignored"} :
                 [n EXCEPT !.status = s] \in NotifRec /\ [n EXCEPT !.status = s].gen = n.gen
          /\ n.gen = space.gen
      BY NotifSet
    <3>. QED
      BY <3>1, <3>2
  <2>4. notif' \subseteq NotifRec /\ \A m \in notif' : m.gen = space.gen
    BY <2>2, <2>3, OldNotifs
  <2>. QED
    BY <1>4, <2>4, EndIsNoMove DEF PatchNotification, Asks
<1>. QED
  BY <1>1, <1>2, <1>3, <1>4

LEMMA SamePc ==
    ASSUME NEW r \in CallRec, NEW pc \in {"idle", "scoped", "run", "ok", "failed"}, NEW n,
           n = [r EXCEPT !.pc = pc]
    PROVE  n \in CallRec /\ n.key = r.key /\ n.pc = pc
  BY DEF CallRec

LEMMA IdempotentKeepsInv ==
    ASSUME SpaceInv, NEW c \in IsCalls,
           OpenIdempotent(c) \/ ReplayConflict(c) \/ CloseIdempotent(c) \/ CallLost(c)
    PROVE  SpaceInv'
<1>0. icall[c] \in CallRec
  BY DEF SpaceInv
<1>1. PICK o : o = icall[c]
  OBVIOUS
<1>2. UNCHANGED <<space, body, sub, mute, notif, advanced>>
  BY DEF OpenIdempotent, ReplayConflict, CloseIdempotent, CallLost
<1>3. CASE End(c)
  BY <1>2, <1>3, EndIsNoMove, OldNotifs
<1>4. ASSUME NEW pc \in {"run", "failed"}, icall' = [icall EXCEPT ![c] = [o EXCEPT !.pc = pc]], o.key \in IsKeys
      PROVE  SpaceInv'
  <2>1. PICK r : r = [o EXCEPT !.pc = pc]
    OBVIOUS
  <2>2. r \in CallRec /\ r.key = o.key
    BY <1>0, <1>1, <2>1, SamePc
  <2>. QED
    BY <1>1, <1>2, <1>4, <2>1, <2>2, NoMove, OldNotifs
<1>5. CASE OpenIdempotent(c)
  <2>1. o.key \in IsKeys
    BY <1>0, <1>1, <1>5 DEF OpenIdempotent, CallRec
  <2>2. End(c) \/ icall' = [icall EXCEPT ![c] = [o EXCEPT !.pc = "run"]]
    BY <1>1, <1>5 DEF OpenIdempotent
  <2>. QED
    BY <1>3, <1>4, <2>1, <2>2
<1>6. CASE ReplayConflict(c)
  <2>1. o.key \in IsKeys
    BY <1>1, <1>6 DEF ReplayConflict, SpaceInv
  <2>2. icall' = [icall EXCEPT ![c] = [o EXCEPT !.pc = "failed"]]
    BY <1>1, <1>6 DEF ReplayConflict
  <2>. QED
    BY <1>4, <2>1, <2>2
<1>. QED
  BY <1>3, <1>5, <1>6 DEF CloseIdempotent, CallLost

\* A request moves the replay where the version is the one it expects, which is then past.
LEMMA MoveKeepsInv ==
    ASSUME SpaceInv, NEW c \in IsCalls, NEW k \in IsKeys, k = icall[c].key, body[k] # NoBody,
           AsExpected(k), Moved(k), NEW o, o = icall[c],
           icall' = [icall EXCEPT ![c] = [o EXCEPT !.pc = "ok"]],
           body' = body, space' \in SpaceRec, space'.ver = space.ver + 1,
           notif' \subseteq NotifRec, SpaceIsOneGeneration'
    PROVE  SpaceInv'
<1>0. space.ver \in Nat /\ icall[c] \in CallRec /\ advanced \in [IsKeys -> {0, 1}] /\ body \in [IsKeys -> BodyRec]
  BY DEF SpaceInv, SpaceRec
<1>1. \A q \in IsKeys : body[q].ver \in Nat
  BY <1>0 DEF BodyRec
<1>2. body[k].ver = space.ver /\ advanced[k] = 0
  <2>1. body[k].ver = space.ver
    BY DEF AsExpected
  <2>2. ~(body[k].ver < space.ver)
    BY <1>0, <2>1
  <2>. QED
    BY <1>0, <2>1, <2>2 DEF SpaceInv
<1>3. /\ advanced' \in [IsKeys -> {0, 1}]
      /\ \A q \in IsKeys : advanced'[q] = IF q = k THEN 1 ELSE advanced[q]
  BY <1>0, <1>2 DEF Moved
<1>4. PICK r : r = [o EXCEPT !.pc = "ok"]
  OBVIOUS
<1>5. r \in CallRec /\ r.key = k /\ r.pc = "ok"
  BY <1>0, <1>4, SamePc
<1>6. /\ icall' \in [IsCalls -> CallRec]
      /\ \A d \in IsCalls : icall'[d].pc = "run" => icall'[d].key \in IsKeys
      /\ \A d \in IsCalls : icall'[d] = IF d = c THEN r ELSE icall[d]
  BY <1>4, <1>5, CallSteps
<1>7. \A d \in IsCalls : icall'[d].key \in IsKeys => body'[icall'[d].key] # NoBody
  BY <1>5, <1>6 DEF SpaceInv
<1>8. \A q \in IsKeys : body[q].ver < space'.ver
  <2>1. \A q \in IsKeys : body[q].ver <= space.ver
    BY DEF SpaceInv
  <2>. QED
    BY <1>0, <1>1, <2>1
<1>9. \A q \in IsKeys : body[q].ver <= space'.ver
  <2>1. space'.ver \in Nat
    BY DEF SpaceRec
  <2>. QED
    BY <1>1, <1>8, <2>1
<1>10. \A q \in IsKeys : body[q] = NoBody => advanced'[q] = 0
  BY <1>3 DEF SpaceInv
<1>11. body' \in [IsKeys -> BodyRec]
  BY <1>0
<1>. QED
  BY <1>3, <1>6, <1>7, <1>8, <1>9, <1>10, <1>11 DEF SpaceInv

LEMMA ReplayStepKeepsInv == ASSUME SpaceInv, NEW c \in IsCalls, ReplayStep(c) PROVE SpaceInv'
<1>1. PICK o, k : o = icall[c] /\ k = icall[c].key
  OBVIOUS
<1>2. /\ k \in IsKeys /\ body[k] # NoBody /\ AsExpected(k)
      /\ icall' = [icall EXCEPT ![c] = [o EXCEPT !.pc = "ok"]] /\ UNCHANGED <<body, sub, mute>>
  BY <1>1 DEF ReplayStep, SpaceInv
<1>3. space.gen \in Nat /\ space.ver \in Nat /\ space.step \in Nat /\ space \in SpaceRec /\ icall[c] \in CallRec
  BY DEF SpaceInv, SpaceRec
<1>4. CASE space.step = LastStep
  <2>1. UNCHANGED <<space, notif, advanced>>
    BY <1>1, <1>4 DEF ReplayStep
  <2>2. PICK r : r = [o EXCEPT !.pc = "ok"]
    OBVIOUS
  <2>3. r \in CallRec /\ r.key = k /\ r.pc = "ok"
    BY <1>1, <1>3, <2>2, SamePc
  <2>. QED
    BY <1>1, <1>2, <2>1, <2>2, <2>3, NoMove, OldNotifs
<1>5. CASE space.step # LastStep
  <2>1. PICK n : n = [step |-> space.step + 1, gen |-> space.gen, status |-> "unread", out |-> "pending"]
    OBVIOUS
  <2>2. n \in NotifRec /\ n.gen = space.gen
    BY <1>3, <2>1 DEF NotifRec
  <2>3. /\ space' = [space EXCEPT !.step = space.step + 1, !.ver = space.ver + 1]
        /\ notif' = notif \cup {n} \/ notif' = notif
        /\ Moved(k)
    BY <1>1, <1>5, <2>1 DEF ReplayStep
  <2>4. PICK s, v : s = space.step + 1 /\ v = space.ver + 1
    OBVIOUS
  <2>5. s \in Nat /\ v \in Nat
    BY <1>3, <2>4
  <2>6. space' \in SpaceRec /\ space'.ver = v /\ space'.gen = space.gen
    <3>1. space' = [space EXCEPT !.step = s, !.ver = v]
      BY <2>3, <2>4
    <3>. QED
      BY <1>3, <2>5, <3>1 DEF SpaceRec
  <2>7. notif' \subseteq NotifRec /\ \A m \in notif' : m.gen = space.gen
    BY <2>2, <2>3, OldNotifs
  <2>8. SpaceIsOneGeneration'
    BY <1>2, <2>6, <2>7 DEF SpaceInv, SpaceIsOneGeneration
  <2>. QED
    BY <1>1, <1>2, <2>3, <2>4, <2>6, <2>7, <2>8, MoveKeepsInv
<1>. QED
  BY <1>4, <1>5

LEMMA ReplayResetKeepsInv == ASSUME SpaceInv, NEW c \in IsCalls, ReplayReset(c) PROVE SpaceInv'
<1>1. PICK o, k : o = icall[c] /\ k = icall[c].key
  OBVIOUS
<1>2. /\ k \in IsKeys /\ body[k] # NoBody /\ AsExpected(k) /\ Moved(k)
      /\ icall' = [icall EXCEPT ![c] = [o EXCEPT !.pc = "ok"]] /\ UNCHANGED body
      /\ notif' = {} /\ sub' = 0 /\ mute' = 0
      /\ space' = [gen |-> space.gen + 1, ver |-> space.ver + 1, step |-> 0]
  BY <1>1 DEF ReplayReset, SpaceInv
<1>3. space.gen \in Nat /\ space.ver \in Nat
  BY DEF SpaceInv, SpaceRec
<1>4. space' \in SpaceRec /\ space'.ver = space.ver + 1
  BY <1>2, <1>3 DEF SpaceRec
<1>5. SpaceIsOneGeneration'
  BY <1>2 DEF SpaceIsOneGeneration
<1>. QED
  BY <1>1, <1>2, <1>4, <1>5, MoveKeepsInv

LEMMA OutboxKeepsInv ==
    ASSUME SpaceInv, NEW n \in notif, ClaimOutbox(n) \/ CompleteOutbox(n)
    PROVE  SpaceInv'
<1>1. PICK out \in {"processing", "sent"} : notif' = (notif \ {n}) \cup {[n EXCEPT !.out = out]}
  BY DEF ClaimOutbox, CompleteOutbox
<1>2. UNCHANGED <<space, body, icall, sub, mute, advanced>>
  BY DEF ClaimOutbox, CompleteOutbox
<1>3. [n EXCEPT !.out = out] \in NotifRec /\ [n EXCEPT !.out = out].gen = space.gen
  <2>1. /\ \A o \in {"pending", "processing", "sent", "cancelled"} :
               [n EXCEPT !.out = o] \in NotifRec /\ [n EXCEPT !.out = o].gen = n.gen
        /\ n.gen = space.gen
    BY NotifSet
  <2>. QED
    BY <2>1
<1>4. notif' \subseteq NotifRec /\ \A m \in notif' : m.gen = space.gen
  BY <1>1, <1>3, OldNotifs
<1>. QED
  BY <1>2, <1>4 DEF SpaceInv, SpaceIsOneGeneration

LEMMA SpaceStep == ASSUME SpaceInv, [SpaceNext]_isVars PROVE SpaceInv'
<1>1. CASE UNCHANGED isVars
  BY <1>1 DEF isVars, SpaceInv, SpaceIsOneGeneration
<1>2. ASSUME NEW k \in IsKeys, TwoMinutesPass(k) PROVE SpaceInv'
  BY <1>2 DEF TwoMinutesPass, SpaceInv, SpaceIsOneGeneration
<1>. QED
  BY <1>1, <1>2, ResolveKeepsInv, RequestsKeepInv, IdempotentKeepsInv, ReplayStepKeepsInv,
     ReplayResetKeepsInv, OutboxKeepsInv DEF SpaceNext

----------------------------------------------------------------------------
\* Replay requests and whoever subscribes, mutes or reads meanwhile: what there is
\* belongs to the generation of the space, and a key moves the replay once, however
\* often its request is sent, taken over or lost.
THEOREM OneGenerationOneMove == SpaceSpec => []NothingComesTwice
<1>1. SpaceInit => SpaceInv
  BY SpaceInitInv
<1>2. SpaceInv /\ [SpaceNext]_isVars => SpaceInv'
  BY SpaceStep
<1>3. SpaceInv => NothingComesTwice
  <2>1. SpaceInv => MovesOnce
    BY DEF SpaceInv, MovesOnce
  <2>. QED
    BY <2>1 DEF SpaceInv, NothingComesTwice
<1>. QED
  BY <1>1, <1>2, <1>3, PTL DEF SpaceSpec

----------------------------------------------------------------------------
(***************************************************************************)
(* ListPages: the pages a reader turns are one list.                       *)
(***************************************************************************)

ReadingFields == {"pc", "list", "limit", "at", "gen", "seen", "since"}

\* Rows in the list have appeared, in the generation of the space.
RowsOK ==
    /\ ptick \in Nat /\ DOMAIN prow = PageRows
    /\ \A r \in PageRows : /\ DOMAIN prow[r] = {"gen", "created", "updated", "live"}
                           /\ prow[r].created \in 0 .. ptick
                           /\ prow[r].live => prow[r].created # 0 /\ prow[r].gen = pgen

\* What a reader saw of a list read by position is what is at or after it.
KeysetOK ==
    /\ \A r \in PageRows : reading.seen[r] <= 1
    /\ reading.pc = "reading" =>
           \A r \in PageRows :
               /\ reading.seen[r] = 1 => reading.at # 0 /\ prow[r].created >= reading.at
               /\ r \in reading.since /\ reading.at # 0 /\ prow[r].created >= reading.at => reading.seen[r] = 1
    /\ reading.pc # "reading" => reading.pc = "done" /\ \A r \in reading.since : reading.seen[r] = 1

\* What a reader saw of a list read by numbers is of the generation it started in.
OffsetOK ==
    \A r \in PageRows : reading.seen[r] > 0 =>
        reading.at # 0 /\ prow[r].created # 0 /\ prow[r].gen = reading.gen

PagesInv ==
    /\ RowsOK
    /\ DOMAIN reading = ReadingFields
    /\ reading.at \in Nat /\ reading.seen \in [PageRows -> Nat]
    /\ reading.since \subseteq Live
    /\ reading.pc = "reading" => reading.limit \in Nat \ {0}
    /\ reading.list = "keyset" => KeysetOK
    /\ reading.list = "offset" => OffsetOK

LEMMA PagesInitInv == ASSUME PagesInit PROVE PagesInv
<1>1. PICK row : row = NoRow
  OBVIOUS
<1>2. prow = [r \in PageRows |-> row] /\ DOMAIN row = {"gen", "created", "updated", "live"} /\ row.created = 0 /\ ~row.live
  BY <1>1 DEF PagesInit, NoRow
<1>3. RowsOK
  BY <1>2 DEF RowsOK, PagesInit
<1>4. PICK h : h = NotReading
  OBVIOUS
<1>5. /\ DOMAIN h = ReadingFields /\ h.at = 0 /\ h.seen \in [PageRows -> Nat] /\ h.since = {}
      /\ h.pc = "idle" /\ h.list = "none"
  BY <1>4 DEF NotReading, ReadingFields
<1>6. reading = h
  BY <1>4 DEF PagesInit
<1>. QED
  BY <1>3, <1>5, <1>6 DEF PagesInv

----------------------------------------------------------------------------
\* A row that is in no list yet appears; nobody has seen it.
LEMMA AppearKeepsInv == ASSUME PagesInv, NEW r \in PageRows, Appear(r) PROVE PagesInv'
<1>1. PICK row : row = [gen |-> pgen, created |-> ptick + 1, updated |-> ptick + 1, live |-> TRUE]
  OBVIOUS
<1>2. /\ DOMAIN row = {"gen", "created", "updated", "live"} /\ row.gen = pgen /\ row.created = ptick + 1
      /\ prow[r].created = 0 /\ prow' = [prow EXCEPT ![r] = row] /\ ptick' = ptick + 1 /\ UNCHANGED <<pgen, reading>>
  BY <1>1 DEF Appear, Tick
<1>3. ptick \in Nat /\ ptick + 1 \in Nat /\ ptick + 1 # 0
  BY DEF PagesInv, RowsOK
<1>4. \A q \in PageRows : prow'[q] = IF q = r THEN row ELSE prow[q]
  BY <1>2 DEF PagesInv, RowsOK
<1>5. RowsOK'
  <2>1. \A n \in 0 .. ptick : n \in 0 .. ptick + 1
    BY <1>3
  <2>2. ptick + 1 \in 0 .. ptick + 1
    BY <1>3
  <2>. QED
    BY <1>2, <1>3, <1>4, <2>1, <2>2 DEF PagesInv, RowsOK
<1>6. ~prow[r].live /\ r \notin reading.since
  BY <1>2 DEF PagesInv, RowsOK, Live
<1>7. reading.since \subseteq Live'
  BY <1>4, <1>6 DEF PagesInv, Live
<1>8. ~(0 >= reading.at /\ reading.at # 0)
  BY DEF PagesInv
<1>9. reading.list = "keyset" => KeysetOK'
  BY <1>2, <1>4, <1>6, <1>8 DEF PagesInv, KeysetOK
<1>10. reading.list = "offset" => OffsetOK'
  BY <1>2, <1>4 DEF PagesInv, OffsetOK
<1>. QED
  BY <1>2, <1>5, <1>7, <1>9, <1>10 DEF PagesInv

LEMMA UpdateKeepsInv == ASSUME PagesInv, NEW r \in PageRows, Update(r) PROVE PagesInv'
<1>1. PICK old, row : old = prow[r] /\ row = [old EXCEPT !.updated = ptick + 1]
  OBVIOUS
<1>2. prow' = [prow EXCEPT ![r] = row] /\ ptick' = ptick + 1 /\ UNCHANGED <<pgen, reading>>
  BY <1>1 DEF Update, Tick
<1>3. DOMAIN old = {"gen", "created", "updated", "live"}
  BY <1>1 DEF PagesInv, RowsOK
<1>4. DOMAIN row = DOMAIN old /\ row.gen = old.gen /\ row.created = old.created /\ row.live = old.live
  BY <1>1, <1>3
<1>5. DOMAIN prow' = PageRows /\ \A q \in PageRows : /\ DOMAIN prow'[q] = DOMAIN prow[q] /\ prow'[q].gen = prow[q].gen
                              /\ prow'[q].created = prow[q].created /\ prow'[q].live = prow[q].live
  BY <1>1, <1>2, <1>4 DEF PagesInv, RowsOK
<1>6. RowsOK'
  <2>1. ptick \in Nat /\ ptick + 1 \in Nat /\ \A n \in 0 .. ptick : n \in 0 .. ptick + 1
    BY DEF PagesInv, RowsOK
  <2>. QED
    BY <1>2, <1>5, <2>1 DEF PagesInv, RowsOK
<1>7. Live' = Live
  BY <1>5 DEF Live
<1>8. (reading.list = "keyset" => KeysetOK') /\ (reading.list = "offset" => OffsetOK')
  BY <1>2, <1>5 DEF PagesInv, KeysetOK, OffsetOK
<1>. QED
  BY <1>2, <1>6, <1>7, <1>8 DEF PagesInv

\* Rows that go leave what a reader may miss.
LEMMA GoneKeepsInv ==
    ASSUME PagesInv, NEW rs, Gone(rs), ptick' = ptick,
           pgen' = pgen \/ rs = Live
    PROVE  PagesInv'
<1>1. ASSUME NEW row, DOMAIN row = {"gen", "created", "updated", "live"}, NEW new, new = [row EXCEPT !.live = FALSE]
      PROVE  DOMAIN new = DOMAIN row /\ new.gen = row.gen /\ new.created = row.created /\ new.live = FALSE
  BY <1>1
<1>2. DOMAIN prow' = PageRows /\ \A r \in PageRows : prow'[r] = IF r \in rs THEN [prow[r] EXCEPT !.live = FALSE] ELSE prow[r]
  BY DEF Gone
<1>3. \A r \in PageRows : /\ DOMAIN prow'[r] = DOMAIN prow[r] /\ prow'[r].gen = prow[r].gen
                          /\ prow'[r].created = prow[r].created
                          /\ prow'[r].live = IF r \in rs THEN FALSE ELSE prow[r].live
  <2>. SUFFICES ASSUME NEW r \in PageRows
                PROVE  /\ DOMAIN prow'[r] = DOMAIN prow[r] /\ prow'[r].gen = prow[r].gen
                       /\ prow'[r].created = prow[r].created
                       /\ prow'[r].live = IF r \in rs THEN FALSE ELSE prow[r].live
    OBVIOUS
  <2>1. PICK row : row = prow[r]
    OBVIOUS
  <2>2. DOMAIN row = {"gen", "created", "updated", "live"}
    BY <2>1 DEF PagesInv, RowsOK
  <2>3. CASE r \in rs
    <3>1. PICK new : new = [row EXCEPT !.live = FALSE]
      OBVIOUS
    <3>2. prow'[r] = new
      BY <1>2, <2>1, <2>3, <3>1
    <3>. QED
      BY <1>1, <2>1, <2>2, <2>3, <3>1, <3>2
  <2>4. CASE r \notin rs
    BY <1>2, <2>4
  <2>. QED
    BY <2>3, <2>4
<1>4. RowsOK'
  BY <1>2, <1>3 DEF PagesInv, RowsOK, Live
<1>5. PICK h : h = reading
  OBVIOUS
<1>6. /\ DOMAIN reading' = ReadingFields /\ reading'.since = reading.since \ rs
      /\ reading'.pc = reading.pc /\ reading'.list = reading.list /\ reading'.limit = reading.limit
      /\ reading'.at = reading.at /\ reading'.gen = reading.gen /\ reading'.seen = reading.seen
  <2>1. reading' = [h EXCEPT !.since = h.since \ rs]
    BY <1>5 DEF Gone
  <2>2. DOMAIN h = {"pc", "list", "limit", "at", "gen", "seen", "since"}
    BY <1>5 DEF PagesInv, ReadingFields
  <2>. QED
    BY <1>5, <2>1, <2>2 DEF ReadingFields
<1>7. reading'.since \subseteq Live'
  BY <1>3, <1>6 DEF PagesInv, Live
<1>8. (reading'.list = "keyset" => KeysetOK') /\ (reading'.list = "offset" => OffsetOK')
  BY <1>3, <1>6 DEF PagesInv, KeysetOK, OffsetOK
<1>. QED
  BY <1>4, <1>6, <1>7, <1>8 DEF PagesInv

----------------------------------------------------------------------------
LEMMA StartKeepsInv ==
    ASSUME PagesInv, NEW limit \in Limits, StartKeyset(limit) \/ StartOffset(limit)
    PROVE  PagesInv'
<1>1. PICK list \in {"keyset", "offset"} : reading' = Started(list, limit) /\ UNCHANGED <<prow, ptick, pgen>>
  BY DEF StartKeyset, StartOffset
<1>2. limit \in Nat \ {0}
  BY PagesAssumption DEF StartKeyset, StartOffset
<1>3. PICK h, live, g : h = NotReading /\ live = Live /\ g = pgen
  OBVIOUS
<1>4. /\ DOMAIN h = {"pc", "list", "limit", "at", "gen", "seen", "since"} /\ h.at = 0
      /\ h.seen = [r \in PageRows |-> 0]
  BY <1>3 DEF NotReading
<1>5. reading' = [h EXCEPT !.pc = "reading", !.list = list, !.limit = limit, !.since = live, !.gen = g]
  BY <1>1, <1>3 DEF Started
<1>6. /\ DOMAIN reading' = ReadingFields /\ reading'.pc = "reading" /\ reading'.limit = limit
      /\ reading'.since = Live /\ reading'.at = 0 /\ reading'.seen = [r \in PageRows |-> 0]
  BY <1>3, <1>4, <1>5 DEF ReadingFields
<1>7. RowsOK' /\ Live' = Live
  BY <1>1 DEF PagesInv, RowsOK, Live
<1>8. KeysetOK' /\ OffsetOK'
  BY <1>6 DEF KeysetOK, OffsetOK
<1>. QED
  BY <1>2, <1>6, <1>7, <1>8 DEF PagesInv

----------------------------------------------------------------------------
\* Among sets of subsets of a finite set there is always a smallest one, and so
\* a set of numbers up to some number has a least one.
LEMMA SmallestSubset ==
    ASSUME NEW S, IsFiniteSet(S), NEW T, T \subseteq SUBSET S, T # {}
    PROVE  \E X \in T : \A Y \in T : ~(Y \subseteq X /\ Y # X)
<1>1. T \subseteq FiniteSubsetsOf(S)
  BY FS_Subset DEF FiniteSubsetsOf
<1>2. PICK X \in T : \A Y \in T : <<Y, X>> \notin StrictSubsetOrdering(S)
  BY <1>1, FS_StrictSubsetOrderingWellFounded, WFMin
<1>. QED
  BY <1>2 DEF StrictSubsetOrdering

LEMMA LeastOf ==
    ASSUME NEW n \in Nat, NEW S, S \subseteq 1 .. n, S # {}
    PROVE  Min(S) \in S /\ \A j \in S : Min(S) <= j
<1> DEFINE D == 1 .. n
           UpTo(i) == {j \in S : j <= i}
           T == {UpTo(i) : i \in S}
<1>a. IsFiniteSet(D)
  BY FS_Interval
<1>1. T \subseteq SUBSET D /\ T # {}
  OBVIOUS
<1>2. PICK X \in T : \A Y \in T : ~(Y \subseteq X /\ Y # X)
  <2>. HIDE DEF T, D
  <2>. QED
    BY <1>a, <1>1, SmallestSubset
<1>3. PICK i \in S : X = UpTo(i)
  OBVIOUS
<1>4. ASSUME NEW j \in S, ~(i <= j) PROVE FALSE
  <2>1. i \in Int /\ j \in Int /\ \A k \in S : k \in Int
    OBVIOUS
  <2>2. j <= i /\ \A k \in S : k <= j => k <= i
    BY <1>4, <2>1
  <2>3. i \in X /\ i \notin UpTo(j)
    BY <1>3, <1>4, <2>1
  <2>4. UpTo(j) \subseteq X /\ UpTo(j) \in T
    BY <1>3, <2>2
  <2>. QED
    BY <1>2, <2>3, <2>4
<1>5. \E x \in S : \A j \in S : x <= j
  BY <1>4
<1>. QED
  BY <1>5 DEF Min

LEMMA GreatestOf ==
    ASSUME NEW n \in Nat, NEW S, S \subseteq 1 .. n, S # {}
    PROVE  \E i \in S : \A j \in S : i >= j
<1> DEFINE T == {n + 1 - i : i \in S}
<1>1. T \subseteq 1 .. n /\ T # {}
  OBVIOUS
<1>2. Min(T) \in T /\ \A j \in T : Min(T) <= j
  <2>. HIDE DEF T
  <2>. QED
    BY <1>1, LeastOf
<1>3. PICK i \in S : Min(T) = n + 1 - i
  BY <1>2
<1>4. ASSUME NEW j \in S PROVE i >= j
  <2>1. n + 1 - i <= n + 1 - j
    BY <1>2, <1>3
  <2>2. i \in Int /\ j \in Int
    OBVIOUS
  <2>. QED
    BY <2>1, <2>2
<1>. QED
  BY <1>4

----------------------------------------------------------------------------
\* The page that a position leaves: the rows of the rest that fewer than limit of
\* them precede.
LEMMA PageOfRest ==
    ASSUME RowsOK, NEW limit \in Nat \ {0}, NEW rest, rest \subseteq Live, NEW page,
           page = Newest(limit, rest, "created"), NEW at, at = Min({prow[r].created : r \in page})
    PROVE  /\ page \subseteq rest
           /\ rest # {} => page # {}
           /\ page # {} => at \in Nat /\ at # 0 /\ \A r \in page : prow[r].created >= at
           /\ page # {} => \A r \in rest : prow[r].created >= at => r \in page
           /\ Cardinality(rest) <= limit => page = rest
<1> DEFINE newer(r) == {q \in rest : prow[q].created > prow[r].created}
           S == {prow[r].created : r \in page}
           C == {prow[r].created : r \in rest}
<1>0. /\ ptick \in Nat /\ IsFiniteSet(rest) /\ Cardinality(rest) \in Nat
      /\ \A r \in rest : prow[r].created \in 1 .. ptick /\ prow[r].created \in Nat
  <2>1. ptick \in Nat /\ \A r \in rest : prow[r].created \in 0 .. ptick /\ prow[r].created # 0 /\ r \in PageRows
    BY DEF RowsOK, Live
  <2>2. IsFiniteSet(rest)
    BY <2>1, FS_Subset, PagesAssumption
  <2>. QED
    BY <2>1, <2>2, FS_CardinalityType
<1>1. page \subseteq rest /\ \A r \in rest : r \in page <=> Cardinality(newer(r)) < limit
  BY DEF Newest
<1>2. \A r \in rest : newer(r) \subseteq rest /\ r \notin newer(r) /\ IsFiniteSet(newer(r)) /\ Cardinality(newer(r)) \in Nat
  <2>1. \A r \in rest : newer(r) \subseteq rest /\ r \notin newer(r)
    BY <1>0
  <2>. HIDE DEF newer
  <2>. QED
    BY <1>0, <2>1, FS_Subset, FS_CardinalityType
<1>3. ASSUME rest # {} PROVE page # {}
  <2>1. C \subseteq 1 .. ptick /\ C # {}
    BY <1>0, <1>3
  <2>2. PICK n \in C : \A j \in C : n >= j
    <3>. HIDE DEF C
    <3>. QED
      BY <1>0, <2>1, GreatestOf
  <2>3. PICK r \in rest : prow[r].created = n
    OBVIOUS
  <2>4. newer(r) = {}
    <3>. SUFFICES ASSUME NEW q \in rest, prow[q].created > prow[r].created PROVE FALSE
      OBVIOUS
    <3>1. n >= prow[q].created
      BY <2>2
    <3>. QED
      BY <1>0, <2>3, <3>1
  <2>5. Cardinality(newer(r)) = 0
    BY <2>4, FS_EmptySet
  <2>. QED
    BY <1>1, <2>5
<1>4. ASSUME page # {} PROVE at \in S /\ at \in Nat /\ at # 0 /\ \A r \in page : prow[r].created >= at
  <2>1. S \subseteq 1 .. ptick /\ S # {}
    BY <1>0, <1>1, <1>4
  <2>2. at \in S /\ \A j \in S : at <= j
    <3>1. at = Min(S)
      OBVIOUS
    <3>. HIDE DEF S
    <3>. QED
      BY <1>0, <2>1, <3>1, LeastOf
  <2>3. \A r \in page : prow[r].created \in S
    OBVIOUS
  <2>. HIDE DEF S
  <2>. QED
    BY <1>0, <1>1, <2>1, <2>2, <2>3
<1>5. ASSUME page # {}, NEW r \in rest, prow[r].created >= at PROVE r \in page
  <2>1. PICK p \in page : prow[p].created = at
    BY <1>4, <1>5
  <2>2. p \in rest /\ newer(r) \subseteq newer(p)
    <3>1. p \in rest
      BY <1>1
    <3>2. ASSUME NEW q \in rest, prow[q].created > prow[r].created PROVE prow[q].created > prow[p].created
      BY <1>0, <1>5, <2>1, <3>1, <3>2
    <3>. QED
      BY <3>1, <3>2
  <2>. HIDE DEF newer
  <2>3. Cardinality(newer(r)) <= Cardinality(newer(p)) /\ Cardinality(newer(p)) < limit
    BY <1>1, <1>2, <2>2, FS_Subset
  <2>. QED
    BY <1>1, <1>2, <2>2, <2>3
<1>6. ASSUME Cardinality(rest) <= limit PROVE page = rest
  <2>. HIDE DEF newer
  <2>1. ASSUME NEW r \in rest PROVE Cardinality(newer(r)) < limit
    <3>1. newer(r) \subseteq rest /\ newer(r) # rest
      BY <1>2
    <3>2. Cardinality(newer(r)) <= Cardinality(rest) /\ Cardinality(newer(r)) # Cardinality(rest)
      BY <1>0, <3>1, FS_Subset
    <3>. QED
      BY <1>0, <1>2, <1>6, <3>2
  <2>. QED
    BY <1>1, <2>1
<1>. QED
  BY <1>1, <1>3, <1>4, <1>5, <1>6

LEMMA ShownIs ==
    ASSUME reading.seen \in [PageRows -> Nat], NEW page, NEW seen, seen = Shown(page)
    PROVE  /\ seen \in [PageRows -> Nat]
           /\ \A r \in PageRows : seen[r] = reading.seen[r] + (IF r \in page THEN 1 ELSE 0)
  BY DEF Shown

LEMMA KeysetPageKeepsInv == ASSUME PagesInv, KeysetPage PROVE PagesInv'
<1>1. PICK h, rest, page : /\ h = reading /\ rest = {r \in Live : After(r)}
                           /\ page = Newest(h.limit, rest, "created")
  OBVIOUS
<1>2. PICK seen, pc, least : /\ seen = Shown(page)
                             /\ pc = IF Cardinality(rest) > h.limit THEN "reading" ELSE "done"
                             /\ least = Min({prow[r].created : r \in page})
  OBVIOUS
<1>3. PICK at : at = IF page = {} THEN 0 ELSE least
  OBVIOUS
<1>4. /\ h.pc = "reading" /\ h.list = "keyset" /\ UNCHANGED <<prow, ptick, pgen>>
      /\ reading' = [h EXCEPT !.seen = seen, !.pc = pc, !.at = at]
  BY <1>1, <1>2, <1>3 DEF KeysetPage
<1>5. /\ RowsOK /\ h.limit \in Nat \ {0} /\ h.at \in Nat /\ h.seen \in [PageRows -> Nat] /\ KeysetOK
      /\ h.since \subseteq Live /\ DOMAIN h = {"pc", "list", "limit", "at", "gen", "seen", "since"}
  BY <1>1, <1>4 DEF PagesInv, ReadingFields
<1>6. /\ DOMAIN reading' = ReadingFields /\ reading'.seen = seen /\ reading'.pc = pc /\ reading'.at = at
      /\ reading'.list = "keyset" /\ reading'.limit = h.limit /\ reading'.since = h.since
  BY <1>4, <1>5 DEF ReadingFields
<1>7. RowsOK' /\ Live' = Live
  BY <1>4, <1>5 DEF RowsOK, Live
<1>8. /\ page \subseteq rest
      /\ rest # {} => page # {}
      /\ page # {} => least \in Nat /\ least # 0 /\ \A r \in page : prow[r].created >= least
      /\ page # {} => \A r \in rest : prow[r].created >= least => r \in page
      /\ Cardinality(rest) <= h.limit => page = rest
  <2>. PICK limit : limit = h.limit
    OBVIOUS
  <2>1. RowsOK /\ limit \in Nat \ {0} /\ rest \subseteq Live
    BY <1>1, <1>5
  <2>2. page = Newest(limit, rest, "created") /\ least = Min({prow[r].created : r \in page})
    BY <1>1, <1>2
  <2>. QED
    BY <2>1, <2>2, PageOfRest
<1>9. /\ seen \in [PageRows -> Nat]
      /\ \A r \in PageRows : seen[r] = h.seen[r] + (IF r \in page THEN 1 ELSE 0)
  BY <1>1, <1>2, <1>5, ShownIs
<1>10. Cardinality(rest) \in Nat /\ rest \subseteq PageRows
  <2>1. rest \subseteq PageRows
    BY <1>1 DEF Live
  <2>. QED
    BY <2>1, FS_Subset, FS_CardinalityType, PagesAssumption
<1>11. \A r \in PageRows : /\ prow[r].created \in Nat /\ h.seen[r] \in Nat /\ h.seen[r] <= 1
                           /\ h.seen[r] = 1 => h.at # 0 /\ prow[r].created >= h.at
                           /\ r \in h.since /\ h.at # 0 /\ prow[r].created >= h.at => h.seen[r] = 1
  BY <1>1, <1>4, <1>5 DEF RowsOK, KeysetOK
\* What is shown has not been seen: it comes after the position.
<1>12. \A r \in rest : h.at = 0 \/ prow[r].created < h.at
  BY <1>1 DEF After
<1>13. \A r \in page : h.seen[r] = 0
  BY <1>5, <1>8, <1>10, <1>11, <1>12
<1>14. \A r \in PageRows : seen[r] <= 1 /\ (seen[r] = 1 <=> h.seen[r] = 1 \/ r \in page)
  BY <1>9, <1>11, <1>13
\* A row that was there all the time has been seen or is in the rest.
<1>15. \A r \in h.since : r \in PageRows /\ (h.seen[r] = 1 \/ r \in rest)
  <2>. SUFFICES ASSUME NEW r \in h.since PROVE r \in PageRows /\ (h.seen[r] = 1 \/ r \in rest)
    OBVIOUS
  <2>1. r \in Live /\ r \in PageRows
    BY <1>5 DEF Live
  <2>2. h.at = 0 \/ prow[r].created < h.at => r \in rest
    BY <1>1, <2>1 DEF After
  <2>3. ~(prow[r].created < h.at) => prow[r].created >= h.at
    BY <1>5, <1>11, <2>1
  <2>. QED
    BY <1>11, <2>1, <2>2, <2>3
<1>16. CASE Cardinality(rest) > h.limit
  <2>1. pc = "reading" /\ page # {} /\ at = least
    <3>1. rest # {}
      BY <1>5, <1>16, FS_EmptySet
    <3>. QED
      BY <1>2, <1>3, <1>8, <1>16, <3>1
  <2>2. ASSUME NEW r \in PageRows, seen[r] = 1 PROVE prow[r].created >= at
    <3>1. CASE r \in page
      BY <1>8, <2>1, <3>1
    <3>2. CASE h.seen[r] = 1
      <4>1. PICK p : p \in page
        BY <2>1
      <4>2. prow[p].created < h.at /\ p \in PageRows /\ prow[p].created >= at /\ at \in Nat
        BY <1>8, <1>10, <1>11, <1>12, <2>1, <3>2, <4>1
      <4>. QED
        BY <1>5, <1>11, <3>2, <4>2
    <3>. QED
      BY <1>14, <2>2, <3>1, <3>2
  <2>3. ASSUME NEW r \in h.since, prow[r].created >= at PROVE seen[r] = 1
    BY <1>8, <1>14, <1>15, <2>1, <2>3
  <2>4. KeysetOK'
    BY <1>4, <1>6, <1>8, <1>14, <2>1, <2>2, <2>3 DEF KeysetOK
  <2>5. at \in Nat
    BY <1>8, <2>1
  <2>. QED
    BY <1>5, <1>6, <1>7, <1>9, <2>4, <2>5 DEF PagesInv
<1>17. CASE ~(Cardinality(rest) > h.limit)
  <2>1. pc = "done" /\ page = rest
    BY <1>2, <1>5, <1>8, <1>10, <1>17
  <2>2. at \in Nat
    BY <1>3, <1>8
  <2>3. \A r \in h.since : seen[r] = 1
    BY <1>14, <1>15, <2>1
  <2>4. KeysetOK'
    BY <1>6, <1>14, <2>1, <2>3 DEF KeysetOK
  <2>. QED
    BY <1>5, <1>6, <1>7, <1>9, <2>1, <2>2, <2>4 DEF PagesInv
<1>. QED
  BY <1>16, <1>17

\* A page by numbers shows rows that are in the list, and only of the generation
\* that the cursor was made in.
LEMMA OffsetPageKeepsInv == ASSUME PagesInv, OffsetPage PROVE PagesInv'
<1>1. PICK h, window : h = reading /\ window = Newest(Fetched, Live, "updated")
  OBVIOUS
<1>2. PICK page, more : /\ page = Newest(h.at + h.limit, window, "updated") \ Newest(h.at, window, "updated")
                        /\ more = (Cardinality(window) > h.at + h.limit)
  OBVIOUS
<1>3. PICK seen, pc, at, g : /\ seen = Shown(page) /\ pc = (IF more THEN "reading" ELSE "done")
                             /\ at = h.at + h.limit /\ g = IF h.at = 0 THEN pgen ELSE h.gen
  OBVIOUS
<1>4. /\ h.pc = "reading" /\ h.list = "offset" /\ UNCHANGED <<prow, ptick, pgen>>
      /\ reading' = IF ~SameSpace \/ Fetched <= h.at THEN [h EXCEPT !.pc = "expired"]
                    ELSE [h EXCEPT !.seen = seen, !.pc = pc, !.at = at, !.gen = g]
  BY <1>1, <1>2, <1>3 DEF OffsetPage
<1>5. /\ RowsOK /\ h.limit \in Nat \ {0} /\ h.at \in Nat /\ h.seen \in [PageRows -> Nat] /\ OffsetOK
      /\ h.since \subseteq Live /\ DOMAIN h = {"pc", "list", "limit", "at", "gen", "seen", "since"}
  BY <1>1, <1>4 DEF PagesInv, ReadingFields
<1>6. RowsOK' /\ Live' = Live
  BY <1>4, <1>5 DEF RowsOK, Live
<1>7. CASE reading' = [h EXCEPT !.pc = "expired"]
  <2>1. /\ DOMAIN reading' = ReadingFields /\ reading'.seen = h.seen /\ reading'.pc = "expired" /\ reading'.at = h.at
        /\ reading'.list = "offset" /\ reading'.since = h.since /\ reading'.gen = h.gen
    BY <1>4, <1>5, <1>7 DEF ReadingFields
  <2>2. OffsetOK'
    BY <1>1, <1>4, <1>5, <2>1 DEF OffsetOK
  <2>. QED
    BY <1>5, <1>6, <2>1, <2>2 DEF PagesInv
<1>8. CASE SameSpace /\ reading' = [h EXCEPT !.seen = seen, !.pc = pc, !.at = at, !.gen = g]
  <2>1. /\ DOMAIN reading' = ReadingFields /\ reading'.seen = seen /\ reading'.at = at /\ reading'.gen = g
        /\ reading'.list = "offset" /\ reading'.since = h.since /\ reading'.limit = h.limit
    BY <1>4, <1>5, <1>8 DEF ReadingFields
  <2>2. at \in Nat /\ at # 0
    BY <1>3, <1>5
  <2>3. page \subseteq Live
    BY <1>1, <1>2 DEF Newest
  <2>4. g = pgen
    BY <1>1, <1>3, <1>8 DEF SameSpace
  <2>5. /\ seen \in [PageRows -> Nat]
        /\ \A r \in PageRows : seen[r] = h.seen[r] + (IF r \in page THEN 1 ELSE 0)
    BY <1>1, <1>3, <1>5, ShownIs
  <2>6. ASSUME NEW r \in PageRows, seen[r] > 0 PROVE prow[r].created # 0 /\ prow[r].gen = g
    <3>1. CASE r \in page
      BY <1>5, <2>3, <2>4, <3>1 DEF RowsOK, Live
    <3>2. CASE r \notin page
      <4>1. h.seen[r] > 0
        BY <1>5, <2>5, <2>6, <3>2
      <4>2. h.at # 0 /\ prow[r].created # 0 /\ prow[r].gen = h.gen
        BY <1>1, <1>5, <4>1 DEF OffsetOK
      <4>. QED
        BY <1>3, <4>2
    <3>. QED
      BY <3>1, <3>2
  <2>7. OffsetOK'
    BY <1>4, <2>1, <2>2, <2>6 DEF OffsetOK
  <2>. QED
    BY <1>5, <1>6, <2>1, <2>2, <2>5, <2>7 DEF PagesInv
<1>. QED
  BY <1>4, <1>7, <1>8

LEMMA PagesStep == ASSUME PagesInv, [PagesNext]_lpVars PROVE PagesInv'
<1>1. CASE UNCHANGED lpVars
  BY <1>1 DEF lpVars, PagesInv, RowsOK, Live, KeysetOK, OffsetOK
<1>2. ASSUME NEW r \in PageRows, Disappear(r) PROVE PagesInv'
  BY <1>2, GoneKeepsInv DEF Disappear
<1>3. CASE Reset
  <2>1. PICK rs : rs = Live
    OBVIOUS
  <2>2. Gone(rs) /\ ptick' = ptick
    BY <1>3, <2>1 DEF Reset
  <2>. QED
    BY <2>1, <2>2, GoneKeepsInv
<1>. QED
  BY <1>1, <1>2, <1>3, AppearKeepsInv, UpdateKeepsInv, StartKeepsInv, KeysetPageKeepsInv,
     OffsetPageKeepsInv DEF PagesNext

----------------------------------------------------------------------------
\* The cursors of the lists, whatever comes, changes or goes meanwhile: a list read
\* by position shows each row that was there all the time once and no row twice,
\* and one read by numbers shows no rows of two generations.
THEOREM OneListOfPages == PagesSpec => []PagesAreOneList
<1>1. PagesInit => PagesInv
  BY PagesInitInv
<1>2. PagesInv /\ [PagesNext]_lpVars => PagesInv'
  BY PagesStep
<1>3. PagesInv => PagesAreOneList
  <2>. SUFFICES ASSUME PagesInv PROVE PagesAreOneList
    OBVIOUS
  <2>1. reading.list = "keyset" => ShowsEachOnce
    BY DEF PagesInv, KeysetOK, ShowsEachOnce
  <2>2. reading.list = "offset" => \A r \in PageRows : reading.seen[r] > 0 => prow[r].gen = reading.gen
    BY DEF PagesInv, OffsetOK
  <2>. QED
    BY <2>1, <2>2 DEF PagesAreOneList
<1>. QED
  BY <1>1, <1>2, <1>3, PTL DEF PagesSpec
============================================================================
