------------------------------ MODULE Executor ------------------------------
(***************************************************************************)
(* The research executor: app/research-service/app/jobs.py behind the HTTP *)
(* routes of main.py.  A table of tasks in SQLite, one thread per task, a  *)
(* semaphore that bounds the threads at work, and the quiesce state that a *)
(* backup begins and ends.                                                 *)
(*                                                                         *)
(* Each critical section of jobs._lock is one action; so is each route     *)
(* that runs on the event loop without a suspension.  Submission is two:   *)
(* it looks whether the worker is quiescing before it takes the lock.      *)
(*                                                                         *)
(* "insufficient" is a kind of success here.  private says whether the row *)
(* still holds the text of its payload or of a result.                     *)
(***************************************************************************)
EXTENDS Naturals, FiniteSets

CONSTANTS
    Tasks,
    Slots,          \* permits of _sema
    Epochs,         \* quiesce epochs, one per backup
    NoEpoch,
    MaxRestarts,    \* restarts of the process (a bound)
    MayRaise        \* whether complete_research can raise: not with the fixture executor

ASSUME SlotsAssumption  == Slots \in Nat \ {0} /\ MaxRestarts \in Nat
ASSUME EpochsAssumption == NoEpoch \notin Epochs
ASSUME RaiseAssumption  == MayRaise \in BOOLEAN

VARIABLES
    row,        \* the table tasks; status "absent" before the insert
    thread,     \* the thread of _run for each task
    submit,     \* the submit request being served for each task, past its first checks
    epoch,      \* OpsState.epoch; accepting and _quiescing follow from it
    granted,    \* the epoch whose quiescence the backup has seen acknowledged
    expired,    \* tasks of deleted runs: the server purges them when it deletes the run
                \* and, from a day later, at each tick of its worker
    restarts

vars == <<row, thread, submit, epoch, granted, expired, restarts>>

----------------------------------------------------------------------------

Running  == {"queued", "running"}
TERMINAL == {"succeeded", "failed", "canceled"}

TaskRow   == [status : {"absent"} \cup Running \cup TERMINAL, private : BOOLEAN, acked : BOOLEAN]
AbsentRow == [status |-> "absent", private |-> FALSE, acked |-> FALSE]

TypeOK ==
    /\ row \in [Tasks -> TaskRow]
    /\ thread \in [Tasks -> {"none", "waiting", "working"}]
    /\ submit \in [Tasks -> {"none", "checked"}]
    /\ epoch \in Epochs \cup {NoEpoch}
    /\ granted \in Epochs \cup {NoEpoch}
    /\ expired \subseteq Tasks
    /\ restarts \in Nat

ExecutorInit ==
    /\ row = [t \in Tasks |-> AbsentRow]
    /\ thread = [t \in Tasks |-> "none"]
    /\ submit = [t \in Tasks |-> "none"]
    /\ epoch = NoEpoch
    /\ granted = NoEpoch
    /\ expired = {}
    /\ restarts = 0

Known(t)  == row[t].status # "absent"
Active(t) == row[t].status \in Running
Accepting == epoch = NoEpoch

----------------------------------------------------------------------------
(* The requests of the Go server *)

SubmitCheck(t) ==
    /\ submit[t] = "none" /\ Accepting
    /\ submit' = [submit EXCEPT ![t] = "checked"]
    /\ UNCHANGED <<row, thread, epoch, granted, expired, restarts>>

\* A task the table already has is left as it is and gets no second thread.
SubmitInsert(t) ==
    /\ submit[t] = "checked"
    /\ submit' = [submit EXCEPT ![t] = "none"]
    /\ IF Known(t)
       THEN UNCHANGED <<row, thread>>
       ELSE /\ row' = [row EXCEPT ![t] = [status |-> "queued", private |-> TRUE, acked |-> FALSE]]
            /\ thread' = [thread EXCEPT ![t] = "waiting"]
    /\ UNCHANGED <<epoch, granted, expired, restarts>>

\* The thread is not told: it finds out when it starts or when it saves.
Cancel(t) ==
    /\ Active(t)
    /\ row' = [row EXCEPT ![t].status = "canceled"]
    /\ UNCHANGED <<thread, submit, epoch, granted, expired, restarts>>

\* HTTPResearchClient.Get acknowledges the terminal snapshot it has read.
Ack(t) ==
    /\ row[t].status \in TERMINAL
    /\ row' = [row EXCEPT ![t].acked = TRUE]
    /\ UNCHANGED <<thread, submit, epoch, granted, expired, restarts>>

Expire(t) ==
    /\ t \notin expired
    /\ expired' = expired \cup {t}
    /\ UNCHANGED <<row, thread, submit, epoch, granted, restarts>>

Purge(t) ==
    /\ t \in expired /\ Known(t)
    /\ row' = [row EXCEPT ![t].private = FALSE]
    /\ UNCHANGED <<thread, submit, epoch, granted, expired, restarts>>

----------------------------------------------------------------------------
(* The thread of a task: _run *)

Working == {t \in Tasks : thread[t] \notin {"none", "waiting"}}

\* A task canceled while it waited gives its permit back at once.
Start(t) ==
    /\ thread[t] = "waiting" /\ Cardinality(Working) < Slots
    /\ IF row[t].status = "queued"
       THEN /\ row' = [row EXCEPT ![t].status = "running"]
            /\ thread' = [thread EXCEPT ![t] = "working"]
       ELSE /\ thread' = [thread EXCEPT ![t] = "none"]
            /\ UNCHANGED row
    /\ UNCHANGED <<submit, epoch, granted, expired, restarts>>

SavedOverCancel(t, status) ==
    [row EXCEPT ![t].status = status, ![t].private = TRUE]

\* _save_result: the result of a canceled task is dropped.
Saved(t, status) ==
    IF row[t].status = "canceled" THEN row
    ELSE [row EXCEPT ![t].status = status, ![t].private = TRUE]

Finish(t) ==
    /\ thread[t] = "working"
    /\ \E status \in {"succeeded", "failed"} : row' = Saved(t, status)
    /\ thread' = [thread EXCEPT ![t] = "none"]
    /\ UNCHANGED <<submit, epoch, granted, expired, restarts>>

RaiseLeaks(t) ==
    /\ MayRaise /\ thread[t] = "working"
    /\ thread' = [thread EXCEPT ![t] = "dead"]
    /\ UNCHANGED <<row, submit, epoch, granted, expired, restarts>>

\* An answer of the model that is no result raises outside every handler: the thread
\* gives its permit back and is gone.
Raise(t) ==
    /\ MayRaise /\ thread[t] = "working"
    /\ thread' = [thread EXCEPT ![t] = "none"]
    /\ UNCHANGED <<row, submit, epoch, granted, expired, restarts>>

Work(t) == Finish(t) \/ Raise(t)

----------------------------------------------------------------------------
(* Quiescing for a backup, and restarts *)

\* Another epoch is a conflict while one is held; the same one again changes nothing.
QuiesceBegin(e) ==
    /\ epoch = NoEpoch
    /\ epoch' = e
    /\ UNCHANGED <<row, thread, submit, granted, expired, restarts>>

QuiesceStatus ==
    /\ epoch # NoEpoch /\ \A t \in Tasks : ~Active(t)
    /\ granted' = epoch
    /\ UNCHANGED <<row, thread, submit, epoch, expired, restarts>>

\* The backup lets go of its epoch; the executor may have forgotten it in a restart.
QuiesceEnd(e) ==
    /\ epoch = e \/ granted = e
    /\ epoch' = IF epoch = e THEN NoEpoch ELSE epoch
    /\ granted' = IF granted = e THEN NoEpoch ELSE granted
    /\ UNCHANGED <<row, thread, submit, expired, restarts>>

\* recover_on_start: what was active has failed, and acknowledged copies are emptied.
Recovered(t) ==
    LET status == IF Active(t) THEN "failed" ELSE row[t].status IN
    [status  |-> status,
     private |-> row[t].private /\ ~(row[t].acked /\ status \in TERMINAL),
     acked   |-> row[t].acked]

Restart ==
    /\ restarts < MaxRestarts
    /\ restarts' = restarts + 1
    /\ row' = [t \in Tasks |-> Recovered(t)]
    /\ thread' = [t \in Tasks |-> "none"]
    /\ submit' = [t \in Tasks |-> "none"]
    /\ epoch' = NoEpoch
    /\ UNCHANGED <<granted, expired>>

----------------------------------------------------------------------------

ExecutorNext ==
    \/ \E t \in Tasks : \/ SubmitCheck(t) \/ SubmitInsert(t) \/ Cancel(t) \/ Ack(t)
                        \/ Expire(t) \/ Purge(t) \/ Start(t) \/ Work(t)
    \/ \E e \in Epochs : QuiesceBegin(e) \/ QuiesceEnd(e)
    \/ QuiesceStatus
    \/ Restart

ExecutorSpec == ExecutorInit /\ [][ExecutorNext]_vars

\* The calls of a thread have time limits, so that a thread at work comes to an end;
\* the server purges expired tasks at every tick of its worker.
Fairness == \A t \in Tasks :
    WF_vars(SubmitInsert(t)) /\ WF_vars(Start(t)) /\ WF_vars(Work(t)) /\ WF_vars(Purge(t))

FairSpec == ExecutorSpec /\ Fairness

----------------------------------------------------------------------------

\* The board that the Go server sees in the answers to GET.
Seen(t) == CASE row[t].status = "absent"    -> "absent"
             [] row[t].status \in Running   -> "active"
             [] row[t].status = "succeeded" -> "ok"
             [] OTHER                       -> row[t].status

Board == INSTANCE TaskBoard WITH status <- [t \in Tasks |-> Seen(t)]

\* A canceled or failed task is never revived by the thread that still works on it, by
\* a second submission or by a restart: each task ends once.
ImplementsBoard == Board!Spec

\* What the thread of a task can find in its row.
ThreadsMatchRows ==
    \A t \in Tasks :
        /\ thread[t] = "waiting" => row[t].status \in {"queued", "canceled"}
        /\ thread[t] = "working" => row[t].status \in {"running", "canceled"}

\* The copy of an expired task is emptied for good, although a thread may still save
\* its result after a purge.
PrivateGone == \A t \in Tasks : t \in expired ~> []~row[t].private

\* No task waits for ever: every way out of _run gives the permit back.
Dispatched == \A t \in Tasks : row[t].status = "queued" ~> row[t].status # "queued"

\* "Otherwise the task is failed" (app/README.md): a task at work ends.
TasksEnd == \A t \in Tasks : row[t].status = "running" ~> row[t].status \in TERMINAL

\* No new task enters the table while the backup holds an acknowledged epoch.
QuietWhenGranted ==
    [][\A t \in Tasks : granted = epoch /\ epoch # NoEpoch /\ ~Known(t) => ~Known(t)']_vars

=============================================================================
