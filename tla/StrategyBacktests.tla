------------------------- MODULE StrategyBacktests -------------------------
(***************************************************************************)
(* Backtests of the strategy workbench (app/server/service/workbench       *)
(* /hub.go): a request takes one of the two slots of its user, a goroutine *)
(* executes the run and writes its status step by step, the owner cancels  *)
(* it or deletes its strategy meanwhile.  No status write asks for the     *)
(* status it replaces.  What the engine computes is in BacktestLedger.     *)
(***************************************************************************)
EXTENDS Integers, FiniteSets

CONSTANTS
    BtRuns,   \* runs
    BtUsers,
    BtOwner,  \* [BtRuns -> BtUsers]
    MaxActive \* slots of a user (2)

ASSUME BacktestAssumption ==
    /\ IsFiniteSet(BtRuns)
    /\ BtOwner \in [BtRuns -> BtUsers]

VARIABLES
    bt,      \* finance_backtest_runs
    work,    \* the request or the goroutine of each run
    slots,   \* Hub.active
    ledger,  \* runs whose orders, fills, equity and result are stored
    removed  \* users whose strategy is deleted

btVars == <<bt, work, slots, ledger, removed>>

BtActive == {"queued", "preparing_data", "running"}
BtDone == {"succeeded", "failed", "insufficient_data", "canceled"}

BacktestInit ==
    /\ bt = [r \in BtRuns |-> "none"]
    /\ work = [r \in BtRuns |-> "idle"]
    /\ slots = [u \in BtUsers |-> 0]
    /\ ledger = {}
    /\ removed = {}

----------------------------------------------------------------------------
(* StartBacktest asks for the version; the strategy may have been deleted. *)
StartBacktest(r) ==
    /\ work[r] = "idle" /\ bt[r] = "none"
    /\ slots[BtOwner[r]] < MaxActive
    /\ slots' = [slots EXCEPT ![BtOwner[r]] = @ + 1]
    /\ work' = [work EXCEPT ![r] = "insert"]
    /\ UNCHANGED <<bt, ledger, removed>>

KeepSlot(r) == slots' = slots

(* dec *)
ReturnSlot(r) == slots' = [slots EXCEPT ![BtOwner[r]] = IF @ > 0 THEN @ - 1 ELSE 0]

(* The insert fails where another request has stored the same key.         *)
InsertRun(r) ==
    /\ work[r] = "insert"
    /\ \/ /\ bt' = [bt EXCEPT ![r] = "queued"]
          /\ work' = [work EXCEPT ![r] = "prepare"]
          /\ UNCHANGED slots
       \/ /\ work' = [work EXCEPT ![r] = "idle"]
          /\ ReturnSlot(r)
          /\ UNCHANGED bt
    /\ UNCHANGED <<ledger, removed>>

----------------------------------------------------------------------------
(* runBacktest *)
Mark(r, status, pc) ==
    /\ bt' = [bt EXCEPT ![r] = status]
    /\ work' = [work EXCEPT ![r] = pc]
    /\ UNCHANGED <<slots, ledger, removed>>

Prepare(r) == work[r] = "prepare" /\ Mark(r, "preparing_data", "load")

(* Version, compiled rule, instrument, bars and actions are there.         *)
Load(r) ==
    /\ work[r] = "load"
    /\ \E pc \in {"running", "fail"} : work' = [work EXCEPT ![r] = pc]
    /\ UNCHANGED <<bt, slots, ledger, removed>>

MarkRunning(r) == work[r] = "running" /\ Mark(r, "running", "compute")

Compute(r) ==
    /\ work[r] = "compute"
    /\ \E pc \in {"look", "fail"} : work' = [work EXCEPT ![r] = pc]
    /\ UNCHANGED <<bt, slots, ledger, removed>>

End(r) == work' = [work EXCEPT ![r] = "over"] /\ ReturnSlot(r)

(* The look for a cancellation, before the result and before a failure.    *)
LookForRunCancel(r) ==
    /\ work[r] \in {"look", "fail"}
    /\ IF bt[r] = "canceled"
         THEN End(r)
         ELSE /\ work' = [work EXCEPT ![r] = IF work[r] = "look" THEN "persist" ELSE "failed"]
              /\ UNCHANGED slots
    /\ UNCHANGED <<bt, ledger, removed>>

(* persistBacktest does not look at errors. *)
PersistBacktest(r) ==
    /\ work[r] = "persist"
    /\ ledger' \in {ledger, ledger \cup {r}}
    /\ work' = [work EXCEPT ![r] = "publish"]
    /\ UNCHANGED <<bt, slots, removed>>

PublishResult(r) ==
    /\ work[r] = "publish"
    /\ bt' = [bt EXCEPT ![r] = "succeeded"]
    /\ End(r)
    /\ UNCHANGED <<ledger, removed>>

FailRun(r) ==
    /\ work[r] = "failed"
    /\ \E status \in {"failed", "insufficient_data"} : bt' = [bt EXCEPT ![r] = status]
    /\ End(r)
    /\ UNCHANGED <<ledger, removed>>

----------------------------------------------------------------------------
CancelBacktest(r) ==
    /\ bt[r] \in BtActive
    /\ bt' = [bt EXCEPT ![r] = "canceled"]
    /\ UNCHANGED <<work, slots, ledger, removed>>

(* DeleteStrategy: what is active is canceled, what starts later is not.   *)
DeleteStrategy(u) ==
    /\ u \notin removed
    /\ removed' = removed \cup {u}
    /\ bt' = [r \in BtRuns |-> IF BtOwner[r] = u /\ bt[r] \in BtActive THEN "canceled" ELSE bt[r]]
    /\ UNCHANGED <<work, slots, ledger>>

(* The server stops: goroutines and counters go, rows stay.                *)
BacktestsLost ==
    /\ \E u \in BtUsers : slots[u] > 0
    /\ work' = [r \in BtRuns |-> IF work[r] \in {"idle", "insert"} THEN "idle" ELSE "over"]
    /\ slots' = [u \in BtUsers |-> 0]
    /\ UNCHANGED <<bt, ledger, removed>>

(* GetResults, GetTrades and Export *)
Readable(r) == bt[r] = "succeeded" /\ r \in ledger

BacktestNext ==
    \/ \E r \in BtRuns :
          \/ StartBacktest(r) \/ InsertRun(r) \/ Prepare(r) \/ Load(r) \/ MarkRunning(r)
          \/ Compute(r) \/ LookForRunCancel(r) \/ PersistBacktest(r) \/ PublishResult(r) \/ FailRun(r)
          \/ CancelBacktest(r)
    \/ \E u \in BtUsers : DeleteStrategy(u)
    \/ BacktestsLost

BacktestSpec == BacktestInit /\ [][BacktestNext]_btVars

----------------------------------------------------------------------------
(* Through failures, refused inserts, cancellations and restarts, a user   *)
(* holds a slot for each backtest that is executing and for no other, and  *)
(* nobody reads results of a run that is still being executed.             *)
SlotsAreExecutions ==
    /\ \A u \in BtUsers :
          slots[u] = Cardinality({r \in BtRuns : BtOwner[r] = u /\ work[r] \notin {"idle", "over"}})
    /\ \A r \in BtRuns : Readable(r) => work[r] = "over"

(* A final status is final; a late worker does not write a success over a  *)
(* cancellation (the specification says so).                               *)
FinalIsFinal == [][\A r \in BtRuns : bt[r] \in BtDone => bt'[r] = bt[r]]_btVars
============================================================================
