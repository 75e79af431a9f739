--------------------------- MODULE FinanceBudget ---------------------------
(***************************************************************************)
(* DBBudget of app/server/service/finance/budget_service.go.  Reserve and  *)
(* Reconcile are one transaction each, serialised by the row lock on       *)
(* finance_scheduler (Reserve) and on the ledger row (Reconcile), so they  *)
(* are functions from one ledger to the next.  A ledger gives each request *)
(* id its row of finance_usage_ledger.                                     *)
(***************************************************************************)
EXTENDS Naturals, FiniteSets

CONSTANTS
    RunMax,    \* BudgetSnapshot: calls of each kind a run may make
    RoleMax    \* and each task of it

ASSUME BudgetAssumption == RunMax \in Nat /\ RoleMax \in Nat

NoRow == [status |-> "none", kind |-> "none", task |-> "none"]

(* Mutant: a request whose usage is unknown gives its unit back. *)
CountedKnown == {"reserved", "succeeded"}

(* Statuses that take a unit.  An unknown outcome keeps it. *)
Counted == {"reserved", "succeeded", "unknown"}

Used(ledger, kind) ==
    Cardinality({id \in DOMAIN ledger :
                    ledger[id].kind = kind /\ ledger[id].status \in Counted})

UsedBy(ledger, kind, task) ==
    Cardinality({id \in DOMAIN ledger :
                    /\ ledger[id].kind = kind /\ ledger[id].task = task
                    /\ ledger[id].status \in Counted})

(* A request id that has a row is answered with it, whatever its status. *)
Reservable(ledger, id, kind, task) ==
    \/ ledger[id] # NoRow
    \/ /\ Used(ledger, kind) < RunMax
       /\ UsedBy(ledger, kind, task) < RoleMax

Reserve(ledger, id, kind, task) ==
    IF ledger[id] # NoRow THEN ledger
    ELSE [ledger EXCEPT ![id] = [status |-> "reserved", kind |-> kind, task |-> task]]

Reconcile(ledger, id, unknown) ==
    [ledger EXCEPT ![id].status = IF unknown THEN "unknown" ELSE "succeeded"]

(* BudgetSnapshot: DefaultBudgetSnapshot, FreezeBudgetSnapshot at creation *)
(* and ParseBudgetSnapshot at every use.  Limits are per kind of call.     *)
DefaultSnapshot == [run |-> [model |-> 14, tool |-> 12], role |-> [model |-> 4, tool |-> 6]]

AtMost(a, b) == IF a > b THEN b ELSE a

Capped(run, role) == [k \in {"model", "tool"} |-> AtMost(role[k], run[k])]

FreezeBudgetSnapshot(policy) ==
    LET run == [k \in {"model", "tool"} |->
                   IF policy[k] > 0 THEN policy[k] ELSE DefaultSnapshot.run[k]]
    IN  [run |-> run, role |-> Capped(run, DefaultSnapshot.role)]

ParseBudgetSnapshot(raw) ==
    LET run  == [k \in {"model", "tool"} |->
                    IF raw.run[k] > 0 THEN raw.run[k] ELSE DefaultSnapshot.run[k]]
        role == [k \in {"model", "tool"} |->
                    IF raw.role[k] > 0 THEN raw.role[k] ELSE DefaultSnapshot.role[k]]
    IN  [run |-> run, role |-> Capped(run, role)]
============================================================================
