--------------------------- MODULE FinanceConfig ---------------------------
(***************************************************************************)
(* ConfigService (app/server/service/finance/config_service.go) behind the *)
(* routes of api/v1/finance/admin.go: immutable versions of the model      *)
(* configuration, of which one is active, and the policy that caps the     *)
(* budgets of new runs.  Activate and PatchPolicy are several statements   *)
(* without a transaction: other calls run in between, and a crash leaves   *)
(* what was written so far.  The timeouts of the policy are left out.      *)
(***************************************************************************)
EXTENDS FinanceBudget, Integers, Sequences

CONSTANTS
    Configs,    \* model configurations, named by their digest
    Calls,      \* admin calls
    Limits,     \* limits an admin may send; 0 keeps the current one
    CfgRuns,    \* runs that freeze a budget
    MaxVersions \* policy versions, and activations (a bound)

ASSUME ConfigAssumption == Configs # {}

Kinds == {"model", "tool"}

VARIABLES
    config,     \* finance_config_versions of kind model
    everPassed, \* configurations whose own digest passed a test at some time
    policy,     \* finance_config_versions of kind policy, by created_at
    admin,      \* each admin call
    stamp,      \* the clock that active_at is taken from
    frozen      \* the budget frozen into each run, or NoBudget

cfVars == <<config, everPassed, policy, admin, stamp, frozen>>

NoBudget == [run |-> [k \in Kinds |-> 0], role |-> [k \in Kinds |-> 0]]
Idle == [pc |-> "idle", config |-> CHOOSE c \in Configs : TRUE, limits |-> [k \in Kinds |-> 0]]

ConfigInit ==
    /\ config = [c \in Configs |-> [saved |-> FALSE, test |-> "untested", at |-> 0]]
    /\ everPassed = {} /\ policy = <<>> /\ stamp = 0
    /\ admin = [a \in Calls |-> Idle]
    /\ frozen = [r \in CfgRuns |-> NoBudget]

----------------------------------------------------------------------------
(* SaveModel adds a version; MarkTested records the digest a test was run  *)
(* for, which is the one of the version or a stale one.  StartTest and     *)
(* GetTest write nothing.                                                  *)
SaveModel(c) ==
    /\ ~config[c].saved
    /\ config' = [config EXCEPT ![c].saved = TRUE]
    /\ UNCHANGED <<everPassed, policy, admin, stamp, frozen>>

MarkTested(c) ==
    /\ config[c].saved
    /\ \E test \in {"passed", "stale"} :
          /\ config' = [config EXCEPT ![c].test = test]
          /\ everPassed' = IF test = "passed" THEN everPassed \cup {c} ELSE everPassed
    /\ UNCHANGED <<policy, admin, stamp, frozen>>

(* Mutant: a version is activated without a test. *)
ActivatableUntested(c) == TRUE

Activatable(c) == config[c].test = "passed"

ActivateCheck(a, c) ==
    /\ admin[a].pc = "idle" /\ config[c].saved /\ Activatable(c)
    /\ admin' = [admin EXCEPT ![a] = [Idle EXCEPT !.pc = "deactivate", !.config = c]]
    /\ UNCHANGED <<config, everPassed, policy, stamp, frozen>>

ActivateClear(a) ==
    /\ admin[a].pc = "deactivate"
    /\ config' = [c \in Configs |-> [config[c] EXCEPT !.at = 0]]
    /\ admin' = [admin EXCEPT ![a].pc = "activate"]
    /\ UNCHANGED <<everPassed, policy, stamp, frozen>>

ActivateSet(a) ==
    /\ admin[a].pc = "activate" /\ stamp < MaxVersions
    /\ config' = [config EXCEPT ![admin[a].config].at = stamp + 1]
    /\ stamp' = stamp + 1
    /\ admin' = [admin EXCEPT ![a] = Idle]
    /\ UNCHANGED <<everPassed, policy, frozen>>

(* Active: the version with the latest active_at. *)
Served == {c \in Configs : config[c].at > 0 /\ \A d \in Configs : config[d].at <= config[c].at}

----------------------------------------------------------------------------
(* GetPolicy *)
ActivePolicies == SelectSeq(policy, LAMBDA p : p.active)

InForce ==
    IF ActivePolicies = <<>> \/ ActivePolicies[Len(ActivePolicies)].limits["model"] = 0
      THEN DefaultSnapshot.run
      ELSE ActivePolicies[Len(ActivePolicies)].limits

(* PatchPolicy: read, refuse what is above the policy in force, deactivate *)
(* the active version, create the new one.                                 *)
Filled(limits) == [k \in Kinds |-> IF limits[k] = 0 THEN InForce[k] ELSE limits[k]]

Allowed(limits) == \A k \in Kinds : limits[k] <= InForce[k]

PatchCheck(a) ==
    /\ admin[a].pc = "idle"
    /\ \E limits \in [Kinds -> Limits] :
          /\ Allowed(Filled(limits))
          /\ admin' = [admin EXCEPT ![a] = [Idle EXCEPT !.pc = "replace", !.limits = Filled(limits)]]
    /\ UNCHANGED <<config, everPassed, policy, stamp, frozen>>

PatchClear(a) ==
    /\ admin[a].pc = "replace"
    /\ policy' = [i \in 1..Len(policy) |-> [policy[i] EXCEPT !.active = FALSE]]
    /\ admin' = [admin EXCEPT ![a].pc = "create"]
    /\ UNCHANGED <<config, everPassed, stamp, frozen>>

PatchCreate(a) ==
    /\ admin[a].pc = "create" /\ Len(policy) < MaxVersions
    /\ policy' = Append(policy, [limits |-> admin[a].limits, active |-> TRUE])
    /\ admin' = [admin EXCEPT ![a] = Idle]
    /\ UNCHANGED <<config, everPassed, stamp, frozen>>

(* The server stops, or a statement fails, between two statements. *)
CallDies(a) ==
    /\ admin[a].pc # "idle"
    /\ admin' = [admin EXCEPT ![a] = Idle]
    /\ UNCHANGED <<config, everPassed, policy, stamp, frozen>>

(* CreateResearch freezes the policy in force; every use of the budget     *)
(* parses the frozen snapshot.                                             *)
FreezeBudget(r) ==
    /\ frozen[r] = NoBudget
    /\ frozen' = [frozen EXCEPT ![r] = FreezeBudgetSnapshot(InForce)]
    /\ UNCHANGED <<config, everPassed, policy, admin, stamp>>

ConfigNext ==
    \/ \E c \in Configs : SaveModel(c) \/ MarkTested(c)
    \/ \E a \in Calls :
          \/ \E c \in Configs : ActivateCheck(a, c)
          \/ ActivateClear(a) \/ ActivateSet(a)
          \/ PatchCheck(a) \/ PatchClear(a) \/ PatchCreate(a) \/ CallDies(a)
    \/ \E r \in CfgRuns : FreezeBudget(r)

ConfigSpec == ConfigInit /\ [][ConfigNext]_cfVars

----------------------------------------------------------------------------
(* Whatever activations cross, the version that CreateResearch freezes     *)
(* into a run has passed a test of its own digest.                         *)
ServedWasTested == Served \subseteq everPassed

(* Whatever patches cross or die half way, what a run parses from its      *)
(* frozen budget is at least one call of each kind and at most the hard    *)
(* cap, and a role gets no more than its run.  The code does not keep it.  *)
BudgetsWithinHardCap ==
    \A r \in CfgRuns : frozen[r] # NoBudget =>
        LET b == ParseBudgetSnapshot(frozen[r]) IN
        \A k \in Kinds :
            /\ b.run[k] \in 1..DefaultSnapshot.run[k]
            /\ b.role[k] \in 1..AtMost(b.run[k], DefaultSnapshot.role[k])

(* "The UI may only lower the hard caps" (the note every policy carries):  *)
(* no step raises the policy in force.  The code does not keep it: two     *)
(* patches read one policy and write one after the other.                  *)
PolicyOnlyLowers == [][\A k \in Kinds : InForce'[k] <= InForce[k]]_cfVars
============================================================================
