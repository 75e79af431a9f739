--------------------------- MODULE FuturesBudget ---------------------------
(***************************************************************************)
(* The daily accounts of the futures module (app/server/service/futures    *)
(* /budget.go) and the calls that draw on them (internal_tools.go,         *)
(* model_gateway.go): an account per user and one for the module are       *)
(* seeded by whichever call comes first on a day, every call reserves in   *)
(* both, and settles in both afterwards.  Amounts and tokens move together *)
(* and are counted as one unit.  The limits of a single run travel in the  *)
(* reservation and are not looked at: enforceRunLimits has no caller.      *)
(***************************************************************************)
EXTENDS Integers, FiniteSets, Functions

CONSTANTS
    Spenders,   \* users
    Attempts,   \* calls
    SpenderOf,  \* [Attempts -> Spenders]
    KindOf,     \* [Attempts -> {"model", "tool"}]
    UserLimit, ModuleLimit, \* what an account may spend on a day (5, 50)
    SeededCalls,            \* calls of a kind that a seed allows (8, 24)
    MaxCost                 \* the most a call may reserve (a bound)

ASSUME LedgerAssumption ==
    /\ SpenderOf \in [Attempts -> Spenders] /\ KindOf \in [Attempts -> {"model", "tool"}]
    /\ UserLimit \in Nat /\ ModuleLimit \in Nat /\ SeededCalls \in Nat /\ MaxCost \in Nat

VARIABLES
    account, \* futures_budget_accounts of the day
    attempt  \* futures_budget_reservations, and the call behind each

fbVars == <<account, attempt>>

Module == "module"
Accounts == Spenders \cup {Module}
AccountsOf(a) == {SpenderOf[a], Module}

Unseeded == [seeded |-> FALSE, reserved |-> 0, spent |-> 0,
             calls |-> [k \in {"model", "tool"} |-> 0],
             limit |-> [k \in {"model", "tool"} |-> 0]]
NoAttempt == [pc |-> "idle", state |-> "none", amount |-> 0, actual |-> 0]

LedgerInit ==
    /\ account = [c \in Accounts |-> Unseeded]
    /\ attempt = [a \in Attempts |-> NoAttempt]

----------------------------------------------------------------------------
(* SeedAccount does nothing where the account exists.  Tools seed call     *)
(* limits, the model seeds zeros.                                          *)
SeedLimit(a) ==
    [k \in {"model", "tool"} |-> IF KindOf[a] = "tool" THEN SeededCalls ELSE 0]

SeedAccounts(a) ==
    /\ attempt[a].pc = "idle"
    /\ account' = [c \in Accounts |->
          IF c \in AccountsOf(a) /\ ~account[c].seeded
            THEN [Unseeded EXCEPT !.seeded = TRUE, !.limit = SeedLimit(a)]
            ELSE account[c]]
    /\ attempt' = [attempt EXCEPT ![a].pc = "reserve"]

(* What a call may cost: tools cost nothing. *)
Costs(a) == IF KindOf[a] = "tool" THEN {0} ELSE 0..MaxCost

(* Reserve locks the account of the user, then the one of the module.      *)
CapOf(c) == IF c = Module THEN ModuleLimit ELSE UserLimit

Affordable(a, amount) ==
    \A c \in AccountsOf(a) : account[c].reserved + account[c].spent + amount <= CapOf(c)

CallLeft(a) ==
    \A c \in AccountsOf(a) : account[c].calls[KindOf[a]] + 1 <= account[c].limit[KindOf[a]]

(* addBudgetUsage *)
Booked(a, amount) ==
    [c \in Accounts |->
        IF c \in AccountsOf(a)
          THEN [account[c] EXCEPT !.reserved = @ + amount, !.calls[KindOf[a]] = @ + 1]
          ELSE account[c]]

Reserve(a) ==
    /\ attempt[a].pc = "reserve"
    /\ \E amount \in Costs(a) :
          IF Affordable(a, amount) /\ CallLeft(a)
            THEN /\ account' = Booked(a, amount)
                 /\ attempt' = [attempt EXCEPT ![a].pc = "call", ![a].state = "reserved",
                                               ![a].amount = amount]
            ELSE /\ attempt' = [attempt EXCEPT ![a].pc = "refused"]
                 /\ UNCHANGED account

(* The call answers with its usage, which may exceed the estimate, or      *)
(* without (an error, no usage in the answer).                             *)
SettleKnown(a) ==
    /\ attempt[a].pc = "call" /\ attempt[a].state = "reserved"
    /\ \E actual \in Costs(a) :
          /\ account' = [c \in Accounts |->
                IF c \in AccountsOf(a)
                  THEN [account[c] EXCEPT !.reserved = @ - attempt[a].amount, !.spent = @ + actual]
                  ELSE account[c]]
          /\ attempt' = [attempt EXCEPT ![a].pc = "done", ![a].state = "settled", ![a].actual = actual]

SettleUnknownReleases(a) ==
    /\ attempt[a].pc = "call" /\ attempt[a].state = "reserved"
    /\ account' = [account EXCEPT ![SpenderOf[a]].reserved = @ - attempt[a].amount]
    /\ attempt' = [attempt EXCEPT ![a].pc = "done", ![a].state = "unknown"]

SettleUnknown(a) ==
    /\ attempt[a].pc = "call" /\ attempt[a].state = "reserved"
    /\ attempt' = [attempt EXCEPT ![a].pc = "done", ![a].state = "unknown"]
    /\ UNCHANGED account

(* The server stops during the call: the reservation stays as it is. *)
CallIsLost(a) ==
    /\ attempt[a].pc = "call"
    /\ attempt' = [attempt EXCEPT ![a].pc = "lost"]
    /\ UNCHANGED account

LedgerNext ==
    \E a \in Attempts :
        SeedAccounts(a) \/ Reserve(a) \/ SettleKnown(a) \/ SettleUnknown(a) \/ CallIsLost(a)

LedgerSpec == LedgerInit /\ [][LedgerNext]_fbVars

----------------------------------------------------------------------------
Drawn(c, states) == {a \in Attempts : c \in AccountsOf(a) /\ attempt[a].state \in states}

Amounts == [a \in Attempts |-> attempt[a].amount]
Actuals == [a \in Attempts |-> attempt[a].actual]

Balanced(c) ==
    /\ account[c].reserved = SumFunctionOnSet(Amounts, Drawn(c, {"reserved", "unknown"}))
    /\ account[c].spent = SumFunctionOnSet(Actuals, Drawn(c, {"settled"}))

Overruns == [a \in Attempts |->
    IF attempt[a].actual > attempt[a].amount THEN attempt[a].actual - attempt[a].amount ELSE 0]

CapHolds(c) ==
    account[c].reserved + account[c].spent <= CapOf(c) + SumFunctionOnSet(Overruns, Drawn(c, {"settled"}))

(* However calls of several users cross, fail or are lost, every account   *)
(* holds what its reservations say: what is open or of unknown outcome is  *)
(* still held, what is settled is spent.  The cap of a day holds for the   *)
(* module as for each user: it is exceeded only by what calls cost above   *)
(* their own reservation.                                                  *)
LedgerBalances == \A c \in Accounts : Balanced(c) /\ CapHolds(c)
============================================================================
