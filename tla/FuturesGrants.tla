--------------------------- MODULE FuturesGrants ---------------------------
(***************************************************************************)
(* Short-lived grants of the futures executor (app/server/service/futures  *)
(* /grants.go behind api/v1/futures/internal_routes.go) and the tools they *)
(* open (internal_tools.go).  A grant names the task, the generation of    *)
(* the run and the hash of the arguments.  Use looks at the grant, checks  *)
(* the lease of its run, consumes the grant under a row lock, compares it  *)
(* with the request, and checks the lease again; the tool runs afterwards. *)
(***************************************************************************)
EXTENDS Integers, FiniteSets

CONSTANTS
    Tokens,   \* grants
    Requests, \* calls of the executor: each presents a token
    ArgsSet   \* argument hashes

VARIABLES
    lease,  \* is the run of the grants still leased: active, canceled, expired
    grant,  \* futures_grants
    used,   \* each request
    calc    \* requests whose result has been stored

fgVars == <<lease, grant, used, calc>>

NoGrant == [issued |-> FALSE, args |-> CHOOSE a \in ArgsSet : TRUE, late |-> FALSE, consumed |-> FALSE]
NotSent == [pc |-> "idle", token |-> CHOOSE k \in Tokens : TRUE,
            args |-> CHOOSE a \in ArgsSet : TRUE, ok |-> FALSE]

GrantInit ==
    /\ lease = TRUE
    /\ grant = [k \in Tokens |-> NoGrant]
    /\ used = [q \in Requests |-> NotSent]
    /\ calc = {}

----------------------------------------------------------------------------
(* The run leaves running or verifying, its lease or its deadline passes,  *)
(* it is canceled or deleted: DBLeaseAuthorizer.CheckLease refuses.        *)
RunCloses ==
    /\ lease
    /\ lease' = FALSE
    /\ UNCHANGED <<grant, used, calc>>

CheckLease == lease

(* Issue *)
Issue(k, a) ==
    /\ ~grant[k].issued /\ CheckLease
    /\ grant' = [grant EXCEPT ![k] = [NoGrant EXCEPT !.issued = TRUE, !.args = a]]
    /\ UNCHANGED <<lease, used, calc>>

GrantExpires(k) ==
    /\ grant[k].issued /\ ~grant[k].late
    /\ grant' = [grant EXCEPT ![k].late = TRUE]
    /\ UNCHANGED <<lease, used, calc>>

----------------------------------------------------------------------------
Goto(q, pc) == used' = [used EXCEPT ![q].pc = pc]

(* Use: Peek and the first CheckLease *)
Peek(q, k, a) ==
    /\ used[q].pc = "idle"
    /\ used' = [used EXCEPT ![q] = [NotSent EXCEPT !.token = k, !.args = a,
                  !.pc = IF grant[k].issued /\ CheckLease THEN "consume" ELSE "refused"]]
    /\ UNCHANGED <<lease, grant, calc>>

(* Consume: the row lock makes the second of two callers see consumed_at.  *)
(* The grant is spent even if the comparison that follows refuses it.      *)
SpendableAgain(k) == grant[k].issued

Spendable(k) == ~grant[k].consumed

Consume(q) ==
    LET k == used[q].token IN
    /\ used[q].pc = "consume"
    /\ IF Spendable(k)
         THEN /\ grant' = [grant EXCEPT ![k].consumed = TRUE]
              /\ Goto(q, IF grant[k].args = used[q].args /\ ~grant[k].late THEN "recheck" ELSE "refused")
         ELSE Goto(q, "refused") /\ UNCHANGED grant
    /\ UNCHANGED <<lease, calc>>

Recheck(q) ==
    /\ used[q].pc = "recheck"
    /\ used' = [used EXCEPT ![q].pc = IF CheckLease THEN "run" ELSE "refused", ![q].ok = CheckLease]
    /\ UNCHANGED <<lease, grant, calc>>

(* ExecuteInternalTool: nothing looks at the run again; a calculation is   *)
(* named by its inputs, so the insert of a second equal one fails.         *)
RunTool(q) ==
    /\ used[q].pc = "run"
    /\ \/ /\ ~\E p \in calc : used[p].args = used[q].args
          /\ calc' = calc \cup {q}
          /\ Goto(q, "done")
       \/ Goto(q, "failed") /\ UNCHANGED calc
    /\ UNCHANGED <<lease, grant>>

GrantNext ==
    \/ RunCloses
    \/ \E k \in Tokens : (\E a \in ArgsSet : Issue(k, a)) \/ GrantExpires(k)
    \/ \E q \in Requests :
          \/ \E k \in Tokens, a \in ArgsSet : Peek(q, k, a)
          \/ Consume(q) \/ Recheck(q) \/ RunTool(q)

GrantSpec == GrantInit /\ [][GrantNext]_fgVars

----------------------------------------------------------------------------
(* However requests cross, a grant opens at most one call, and only with   *)
(* the arguments it was issued for.                                        *)
GrantOpensOneCall ==
    \A q \in Requests : used[q].ok =>
        /\ grant[used[q].token].args = used[q].args
        /\ \A p \in Requests \ {q} : used[p].ok => used[p].token # used[q].token
============================================================================
