----------------------------- MODULE ToolCalls -----------------------------
(***************************************************************************)
(* The tools of a research run: CreateGrant, DataQuery and consumeGrant of *)
(* questions.go, CalculateMetric and CompleteGrant of grants.go, Register  *)
(* and ValidateRole of evidence_service.go (app/server/service/finance).   *)
(* The executor asks for a grant, queries with it, registers the records   *)
(* it got and lets the role cite them; meanwhile the run may be closed.    *)
(*                                                                         *)
(* DataQuery keeps its transaction, with the row lock of the grant, open   *)
(* over the requests it sends to the data sources; when they fail it rolls *)
(* back, the mark "executed" included.                                     *)
(***************************************************************************)
EXTENDS Naturals, FiniteSets

CONSTANTS
    ToolRuns,   \* runs
    ToolTasks,  \* research tasks
    TaskRun,    \* the run of each task
    Grants,     \* grants, named by their request_id
    Records,    \* records the sources may return; in time or too late, see Fits
    TooLate,    \* records published after the as_of of the runs
    MaxSent     \* outbound queries of a grant (a bound)

VARIABLES
    grant,      \* finance_tool_grants with the reservation of the same request
    toolOpen,   \* runAllowsToolsAt, by run
    query,      \* the transaction of DataQuery that holds each grant
    outbound,   \* queries sent to the sources, by grant
    stored,     \* finance_provider_records, by grant
    evidence,   \* finance_evidence, by run
    citable,    \* finance_task_evidence, by task
    cited,      \* the evidence of the role result that ValidateRole accepted
    pending     \* Register: the grant and records whose run was found open

toVars == <<grant, toolOpen, query, outbound, stored, evidence, citable, cited, pending>>

NoGrant == [status |-> "absent", task |-> CHOOSE t \in ToolTasks : TRUE,
            executed |-> FALSE, expired |-> FALSE, hashed |-> FALSE, reserved |-> FALSE]
NoQuery == [pc |-> "none", got |-> {}]

ToolInit ==
    /\ grant    = [g \in Grants |-> NoGrant]
    /\ toolOpen = [r \in ToolRuns |-> TRUE]
    /\ query    = [g \in Grants |-> NoQuery]
    /\ outbound = [g \in Grants |-> 0]
    /\ stored   = [g \in Grants |-> {}]
    /\ evidence = [r \in ToolRuns |-> {}]
    /\ citable  = [t \in ToolTasks |-> {}]
    /\ cited    = [t \in ToolTasks |-> {}]
    /\ pending  = [g \in Grants |-> {}]

RunOf(g) == TaskRun[grant[g].task]

(* The transaction of a query or of Register holds the row of the grant. *)
Locked(g) == query[g].pc # "none" \/ pending[g] # {}

----------------------------------------------------------------------------

(* CreateGrant locks the run, so that it and the closing of the run come   *)
(* one after the other.  The unit is reserved in a transaction of its own. *)
MayGrant(t) == toolOpen[TaskRun[t]]

CreateGrant(g, t) ==
    /\ grant[g].status = "absent"
    /\ MayGrant(t)
    /\ \/ grant' = [grant EXCEPT ![g] = [status |-> "granted", task |-> t, executed |-> FALSE,
                                         expired |-> FALSE, hashed |-> FALSE, reserved |-> TRUE]]
       \/ ~grant[g].reserved /\ grant' = [grant EXCEPT ![g].reserved = TRUE]
    /\ UNCHANGED <<toolOpen, query, outbound, stored, evidence, citable, cited, pending>>

GrantExpires(g) ==
    /\ grant[g].status = "granted" /\ ~grant[g].expired
    /\ grant' = [grant EXCEPT ![g].expired = TRUE]
    /\ UNCHANGED <<toolOpen, query, outbound, stored, evidence, citable, cited, pending>>

(* The run ends; revokeTokens then takes back the grants still "granted":  *)
(* its UPDATE waits for the transactions that hold their rows.             *)
CloseToolRun(r) ==
    /\ toolOpen[r]
    /\ toolOpen' = [toolOpen EXCEPT ![r] = FALSE]
    /\ UNCHANGED <<grant, query, outbound, stored, evidence, citable, cited, pending>>

Revocable(g, r) == grant[g].status = "granted" /\ RunOf(g) = r

RevokeGrants(r) ==
    /\ ~toolOpen[r]
    /\ \E g \in Grants : Revocable(g, r)
    /\ \A g \in Grants : Revocable(g, r) => ~Locked(g)
    /\ grant' = [g \in Grants |-> IF Revocable(g, r) THEN [grant[g] EXCEPT !.status = "revoked"]
                                  ELSE grant[g]]
    /\ UNCHANGED <<toolOpen, query, outbound, stored, evidence, citable, cited, pending>>

----------------------------------------------------------------------------
(* consumeGrant: the checks on the grant and on its run. *)
Consumable(g) ==
    /\ grant[g].status = "granted"
    /\ ~grant[g].expired
    /\ ~grant[g].executed
    /\ toolOpen[RunOf(g)]

QueryStart(g) ==
    /\ ~Locked(g)
    /\ Consumable(g)
    /\ query' = [query EXCEPT ![g] = [pc |-> "consumed", got |-> {}]]
    /\ UNCHANGED <<grant, toolOpen, outbound, stored, evidence, citable, cited, pending>>

QuerySend(g) ==
    /\ query[g].pc = "consumed"
    /\ outbound[g] < MaxSent
    /\ outbound' = [outbound EXCEPT ![g] = @ + 1]
    /\ \E got \in SUBSET Records : query' = [query EXCEPT ![g] = [pc |-> "received", got |-> got]]
    /\ UNCHANGED <<grant, toolOpen, stored, evidence, citable, cited, pending>>

QueryCommit(g) ==
    /\ query[g].pc = "received"
    /\ stored' = [stored EXCEPT ![g] = @ \cup query[g].got]
    /\ grant'  = [grant EXCEPT ![g].executed = TRUE, ![g].status = "succeeded"]
    /\ query'  = [query EXCEPT ![g] = NoQuery]
    /\ UNCHANGED <<toolOpen, outbound, evidence, citable, cited, pending>>

(* A source fails, the caller gives up or the server stops. *)
QueryRollback(g) ==
    /\ query[g].pc # "none"
    /\ query' = [query EXCEPT ![g] = NoQuery]
    /\ UNCHANGED <<grant, toolOpen, outbound, stored, evidence, citable, cited, pending>>

(* "unknown" is never turned into "succeeded", and a grant with an output  *)
(* hash keeps its status; any other status is overwritten.                 *)
CompleteGrant(g) ==
    /\ ~Locked(g)
    /\ grant[g].status # "absent" /\ ~grant[g].hashed
    /\ \E status \in {"succeeded", "unknown"} :
          /\ ~(grant[g].status = "unknown" /\ status = "succeeded")
          /\ grant' = [grant EXCEPT ![g].status = status, ![g].hashed = status = "succeeded"]
    /\ UNCHANGED <<toolOpen, query, outbound, stored, evidence, citable, cited, pending>>

----------------------------------------------------------------------------
(* Mutant: any record is registered, whatever query stored it. *)
TrustedAnyway(g, rec) == TRUE

(* Register reads the run without its lock and inserts afterwards. *)
Trusted(g, rec) == rec \in stored[g]

RegisterRead(g) ==
    /\ ~Locked(g)
    /\ grant[g].status \in {"granted", "succeeded"}
    /\ toolOpen[RunOf(g)]
    /\ \E recs \in SUBSET Records \ {{}} : pending' = [pending EXCEPT ![g] = recs]
    /\ UNCHANGED <<grant, toolOpen, query, outbound, stored, evidence, citable, cited>>

Fits(rec) == rec \notin TooLate

(* One record that is not trusted or too late rolls all of them back. *)
RegisterInsert(g) ==
    /\ pending[g] # {}
    /\ IF \A rec \in pending[g] : Trusted(g, rec) /\ Fits(rec)
         THEN /\ evidence' = [evidence EXCEPT ![RunOf(g)] = @ \cup pending[g]]
              /\ citable'  = [citable EXCEPT ![grant[g].task] = @ \cup pending[g]]
         ELSE UNCHANGED <<evidence, citable>>
    /\ pending' = [pending EXCEPT ![g] = {}]
    /\ UNCHANGED <<grant, toolOpen, query, outbound, stored, cited>>

(* metricPoint: an input of CalculateMetric is evidence of the same task   *)
(* and of the same run.                                                    *)
Operand(t, rec) == rec \in citable[t] /\ rec \in evidence[TaskRun[t]]

(* A calculation consumes its grant in one transaction, with no network.   *)
CalculateMetric(g) ==
    /\ ~Locked(g)
    /\ Consumable(g)
    /\ \E left, right \in Records : Operand(grant[g].task, left) /\ Operand(grant[g].task, right)
    /\ grant' = [grant EXCEPT ![g].executed = TRUE]
    /\ UNCHANGED <<toolOpen, query, outbound, stored, evidence, citable, cited, pending>>

(* UNREGISTERED_CITATION unless every reference is linked to the task. *)
Accepts(t, refs) == refs \subseteq citable[t]

ValidateRole(t) ==
    /\ toolOpen[TaskRun[t]]
    /\ \E refs \in SUBSET Records \ {{}} :
          Accepts(t, refs) /\ cited' = [cited EXCEPT ![t] = refs]
    /\ UNCHANGED <<grant, toolOpen, query, outbound, stored, evidence, citable, pending>>

ToolNext ==
    \/ \E g \in Grants :
          \/ \E t \in ToolTasks : CreateGrant(g, t)
          \/ GrantExpires(g) \/ QueryStart(g) \/ QuerySend(g) \/ QueryCommit(g)
          \/ QueryRollback(g) \/ CompleteGrant(g) \/ RegisterRead(g) \/ RegisterInsert(g)
          \/ CalculateMetric(g)
    \/ \E r \in ToolRuns : CloseToolRun(r) \/ RevokeGrants(r)
    \/ \E t \in ToolTasks : ValidateRole(t)

ToolSpec == ToolInit /\ [][ToolNext]_toVars

----------------------------------------------------------------------------
(* What a role cites was fetched by a query of a grant of that very task,  *)
(* belongs to its run and was public at the as_of of the run: neither the  *)
(* other role's records nor records made up by the executor get in.        *)
CitedWasFetched ==
    \A t \in ToolTasks : \A rec \in cited[t] :
        /\ \E g \in Grants : grant[g].task = t /\ grant[g].executed /\ rec \in stored[g]
        /\ rec \in evidence[TaskRun[t]]
        /\ rec \notin TooLate

(* A closed run gets no new grant, whatever CreateGrant had read before:   *)
(* the lock on the run orders the two.                                     *)
NoGrantAfterClose ==
    [][\A g \in Grants :
          grant[g].status = "absent" /\ grant'[g].status # "absent" => toolOpen[RunOf(g)']]_toVars

(* A grant pays for one real query (stated by the design documents; a      *)
(* query that fails rolls its mark back, and the grant can be used again). *)
QueriedOnce == \A g \in Grants : outbound[g] <= 1
============================================================================
