----------------------------- MODULE ModelCalls -----------------------------
(***************************************************************************)
(* The model proxy of a research run: ModelProxy.Complete of               *)
(* app/server/service/finance/model_proxy.go with the task tokens of       *)
(* grants.go and the budget of budget_service.go.  Complete runs outside   *)
(* a transaction: each of its statements is an action, and the check of    *)
(* the token and of the run is long past when the provider is called.      *)
(***************************************************************************)
EXTENDS FinanceBudget

CONSTANTS
    Clients,    \* concurrent calls of Complete, each served once (a bound)
    RequestIds, \* values of X-Request-ID
    Tasks,      \* research tasks of the run
    Bodies      \* request bodies, by hash

ASSUME ProxyAssumption == RequestIds # {} /\ Tasks # {} /\ Bodies # {}

VARIABLES
    ledger,     \* finance_usage_ledger
    cache,      \* finance_model_cache, keyed by task and request id
    client,     \* local state of each call
    runOpen,    \* runAllowsToolsAt of the run
    taskToken,  \* finance_internal_tokens: "none", "live" or "revoked"
    sent        \* the request ids that reached the provider, by task

mcVars == <<ledger, cache, client, runOpen, taskToken, sent>>


AbsentEntry == [status |-> "absent", body |-> CHOOSE b \in Bodies : TRUE]
IdleClient  == [pc |-> "idle", id |-> CHOOSE i \in RequestIds : TRUE,
                task |-> CHOOSE t \in Tasks : TRUE, body |-> AbsentEntry.body]

ProxyInit ==
    /\ ledger    = [i \in RequestIds |-> NoRow]
    /\ cache     = [t \in Tasks |-> [i \in RequestIds |-> AbsentEntry]]
    /\ client    = [c \in Clients |-> IdleClient]
    /\ runOpen   = TRUE
    /\ taskToken = [t \in Tasks |-> "none"]
    /\ sent      = [t \in Tasks |-> {}]

At(c, pc)   == client[c].pc = pc
Goes(c, pc) == client' = [client EXCEPT ![c].pc = pc]
Entry(c)    == cache[client[c].task][client[c].id]
SetEntry(c, entry) == cache' = [cache EXCEPT ![client[c].task][client[c].id] = entry]

----------------------------------------------------------------------------
(* IssueTaskToken looks at the deadline of the run, not at its status. *)
IssueTaskToken(t) ==
    /\ taskToken[t] = "none"
    /\ taskToken' = [taskToken EXCEPT ![t] = "live"]
    /\ UNCHANGED <<ledger, cache, client, runOpen, sent>>

(* Any way a run ends: its status changes, then its tokens are revoked. *)
CloseRun ==
    /\ runOpen
    /\ runOpen' = FALSE
    /\ UNCHANGED <<ledger, cache, client, taskToken, sent>>

RevokeTokens ==
    /\ ~runOpen
    /\ \E t \in Tasks : taskToken[t] = "live"
    /\ taskToken' = [t \in Tasks |-> IF taskToken[t] = "live" THEN "revoked" ELSE taskToken[t]]
    /\ UNCHANGED <<ledger, cache, client, runOpen, sent>>

----------------------------------------------------------------------------
(* The token, the run and its protocol, the task. *)
Admitted(c) ==
    /\ At(c, "idle")
    /\ \E i \in RequestIds, t \in Tasks, b \in Bodies :
          /\ taskToken[t] = "live" /\ runOpen
          /\ client' = [client EXCEPT ![c] = [pc |-> "cache", id |-> i, task |-> t, body |-> b]]
    /\ UNCHANGED <<ledger, cache, runOpen, taskToken, sent>>

(* Mutant: an entry that is pending is replayed as if it were an answer. *)
ReadCacheEarly(c) ==
    /\ At(c, "cache")
    /\ \/ Entry(c).status \in {"succeeded", "pending"} /\ Goes(c, "replayed")
       \/ Entry(c).status \in {"absent", "failed"} /\ Goes(c, "insert")
    /\ UNCHANGED <<ledger, cache, runOpen, taskToken, sent>>

(* REQUEST_ID_CONFLICT, a replay, IN_FLIGHT, or a new attempt. *)
ReadCache(c) ==
    /\ At(c, "cache")
    /\ \/ Entry(c).status # "absent" /\ Entry(c).body # client[c].body /\ Goes(c, "refused")
       \/ Entry(c).status = "succeeded" /\ Entry(c).body = client[c].body /\ Goes(c, "replayed")
       \/ Entry(c).status = "pending" /\ Entry(c).body = client[c].body /\ Goes(c, "refused")
       \/ /\ Entry(c).status \in {"absent", "failed"}
          /\ Entry(c).status = "failed" => Entry(c).body = client[c].body
          /\ Goes(c, "insert")
    /\ UNCHANGED <<ledger, cache, runOpen, taskToken, sent>>

(* ON CONFLICT DO NOTHING: an entry that is there stays as it is. *)
InsertPending(c) ==
    /\ At(c, "insert")
    /\ IF Entry(c).status = "absent"
         THEN SetEntry(c, [status |-> "pending", body |-> client[c].body])
         ELSE UNCHANGED cache
    /\ Goes(c, "reserve")
    /\ UNCHANGED <<ledger, runOpen, taskToken, sent>>

ReserveCall(c) ==
    /\ At(c, "reserve")
    /\ \/ /\ Reservable(ledger, client[c].id, "model", client[c].task)
          /\ ledger' = Reserve(ledger, client[c].id, "model", client[c].task)
          /\ Goes(c, "forward")
          /\ UNCHANGED cache
       \/ /\ ~Reservable(ledger, client[c].id, "model", client[c].task)
          /\ SetEntry(c, [Entry(c) EXCEPT !.status = "failed"])
          /\ Goes(c, "refused")
          /\ UNCHANGED ledger
    /\ UNCHANGED <<runOpen, taskToken, sent>>

(* No fee cap or no usable configuration: refused before the network. *)
Unsendable(c) ==
    /\ At(c, "forward")
    /\ Goes(c, "failed")
    /\ UNCHANGED <<ledger, cache, runOpen, taskToken, sent>>

Forward(c) ==
    /\ At(c, "forward")
    /\ sent' = [sent EXCEPT ![client[c].task] = @ \cup {client[c].id}]
    /\ \E outcome \in {"answered", "noUsage", "failed"} : Goes(c, outcome)
    /\ UNCHANGED <<ledger, cache, runOpen, taskToken>>

FailCache(c) ==
    /\ At(c, "failed")
    /\ SetEntry(c, [Entry(c) EXCEPT !.status = "failed"])
    /\ Goes(c, "reconcileFailed")
    /\ UNCHANGED <<ledger, runOpen, taskToken, sent>>

ReconcileCall(c) ==
    /\ At(c, "answered") \/ At(c, "noUsage") \/ At(c, "reconcileFailed")
    /\ ledger' = Reconcile(ledger, client[c].id, ~At(c, "answered"))
    /\ Goes(c, IF At(c, "reconcileFailed") THEN "refused" ELSE "store")
    /\ UNCHANGED <<cache, runOpen, taskToken, sent>>

StoreAnswer(c) ==
    /\ At(c, "store")
    /\ SetEntry(c, [Entry(c) EXCEPT !.status = "succeeded"])
    /\ Goes(c, "done")
    /\ UNCHANGED <<ledger, runOpen, taskToken, sent>>

(* The server stops: what had been written stays, a pending entry too. *)
CrashCall(c) ==
    /\ ~(At(c, "idle") \/ At(c, "crashed") \/ At(c, "done") \/ At(c, "refused") \/ At(c, "replayed"))
    /\ Goes(c, "crashed")
    /\ UNCHANGED <<ledger, cache, runOpen, taskToken, sent>>

Complete(c) ==
    \/ Admitted(c) \/ ReadCache(c) \/ InsertPending(c) \/ ReserveCall(c) \/ Unsendable(c)
    \/ Forward(c) \/ FailCache(c) \/ ReconcileCall(c) \/ StoreAnswer(c)

ProxyNext ==
    \/ \E t \in Tasks : IssueTaskToken(t)
    \/ CloseRun \/ RevokeTokens
    \/ \E c \in Clients : Complete(c) \/ CrashCall(c)

ProxySpec == ProxyInit /\ [][ProxyNext]_mcVars

----------------------------------------------------------------------------
(* However the calls of the two roles interleave, fail, lose their usage   *)
(* or crash, the requests that reached the provider have a unit of the     *)
(* budget each and stay within the limits of the run and of the task.      *)
SentWithinBudget ==
    LET all == UNION {sent[t] : t \in Tasks} IN
        /\ Cardinality(all) <= RunMax
        /\ \A t \in Tasks : Cardinality({i \in sent[t] : ledger[i].task = t}) <= RoleMax
        /\ \A i \in all : ledger[i].status \in {"reserved", "succeeded", "unknown"}

(* A replay is the answer to a request that reached the provider. *)
ReplaysAreAnswers ==
    \A c \in Clients : At(c, "replayed") => client[c].id \in sent[client[c].task]
============================================================================
