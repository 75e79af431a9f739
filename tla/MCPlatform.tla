----------------------------- MODULE MCPlatform -----------------------------
(***************************************************************************)
(* The executor, the start-up and the sessions of the server, the write    *)
(* barrier of a backup, the admission of research runs and the runs of the *)
(* futures module, one instance for TLC: `part` names the component that   *)
(* runs, the variables of the others stay as they are.                     *)
(***************************************************************************)
EXTENDS Executor, WriteBarrier, ResearchAdmission, Sessions, Migrations, FuturesRuns

CONSTANT MaxAtWork  \* futures runs made and executions under way (a bound)

VARIABLE part

pfVars == <<part, vars, wbVars, seVars, miVars, adVars, frVars>>

(* The values of the constants that a cfg cannot write.  Migrations: three *)
(* files, the second one edited in a bad release; an old, a new and a bad  *)
(* server start in any order, over every state a legacy database can have. *)
MCCreate(o)  == [kind |-> "create", obj |-> <<o>>]
MCVersions   == <<"v1", "v2", "v3">>
MCFile       == [v1 |-> <<MCCreate("t"), MCCreate("k")>>,
                 v2 |-> <<MCCreate("u"), [kind |-> "other", obj |-> <<"x">>], MCCreate("w")>>,
                 v3 |-> <<[kind |-> "drop", obj |-> <<"k">>], MCCreate("k2")>>]
MCEdited     == [MCFile EXCEPT !.v2 = <<MCCreate("u"), MCCreate("w"), MCCreate("z")>>]
MCReleases   == [old |-> [files |-> 2, edited |-> FALSE], new |-> [files |-> 3, edited |-> FALSE],
                 bad |-> [files |-> 3, edited |-> TRUE]]
MCReleaseOf  == [s1 |-> "old", s2 |-> "new", s3 |-> "bad"]
MCOneOwner   == [r \in FRuns |-> "u"]
MCDraftOwner == [d \in Drafts |-> IF d = "d3" THEN "v" ELSE "u"]

PlatformInit ==
    /\ part \in {"executor", "barrier", "sessions", "migrations", "admission", "futures"}
    /\ ExecutorInit /\ BarrierInit /\ AdmissionInit /\ SessionInit /\ MigrationInit /\ FRunInit
    /\ part # "sessions" => legacy.bcrypt /\ secret = CHOOSE p \in Passwords : TRUE
    /\ part # "migrations" => schema = {}

OnlyExecutor  == part = "executor"  /\ UNCHANGED <<part, wbVars, seVars, miVars, adVars, frVars>>
OnlyAdmission == part = "admission" /\ UNCHANGED <<part, vars, wbVars, seVars, miVars, frVars>>
OnlyFutures   == part = "futures"   /\ UNCHANGED <<part, vars, wbVars, seVars, miVars, adVars>>

(* A bound: two runs and one execution, or one run and two executions.     *)
FewAtWork ==
    Cardinality({r \in FRuns : frun'[r].status # "none"})
        + Cardinality({x \in Executions : exec'[x] # Free}) <= MaxAtWork

PlatformNext ==
    \/ OnlyExecutor /\ ExecutorNext
    \/ part = "barrier" /\ BarrierNext /\ UNCHANGED <<part, vars, seVars, miVars, adVars, frVars>>
    \/ part = "sessions" /\ SessionNext /\ UNCHANGED <<part, vars, wbVars, miVars, adVars, frVars>>
    \/ part = "migrations" /\ MigrationNext /\ UNCHANGED <<part, vars, wbVars, seVars, adVars, frVars>>
    \/ OnlyAdmission /\ AdmissionNext
    \/ OnlyFutures /\ FRunNext /\ FewAtWork

(* The threads of the executor start and come to an end and the purge of   *)
(* what has expired is repeated, as in Executor; a call of CreateResearch  *)
(* is carried on by its handler; the maintenance of the futures module     *)
(* goes on and the clock passes the deadlines of runs.                     *)
PlatformSpec ==
    /\ PlatformInit /\ [][PlatformNext]_pfVars
    /\ \A t \in Tasks :
          /\ WF_pfVars(OnlyExecutor /\ Start(t)) /\ WF_pfVars(OnlyExecutor /\ Work(t))
          /\ WF_pfVars(OnlyExecutor /\ Purge(t))
    /\ \A c \in Calls : WF_pfVars(OnlyAdmission /\ CreateResearch(c))
    /\ WF_pfVars(OnlyFutures /\ ExpireStaleRuns)
    /\ \A r \in FRuns : WF_pfVars(OnlyFutures /\ DeadlinePasses(r))

----------------------------------------------------------------------------
(* The properties of the modules, each for the states of its own part.     *)

\* _run and purge_expired_private: every way out of a task gives its permit back, so that
\* none waits for ever, and what an expired task had written is emptied for good.
TasksAreServed == Dispatched /\ PrivateGone

\* ExpireStaleRuns, CancelRun: a futures run does not stay active for ever, even if the
\* server that executed it is gone; one that was canceled ends canceled, and an ending
\* is not changed.
FuturesRunEndsAsAsked == FuturesRunEnds /\ CanceledStaysCanceled
=============================================================================
