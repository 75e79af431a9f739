------------------------- MODULE ResearchRunProofs -------------------------
(***************************************************************************)
(* TLAPS proofs about ResearchRun, for every number of runs, roles,        *)
(* orchestrators, requests and crashes.                                    *)
(***************************************************************************)
EXTENDS ResearchRunInv, TLAPS

USE OwnerOfAssumption, NamesAssumption, LimitsAssumption, WindowAssumption

----------------------------------------------------------------------------
(* Rows *)

Status == {"absent"} \cup Active \cup Terminal
Lease  == {"none", "live", "expired"}

LEMMA RowFields ==
    /\ \A x \in RunRow, s \in Status  : [x EXCEPT !.status = s] \in RunRow
    /\ \A x \in RunRow, g \in Stages  : [x EXCEPT !.stage = g] \in RunRow
    /\ \A x \in RunRow, v \in Nat     : [x EXCEPT !.version = v] \in RunRow
    /\ \A x \in RunRow, l \in Lease   : [x EXCEPT !.lease = l] \in RunRow
    /\ \A x \in RunRow, b \in BOOLEAN : [x EXCEPT !.waited = b] \in RunRow
    /\ \A x \in RunRow, b \in BOOLEAN : [x EXCEPT !.overdue = b] \in RunRow
    /\ \A x \in RunRow, b \in BOOLEAN : [x EXCEPT !.deleted = b] \in RunRow
    /\ \A x \in RunRow : x.version \in Nat /\ x.version + 1 \in Nat
    /\ AbsentRow \in RunRow
<1> USE DEF RunRow, Status, Lease
<1>1. \A x \in RunRow, s \in Status : [x EXCEPT !.status = s] \in RunRow
  OBVIOUS
<1>2. \A x \in RunRow, g \in Stages : [x EXCEPT !.stage = g] \in RunRow
  OBVIOUS
<1>3. \A x \in RunRow, v \in Nat : [x EXCEPT !.version = v] \in RunRow
  OBVIOUS
<1>4. \A x \in RunRow, l \in Lease : [x EXCEPT !.lease = l] \in RunRow
  OBVIOUS
<1>5. \A x \in RunRow, b \in BOOLEAN : /\ [x EXCEPT !.waited = b] \in RunRow
                                       /\ [x EXCEPT !.overdue = b] \in RunRow
                                       /\ [x EXCEPT !.deleted = b] \in RunRow
  OBVIOUS
<1>6. \A x \in RunRow : x.version \in Nat /\ x.version + 1 \in Nat
  OBVIOUS
<1>7. AbsentRow \in RunRow
  BY DEF AbsentRow, Stages
<1> QED BY ONLY <1>1, <1>2, <1>3, <1>4, <1>5, <1>6, <1>7

LEMMA RowUpdate ==
    ASSUME TypeOK, NEW r \in Runs, NEW x \in RunRow
    PROVE  [row EXCEPT ![r] = x] \in [Runs -> RunRow]
BY DEF TypeOK

LEMMA RowValues ==
    ASSUME TypeOK, NEW r \in Runs
    PROVE  /\ row[r] \in RunRow
           /\ \A v \in Nat, s \in Active \cup Terminal, g \in Stages : ClosedAs(r, v, s, g) \in RunRow
           /\ \A g \in Stages : CancelingAs(r, g) \in RunRow
           /\ [row[r] EXCEPT !.waited = TRUE] \in RunRow
           /\ [row[r] EXCEPT !.overdue = TRUE] \in RunRow
           /\ [row[r] EXCEPT !.deleted = TRUE] \in RunRow
           /\ \A l \in Lease : [row[r] EXCEPT !.lease = l] \in RunRow
           /\ RenewedRow(r) \in RunRow
           /\ [AbsentRow EXCEPT !.status = "queued", !.version = 1] \in RunRow
           /\ DeletedRow(r) \in RunRow
           /\ \A v \in Nat : [row[r] EXCEPT !.status = "researching", !.stage = "researching",
                                 !.version = v, !.lease = "live", !.overdue = FALSE] \in RunRow
           /\ \A v \in Nat : [row[r] EXCEPT !.status = "verifying", !.stage = "verifying",
                                 !.version = v] \in RunRow
<1>1. row[r] \in RunRow
  BY DEF TypeOK
<1>2. Active \cup Terminal \subseteq Status /\ \A v \in Nat : v + 1 \in Nat
  BY DEF Status
<1>3. {"canceling", "queued", "researching", "verifying"} \subseteq Status
  BY DEF Status, Active
<1>4. {"none", "live", "expired"} \subseteq Lease /\ {"researching", "verifying"} \subseteq Stages
  BY DEF Lease, Stages
<1>5. ASSUME NEW v \in Nat, NEW s \in Active \cup Terminal, NEW g \in Stages
      PROVE  ClosedAs(r, v, s, g) \in RunRow
  BY ONLY <1>1, <1>2, <1>4, RowFields DEF ClosedAs
<1>6. ASSUME NEW g \in Stages PROVE CancelingAs(r, g) \in RunRow
  <2>1. [row[r] EXCEPT !.status = "canceling", !.stage = g] \in RunRow
    BY ONLY <1>1, <1>3, RowFields
  <2>2. [row[r] EXCEPT !.status = "canceling", !.stage = g, !.version = row[r].version + 1]
           \in RunRow
    BY ONLY <1>1, <2>1, RowFields
  <2> QED BY <2>2 DEF CancelingAs
<1>7. RenewedRow(r) \in RunRow
  BY ONLY <1>1, <1>4, RowFields DEF RenewedRow
<1>8. [AbsentRow EXCEPT !.status = "queued", !.version = 1] \in RunRow
  BY ONLY <1>3, RowFields, 1 \in Nat
<1>9. DeletedRow(r) \in RunRow
  BY ONLY <1>1, <1>4, RowFields, TRUE \in BOOLEAN DEF DeletedRow
<1>10. ASSUME NEW v \in Nat
       PROVE  /\ [row[r] EXCEPT !.status = "researching", !.stage = "researching",
                          !.version = v, !.lease = "live", !.overdue = FALSE] \in RunRow
              /\ [row[r] EXCEPT !.status = "verifying", !.stage = "verifying",
                          !.version = v] \in RunRow
  BY ONLY <1>1, <1>3, <1>4, RowFields, v \in Nat, FALSE \in BOOLEAN
<1>11. /\ [row[r] EXCEPT !.waited = TRUE] \in RunRow
       /\ [row[r] EXCEPT !.overdue = TRUE] \in RunRow
       /\ [row[r] EXCEPT !.deleted = TRUE] \in RunRow
       /\ \A l \in Lease : [row[r] EXCEPT !.lease = l] \in RunRow
  BY ONLY <1>1, RowFields, TRUE \in BOOLEAN
<1> QED BY ONLY <1>1, <1>5, <1>6, <1>7, <1>8, <1>9, <1>10, <1>11

----------------------------------------------------------------------------
(* Types *)

LEMMA InitTyped == Init => Typed
<1> SUFFICES ASSUME Init PROVE Typed
  OBVIOUS
<1>1. row \in [Runs -> RunRow]
  BY RowFields DEF Init
<1>2. /\ orch \in [Orchs -> OrchState] /\ fin \in [Procs -> FinState]
      /\ worker \in WorkerState /\ req \in [Requests -> ReqState]
  BY DEF Init, OrchState, FinState, WorkerState, ReqState, IdleOrch, IdleFin, IdleWorker,
         IdleReq, OrchPC, FinPC, WorkerPC, ReqPC, MaybeRun
<1>3. TypeOK
  BY <1>1, <1>2 DEF Init, TypeOK, TaskStatus, ExecStatus, IdleRoles, RolePC
<1>4. Local
  BY DEF Init, Local, IdleOrch, IdleFin, IdleWorker, IdleReq, IdleRoles
<1> QED BY <1>3, <1>4 DEF Typed

LEMMA CreateTyped == ASSUME Typed, NEW r \in Runs, CreateResearch(r) PROVE Typed'
<1>1. row' \in [Runs -> RunRow]
  BY RowValues, RowUpdate DEF Typed, CreateResearch
<1>2. task' \in [Runs -> [Roles -> TaskStatus]]
  BY DEF Typed, TypeOK, CreateResearch, TaskStatus
<1> QED BY <1>1, <1>2 DEF CreateResearch, Typed, TypeOK, Local, Procs

LEMMA TimeTyped ==
    ASSUME Typed, NEW r \in Runs, QueueTimeoutPasses(r) \/ DeadlinePasses(r) \/ LeaseExpires(r)
    PROVE  Typed'
<1>1. row' \in [Runs -> RunRow]
  BY RowValues, RowUpdate, "expired" \in Lease
  DEF Typed, QueueTimeoutPasses, DeadlinePasses, LeaseExpires, Lease
<1> QED BY <1>1 DEF QueueTimeoutPasses, DeadlinePasses, LeaseExpires, Typed, TypeOK, Local, Procs

LEMMA RequestTyped ==
    ASSUME Typed, NEW q \in Requests, NEW r \in Runs, CancelResearch(q, r) \/ DeleteResearch(q, r)
    PROVE  Typed'
<1>1. row[r].version \in Nat /\ "canceled" \in Active \cup Terminal
      /\ {"canceling", "canceled", "deleting"} \subseteq Stages
  BY RowValues, RowFields DEF Typed, Terminal, Stages
<1>2. CASE CancelResearch(q, r)
  <2>1. row' \in [Runs -> RunRow]
    <3>1. \/ row' = row
          \/ row' = [row EXCEPT ![r] = CancelingAs(r, "canceling")]
          \/ row' = [row EXCEPT ![r] = ClosedAs(r, row[r].version, "canceled", "canceled")]
      BY <1>2 DEF CancelResearch
    <3>2. CancelingAs(r, "canceling") \in RunRow
          /\ ClosedAs(r, row[r].version, "canceled", "canceled") \in RunRow
      BY <1>1, RowValues DEF Typed
    <3> QED BY <3>1, <3>2, RowUpdate DEF Typed, TypeOK
  <2>2. task' \in [Runs -> [Roles -> TaskStatus]]
    BY <1>2 DEF Typed, TypeOK, CancelResearch, TaskStatus
  <2>3. req' \in [Requests -> ReqState]
    BY <1>2 DEF Typed, TypeOK, CancelResearch, ReqState, ReqPC, MaybeRun
  <2>4. \A x \in Requests : req'[x].pc # "idle" => req'[x].run \in Runs
    BY <1>2 DEF Typed, TypeOK, Local, CancelResearch
  <2> QED BY <1>2, <2>1, <2>2, <2>3, <2>4 DEF CancelResearch, Typed, TypeOK, Local, Procs
<1>3. CASE DeleteResearch(q, r)
  <2>1. row' \in [Runs -> RunRow]
    <3>1. \/ row' = row
          \/ row' = [row EXCEPT ![r] = CancelingAs(r, "deleting")]
          \/ row' = [row EXCEPT ![r] = DeletedRow(r)]
      BY <1>3 DEF DeleteResearch
    <3>2. CancelingAs(r, "deleting") \in RunRow /\ DeletedRow(r) \in RunRow
      BY <1>1, RowValues DEF Typed
    <3> QED BY <3>1, <3>2, RowUpdate DEF Typed, TypeOK
  <2>2. req' \in [Requests -> ReqState]
    BY <1>3 DEF Typed, TypeOK, DeleteResearch, WasActive, ReqState, ReqPC, MaybeRun
  <2>3. \A x \in Requests : req'[x].pc # "idle" => req'[x].run \in Runs
    BY <1>3 DEF Typed, TypeOK, Local, DeleteResearch
  <2> QED BY <1>3, <2>1, <2>2, <2>3 DEF DeleteResearch, Typed, TypeOK, Local, Procs
<1> QED BY <1>2, <1>3


\* What the proofs below use of Local, one process at a time.
FinLocal(p)  == fin[p].pc # "idle" => fin[p].run \in Runs
ReqLocal(q)  == req[q].pc # "idle" => req[q].run \in Runs
OrchLocal(o) == /\ orch[o].pc # "idle" => orch[o].run \in Runs
                /\ orch[o].beating => orch[o].pc # "idle"
                /\ \A k \in Roles : role[o][k] # "off" => orch[o].pc # "idle"
WorkerLocal  == worker.pc \in {"timeoutRevoke", "reapRevoke"} => worker.cur \in Runs

RowType  == row \in [Runs -> RunRow]
TaskType == task \in [Runs -> [Roles -> TaskStatus]]
TokenType == token \in [Runs -> {"none", "live", "revoked"}]
ExecType == exec \in [Runs -> [Roles -> ExecStatus]]
ReportType == report \in [Runs -> {"none", "completed", "incomplete"}]
FinType  == fin \in [Procs -> FinState] /\ \A p \in Procs : FinLocal(p)
ReqType  == req \in [Requests -> ReqState] /\ \A q \in Requests : ReqLocal(q)
OrchType == /\ orch \in [Orchs -> OrchState] /\ role \in [Orchs -> [Roles -> RolePC]]
            /\ \A o \in Orchs : OrchLocal(o)
WorkerType == worker \in WorkerState /\ WorkerLocal

LEMMA TypedParts ==
    Typed <=> /\ RowType /\ TaskType /\ TokenType /\ ExecType /\ ReportType /\ FinType /\ ReqType
              /\ OrchType /\ WorkerType /\ crashes \in Nat
<1> USE DEF Typed, TypeOK, Local, RowType, TaskType, TokenType, ExecType, ReportType, FinType,
            ReqType, OrchType, WorkerType, FinLocal, ReqLocal, OrchLocal, WorkerLocal
<1> QED OBVIOUS

LEMMA TypedAgain ==
    ASSUME Typed,
           UNCHANGED row \/ RowType', UNCHANGED task \/ TaskType', UNCHANGED token \/ TokenType',
           UNCHANGED exec \/ ExecType', UNCHANGED report \/ ReportType',
           UNCHANGED fin \/ FinType', UNCHANGED req \/ ReqType',
           UNCHANGED <<orch, role>> \/ OrchType', UNCHANGED worker \/ WorkerType',
           UNCHANGED crashes \/ crashes' \in Nat
    PROVE  Typed'
<1>1. /\ RowType' /\ TaskType' /\ TokenType' /\ ExecType' /\ ReportType' /\ FinType' /\ ReqType'
      /\ OrchType' /\ WorkerType' /\ crashes' \in Nat
  BY TypedParts
  DEF RowType, TaskType, TokenType, ExecType, ReportType, FinType, ReqType, OrchType, WorkerType,
      FinLocal, ReqLocal, OrchLocal, WorkerLocal
<1> QED
  BY <1>1
  DEF Typed, TypeOK, Local, RowType, TaskType, TokenType, ExecType, ReportType, FinType, ReqType,
      OrchType, WorkerType, FinLocal, ReqLocal, OrchLocal, WorkerLocal

LEMMA FinSet ==
    ASSUME FinType, NEW p \in Procs, NEW x \in FinState, x.pc # "idle" => x.run \in Runs,
           fin' = [fin EXCEPT ![p] = x]
    PROVE  FinType'
BY DEF FinType, FinLocal, Procs

LEMMA ReqSet ==
    ASSUME ReqType, NEW q \in Requests, NEW x \in ReqState, x.pc # "idle" => x.run \in Runs,
           req' = [req EXCEPT ![q] = x]
    PROVE  ReqType'
BY DEF ReqType, ReqLocal

LEMMA RevokeType == ASSUME TokenType, NEW r \in Runs, RevokeTokens(r) PROVE TokenType'
BY DEF TokenType, RevokeTokens

LEMMA CanceledType ==
    ASSUME ExecType, NEW r \in Runs, NEW k \in Roles PROVE CanceledIn(r, k) \in [Runs -> [Roles -> ExecStatus]]
BY DEF ExecType, CanceledIn, ExecStatus

LEMMA ReqTyped == ASSUME Typed, NEW q \in Requests, ReqNext(q) PROVE Typed'
<1> DEFINE r == req[q].run
<1>1. q \in Procs /\ req[q] \in ReqState /\ (req[q].pc # "idle" => r \in Runs)
  BY TypedParts DEF ReqType, ReqLocal, Procs
<1>2. CASE ReqRevoke(q)
  <2>1. TokenType'
    BY <1>1, <1>2, TypedParts, RevokeType DEF ReqRevoke
  <2>2. FinType'
    <3>1. [pc |-> "cancel", run |-> r, left |-> Roles, acked |-> TRUE, deleting |-> FALSE] \in FinState
      BY <1>1, <1>2 DEF ReqRevoke, FinState, FinPC, MaybeRun
    <3> QED BY <1>1, <1>2, <3>1, TypedParts, FinSet DEF ReqRevoke, StartFinalize, FinType, FinLocal
  <2>3. ReqType'
    <3>1. \A c \in {"finalizing", "cancelTasks"} : [req[q] EXCEPT !.pc = c] \in ReqState
      BY <1>1 DEF ReqState, ReqPC
    <3> QED BY <1>1, <1>2, <3>1, TypedParts, ReqSet DEF ReqRevoke, ReqState
  <2> QED
    BY <1>2, <2>1, <2>2, <2>3, TypedAgain DEF ReqRevoke
<1>3. ASSUME NEW k \in Roles, ReqCancelTask(q, k) PROVE Typed'
  <2>1. ExecType'
    BY <1>1, <1>3, TypedParts, CanceledType DEF ReqCancelTask, ExecType
  <2>2. ReqType'
    <3>1. [req[q] EXCEPT !.left = @ \ {k}] \in ReqState
      BY <1>1 DEF ReqState
    <3> QED BY <1>1, <1>3, <3>1, TypedParts, ReqSet DEF ReqCancelTask, ReqState
  <2> QED
    BY <1>3, <2>1, <2>2, TypedAgain DEF ReqCancelTask, database
<1>4. CASE ReqReload(q)
  <2>1. ReqType'
    <3>1. \A c \in {"mark", "done"} : [req[q] EXCEPT !.pc = c] \in ReqState
      BY <1>1 DEF ReqState, ReqPC
    <3> QED BY <1>1, <1>4, <3>1, TypedParts, ReqSet DEF ReqReload, ReqState
  <2> QED
    BY <1>4, <2>1, TypedAgain DEF ReqReload, database
<1>5. CASE ReqMarkDeleted(q)
  <2>1. RowType'
    BY <1>1, <1>5, RowValues, RowUpdate DEF ReqMarkDeleted, RowType, Typed
  <2>2. ReqType'
    <3>1. [req[q] EXCEPT !.pc = "done"] \in ReqState
      BY <1>1 DEF ReqState, ReqPC
    <3> QED BY <1>1, <1>5, <3>1, TypedParts, ReqSet DEF ReqMarkDeleted, ReqState
  <2> QED
    BY <1>5, <2>1, <2>2, TypedAgain DEF ReqMarkDeleted
<1> QED BY <1>2, <1>3, <1>4, <1>5 DEF ReqNext

LEMMA FinTyped == ASSUME Typed, NEW p \in Procs, FinNext(p) PROVE Typed'
<1> DEFINE r == fin[p].run
<1>1. fin[p] \in FinState /\ (fin[p].pc # "idle" => r \in Runs)
  BY TypedParts DEF FinType, FinLocal
<1>2. IdleFin \in FinState /\ \A c \in FinPC : [fin[p] EXCEPT !.pc = c] \in FinState
  BY <1>1 DEF FinState, IdleFin, FinPC, MaybeRun
<1>3. FinPC = {"idle", "cancel", "update", "mark", "tasks"} /\ IdleFin.pc = "idle"
  BY DEF FinPC, IdleFin
<1>4. ASSUME NEW k \in Roles, FinCancelTask(p, k) PROVE Typed'
  <2>1. ExecType'
    BY <1>1, <1>4, TypedParts, CanceledType DEF FinCancelTask, ExecType
  <2>2. FinType'
    <3>1. \A a \in BOOLEAN : [fin[p] EXCEPT !.left = @ \ {k}, !.acked = a] \in FinState
      BY <1>1 DEF FinState
    <3>2. PICK a \in BOOLEAN : fin' = [fin EXCEPT ![p] = [fin[p] EXCEPT !.left = @ \ {k}, !.acked = a]]
      <4>1. (fin[p].acked /\ Acknowledged(r, k)) \in BOOLEAN
        OBVIOUS
      <4>2. CASE fin' = [fin EXCEPT ![p].left = @ \ {k}, ![p].acked = @ /\ Acknowledged(r, k)]
        <5>1. fin' = [fin EXCEPT ![p] = [fin[p] EXCEPT !.left = @ \ {k},
                                          !.acked = fin[p].acked /\ Acknowledged(r, k)]]
          BY <1>1, <4>2, TypedParts DEF FinType, FinState
        <5> QED BY <4>1, <5>1
      <4>3. CASE fin' = [fin EXCEPT ![p].left = @ \ {k}, ![p].acked = FALSE]
        BY <1>1, <4>3, TypedParts DEF FinType, FinState
      <4> QED BY <1>4, <4>2, <4>3 DEF FinCancelTask
    <3> QED BY <1>1, <1>4, <3>1, <3>2, TypedParts, FinSet DEF FinCancelTask, FinState
  <2> QED
    BY <1>4, <2>1, <2>2, TypedAgain DEF FinCancelTask, database
<1>5. CASE FinLoad(p)
  <2>1. TokenType'
    BY <1>1, <1>5, TypedParts, RevokeType DEF FinLoad
  <2>2. FinType'
    <3>1. \A d \in BOOLEAN : [fin[p] EXCEPT !.pc = "update", !.deleting = d] \in FinState
      BY <1>1 DEF FinState, FinPC
    <3>2. CASE MayFinalize(p, r)
      <4> DEFINE x == [fin[p] EXCEPT !.pc = "update", !.deleting = row[r].stage = "deleting"]
      <4>1. x \in FinState /\ x.run = r
        BY <1>1, <3>1 DEF FinState
      <4>2. fin' = [fin EXCEPT ![p] = x]
        BY <1>5, <3>2, TypedParts DEF FinLoad, FinType
      <4> QED BY <1>1, <1>5, <4>1, <4>2, TypedParts, FinSet DEF FinLoad
    <3>3. CASE ~MayFinalize(p, r)
      BY <1>2, <1>3, <1>5, <3>3, TypedParts, FinSet DEF FinLoad
    <3> QED BY <3>2, <3>3
  <2> QED
    BY <1>5, <2>1, <2>2, TypedAgain DEF FinLoad
<1>6. CASE FinUpdate(p)
  <2>1. RowType'
    <3>1. ClosedAs(r, row[r].version, "canceled", "canceled") \in RunRow
      BY <1>1, <1>6, RowValues, RowFields DEF FinUpdate, Typed, Terminal, Stages
    <3> QED BY <1>1, <1>6, <3>1, TypedParts, RowUpdate DEF FinUpdate, RowType, Typed
  <2>2. FinType'
    <3>1. PICK x \in FinState : fin' = [fin EXCEPT ![p] = x] /\ (x = IdleFin \/ x.run = r)
      BY <1>1, <1>2, <1>3, <1>6 DEF FinUpdate, FinState
    <3> QED BY <1>1, <1>3, <1>6, <3>1, TypedParts, FinSet DEF FinUpdate
  <2> QED
    BY <1>6, <2>1, <2>2, TypedAgain DEF FinUpdate
<1>7. CASE FinMarkDeleted(p)
  <2>1. RowType'
    BY <1>1, <1>7, RowValues, RowUpdate DEF FinMarkDeleted, RowType, Typed
  <2>2. FinType'
    BY <1>1, <1>2, <1>3, <1>7, TypedParts, FinSet DEF FinMarkDeleted, FinState
  <2> QED
    BY <1>7, <2>1, <2>2, TypedAgain DEF FinMarkDeleted
<1>8. CASE FinTasks(p)
  <2>1. TaskType'
    BY <1>8, TypedParts DEF FinTasks, TaskType, TaskStatus
  <2>2. FinType'
    BY <1>2, <1>3, <1>8, TypedParts, FinSet DEF FinTasks
  <2> QED
    BY <1>8, <2>1, <2>2, TypedAgain DEF FinTasks
<1> QED BY <1>4, <1>5, <1>6, <1>7, <1>8 DEF FinNext

LEMMA WorkerTyped == ASSUME Typed, WorkerNext PROVE Typed'
<1>1. /\ worker \in WorkerState
      /\ \A e \in worker.todo : e \in Runs \X Nat /\ e[1] \in Runs /\ e[2] \in Nat
      /\ \A r \in Runs : row[r].version \in Nat
  BY TypedParts, RowFields DEF WorkerType, WorkerState, RowType
<1>2. ASSUME NEW e, [worker EXCEPT !.todo = @ \ {e}] = worker' PROVE WorkerType'
  BY <1>1, <1>2, TypedParts DEF WorkerType, WorkerState, WorkerLocal
<1>3. ASSUME NEW c \in WorkerPC, NEW set \in SUBSET Runs, Phase(c, set),
             c \notin {"timeoutRevoke", "reapRevoke"}
      PROVE  WorkerType'
  <2>1. Stamped(set) \in SUBSET (Runs \X Nat)
    BY <1>1 DEF Stamped
  <2> QED BY <1>3, <2>1 DEF Phase, WorkerType, WorkerState, WorkerLocal, MaybeRun
<1>4. CASE TickStart
  BY <1>3, <1>4, TypedAgain DEF TickStart, database, WorkerPC
<1>5. CASE ReapStart
  BY <1>3, <1>5, TypedAgain DEF ReapStart, database, WorkerPC
<1>6. CASE ConvergeStart
  BY <1>3, <1>6, TypedAgain DEF ConvergeStart, database, WorkerPC
<1>7. CASE TickEnd
  <2>1. WorkerType'
    BY <1>7 DEF TickEnd, IdleWorker, WorkerType, WorkerState, WorkerLocal, WorkerPC, MaybeRun
  <2> QED BY <1>7, <2>1, TypedAgain DEF TickEnd, database
<1>8. CASE WorkerRevoke
  <2>1. TokenType'
    BY <1>8, TypedParts, RevokeType DEF WorkerRevoke, WorkerType, WorkerLocal
  <2>2. WorkerType'
    BY <1>8, TypedParts DEF WorkerRevoke, WorkerType, WorkerState, WorkerLocal, WorkerPC, MaybeRun
  <2> QED BY <1>8, <2>1, <2>2, TypedAgain DEF WorkerRevoke
<1>9. CASE ClaimStart
  <2>1. RowType'
    BY <1>9, TypedParts, RowValues DEF ClaimStart, RowType, Typed
  <2>2. WorkerType'
    BY <1>3, <1>9 DEF ClaimStart, WorkerPC
  <2> QED BY <1>9, <2>1, <2>2, TypedAgain DEF ClaimStart
<1>10. ASSUME NEW e \in worker.todo, FailQueueTimeout(e) PROVE Typed'
  <2>1. RowType'
    <3>1. ClosedAs(e[1], row[e[1]].version, "failed", "queue_timeout") \in RunRow
      BY <1>1, RowValues DEF Typed, Terminal, Stages
    <3> QED BY <1>1, <1>10, <3>1, TypedParts, RowUpdate DEF FailQueueTimeout, RowType, Typed
  <2>2. WorkerType'
    BY <1>1, <1>10 DEF FailQueueTimeout, WorkerType, WorkerState, WorkerLocal, WorkerPC, MaybeRun
  <2> QED BY <1>10, <2>1, <2>2, TypedAgain DEF FailQueueTimeout
<1>11. ASSUME NEW e \in worker.todo, ReapExpiredLease(e) PROVE Typed'
  <2>1. RowType'
    <3>1. ClosedAs(e[1], e[2], "incomplete", "lease_lost") \in RunRow
      BY <1>1, RowValues DEF Typed, Terminal, Stages
    <3> QED BY <1>1, <1>11, <3>1, TypedParts, RowUpdate DEF ReapExpiredLease, RowType, Typed
  <2>2. WorkerType'
    <3>1. CASE row[e[1]].version = e[2]
      BY <1>1, <1>11, <3>1
      DEF ReapExpiredLease, WorkerType, WorkerState, WorkerLocal, WorkerPC, MaybeRun
    <3>2. CASE row[e[1]].version # e[2]
      BY <1>2, <1>11, <3>2 DEF ReapExpiredLease
    <3> QED BY <3>1, <3>2
  <2> QED BY <1>11, <2>1, <2>2, TypedAgain DEF ReapExpiredLease
<1>12. ASSUME NEW e \in worker.todo, ConvergeCancel(e) PROVE Typed'
  <2>1. FinType'
    <3>1. [pc |-> "cancel", run |-> e[1], left |-> Roles, acked |-> TRUE, deleting |-> FALSE] \in FinState
      BY <1>1 DEF FinState, FinPC, MaybeRun
    <3> QED BY <1>1, <1>12, <3>1, TypedParts, FinSet DEF ConvergeCancel, StartFinalize, Procs
  <2>2. WorkerType'
    BY <1>2, <1>12 DEF ConvergeCancel
  <2> QED BY <1>12, <2>1, <2>2, TypedAgain DEF ConvergeCancel, database
<1>13. ASSUME NEW e \in worker.todo, SkipClaim(e) PROVE Typed'
  BY <1>2, <1>13, TypedAgain DEF SkipClaim, database
<1>14. ASSUME NEW e \in worker.todo, NEW o \in Orchs, Claim(e, o) PROVE Typed'
  <2>1. RowType'
    <3>1. [row[e[1]] EXCEPT !.lease = "live"] \in RunRow
      BY <1>1, RowValues DEF Typed, Lease
    <3> QED BY <1>1, <1>14, <3>1, RowUpdate DEF Claim, RowType, Typed
  <2>2. OrchType'
    <3>1. [IdleOrch EXCEPT !.pc = "load", !.run = e[1]] \in OrchState
      BY <1>1 DEF IdleOrch, OrchState, OrchPC, MaybeRun
    <3> QED BY <1>1, <1>14, <3>1, TypedParts DEF Claim, OrchType, OrchLocal, IdleOrch
  <2>3. WorkerType'
    BY <1>2, <1>14 DEF Claim
  <2> QED BY <1>14, <2>1, <2>2, <2>3, TypedAgain DEF Claim
<1> QED
  BY <1>4, <1>5, <1>6, <1>7, <1>8, <1>9, <1>10, <1>11, <1>12, <1>13, <1>14 DEF WorkerNext

LEMMA OrchSet ==
    ASSUME OrchType, NEW o \in Orchs, NEW x \in OrchState, NEW y \in [Roles -> RolePC],
           x.pc # "idle" => x.run \in Runs, x.beating => x.pc # "idle",
           \A k \in Roles : y[k] # "off" => x.pc # "idle",
           orch' = [orch EXCEPT ![o] = x], role' = [role EXCEPT ![o] = y]
    PROVE  OrchType'
BY DEF OrchType, OrchLocal

LEMMA OrchEndsType == ASSUME OrchType, NEW o \in Orchs, OrchEnds(o) PROVE OrchType'
<1>1. IdleOrch \in OrchState /\ IdleRoles \in [Roles -> RolePC]
  BY DEF IdleOrch, OrchState, OrchPC, MaybeRun, IdleRoles, RolePC
<1> QED BY <1>1, OrchSet DEF OrchEnds, IdleOrch, IdleRoles

LEMMA RoleGoesType ==
    ASSUME OrchType, NEW o \in Orchs, NEW k \in Roles, NEW c \in RolePC, RoleGoes(o, k, c),
           orch[o].pc # "idle", UNCHANGED orch
    PROVE  OrchType'
BY DEF OrchType, OrchLocal, RoleGoes

LEMMA RoleTyped ==
    ASSUME Typed, NEW o \in Orchs, NEW k \in Roles,
           RoleRenew(o, k) \/ RoleToken(o, k) \/ RoleSubmit(o, k) \/ RoleWait(o, k) \/ RoleWrite(o, k)
    PROVE  Typed'
<1> DEFINE r == orch[o].run
<1>1. role[o][k] # "off" => r \in Runs /\ orch[o].pc # "idle"
  BY TypedParts DEF OrchType, OrchLocal
<1>2. RolePC = {"off", "renew", "token", "submit", "wait", "writeOk", "writeBad", "ok", "bad"}
  BY DEF RolePC
<1>3. r \in Runs => [row EXCEPT ![r] = RenewedRow(r)] \in [Runs -> RunRow]
  BY RowValues, RowUpdate DEF Typed
<1>4. CASE RoleRenew(o, k)
  <2>1. UNCHANGED row \/ RowType'
    BY <1>1, <1>3, <1>4 DEF RoleRenew, RowType
  <2>2. OrchType'
    BY <1>1, <1>2, <1>4, TypedParts, RoleGoesType DEF RoleRenew
  <2> QED BY <1>4, <2>1, <2>2, TypedAgain DEF RoleRenew
<1>5. CASE RoleToken(o, k)
  <2>1. TokenType'
    BY <1>1, <1>5, TypedParts DEF RoleToken, TokenType
  <2>2. OrchType'
    BY <1>1, <1>2, <1>5, TypedParts, RoleGoesType DEF RoleToken
  <2> QED BY <1>5, <2>1, <2>2, TypedAgain DEF RoleToken
<1>6. CASE RoleSubmit(o, k)
  <2>1. ExecType'
    BY <1>1, <1>6, TypedParts DEF RoleSubmit, SubmittedIn, ExecType, ExecStatus
  <2>2. OrchType'
    BY <1>1, <1>2, <1>6, TypedParts, RoleGoesType DEF RoleSubmit
  <2> QED BY <1>6, <2>1, <2>2, TypedAgain DEF RoleSubmit, database
<1>7. CASE RoleWait(o, k)
  <2>1. UNCHANGED row \/ RowType'
    BY <1>1, <1>3, <1>7 DEF RoleWait, RowType
  <2>2. PICK c \in RolePC : RoleGoes(o, k, c)
    BY <1>2, <1>7 DEF RoleWait
  <2>3. OrchType'
    BY <1>1, <1>7, <2>2, TypedParts, RoleGoesType DEF RoleWait
  <2> QED BY <1>7, <2>1, <2>3, TypedAgain DEF RoleWait
<1>8. CASE RoleWrite(o, k)
  <2>1. TaskType'
    <3>1. task' = task \/ \E s \in {"ok", "failed"} : task' = [task EXCEPT ![r][k] = s]
      BY <1>8 DEF RoleWrite
    <3>2. TaskType
      BY TypedParts
    <3> QED BY <1>1, <1>8, <3>1, <3>2 DEF RoleWrite, TaskType, TaskStatus
  <2>2. PICK c \in RolePC : RoleGoes(o, k, c)
    BY <1>2, <1>8 DEF RoleWrite
  <2>3. OrchType'
    BY <1>1, <1>8, <2>2, TypedParts, RoleGoesType DEF RoleWrite
  <2> QED BY <1>8, <2>1, <2>3, TypedAgain DEF RoleWrite
<1> QED BY <1>4, <1>5, <1>6, <1>7, <1>8

LEMMA OrchTyped == ASSUME Typed, NEW o \in Orchs, OrchNext(o) \/ Heartbeat(o) PROVE Typed'
<1> DEFINE r == orch[o].run
<1>1. /\ orch[o] \in OrchState /\ orch[o].fence \in Nat
      /\ orch[o].pc # "idle" => r \in Runs
      /\ orch[o].beating => orch[o].pc # "idle"
      /\ \A k \in Roles : role[o][k] # "off" => orch[o].pc # "idle"
      /\ role[o] \in [Roles -> RolePC]
  BY TypedParts DEF OrchType, OrchLocal, OrchState
<1>2. ASSUME OrchEnds(o) PROVE OrchType'
  BY <1>2, TypedParts, OrchEndsType
<1>3. ASSUME NEW c \in OrchPC, NEW f \in Nat, NEW b \in BOOLEAN, NEW y \in [Roles -> RolePC],
             orch[o].pc # "idle", c # "idle",
             orch' = [orch EXCEPT ![o] = [orch[o] EXCEPT !.pc = c, !.fence = f, !.beating = b]],
             role' = [role EXCEPT ![o] = y]
      PROVE  OrchType'
  <2> DEFINE x == [orch[o] EXCEPT !.pc = c, !.fence = f, !.beating = b]
  <2>1. x \in OrchState /\ x.pc = c /\ x.run = r
    BY <1>1 DEF OrchState
  <2> QED BY <1>1, <1>3, <2>1, TypedParts, OrchSet
<1>4. role = [role EXCEPT ![o] = role[o]]
  BY TypedParts DEF OrchType
<1>5. OrchPC = {"idle", "load", "freeze", "research", "roles", "verify", "revoke"}
  BY DEF OrchPC
<1>6. CASE OrchLoad(o)
  <2>1. CASE IsCanceled(r)
    BY <1>2, <1>6, <2>1, TypedAgain DEF OrchLoad, database
  <2>2. CASE ~IsCanceled(r)
    <3>1. row[r].version \in Nat
      BY <1>1, <1>6, TypedParts, RowFields DEF OrchLoad, RowType
    <3>2. orch' = [orch EXCEPT ![o] = [orch[o] EXCEPT !.pc = "freeze", !.fence = row[r].version,
                                                      !.beating = orch[o].beating]]
      BY <1>1, <1>6, <2>2, TypedParts DEF OrchLoad, OrchType, OrchState
    <3>3. OrchType'
      BY <1>1, <1>3, <1>4, <1>5, <1>6, <2>2, <3>1, <3>2 DEF OrchLoad, OrchState
    <3> QED BY <1>6, <3>3, TypedAgain DEF OrchLoad, database
  <2> QED BY <2>1, <2>2
<1>7. CASE OrchFreeze(o)
  <2>1. CASE CanCAS(r, orch[o].fence, {"queued"})
    <3> DEFINE x == [row[r] EXCEPT !.status = "researching", !.stage = "researching",
                          !.version = orch[o].fence + 1, !.lease = "live", !.overdue = FALSE]
    <3>1. r \in Runs /\ orch[o].fence + 1 \in Nat
      BY <1>1, <1>7 DEF OrchFreeze
    <3>2. x \in RunRow
      BY <3>1, RowValues DEF Typed
    <3>3. row' = [row EXCEPT ![r] = x]
      BY <1>7, <2>1 DEF OrchFreeze
    <3>4. RowType'
      BY <3>1, <3>2, <3>3, RowUpdate DEF RowType, Typed
    <3>5. orch' = [orch EXCEPT ![o] = [orch[o] EXCEPT !.pc = "research", !.fence = orch[o].fence + 1,
                                                      !.beating = orch[o].beating]]
      BY <1>1, <1>7, <2>1, TypedParts DEF OrchFreeze, OrchType, OrchState
    <3>6. OrchType'
      BY <1>1, <1>3, <1>4, <1>5, <1>7, <2>1, <3>1, <3>5 DEF OrchFreeze, OrchState
    <3> QED BY <1>7, <3>4, <3>6, TypedAgain DEF OrchFreeze
  <2>2. CASE ~CanCAS(r, orch[o].fence, {"queued"})
    BY <1>2, <1>7, <2>2, TypedAgain DEF OrchFreeze
  <2> QED BY <2>1, <2>2
<1>8. CASE OrchResearch(o)
  <2>1. CASE IsCanceled(r)
    BY <1>2, <1>8, <2>1, TypedAgain DEF OrchResearch, database
  <2>2. CASE ~IsCanceled(r)
    <3>1. orch' = [orch EXCEPT ![o] = [orch[o] EXCEPT !.pc = "roles", !.fence = orch[o].fence,
                                                      !.beating = TRUE]]
      BY <1>1, <1>8, <2>2, TypedParts DEF OrchResearch, OrchType, OrchState
    <3>2. [k \in Roles |-> "renew"] \in [Roles -> RolePC]
      BY DEF RolePC
    <3>3. OrchType'
      BY <1>1, <1>3, <1>5, <1>8, <2>2, <3>1, <3>2 DEF OrchResearch
    <3> QED BY <1>8, <3>3, TypedAgain DEF OrchResearch, database
  <2> QED BY <2>1, <2>2
<1>9. CASE OrchSynthesize(o)
  <2>1. CASE CanCAS(r, orch[o].fence, {"queued", "researching"})
    <3> DEFINE x == [row[r] EXCEPT !.status = "verifying", !.stage = "verifying",
                                   !.version = orch[o].fence + 1]
    <3>1. r \in Runs /\ orch[o].fence + 1 \in Nat
      BY <1>1, <1>9 DEF OrchSynthesize
    <3>2. x \in RunRow
      BY <3>1, RowValues DEF Typed
    <3>3. row' = [row EXCEPT ![r] = x]
      BY <1>9, <2>1 DEF OrchSynthesize
    <3>4. RowType'
      BY <3>1, <3>2, <3>3, RowUpdate DEF RowType, Typed
    <3>5. orch' = [orch EXCEPT ![o] = [orch[o] EXCEPT !.pc = "verify", !.fence = orch[o].fence + 1,
                                                      !.beating = FALSE]]
      BY <1>1, <1>9, <2>1, TypedParts DEF OrchSynthesize, OrchType, OrchState
    <3>6. OrchType'
      BY <1>1, <1>3, <1>4, <1>5, <1>9, <2>1, <3>1, <3>5, FALSE \in BOOLEAN DEF OrchSynthesize
    <3> QED BY <1>9, <3>4, <3>6, TypedAgain DEF OrchSynthesize
  <2>2. CASE ~CanCAS(r, orch[o].fence, {"queued", "researching"})
    BY <1>2, <1>9, <2>2, TypedAgain DEF OrchSynthesize
  <2> QED BY <2>1, <2>2
<1>10. CASE OrchFail(o)
  <2>1. CASE CanFail(r, orch[o].fence)
    <3>1. ClosedAs(r, orch[o].fence, "failed", "done") \in RunRow
      BY <1>1, <1>10, RowValues DEF OrchFail, Typed, Terminal, Stages
    <3>2. RowType'
      BY <1>1, <1>10, <2>1, <3>1, RowUpdate DEF OrchFail, RowType, Typed
    <3>3. orch' = [orch EXCEPT ![o] = [orch[o] EXCEPT !.pc = "revoke", !.fence = orch[o].fence,
                                                      !.beating = orch[o].beating]]
      BY <1>1, <1>10, <2>1, TypedParts DEF OrchFail, OrchType, OrchState
    <3>4. OrchType'
      BY <1>1, <1>3, <1>4, <1>5, <1>10, <2>1, <3>3 DEF OrchFail, OrchState
    <3> QED BY <1>10, <3>2, <3>4, TypedAgain DEF OrchFail
  <2>2. CASE ~CanFail(r, orch[o].fence)
    BY <1>2, <1>10, <2>2, TypedAgain DEF OrchFail
  <2> QED BY <2>1, <2>2
<1>11. CASE OrchRevoke(o)
  BY <1>1, <1>2, <1>11, TypedParts, RevokeType, TypedAgain DEF OrchRevoke
<1>12. CASE OrchPublish(o)
  <2>1. Quality(o) \in Terminal /\ Quality(o) \in {"completed", "incomplete"}
    BY DEF Quality, Terminal
  <2>2. ClosedAs(r, row[r].version, Quality(o), "done") \in RunRow
    BY <1>1, <1>12, <2>1, RowValues, RowFields DEF OrchPublish, Typed, Stages
  <2>3. RowType'
    BY <1>1, <1>12, <2>2, RowUpdate DEF OrchPublish, RowType, Typed
  <2>4. ReportType'
    BY <1>12, <2>1, TypedParts DEF OrchPublish, ReportType
  <2> QED BY <1>2, <1>12, <2>3, <2>4, TypedAgain DEF OrchPublish
<1>13. CASE OrchPublishRefused(o)
  BY <1>2, <1>13, TypedAgain DEF OrchPublishRefused, database
<1>14. CASE Heartbeat(o)
  <2>1. CASE CanRenew(r)
    <3>1. RowType'
      BY <1>1, <1>14, <2>1, RowValues, RowUpdate DEF Heartbeat, RowType, Typed
    <3> QED BY <1>14, <2>1, <3>1, TypedAgain DEF Heartbeat
  <2>2. CASE ~CanRenew(r)
    <3>1. orch' = [orch EXCEPT ![o] = [orch[o] EXCEPT !.pc = orch[o].pc, !.fence = orch[o].fence,
                                                      !.beating = FALSE]]
      BY <1>1, <1>14, <2>2, TypedParts DEF Heartbeat, OrchType, OrchState
    <3>2. OrchType'
      BY <1>1, <1>3, <1>4, <1>5, <1>14, <2>2, <3>1 DEF Heartbeat, OrchState
    <3> QED BY <1>14, <2>2, <3>2, TypedAgain DEF Heartbeat
  <2> QED BY <2>1, <2>2
<1> QED
  BY <1>6, <1>7, <1>8, <1>9, <1>10, <1>11, <1>12, <1>13, <1>14, RoleTyped DEF OrchNext

LEMMA CrashTyped == ASSUME Typed, Crash PROVE Typed'
<1>1. crashes' \in Nat
  BY TypedParts DEF Crash
<1>2. FinType'
  BY DEF Crash, FinType, FinLocal, IdleFin, FinState, FinPC, MaybeRun
<1>3. OrchType'
  BY DEF Crash, OrchType, OrchLocal, IdleOrch, IdleRoles, OrchState, OrchPC, RolePC, MaybeRun
<1>4. WorkerType'
  BY DEF Crash, WorkerType, WorkerLocal, IdleWorker, WorkerState, WorkerPC, MaybeRun
<1>5. ReqType'
  <2>1. ASSUME NEW q \in Requests PROVE [req[q] EXCEPT !.pc = "done"] \in ReqState
    BY TypedParts DEF ReqType, ReqState, ReqPC
  <2> QED BY <2>1, TypedParts DEF Crash, ReqType, ReqLocal, ReqState
<1> QED BY <1>1, <1>2, <1>3, <1>4, <1>5, TypedAgain DEF Crash, database

LEMMA FinishTyped == ASSUME Typed, NEW r \in Runs, NEW k \in Roles, ExecFinish(r, k) PROVE Typed'
<1>1. ExecType'
  BY TypedParts DEF ExecFinish, ExecType, ExecStatus
<1> QED BY <1>1, TypedAgain DEF ExecFinish, database

LEMMA TypedStep == Typed /\ [Next]_vars => Typed'
<1> SUFFICES ASSUME Typed, [Next]_vars PROVE Typed'
  OBVIOUS
<1>1. CASE Next
  BY <1>1, CreateTyped, TimeTyped, FinishTyped, RequestTyped, ReqTyped, FinTyped, WorkerTyped,
     OrchTyped, CrashTyped DEF Next
<1>2. CASE UNCHANGED vars
  BY <1>2, TypedAgain DEF vars, database
<1> QED BY <1>1, <1>2

\* Every variable of the specification stays in its type, and a process at work has a run.
THEOREM TypeCorrect == Spec => []TypeOK
<1>1. Spec => []Typed
  BY InitTyped, TypedStep, PTL DEF Spec
<1>2. Typed => TypeOK
  BY DEF Typed
<1> QED BY <1>1, <1>2, PTL

=============================================================================
