------------------------- MODULE ResearchRunSafety -------------------------
(***************************************************************************)
(* The safety properties of ResearchRun hold in every instance.            *)
(*                                                                         *)
(* Every action is first reduced to a few "moves", one formula per         *)
(* variable, that say all that the invariant needs of a step: rows only    *)
(* advance, executor tasks that stopped stay so, a process goes idle, goes *)
(* on with what it remembers, or starts with a fact that is true of the    *)
(* new row.  Then the invariant is shown to survive any step that moves so. *)
(***************************************************************************)
EXTENDS ResearchRunProofs

----------------------------------------------------------------------------
(* Moves *)

\* What any step may do to a row y: x is the row after it.
Advances(y, x) ==
    /\ y.version <= x.version
    /\ x.status # y.status => <<y.status, x.status>> \in LegalStep /\ x.version = y.version + 1
    /\ x.status = "absent" => x.version = y.version
    /\ x.stage # y.stage => x.status # y.status \/ x.status = "canceling"
    /\ x.deleted => y.deleted \/ x.status \in Terminal
    /\ x.lease = "live" => y.lease = "live" \/ x.status \in {"queued", "researching", "verifying"}

\* The condition on which finalizeCancel closes a run.
Confirmed(r) == row[r].lease # "live" \/ \A k \in Roles : Stopped(r, k)

RowMoves == \A r \in Runs :
    /\ Advances(row[r], row'[r])
    /\ row[r].status = "canceling" /\ row'[r].status = "canceled" => Confirmed(r)
    /\ row[r].status # "completed" /\ row'[r].status = "completed" => report'[r] = "completed"
    /\ report'[r] # report[r] =>
            row[r].status = "verifying" /\ row'[r].status = report'[r] /\ row'[r].stage = "done"

TaskMoves == \A r \in Runs, k \in Roles :
    task'[r][k] = "canceled" => task[r][k] = "canceled" \/ Closed(r)'

ExecMoves == \A r \in Runs, k \in Roles : Stopped(r, k) => Stopped(r, k)'

Keeps(o) ==
    \/ orch'[o].pc \notin {"research", "roles", "verify", "revoke"}
    \/ /\ orch'[o].run = orch[o].run /\ orch'[o].fence = orch[o].fence
       /\ orch'[o].pc = orch[o].pc \/ (orch[o].pc = "research" /\ orch'[o].pc = "roles")
    \/ orch'[o].pc = "revoke" /\ Closed(orch[o].run)'

TakesFence(o) ==
    LET r == orch[o].run IN
    /\ orch[o].pc # "idle" /\ orch'[o].run = r
    /\ orch'[o].fence = row'[r].version /\ row[r].version < row'[r].version
    /\ \/ orch'[o].pc = "research" /\ row'[r].status = "researching"
       \/ orch'[o].pc = "verify" /\ row'[r].status = "verifying"

OrchMoves == \/ \A o \in Orchs : Keeps(o)
             \/ \E o \in Orchs : TakesFence(o) /\ \A x \in Orchs \ {o} : Keeps(x)

FinMove(p) ==
    LET r == fin[p].run IN
    \/ fin'[p].pc = "idle"
    \/ fin'[p] = fin[p]
    \/ fin'[p].pc = "cancel" /\ fin'[p].left = Roles /\ Closed(fin[p].run)'
    \/ /\ fin[p].pc = "cancel" /\ fin'[p].pc = "cancel" /\ fin'[p].run = r
       /\ \E k \in Roles : /\ fin'[p].left = fin[p].left \ {k}
                           /\ fin'[p].acked => fin[p].acked /\ Stopped(r, k)'
    \/ /\ fin[p].pc = "cancel" /\ fin[p].left = {} /\ fin'[p].pc = "update" /\ fin'[p].run = r
       /\ fin[p].acked \/ row[r].lease # "live"
       /\ UNCHANGED <<row, exec>>
    \/ /\ fin[p].pc # "idle" /\ fin'[p].pc \in {"mark", "tasks"} /\ fin'[p].run = r
       /\ row'[r].status = "canceled"

FinMoves == \A p \in Procs : FinMove(p)

ReqMoves == \A q \in Requests :
    \/ req'[q].pc \in {"idle", "done"}
    \/ req'[q] = req[q]
    \/ req'[q].pc \in {"revoke", "cancelTasks", "finalizing"} /\ Closed(req[q].run)'
    \/ req'[q].pc = "mark" /\ row'[req'[q].run].status = "canceled"

WorkerMoves ==
    \/ worker'.pc \notin {"reap", "reapRevoke", "converge"}
    \/ worker' = worker
    \/ /\ worker.pc \in {"reap", "reapRevoke"} /\ worker'.pc \in {"reap", "reapRevoke"}
       /\ worker'.todo \subseteq worker.todo
       /\ worker'.pc = "reapRevoke" => Closed(worker.cur)'
    \/ worker.pc = "converge" /\ worker'.pc = "converge" /\ worker'.todo \subseteq worker.todo
    \/ /\ worker'.pc = "reap" /\ UNCHANGED row
       /\ \A e \in worker'.todo : /\ e[2] = row[e[1]].version
                                  /\ row[e[1]].status \in {"researching", "verifying"}
    \/ worker'.pc = "converge" /\ \A e \in worker'.todo : Closed(e[1])'

Moves == /\ RowMoves /\ TaskMoves /\ ExecMoves
         /\ OrchMoves /\ FinMoves /\ ReqMoves /\ WorkerMoves

----------------------------------------------------------------------------
(* A step that moves so preserves the invariant *)

LEMMA Frame ==
    ASSUME Typed,
           UNCHANGED <<row, report>> \/ RowMoves, UNCHANGED task \/ TaskMoves,
           UNCHANGED exec \/ ExecMoves, UNCHANGED orch \/ OrchMoves, UNCHANGED fin \/ FinMoves,
           UNCHANGED req \/ ReqMoves, UNCHANGED worker \/ WorkerMoves
    PROVE  Moves
<1>1. RowMoves
  <2>1. ASSUME UNCHANGED <<row, report>>, NEW r \in Runs PROVE Advances(row[r], row'[r])
    <3>1. row[r].version \in Nat
      BY TypedParts, RowFields DEF RowType
    <3> QED BY <2>1, <3>1 DEF Advances
  <2> QED BY <2>1 DEF RowMoves
<1>2. TaskMoves
  BY DEF TaskMoves
<1>3. ExecMoves
  BY DEF ExecMoves, Stopped
<1>4. OrchMoves
  <2>1. ASSUME UNCHANGED orch, NEW o \in Orchs PROVE Keeps(o)
    BY <2>1 DEF Keeps
  <2> QED BY <2>1 DEF OrchMoves
<1>5. FinMoves
  BY DEF FinMoves, FinMove
<1>6. ReqMoves
  BY DEF ReqMoves
<1>7. WorkerMoves
  BY DEF WorkerMoves
<1> QED BY <1>1, <1>2, <1>3, <1>4, <1>5, <1>6, <1>7 DEF Moves

\* Closed runs stay closed, canceled runs stay canceled.
LEMMA StaysClosed ==
    ASSUME RowMoves, NEW r \in Runs
    PROVE  /\ Closed(r) => Closed(r)'
           /\ row[r].status \in Terminal => row'[r].status = row[r].status
           /\ row[r].status = "canceling" => row'[r].status \in {"canceling", "canceled"}
           /\ row'[r].status = "canceling" => row[r].status \notin Terminal
BY DEF RowMoves, Advances, Closed, LegalStep, Terminal

LEMMA ReportKept == ASSUME Typed, ReportMatchesRun, RowMoves PROVE ReportMatchesRun'
<1> SUFFICES ASSUME NEW r \in Runs
             PROVE  /\ report'[r] # "none" => row'[r].status = report'[r] /\ row'[r].stage = "done"
                    /\ row'[r].status = "completed" => report'[r] = "completed"
  BY DEF ReportMatchesRun
<1>1. /\ report[r] # "none" => row[r].status = report[r] /\ row[r].stage = "done"
      /\ row[r].status = "completed" => report[r] = "completed"
  BY DEF ReportMatchesRun
<1>2. report[r] \in {"none", "completed", "incomplete"}
  BY TypedParts DEF ReportType
<1>3. /\ row[r].status \in Terminal => row'[r].status = row[r].status
      /\ row'[r].stage # row[r].stage => row'[r].status # row[r].status \/ row'[r].status = "canceling"
      /\ row[r].status # "completed" /\ row'[r].status = "completed" => report'[r] = "completed"
      /\ report'[r] # report[r] =>
            row[r].status = "verifying" /\ row'[r].status = report'[r] /\ row'[r].stage = "done"
  BY StaysClosed DEF RowMoves, Advances
<1> QED BY <1>1, <1>2, <1>3 DEF Terminal

LEMMA DeletedKept == ASSUME DeletedIsClosed, RowMoves PROVE DeletedIsClosed'
BY StaysClosed DEF DeletedIsClosed, RowMoves, Advances

LEMMA FreshKept == ASSUME Fresh, RowMoves PROVE Fresh'
<1> SUFFICES ASSUME NEW r \in Runs, row'[r].status = "absent" PROVE row'[r].version = 0
  BY DEF Fresh
<1>1. Advances(row[r], row'[r])
  BY DEF RowMoves
<1>2. row[r].status = "absent" /\ row'[r].version = row[r].version
  BY <1>1 DEF Advances, LegalStep
<1> QED BY <1>2 DEF Fresh

LEMMA FencedKept == ASSUME IInv, Typed', Moves PROVE Fenced' /\ FenceExclusive'
<1>1. \A r \in Runs : /\ row[r].version \in Nat /\ row'[r].version \in Nat
                      /\ row[r].version <= row'[r].version
                      /\ row'[r].status # row[r].status => row'[r].version = row[r].version + 1
  <2>1. RowType /\ RowType'
    BY TypedParts, PTL DEF IInv, Typed, TypeOK, RowType
  <2> QED BY <2>1, RowFields DEF Moves, RowMoves, Advances, RowType
<1>2. \A o \in Orchs : /\ orch[o].fence \in Nat
                       /\ orch[o].pc # "idle" => orch[o].run \in Runs
  BY TypedParts DEF IInv, OrchType, OrchLocal, OrchState
<1>3. ASSUME NEW o \in Orchs, Keeps(o)
      PROVE  /\ FencesOf(o)'
             /\ HoldsFence(o)' => /\ HoldsFence(o)
                                  /\ orch'[o].run = orch[o].run /\ orch'[o].fence = orch[o].fence
  <2>1. FencesOf(o)
    BY DEF IInv, Fenced
  <2> QED BY <1>1, <1>2, <1>3, <2>1 DEF Keeps, FencesOf, HoldsFence
<1>4. ASSUME NEW o \in Orchs, TakesFence(o) PROVE FencesOf(o)'
  BY <1>1, <1>2, <1>4 DEF TakesFence, FencesOf
<1>5. \A o \in Orchs : FencesOf(o)'
  BY <1>3, <1>4 DEF Moves, OrchMoves
<1>6. ASSUME NEW o \in Orchs, NEW x \in Orchs, TakesFence(o), Keeps(x), HoldsFence(x)'
      PROVE  orch'[x].run # orch'[o].run
  <2>1. /\ HoldsFence(x)
        /\ orch'[x].run = orch[x].run /\ orch'[x].fence = orch[x].fence
    BY <1>3, <1>6
  <2>2. orch[o].run \in Runs /\ orch'[o].run = orch[o].run
        /\ row[orch[o].run].version < row'[orch[o].run].version
    BY <1>2, <1>6 DEF TakesFence
  <2> QED BY <1>1, <1>6, <2>1, <2>2 DEF HoldsFence
<1>7. FenceExclusive'
  <2> SUFFICES ASSUME NEW o1 \in Orchs, NEW o2 \in Orchs, HoldsFence(o1)', HoldsFence(o2)',
                      orch'[o1].run = orch'[o2].run
               PROVE  o1 = o2
    BY DEF FenceExclusive
  <2>1. CASE Keeps(o1) /\ Keeps(o2)
    BY <1>3, <2>1 DEF IInv, FenceExclusive
  <2>2. CASE \E o \in Orchs : TakesFence(o) /\ \A x \in Orchs \ {o} : Keeps(x)
    BY <1>6, <2>1, <2>2
  <2> QED BY <2>1, <2>2 DEF Moves, OrchMoves
<1>8. ReapFences'
  <2> SUFFICES ASSUME worker'.pc \in {"reap", "reapRevoke"}, NEW e \in worker'.todo
               PROVE  /\ e[2] <= row'[e[1]].version
                      /\ row'[e[1]].version = e[2] => row'[e[1]].status \in {"researching", "verifying"}
    BY DEF ReapFences
  <2>1. e[1] \in Runs /\ e[2] \in Nat
    BY DEF Typed, TypeOK, WorkerState
  <2>2. CASE \/ worker' = worker
             \/ worker.pc \in {"reap", "reapRevoke"} /\ worker'.todo \subseteq worker.todo
    <3>1. /\ e[2] <= row[e[1]].version
          /\ row[e[1]].version = e[2] => row[e[1]].status \in {"researching", "verifying"}
      BY <2>2 DEF IInv, Fenced, ReapFences
    <3> QED BY <1>1, <2>1, <3>1
  <2>3. CASE UNCHANGED row /\ e[2] = row[e[1]].version
             /\ row[e[1]].status \in {"researching", "verifying"}
    BY <1>1, <2>1, <2>3
  <2> QED BY <2>2, <2>3 DEF Moves, WorkerMoves
<1> QED BY <1>5, <1>7, <1>8 DEF Fenced

LEMMA ClosingKept == ASSUME IInv, Typed', Moves PROVE Closing'
<1>1. RowMoves /\ Closing
  BY DEF IInv, Moves
<1>2. \A r \in Runs : /\ Closed(r) => Closed(r)'
                      /\ row[r].status = "canceled" => row'[r].status = "canceled"
                      /\ row[r].status = "canceled" => Closed(r)
  BY <1>1, StaysClosed DEF Terminal, Closed
<1>3. ASSUME NEW p \in Procs PROVE FinCloses(p)'
  <2>1. FinCloses(p) /\ FinMove(p) /\ (fin[p].pc # "idle" => fin[p].run \in Runs)
    BY <1>1, TypedParts DEF Closing, Moves, FinMoves, IInv, FinType, FinLocal
  <2>2. \A r \in Runs : row'[r].status = "canceled" => Closed(r)'
    BY DEF Closed, Terminal
  <2> QED BY <1>2, <2>1, <2>2 DEF FinCloses, FinMove
<1>4. ASSUME NEW q \in Requests PROVE ReqCloses(q)'
  <2>1. ReqCloses(q) /\ (req[q].pc # "idle" => req[q].run \in Runs)
    BY <1>1, TypedParts DEF Closing, IInv, ReqType, ReqLocal
  <2> QED BY <1>2, <2>1 DEF ReqCloses, Moves, ReqMoves
<1>5. ASSUME NEW o \in Orchs PROVE OrchCloses(o)'
  <2>1. OrchCloses(o) /\ (orch[o].pc # "idle" => orch[o].run \in Runs)
    BY <1>1, TypedParts DEF Closing, IInv, OrchType, OrchLocal
  <2>2. Keeps(o) \/ orch'[o].pc # "revoke"
    BY DEF Moves, OrchMoves, TakesFence
  <2> QED BY <1>2, <2>1, <2>2 DEF OrchCloses, Keeps
<1>6. WorkerCloses'
  <2>1. WorkerCloses /\ (worker.pc = "reapRevoke" => worker.cur \in Runs)
        /\ \A e \in worker.todo : e[1] \in Runs
    BY <1>1, TypedParts DEF Closing, IInv, WorkerType, WorkerLocal, WorkerState
  <2> QED BY <1>2, <2>1 DEF WorkerCloses, Moves, WorkerMoves
<1>7. TasksClosed'
  BY <1>1, <1>2 DEF Closing, TasksClosed, Moves, TaskMoves
<1> QED BY <1>3, <1>4, <1>5, <1>6, <1>7 DEF Closing

LEMMA AckedKept == ASSUME IInv, Moves PROVE Acked'
<1> SUFFICES ASSUME NEW p \in Procs PROVE AcksOf(p)'
  BY DEF Acked
<1> DEFINE r == fin[p].run
<1>1. /\ AcksOf(p) /\ FinMove(p) /\ FinCloses(p) /\ RowMoves
      /\ \A x \in Runs, k \in Roles : Stopped(x, k) => Stopped(x, k)'
      /\ fin[p].pc # "idle" => r \in Runs
  BY TypedParts DEF IInv, Acked, Moves, FinMoves, ExecMoves, Closing, FinType, FinLocal
<1>2. ASSUME r \in Runs, Closed(r), row'[r].status = "canceling"
      PROVE  row[r].status = "canceling" /\ (row'[r].lease = "live" => row[r].lease = "live")
  BY <1>1, <1>2, StaysClosed DEF RowMoves, Advances, Closed
<1>3. CASE fin'[p] = fin[p]
  BY <1>1, <1>2, <1>3 DEF AcksOf, FinCloses
<1>4. CASE fin'[p].pc = "cancel" /\ fin'[p].left = Roles
  BY <1>4 DEF AcksOf
<1>5. CASE /\ fin[p].pc = "cancel" /\ fin'[p].pc = "cancel" /\ fin'[p].run = r
           /\ \E k \in Roles : /\ fin'[p].left = fin[p].left \ {k}
                               /\ fin'[p].acked => fin[p].acked /\ Stopped(r, k)'
  BY <1>1, <1>5 DEF AcksOf
<1>6. CASE /\ fin[p].pc = "cancel" /\ fin[p].left = {} /\ fin'[p].pc = "update" /\ fin'[p].run = r
           /\ fin[p].acked \/ row[r].lease # "live"
           /\ UNCHANGED <<row, exec>>
  BY <1>1, <1>6 DEF AcksOf, Stopped
<1>7. CASE fin'[p].pc \in {"idle", "mark", "tasks"}
  BY <1>7 DEF AcksOf
<1> QED BY <1>1, <1>3, <1>4, <1>5, <1>6, <1>7 DEF FinMove

LEMMA MovesPreserve == ASSUME IInv, Typed', Moves PROVE IInv'
<1>1. ReportMatchesRun' /\ DeletedIsClosed' /\ Fresh'
  BY ReportKept, DeletedKept, FreshKept DEF IInv, Moves
<1> QED BY <1>1, FencedKept, ClosingKept, AckedKept DEF IInv

----------------------------------------------------------------------------
(* Every action moves so *)

LEMMA InitIInv == Init => IInv
<1> SUFFICES ASSUME Init PROVE IInv
  OBVIOUS
<1>1. Fenced /\ Closing /\ Acked
  BY DEF Init, Fenced, FencesOf, ReapFences, Closing, FinCloses, ReqCloses, OrchCloses,
         WorkerCloses, TasksClosed, Acked, AcksOf, IdleOrch, IdleFin, IdleReq, IdleWorker
<1>2. ReportMatchesRun /\ DeletedIsClosed /\ FenceExclusive /\ Fresh
  BY DEF Init, Fresh, ReportMatchesRun, DeletedIsClosed, FenceExclusive, HoldsFence, AbsentRow, IdleOrch
<1> QED BY <1>1, <1>2, InitTyped DEF IInv

\* One row changes, and no report.
LEMMA OneRow ==
    ASSUME Typed, NEW r \in Runs, NEW x, row' = [row EXCEPT ![r] = x], UNCHANGED report,
           Advances(row[r], x), row[r].status # "completed" => x.status # "completed",
           row[r].status = "canceling" => x.status # "canceled" \/ Confirmed(r)
    PROVE  RowMoves
<1>1. ASSUME NEW s \in Runs, s # r PROVE Advances(row[s], row'[s]) /\ row'[s] = row[s]
  <2>1. row[s].version \in Nat /\ row'[s] = row[s]
    BY <1>1, TypedParts, RowFields DEF RowType
  <2> QED BY <2>1 DEF Advances
<1>2. row'[r] = x
  BY TypedParts DEF RowType
<1> QED BY <1>1, <1>2 DEF RowMoves

\* What Moves asks of a row that one of the updates of the module writes.
LEMMA Updates ==
    ASSUME IInv, NEW r \in Runs
    PROVE  /\ \A g : row[r].status \in Active =>
                  /\ Advances(row[r], CancelingAs(r, g))
                  /\ CancelingAs(r, g).status = "canceling"
           /\ CanRenew(r) => Advances(row[r], RenewedRow(r)) /\ RenewedRow(r).status = row[r].status
           /\ row[r].status \in Terminal =>
                  /\ Advances(row[r], DeletedRow(r)) /\ DeletedRow(r).status = row[r].status
                  /\ Advances(row[r], [row[r] EXCEPT !.deleted = TRUE])
           /\ row[r].version \in Nat /\ row[r] \in RunRow
<1>1. row[r] \in RunRow /\ row[r].version \in Nat
  BY TypedParts, RowFields DEF IInv, RowType
<1>4. ASSUME NEW g, row[r].status \in Active
      PROVE  Advances(row[r], CancelingAs(r, g)) /\ CancelingAs(r, g).status = "canceling"
  <2> DEFINE x == CancelingAs(r, g)
  <2>1. /\ x.status = "canceling" /\ x.version = row[r].version + 1
        /\ x.lease = row[r].lease /\ x.deleted = row[r].deleted
    BY <1>1 DEF CancelingAs, RunRow
  <2> QED BY <1>1, <1>4, <2>1 DEF Advances, Active, LegalStep
<1>5. ASSUME CanRenew(r)
      PROVE  Advances(row[r], RenewedRow(r)) /\ RenewedRow(r).status = row[r].status
  <2> DEFINE x == RenewedRow(r)
  <2>1. /\ x.status = row[r].status /\ x.stage = row[r].stage /\ x.version = row[r].version
        /\ x.deleted = row[r].deleted
    BY <1>1 DEF RenewedRow, RunRow
  <2> QED BY <1>1, <1>5, <2>1 DEF Advances, CanRenew
<1>6. ASSUME row[r].status \in Terminal
      PROVE  /\ Advances(row[r], DeletedRow(r)) /\ DeletedRow(r).status = row[r].status
             /\ Advances(row[r], [row[r] EXCEPT !.deleted = TRUE])
  <2>1. /\ DeletedRow(r).status = row[r].status /\ DeletedRow(r).stage = row[r].stage
        /\ DeletedRow(r).version = row[r].version + 1 /\ DeletedRow(r).lease = "none"
    BY <1>1 DEF DeletedRow, RunRow
  <2>2. LET x == [row[r] EXCEPT !.deleted = TRUE]
        IN  /\ x.status = row[r].status /\ x.stage = row[r].stage
            /\ x.version = row[r].version /\ x.lease = row[r].lease
    BY <1>1 DEF RunRow
  <2> QED BY <1>1, <1>6, <2>1, <2>2 DEF Advances, Terminal
<1> QED BY <1>1, <1>4, <1>5, <1>6

LEMMA ClosingUpdate ==
    ASSUME IInv, NEW r \in Runs, NEW s \in Terminal, NEW g \in Stages, NEW x,
           <<row[r].status, s>> \in LegalStep, x = ClosedAs(r, row[r].version, s, g)
    PROVE  Advances(row[r], x) /\ x.status = s
<1>1. row[r] \in RunRow /\ row[r].version \in Nat
  BY Updates
<1>2. /\ x.status = s /\ x.stage = g /\ x.version = row[r].version + 1 /\ x.lease = "none"
      /\ x.deleted = row[r].deleted
  BY <1>1 DEF ClosedAs, RunRow
<1>3. s # row[r].status
  BY DEF LegalStep, Terminal
<1> QED BY <1>1, <1>2, <1>3 DEF Advances, Terminal

LEMMA CreateMoves == ASSUME IInv, NEW r \in Runs, CreateResearch(r) PROVE Moves
<1> DEFINE x == [AbsentRow EXCEPT !.status = "queued", !.version = 1]
<1>1. /\ row[r].status = "absent" /\ row[r].version = 0 /\ Typed
      /\ row' = [row EXCEPT ![r] = x] /\ UNCHANGED report
  BY DEF IInv, Fresh, CreateResearch
<1>2. x.status = "queued" /\ x.version = 1 /\ x.lease = "none" /\ ~x.deleted
  BY DEF AbsentRow
<1>3. Advances(row[r], x)
  BY <1>1, <1>2 DEF Advances, LegalStep
<1>4. RowMoves
  BY <1>1, <1>2, <1>3, OneRow
<1>5. TaskMoves
  BY TypedParts, <1>1 DEF CreateResearch, TaskMoves, TaskType
<1> QED BY <1>1, <1>4, <1>5, Frame DEF CreateResearch

LEMMA TimeMoves ==
    ASSUME IInv, NEW r \in Runs, QueueTimeoutPasses(r) \/ DeadlinePasses(r) \/ LeaseExpires(r)
    PROVE  Moves
<1>1. PICK x : /\ row' = [row EXCEPT ![r] = x]
               /\ \/ x = [row[r] EXCEPT !.waited = TRUE]
                  \/ x = [row[r] EXCEPT !.overdue = TRUE]
                  \/ x = [row[r] EXCEPT !.lease = "expired"]
  BY DEF QueueTimeoutPasses, DeadlinePasses, LeaseExpires
<1>2. row[r] \in RunRow /\ row[r].version \in Nat
  BY Updates
<1>3. /\ x.status = row[r].status /\ x.stage = row[r].stage /\ x.version = row[r].version
      /\ x.deleted = row[r].deleted /\ (x.lease = row[r].lease \/ x.lease = "expired")
  BY <1>1, <1>2 DEF RunRow
<1>4. Advances(row[r], x)
  BY <1>2, <1>3 DEF Advances
<1>5. RowMoves
  BY <1>1, <1>3, <1>4, OneRow DEF IInv, QueueTimeoutPasses, DeadlinePasses, LeaseExpires
<1> QED
  BY <1>5, Frame DEF IInv, QueueTimeoutPasses, DeadlinePasses, LeaseExpires

LEMMA FinishMoves == ASSUME IInv, NEW r \in Runs, NEW k \in Roles, ExecFinish(r, k) PROVE Moves
<1>1. ExecMoves
  BY TypedParts DEF IInv, ExecFinish, ExecMoves, Stopped, ExecType
<1> QED BY <1>1, Frame DEF IInv, ExecFinish, database

LEMMA CrashMoves == ASSUME IInv, Crash PROVE Moves
<1>1. OrchMoves
  BY DEF Crash, OrchMoves, Keeps, IdleOrch
<1>2. FinMoves
  BY DEF Crash, FinMoves, FinMove, IdleFin
<1>3. ReqMoves
  BY TypedParts DEF IInv, Crash, ReqMoves, ReqType, ReqState
<1>4. WorkerMoves
  BY DEF Crash, WorkerMoves, IdleWorker
<1> QED BY <1>1, <1>2, <1>3, <1>4, Frame DEF IInv, Crash, database

LEMMA RequestMoves ==
    ASSUME IInv, NEW q \in Requests, NEW r \in Runs, CancelResearch(q, r) \/ DeleteResearch(q, r)
    PROVE  Moves
<1>1. row[r] \in RunRow /\ {"canceling", "canceled", "deleting"} \subseteq Stages /\ Typed
      /\ "canceled" \in Terminal
  BY Updates DEF IInv, Stages, Terminal
<1>2. CASE CancelResearch(q, r)
  <2>1. RowMoves /\ Closed(r)'
    <3>1. \/ row' = row /\ row[r].status \notin {"absent", "queued", "researching", "verifying"}
          \/ /\ row' = [row EXCEPT ![r] = CancelingAs(r, "canceling")]
             /\ row[r].status \in {"queued", "researching", "verifying"}
          \/ /\ row' = [row EXCEPT ![r] = ClosedAs(r, row[r].version, "canceled", "canceled")]
             /\ row[r].status = "queued"
      BY <1>2 DEF CancelResearch
    <3>2. CASE row' = row /\ row[r].status \notin {"absent", "queued", "researching", "verifying"}
      <4>1. Closed(r)'
        BY <1>1, <3>2 DEF Closed, RunRow, Active
      <4>2. RowMoves
        <5>1. \A s \in Runs : row[s].version \in Nat
          BY Updates
        <5> QED BY <1>2, <3>2, <5>1 DEF CancelResearch, RowMoves, Advances
      <4> QED BY <4>1, <4>2
    <3>3. CASE /\ row' = [row EXCEPT ![r] = CancelingAs(r, "canceling")]
               /\ row[r].status \in {"queued", "researching", "verifying"}
      <4>1. Advances(row[r], CancelingAs(r, "canceling")) /\ CancelingAs(r, "canceling").status = "canceling"
        BY <3>3, Updates DEF Active
      <4>2. RowMoves
        BY <1>1, <1>2, <3>3, <4>1, OneRow DEF CancelResearch
      <4>3. row'[r].status = "canceling"
        BY <1>1, <3>3, <4>1, TypedParts DEF RowType
      <4> QED BY <4>2, <4>3 DEF Closed
    <3>4. CASE /\ row' = [row EXCEPT ![r] = ClosedAs(r, row[r].version, "canceled", "canceled")]
               /\ row[r].status = "queued"
      <4> DEFINE x == ClosedAs(r, row[r].version, "canceled", "canceled")
      <4>1. Advances(row[r], x) /\ x.status = "canceled"
        <5>1. <<row[r].status, "canceled">> \in LegalStep
          BY <3>4 DEF LegalStep
        <5> QED BY <1>1, <5>1, ClosingUpdate
      <4>2. RowMoves
        BY <1>1, <1>2, <3>4, <4>1, OneRow DEF CancelResearch
      <4>3. row'[r].status = "canceled"
        BY <1>1, <3>4, <4>1, TypedParts DEF RowType
      <4> QED BY <4>2, <4>3 DEF Closed, Terminal
    <3> QED BY <3>1, <3>2, <3>3, <3>4
  <2>2. TaskMoves
    BY <1>1, <1>2, <2>1, TypedParts DEF CancelResearch, TaskMoves, TaskType
  <2>3. ReqMoves
    BY <1>1, <1>2, <2>1, TypedParts DEF CancelResearch, ReqMoves, ReqType
  <2> QED BY <1>1, <1>2, <2>1, <2>2, <2>3, Frame DEF CancelResearch
<1>3. CASE DeleteResearch(q, r)
  <2>1. RowMoves /\ Closed(r)'
    <3>1. \/ row' = row /\ row[r].deleted
          \/ /\ row' = [row EXCEPT ![r] = CancelingAs(r, "deleting")]
             /\ row[r].status \in Active
          \/ row' = [row EXCEPT ![r] = DeletedRow(r)] /\ row[r].status \in Terminal
      BY <1>1, <1>3 DEF DeleteResearch, WasActive, RunRow
    <3>2. CASE row' = row /\ row[r].deleted
      <4>1. Closed(r)'
        BY <3>2 DEF IInv, DeletedIsClosed, Closed
      <4>2. \A s \in Runs : row[s].version \in Nat
        BY Updates
      <4> QED BY <1>3, <3>2, <4>1, <4>2 DEF DeleteResearch, RowMoves, Advances
    <3>3. CASE row' = [row EXCEPT ![r] = CancelingAs(r, "deleting")] /\ row[r].status \in Active
      <4>1. Advances(row[r], CancelingAs(r, "deleting")) /\ CancelingAs(r, "deleting").status = "canceling"
        BY <3>3, Updates
      <4>2. RowMoves
        BY <1>1, <1>3, <3>3, <4>1, OneRow DEF DeleteResearch
      <4>3. row'[r].status = "canceling"
        BY <1>1, <3>3, <4>1, TypedParts DEF RowType
      <4> QED BY <4>2, <4>3 DEF Closed
    <3>4. CASE row' = [row EXCEPT ![r] = DeletedRow(r)] /\ row[r].status \in Terminal
      <4>1. Advances(row[r], DeletedRow(r)) /\ DeletedRow(r).status = row[r].status
        BY <3>4, Updates
      <4>2. RowMoves
        BY <1>1, <1>3, <3>4, <4>1, OneRow DEF DeleteResearch
      <4>3. row'[r].status = row[r].status
        BY <1>1, <3>4, <4>1, TypedParts DEF RowType
      <4> QED BY <3>4, <4>2, <4>3 DEF Closed
    <3> QED BY <3>1, <3>2, <3>3, <3>4
  <2>2. ReqMoves
    BY <1>1, <1>3, <2>1, TypedParts DEF DeleteResearch, ReqMoves, ReqType
  <2> QED BY <1>1, <1>3, <2>1, <2>2, Frame DEF DeleteResearch
<1> QED BY <1>2, <1>3

LEMMA ReqNextMoves == ASSUME IInv, NEW q \in Requests, ReqNext(q) PROVE Moves
<1> DEFINE r == req[q].run
<1>1. /\ Typed /\ ReqCloses(q) /\ req \in [Requests -> ReqState] /\ req[q] \in ReqState
      /\ req[q].pc # "idle" => r \in Runs
  BY TypedParts DEF IInv, Closing, ReqType, ReqLocal
<1>2. CASE ReqRevoke(q)
  <2>1. r \in Runs /\ row'[r].status \in Terminal \cup {"canceling"}
    BY <1>1, <1>2 DEF ReqRevoke, ReqCloses, Closed
  <2>2. FinMoves
    BY <1>1, <1>2, <2>1, TypedParts DEF ReqRevoke, StartFinalize, FinMoves, FinMove, FinType, Closed, Procs
  <2>3. ReqMoves
    BY <1>1, <1>2, <2>1 DEF ReqRevoke, ReqMoves, ReqState, Closed
  <2> QED BY <1>1, <1>2, <2>2, <2>3, Frame DEF ReqRevoke
<1>3. ASSUME NEW k \in Roles, ReqCancelTask(q, k) PROVE Moves
  <2>1. ReqMoves
    BY <1>1, <1>3 DEF ReqCancelTask, ReqMoves, ReqState, ReqCloses, Closed, database
  <2>2. ExecMoves
    BY <1>1, <1>3, TypedParts DEF ReqCancelTask, ExecMoves, Stopped, CanceledIn, ExecType
  <2> QED BY <1>1, <1>3, <2>1, <2>2, Frame DEF ReqCancelTask, database
<1>4. CASE ReqReload(q)
  <2>1. ReqMoves
    BY <1>1, <1>4 DEF ReqReload, ReqMoves, ReqState, database
  <2> QED BY <1>1, <1>4, <2>1, Frame DEF ReqReload, database
<1>5. CASE ReqMarkDeleted(q)
  <2>1. RowMoves
    <3>1. r \in Runs /\ row[r].status = "canceled"
      BY <1>1, <1>5 DEF ReqMarkDeleted, ReqCloses
    <3>2. Advances(row[r], [row[r] EXCEPT !.deleted = TRUE]) /\ row[r] \in RunRow
      BY <3>1, Updates DEF Terminal
    <3>3. [row[r] EXCEPT !.deleted = TRUE].status = "canceled"
      BY <3>1, <3>2 DEF RunRow
    <3> QED BY <1>1, <1>5, <3>1, <3>2, <3>3, OneRow DEF ReqMarkDeleted
  <2>2. ReqMoves
    BY <1>1, <1>5 DEF ReqMarkDeleted, ReqMoves, ReqState
  <2> QED BY <1>1, <1>5, <2>1, <2>2, Frame DEF ReqMarkDeleted
<1> QED BY <1>2, <1>3, <1>4, <1>5 DEF ReqNext

LEMMA FinNextMoves == ASSUME IInv, NEW p \in Procs, FinNext(p) PROVE Moves
<1> DEFINE r == fin[p].run
<1>1. /\ Typed /\ FinCloses(p) /\ fin \in [Procs -> FinState] /\ fin[p] \in FinState
      /\ fin[p].pc # "idle" => r \in Runs /\ row[r].status \in Terminal \cup {"canceling"}
  BY TypedParts DEF IInv, Closing, FinCloses, Closed, FinType, FinLocal
<1>2. ASSUME FinMove(p), \A x \in Procs : x # p => fin'[x] = fin[x] PROVE FinMoves
  BY <1>2 DEF FinMoves, FinMove
<1>3. ASSUME NEW k \in Roles, FinCancelTask(p, k) PROVE Moves
  <2>1. ExecMoves
    BY <1>1, <1>3, TypedParts DEF FinCancelTask, ExecMoves, Stopped, CanceledIn, ExecType
  <2>2. FinMove(p)
    <3>1. /\ fin[p].pc = "cancel" /\ fin'[p].pc = "cancel" /\ fin'[p].run = r
          /\ fin'[p].left = fin[p].left \ {k}
      BY <1>1, <1>3 DEF FinCancelTask, FinState
    <3>2. CASE exec' = CanceledIn(r, k)
               /\ fin' = [fin EXCEPT ![p].left = @ \ {k}, ![p].acked = @ /\ Acknowledged(r, k)]
      <4>1. fin'[p].acked => fin[p].acked /\ exec[r][k] # "absent"
        BY <1>1, <3>2 DEF FinState, Acknowledged
      <4>2. exec[r][k] # "absent" => exec'[r][k] \notin {"absent", "active"}
        BY <1>1, <1>3, <3>2, TypedParts DEF FinCancelTask, CanceledIn, ExecType
      <4> QED BY <3>1, <4>1, <4>2 DEF FinMove, Stopped
    <3>3. CASE fin' = [fin EXCEPT ![p].left = @ \ {k}, ![p].acked = FALSE]
      <4>1. ~fin'[p].acked
        BY <1>1, <3>3 DEF FinState
      <4> QED BY <3>1, <4>1 DEF FinMove
    <3> QED BY <1>3, <3>2, <3>3 DEF FinCancelTask
  <2>3. FinMoves
    BY <1>1, <1>2, <1>3, <2>2 DEF FinCancelTask
  <2> QED BY <1>1, <1>3, <2>1, <2>3, Frame DEF FinCancelTask, database
<1>4. CASE FinLoad(p)
  <2>1. FinMove(p)
    <3>1. CASE MayFinalize(p, r)
      <4>1. /\ fin[p].pc = "cancel" /\ fin[p].left = {} /\ fin'[p].pc = "update" /\ fin'[p].run = r
            /\ UNCHANGED <<row, exec>>
        BY <1>1, <1>4, <3>1 DEF FinLoad, FinState
      <4> QED BY <3>1, <4>1 DEF FinMove, MayFinalize
    <3>2. CASE ~MayFinalize(p, r)
      BY <1>1, <1>4, <3>2 DEF FinLoad, FinMove, IdleFin
    <3> QED BY <3>1, <3>2
  <2>2. FinMoves
    BY <1>1, <1>2, <1>4, <2>1 DEF FinLoad
  <2> QED BY <1>1, <1>4, <2>2, Frame DEF FinLoad
<1>5. CASE FinUpdate(p)
  <2>1. CASE row[r].status = "canceling"
    <3> DEFINE x == ClosedAs(r, row[r].version, "canceled", "canceled")
    <3>1. r \in Runs /\ <<row[r].status, "canceled">> \in LegalStep
          /\ "canceled" \in Terminal /\ "canceled" \in Stages
      BY <1>1, <1>5, <2>1 DEF FinUpdate, LegalStep, Terminal, Stages
    <3>2. Advances(row[r], x) /\ x.status = "canceled"
      BY <3>1, ClosingUpdate
    <3>3. RowMoves
      <4>1. Confirmed(r)
        BY <1>5, <2>1 DEF FinUpdate, IInv, Acked, AcksOf, Confirmed
      <4> QED BY <1>1, <1>5, <2>1, <3>1, <3>2, <4>1, OneRow DEF FinUpdate
    <3>4. row'[r].status = "canceled"
      BY <1>5, <2>1, <3>1, <3>2, TypedParts, <1>1 DEF FinUpdate, RowType
    <3>5. FinMove(p)
      BY <1>1, <1>5, <2>1, <3>4 DEF FinUpdate, FinMove, FinState
    <3>6. FinMoves
      BY <1>1, <1>2, <1>5, <2>1, <3>5 DEF FinUpdate
    <3> QED BY <1>1, <1>5, <3>3, <3>6, Frame DEF FinUpdate
  <2>2. CASE row[r].status # "canceling"
    <3>1. FinMove(p)
      BY <1>1, <1>5, <2>2 DEF FinUpdate, FinMove, IdleFin
    <3>2. FinMoves
      BY <1>1, <1>2, <1>5, <2>2, <3>1 DEF FinUpdate
    <3> QED BY <1>1, <1>5, <2>2, <3>2, Frame DEF FinUpdate
  <2> QED BY <2>1, <2>2
<1>6. CASE FinMarkDeleted(p)
  <2>1. r \in Runs /\ row[r].status = "canceled"
    BY <1>1, <1>6 DEF FinMarkDeleted, FinCloses
  <2>2. /\ Advances(row[r], [row[r] EXCEPT !.deleted = TRUE])
        /\ [row[r] EXCEPT !.deleted = TRUE].status = "canceled"
    BY <2>1, Updates DEF Terminal, RunRow
  <2>3. RowMoves
    BY <1>1, <1>6, <2>1, <2>2, OneRow DEF FinMarkDeleted
  <2>4. row'[r].status = "canceled"
    BY <1>1, <1>6, <2>1, <2>2, TypedParts DEF FinMarkDeleted, RowType
  <2>5. FinMove(p)
    BY <1>1, <1>6, <2>4 DEF FinMarkDeleted, FinMove, FinState
  <2>6. FinMoves
    BY <1>1, <1>2, <1>6, <2>5 DEF FinMarkDeleted
  <2> QED BY <1>1, <1>6, <2>3, <2>6, Frame DEF FinMarkDeleted
<1>7. CASE FinTasks(p)
  <2>1. r \in Runs /\ row[r].status = "canceled"
    BY <1>1, <1>7 DEF FinTasks, FinCloses
  <2>2. TaskMoves
    BY <1>1, <1>7, <2>1, TypedParts DEF FinTasks, TaskMoves, TaskType, Closed, Terminal
  <2>3. FinMoves
    BY <1>1, <1>2, <1>7 DEF FinTasks, FinMove, IdleFin
  <2> QED BY <1>1, <1>7, <2>2, <2>3, Frame DEF FinTasks
<1> QED BY <1>3, <1>4, <1>5, <1>6, <1>7 DEF FinNext

LEMMA WorkerNextMoves == ASSUME IInv, WorkerNext PROVE Moves
<1>1. /\ Typed /\ worker \in WorkerState
      /\ \A e \in worker.todo : e[1] \in Runs /\ e[2] \in Nat
      /\ \A r \in Runs : row[r] \in RunRow
  BY TypedParts DEF IInv, WorkerType, WorkerState, RowType
<1>2. ASSUME NEW set \in SUBSET Runs, NEW e \in Stamped(set)
      PROVE  e[1] \in set /\ e[2] = row[e[1]].version
  BY <1>2 DEF Stamped
<1>3. CASE TickStart \/ TickEnd
  <2>1. WorkerMoves
    BY <1>3 DEF TickStart, TickEnd, Phase, IdleWorker, WorkerMoves
  <2> QED BY <1>1, <1>3, <2>1, Frame DEF TickStart, TickEnd, database
<1>4. CASE ReapStart
  <2>1. WorkerMoves
    BY <1>2, <1>4 DEF ReapStart, Phase, Reapable, WorkerMoves, database
  <2> QED BY <1>1, <1>4, <2>1, Frame DEF ReapStart, database
<1>5. CASE ConvergeStart
  <2>1. WorkerMoves
    BY <1>2, <1>5 DEF ConvergeStart, Phase, Closed, WorkerMoves, database
  <2> QED BY <1>1, <1>5, <2>1, Frame DEF ConvergeStart, database
<1>6. CASE WorkerRevoke
  <2>1. WorkerMoves
    BY <1>1, <1>6 DEF WorkerRevoke, WorkerState, WorkerMoves
  <2> QED BY <1>1, <1>6, <2>1, Frame DEF WorkerRevoke
<1>7. CASE ClaimStart
  <2>1. WorkerMoves
    BY <1>7 DEF ClaimStart, Phase, WorkerMoves
  <2>2. RowMoves
    <3> SUFFICES ASSUME NEW r \in Runs
                 PROVE  Advances(row[r], row'[r]) /\ row'[r].status = row[r].status
      BY <1>7 DEF ClaimStart, RowMoves
    <3>1. \/ row'[r] = row[r]
          \/ row[r].status \in Terminal /\ row'[r] = [row[r] EXCEPT !.deleted = TRUE]
      BY <1>7 DEF ClaimStart
    <3>2. row[r].version \in Nat
      BY Updates
    <3>3. CASE row'[r] = row[r]
      BY <3>2, <3>3 DEF Advances
    <3>4. CASE row[r].status \in Terminal /\ row'[r] = [row[r] EXCEPT !.deleted = TRUE]
      <4>1. Advances(row[r], [row[r] EXCEPT !.deleted = TRUE])
        BY <3>4, Updates
      <4>2. [row[r] EXCEPT !.deleted = TRUE].status = row[r].status
        BY <1>1 DEF RunRow
      <4> QED BY <3>4, <4>1, <4>2
    <3> QED BY <3>1, <3>3, <3>4
  <2> QED BY <1>1, <1>7, <2>1, <2>2, Frame DEF ClaimStart
<1>8. ASSUME NEW e \in worker.todo, FailQueueTimeout(e) PROVE Moves
  <2>1. WorkerMoves
    BY <1>8 DEF FailQueueTimeout, WorkerMoves
  <2>2. CASE row[e[1]].status = "queued"
    <3> DEFINE x == ClosedAs(e[1], row[e[1]].version, "failed", "queue_timeout")
    <3>1. <<row[e[1]].status, "failed">> \in LegalStep /\ "failed" \in Terminal
          /\ "queue_timeout" \in Stages
      BY <2>2 DEF LegalStep, Terminal, Stages
    <3>2. Advances(row[e[1]], x) /\ x.status = "failed"
      BY <1>1, <3>1, ClosingUpdate
    <3>3. RowMoves
      BY <1>1, <1>8, <2>2, <3>2, OneRow DEF FailQueueTimeout
    <3> QED BY <1>1, <1>8, <2>1, <3>3, Frame DEF FailQueueTimeout
  <2>3. CASE row[e[1]].status # "queued"
    BY <1>1, <1>8, <2>1, <2>3, Frame DEF FailQueueTimeout
  <2> QED BY <2>2, <2>3
<1>9. ASSUME NEW e \in worker.todo, ReapExpiredLease(e) PROVE Moves
  <2>1. CASE row[e[1]].version = e[2]
    <3> DEFINE x == ClosedAs(e[1], row[e[1]].version, "incomplete", "lease_lost")
    <3>1. <<row[e[1]].status, "incomplete">> \in LegalStep /\ "incomplete" \in Terminal
          /\ "lease_lost" \in Stages
      <4>1. row[e[1]].status \in {"researching", "verifying"}
        BY <1>9, <2>1 DEF ReapExpiredLease, IInv, Fenced, ReapFences
      <4> QED BY <4>1 DEF LegalStep, Terminal, Stages
    <3>2. Advances(row[e[1]], x) /\ x.status = "incomplete"
      BY <1>1, <3>1, ClosingUpdate
    <3>3. row' = [row EXCEPT ![e[1]] = x]
      BY <1>9, <2>1 DEF ReapExpiredLease
    <3>4. RowMoves
      BY <1>1, <1>9, <3>2, <3>3, OneRow DEF ReapExpiredLease
    <3>5. row'[e[1]].status = "incomplete"
      BY <1>1, <3>2, <3>3, TypedParts DEF RowType
    <3>6. WorkerMoves
      BY <1>9, <2>1, <3>5 DEF ReapExpiredLease, WorkerMoves, Closed, Terminal
    <3> QED BY <1>1, <1>9, <3>4, <3>6, Frame DEF ReapExpiredLease
  <2>2. CASE row[e[1]].version # e[2]
    <3>1. WorkerMoves
      BY <1>1, <1>9, <2>2 DEF ReapExpiredLease, WorkerMoves, WorkerState
    <3> QED BY <1>1, <1>9, <2>2, <3>1, Frame DEF ReapExpiredLease
  <2> QED BY <2>1, <2>2
<1>10. ASSUME NEW e \in worker.todo, ConvergeCancel(e) PROVE Moves
  <2>1. WorkerMoves
    BY <1>1, <1>10 DEF ConvergeCancel, WorkerMoves, WorkerState
  <2>2. FinMoves
    <3>1. row'[e[1]].status \in Terminal \cup {"canceling"}
      BY <1>10 DEF ConvergeCancel, IInv, Closing, WorkerCloses, Closed, database
    <3> QED BY <1>1, <1>10, <3>1, TypedParts
            DEF ConvergeCancel, StartFinalize, FinMoves, FinMove, FinType, Closed, Procs
  <2> QED BY <1>1, <1>10, <2>1, <2>2, Frame DEF ConvergeCancel, database
<1>11. ASSUME NEW e \in worker.todo, SkipClaim(e) PROVE Moves
  <2>1. WorkerMoves
    BY <1>1, <1>11 DEF SkipClaim, WorkerMoves, WorkerState
  <2> QED BY <1>1, <1>11, <2>1, Frame DEF SkipClaim, database
<1>12. ASSUME NEW e \in worker.todo, NEW o \in Orchs, Claim(e, o) PROVE Moves
  <2> DEFINE x == [row[e[1]] EXCEPT !.lease = "live"]
  <2>1. WorkerMoves
    BY <1>1, <1>12 DEF Claim, WorkerMoves, WorkerState
  <2>2. RowMoves
    <3>1. /\ x.status = "queued" /\ x.stage = row[e[1]].stage /\ x.version = row[e[1]].version
          /\ x.deleted = row[e[1]].deleted /\ row[e[1]].status = "queued"
      BY <1>1, <1>12 DEF Claim, RunRow
    <3>2. row[e[1]].version \in Nat
      BY <1>1, Updates
    <3>3. Advances(row[e[1]], x)
      BY <3>1, <3>2 DEF Advances
    <3> QED BY <1>1, <1>12, <3>1, <3>3, OneRow DEF Claim
  <2>3. OrchMoves
    BY <1>1, <1>12, TypedParts DEF Claim, OrchMoves, Keeps, OrchType, IdleOrch
  <2> QED BY <1>1, <1>12, <2>1, <2>2, <2>3, Frame DEF Claim
<1> QED
  BY <1>3, <1>4, <1>5, <1>6, <1>7, <1>8, <1>9, <1>10, <1>11, <1>12 DEF WorkerNext

\* A goroutine that renews the lease changes nothing that the invariant looks at.
LEMMA RenewMoves ==
    ASSUME IInv, NEW r \in Runs, CanRenew(r), row' = [row EXCEPT ![r] = RenewedRow(r)],
           UNCHANGED report
    PROVE  RowMoves
<1>1. Advances(row[r], RenewedRow(r)) /\ RenewedRow(r).status = row[r].status
  BY Updates
<1> QED BY <1>1, OneRow DEF IInv

LEMMA RoleMoves ==
    ASSUME IInv, NEW o \in Orchs, NEW k \in Roles,
           RoleRenew(o, k) \/ RoleToken(o, k) \/ RoleSubmit(o, k) \/ RoleWait(o, k) \/ RoleWrite(o, k)
    PROVE  Moves
<1> DEFINE r == orch[o].run
<1>1. Typed /\ (role[o][k] # "off" => r \in Runs)
  BY TypedParts DEF IInv, OrchType, OrchLocal
<1>2. CASE RoleRenew(o, k)
  <2>1. UNCHANGED <<row, report>> \/ RowMoves
    BY <1>1, <1>2, RenewMoves DEF RoleRenew
  <2> QED BY <1>1, <1>2, <2>1, Frame DEF RoleRenew
<1>3. CASE RoleToken(o, k)
  BY <1>1, <1>3, Frame DEF RoleToken
<1>4. CASE RoleSubmit(o, k)
  <2>1. ExecMoves
    BY <1>1, <1>4, TypedParts DEF RoleSubmit, SubmittedIn, ExecMoves, Stopped, ExecType
  <2> QED BY <1>1, <1>4, <2>1, Frame DEF RoleSubmit, database
<1>5. CASE RoleWait(o, k)
  <2>1. UNCHANGED <<row, report>> \/ RowMoves
    BY <1>1, <1>5, RenewMoves DEF RoleWait
  <2> QED BY <1>1, <1>5, <2>1, Frame DEF RoleWait
<1>6. CASE RoleWrite(o, k)
  <2>1. task' = task \/ \E s \in {"ok", "failed"} : task' = [task EXCEPT ![r][k] = s]
    BY <1>6 DEF RoleWrite
  <2>2. TaskMoves
    BY <1>1, <1>6, <2>1, TypedParts DEF RoleWrite, TaskMoves, TaskType
  <2> QED BY <1>1, <1>6, <2>2, Frame DEF RoleWrite
<1> QED BY <1>2, <1>3, <1>4, <1>5, <1>6

LEMMA OrchNextMoves == ASSUME IInv, NEW o \in Orchs, OrchNext(o) \/ Heartbeat(o) PROVE Moves
<1> DEFINE r == orch[o].run
<1>1. /\ Typed /\ orch \in [Orchs -> OrchState] /\ orch[o] \in OrchState /\ FencesOf(o)
      /\ orch[o].pc # "idle" => r \in Runs /\ row[r] \in RunRow
      /\ orch[o].beating => r \in Runs
  BY TypedParts DEF IInv, Fenced, OrchType, OrchLocal, RowType
<1>2. ASSUME Keeps(o), \A x \in Orchs : x # o => orch'[x] = orch[x] PROVE OrchMoves
  BY <1>2 DEF OrchMoves, Keeps
<1>3. ASSUME TakesFence(o), \A x \in Orchs : x # o => orch'[x] = orch[x] PROVE OrchMoves
  BY <1>3 DEF OrchMoves, Keeps
<1>4. ASSUME OrchEnds(o) PROVE OrchMoves
  BY <1>1, <1>2, <1>4 DEF OrchEnds, Keeps, IdleOrch
<1>5. CASE OrchLoad(o)
  <2>1. OrchMoves
    <3>1. CASE IsCanceled(r)
      BY <1>4, <1>5, <3>1 DEF OrchLoad
    <3>2. CASE ~IsCanceled(r)
      BY <1>1, <1>2, <1>5, <3>2 DEF OrchLoad, Keeps, OrchState
    <3> QED BY <3>1, <3>2
  <2> QED BY <1>1, <1>5, <2>1, Frame DEF OrchLoad, database
<1>6. CASE OrchFreeze(o)
  <2>1. CASE CanCAS(r, orch[o].fence, {"queued"})
    <3> DEFINE x == [row[r] EXCEPT !.status = "researching", !.stage = "researching",
                          !.version = orch[o].fence + 1, !.lease = "live", !.overdue = FALSE]
    <3>1. /\ r \in Runs /\ row[r] \in RunRow /\ row[r].version \in Nat
          /\ row[r].status = "queued" /\ row[r].version = orch[o].fence /\ ~row[r].deleted
          /\ row' = [row EXCEPT ![r] = x]
      BY <1>1, <1>6, <2>1, Updates DEF OrchFreeze, CanCAS
    <3>2. /\ x.status = "researching" /\ x.version = row[r].version + 1
          /\ x.deleted = row[r].deleted /\ x.lease = "live"
      BY <3>1 DEF RunRow
    <3>3. Advances(row[r], x)
      BY <3>1, <3>2 DEF Advances, LegalStep
    <3>4. RowMoves
      BY <1>1, <1>6, <3>1, <3>2, <3>3, OneRow DEF OrchFreeze
    <3>5. row'[r].status = "researching" /\ row'[r].version = row[r].version + 1
      BY <1>1, <3>1, <3>2, TypedParts DEF RowType
    <3>6. orch'[o].pc = "research" /\ orch'[o].fence = row[r].version + 1 /\ orch'[o].run = r
          /\ orch[o].pc = "freeze"
      BY <1>1, <1>6, <2>1, <3>1 DEF OrchFreeze, OrchState
    <3>7. TakesFence(o)
      BY <3>1, <3>5, <3>6 DEF TakesFence
    <3>8. OrchMoves
      BY <1>1, <1>3, <1>6, <2>1, <3>7 DEF OrchFreeze
    <3> QED BY <1>1, <1>6, <3>4, <3>8, Frame DEF OrchFreeze
  <2>2. CASE ~CanCAS(r, orch[o].fence, {"queued"})
    BY <1>1, <1>4, <1>6, <2>2, Frame DEF OrchFreeze
  <2> QED BY <2>1, <2>2
<1>7. CASE OrchResearch(o)
  <2>1. OrchMoves
    <3>1. CASE IsCanceled(r)
      BY <1>4, <1>7, <3>1 DEF OrchResearch
    <3>2. CASE ~IsCanceled(r)
      <4>1. /\ orch[o].pc = "research" /\ orch'[o].pc = "roles"
            /\ orch'[o].run = orch[o].run /\ orch'[o].fence = orch[o].fence
        BY <1>1, <1>7, <3>2 DEF OrchResearch, OrchState
      <4> QED BY <1>1, <1>2, <1>7, <3>2, <4>1 DEF OrchResearch, Keeps
    <3> QED BY <3>1, <3>2
  <2> QED BY <1>1, <1>7, <2>1, Frame DEF OrchResearch, database
<1>8. CASE OrchSynthesize(o)
  <2>1. CASE CanCAS(r, orch[o].fence, {"queued", "researching"})
    <3> DEFINE x == [row[r] EXCEPT !.status = "verifying", !.stage = "verifying",
                                   !.version = orch[o].fence + 1]
    <3>1. /\ r \in Runs /\ row[r] \in RunRow /\ row[r].version \in Nat
          /\ row[r].version = orch[o].fence /\ ~row[r].deleted
          /\ row' = [row EXCEPT ![r] = x]
      BY <1>1, <1>8, <2>1, Updates DEF OrchSynthesize, CanCAS
    <3>2. row[r].status = "researching"
      BY <1>1, <1>8, <3>1 DEF OrchSynthesize, FencesOf
    <3>3. /\ x.status = "verifying" /\ x.version = row[r].version + 1
          /\ x.deleted = row[r].deleted /\ x.lease = row[r].lease
      BY <3>1 DEF RunRow
    <3>4. Advances(row[r], x)
      BY <3>1, <3>2, <3>3 DEF Advances, LegalStep
    <3>5. RowMoves
      BY <1>1, <1>8, <3>1, <3>3, <3>4, OneRow DEF OrchSynthesize
    <3>6. row'[r].status = "verifying" /\ row'[r].version = row[r].version + 1
      BY <1>1, <3>1, <3>3, TypedParts DEF RowType
    <3>7. orch'[o].pc = "verify" /\ orch'[o].fence = row[r].version + 1 /\ orch'[o].run = r
          /\ orch[o].pc = "roles"
      <4> DEFINE y == [orch[o] EXCEPT !.pc = "verify", !.beating = FALSE,
                                      !.fence = orch[o].fence + 1]
      <4>1. orch'[o] = y /\ orch[o].pc = "roles"
        BY <1>1, <1>8, <2>1 DEF OrchSynthesize
      <4>2. y.pc = "verify" /\ y.fence = orch[o].fence + 1 /\ y.run = r
        BY <1>1 DEF OrchState
      <4> QED BY <3>1, <4>1, <4>2
    <3>8. TakesFence(o)
      BY <3>1, <3>6, <3>7 DEF TakesFence
    <3>9. OrchMoves
      BY <1>1, <1>3, <1>8, <2>1, <3>8 DEF OrchSynthesize
    <3> QED BY <1>1, <1>8, <3>5, <3>9, Frame DEF OrchSynthesize
  <2>2. CASE ~CanCAS(r, orch[o].fence, {"queued", "researching"})
    BY <1>1, <1>4, <1>8, <2>2, Frame DEF OrchSynthesize
  <2> QED BY <2>1, <2>2
<1>9. CASE OrchFail(o)
  <2>1. CASE CanFail(r, orch[o].fence)
    <3> DEFINE x == ClosedAs(r, orch[o].fence, "failed", "done")
    <3>1. /\ r \in Runs /\ row[r].version = orch[o].fence /\ row' = [row EXCEPT ![r] = x]
          /\ row[r].status = "verifying"
      BY <1>1, <1>9, <2>1 DEF OrchFail, CanFail, FencesOf
    <3>2. <<row[r].status, "failed">> \in LegalStep /\ "failed" \in Terminal /\ "done" \in Stages
      BY <3>1 DEF LegalStep, Terminal, Stages
    <3>3. Advances(row[r], x) /\ x.status = "failed"
      BY <3>1, <3>2, ClosingUpdate
    <3>4. RowMoves
      BY <1>1, <1>9, <3>1, <3>3, OneRow DEF OrchFail
    <3>5. row'[r].status = "failed"
      BY <1>1, <3>1, <3>3, TypedParts DEF RowType
    <3>6. Keeps(o)
      BY <1>1, <1>9, <2>1, <3>5 DEF OrchFail, Keeps, OrchState, Closed, Terminal
    <3>7. OrchMoves
      BY <1>1, <1>2, <1>9, <2>1, <3>6 DEF OrchFail
    <3> QED BY <1>1, <1>9, <3>4, <3>7, Frame DEF OrchFail
  <2>2. CASE ~CanFail(r, orch[o].fence)
    BY <1>1, <1>4, <1>9, <2>2, Frame DEF OrchFail
  <2> QED BY <2>1, <2>2
<1>10. CASE OrchRevoke(o)
  BY <1>1, <1>4, <1>10, Frame DEF OrchRevoke
<1>11. CASE OrchPublish(o)
  <2> DEFINE x == ClosedAs(r, row[r].version, Quality(o), "done")
  <2>1. r \in Runs /\ row[r].status = "verifying" /\ row' = [row EXCEPT ![r] = x]
        /\ report' = [report EXCEPT ![r] = Quality(o)]
    BY <1>1, <1>11 DEF OrchPublish, CanPublish
  <2>2. Quality(o) \in {"completed", "incomplete"}
    BY DEF Quality
  <2>3. <<row[r].status, Quality(o)>> \in LegalStep /\ Quality(o) \in Terminal /\ "done" \in Stages
    BY <2>1, <2>2 DEF LegalStep, Terminal, Stages
  <2>4. Advances(row[r], x) /\ x.status = Quality(o)
    BY <2>1, <2>3, ClosingUpdate
  <2>5. x.stage = "done"
    BY <1>1, <1>11 DEF OrchPublish, ClosedAs, RunRow
  <2>6. row'[r] = x /\ report'[r] = Quality(o)
    BY <1>1, <2>1, TypedParts DEF RowType, ReportType
  <2>7. ASSUME NEW y \in Runs, y # r
        PROVE  row'[y] = row[y] /\ report'[y] = report[y] /\ Advances(row[y], row'[y])
    <3>1. row'[y] = row[y] /\ report'[y] = report[y] /\ row[y].version \in Nat
      BY <1>1, <2>1, <2>7, TypedParts, Updates DEF RowType, ReportType
    <3> QED BY <3>1 DEF Advances
  <2>8. RowMoves
    BY <2>1, <2>4, <2>5, <2>6, <2>7 DEF RowMoves
  <2> QED BY <1>1, <1>4, <1>11, <2>8, Frame DEF OrchPublish
<1>12. CASE OrchPublishRefused(o)
  BY <1>1, <1>4, <1>12, Frame DEF OrchPublishRefused, database
<1>13. CASE Heartbeat(o)
  <2>1. CASE CanRenew(r)
    BY <1>1, <1>13, <2>1, RenewMoves, Frame DEF Heartbeat
  <2>2. CASE ~CanRenew(r)
    <3>1. Keeps(o)
      BY <1>1, <1>13, <2>2 DEF Heartbeat, Keeps, OrchState
    <3>2. OrchMoves
      BY <1>1, <1>2, <1>13, <2>2, <3>1 DEF Heartbeat
    <3> QED BY <1>1, <1>13, <2>2, <3>2, Frame DEF Heartbeat
  <2> QED BY <2>1, <2>2
<1> QED
  BY <1>5, <1>6, <1>7, <1>8, <1>9, <1>10, <1>11, <1>12, <1>13, RoleMoves DEF OrchNext

LEMMA NextMoves == ASSUME IInv, [Next]_vars PROVE Moves
<1>1. CASE Next
  BY <1>1, CreateMoves, TimeMoves, FinishMoves, RequestMoves, ReqNextMoves, FinNextMoves,
     WorkerNextMoves, OrchNextMoves, CrashMoves DEF Next
<1>2. CASE UNCHANGED vars
  BY <1>2, Frame DEF IInv, vars, database
<1> QED BY <1>1, <1>2

LEMMA IInvStep == IInv /\ [Next]_vars => IInv'
BY NextMoves, TypedStep, MovesPreserve DEF IInv

LEMMA Invariant == Spec => []IInv
BY InitIInv, IInvStep, PTL DEF Spec

----------------------------------------------------------------------------
(* Theorems *)

\* No report is published for a run that another writer closed or closes later.
THEOREM ReportsMatch == Spec => []ReportMatchesRun
<1>1. IInv => ReportMatchesRun
  BY DEF IInv
<1> QED BY <1>1, Invariant, PTL

\* Only a closed run is ever deleted.
THEOREM DeletedClosed == Spec => []DeletedIsClosed
<1>1. IInv => DeletedIsClosed
  BY DEF IInv
<1> QED BY <1>1, Invariant, PTL

\* A run that was claimed twice has one writer.
THEOREM OneWriter == Spec => []FenceExclusive
<1>1. IInv => FenceExclusive
  BY DEF IInv
<1> QED BY <1>1, Invariant, PTL

\* A run moves only along the documented graph, one version per change of status.
THEOREM Advance == Spec => StatusOnlyAdvances
<1>1. IInv /\ [Next]_vars => [\A r \in Runs : row'[r].status # row[r].status =>
            /\ <<row[r].status, row'[r].status>> \in LegalStep
            /\ row'[r].version = row[r].version + 1]_vars
  BY NextMoves DEF Moves, RowMoves, Advances
<1> QED BY <1>1, Invariant, PTL DEF Spec, StatusOnlyAdvances

\* The actions that write tasks and tokens.
LEMMA TaskWriters ==
    ASSUME Next
    PROVE  \/ UNCHANGED task
           \/ \E r \in Runs : CreateResearch(r)
           \/ \E q \in Requests, r \in Runs : CancelResearch(q, r)
           \/ \E p \in Procs : FinTasks(p)
           \/ \E o \in Orchs, k \in Roles : RoleWrite(o, k)
<1>1. ASSUME NEW r \in Runs, QueueTimeoutPasses(r) \/ DeadlinePasses(r) \/ LeaseExpires(r)
      PROVE  UNCHANGED task
  BY <1>1 DEF QueueTimeoutPasses, DeadlinePasses, LeaseExpires
<1>2. ASSUME NEW r \in Runs, NEW k \in Roles, ExecFinish(r, k) PROVE UNCHANGED task
  BY <1>2 DEF ExecFinish, database
<1>3. ASSUME NEW q \in Requests, NEW r \in Runs, DeleteResearch(q, r) PROVE UNCHANGED task
  BY <1>3 DEF DeleteResearch
<1>4. ASSUME NEW q \in Requests, ReqNext(q) PROVE UNCHANGED task
  BY <1>4 DEF ReqNext, ReqRevoke, ReqCancelTask, ReqReload, ReqMarkDeleted, database
<1>5. ASSUME NEW p \in Procs, FinNext(p) PROVE UNCHANGED task \/ FinTasks(p)
  BY <1>5 DEF FinNext, FinCancelTask, FinLoad, FinUpdate, FinMarkDeleted, database
<1>6. ASSUME WorkerNext PROVE UNCHANGED task
  BY <1>6 DEF WorkerNext, TickStart, WorkerRevoke, ReapStart, ConvergeStart, ClaimStart, TickEnd,
              FailQueueTimeout, ReapExpiredLease, ConvergeCancel, SkipClaim, Claim, database
<1>7. ASSUME NEW o \in Orchs, OrchNext(o) \/ Heartbeat(o)
      PROVE  UNCHANGED task \/ \E k \in Roles : RoleWrite(o, k)
  BY <1>7 DEF OrchNext, OrchLoad, OrchFreeze, OrchResearch, OrchSynthesize, OrchFail, OrchRevoke,
              OrchPublish, OrchPublishRefused, Heartbeat, RoleRenew, RoleToken, RoleSubmit,
              RoleWait, database
<1>8. ASSUME Crash PROVE UNCHANGED task
  BY <1>8 DEF Crash, database
<1> QED BY <1>1, <1>2, <1>3, <1>4, <1>5, <1>6, <1>7, <1>8 DEF Next

\* The late answer of a role never revives a task that a cancellation closed.
THEOREM CanceledTasks == Spec => CanceledTaskStays
<1> DEFINE A == \A r \in Runs, k \in Roles : task[r][k] = "canceled" => task'[r][k] = "canceled"
<1>1. ASSUME IInv, [Next]_vars PROVE A
  <2> SUFFICES ASSUME NEW r \in Runs, NEW k \in Roles, task[r][k] = "canceled"
               PROVE  task'[r][k] = "canceled"
    OBVIOUS
  <2>1. Closed(r) /\ TaskType
    BY <1>1, TypedParts DEF IInv, Closing, TasksClosed
  <2>2. CASE UNCHANGED task
    BY <2>2
  <2>3. ASSUME NEW s \in Runs, CreateResearch(s) PROVE task'[r][k] = "canceled"
    <3>1. s # r
      BY <2>1, <2>3 DEF CreateResearch, Closed, Terminal
    <3> QED BY <2>1, <2>3, <3>1 DEF CreateResearch, TaskType
  <2>4. ASSUME NEW q \in Requests, NEW s \in Runs, CancelResearch(q, s)
        PROVE  task'[r][k] = "canceled"
    BY <2>1, <2>4 DEF CancelResearch, TaskType
  <2>5. ASSUME NEW p \in Procs, FinTasks(p) PROVE task'[r][k] = "canceled"
    BY <2>1, <2>5 DEF FinTasks, TaskType
  <2>6. ASSUME NEW o \in Orchs, NEW j \in Roles, RoleWrite(o, j) PROVE task'[r][k] = "canceled"
    <3>1. CASE AcceptsResult(orch[o].run)
      <4>1. orch[o].run # r
        BY <2>1, <3>1 DEF AcceptsResult, Closed
      <4> QED BY <2>1, <2>6, <3>1, <4>1 DEF RoleWrite, TaskType
    <3>2. CASE ~AcceptsResult(orch[o].run)
      BY <2>6, <3>2 DEF RoleWrite
    <3> QED BY <3>1, <3>2
  <2>7. CASE UNCHANGED vars
    BY <2>7 DEF vars
  <2> QED
    BY <1>1, <2>2, <2>3, <2>4, <2>5, <2>6, <2>7, TaskWriters
<1>2. IInv /\ [Next]_vars => [A]_vars
  BY <1>1
<1> QED BY <1>2, Invariant, PTL DEF Spec, CanceledTaskStays

\* A run is canceled only when its workers have stopped or its lease is over.
THEOREM CancelIsConfirmed == Spec => ConfirmedCancel
<1>1. IInv /\ [Next]_vars =>
        [\A r \in Runs : row[r].status = "canceling" /\ row'[r].status = "canceled" =>
            \/ row[r].lease # "live"
            \/ \A k \in Roles : exec[r][k] \notin {"absent", "active"}]_vars
  BY NextMoves DEF Moves, RowMoves, Confirmed, Stopped
<1> QED BY <1>1, Invariant, PTL DEF Spec, ConfirmedCancel

LEMMA TokenWriters ==
    ASSUME Next
    PROVE  \/ UNCHANGED token
           \/ \E q \in Requests : ReqRevoke(q)
           \/ \E p \in Procs : FinLoad(p)
           \/ WorkerRevoke
           \/ \E o \in Orchs : OrchRevoke(o)
           \/ \E o \in Orchs, k \in Roles : RoleToken(o, k)
<1>1. ASSUME NEW r \in Runs,
             CreateResearch(r) \/ QueueTimeoutPasses(r) \/ DeadlinePasses(r) \/ LeaseExpires(r)
      PROVE  UNCHANGED token
  BY <1>1 DEF CreateResearch, QueueTimeoutPasses, DeadlinePasses, LeaseExpires
<1>2. ASSUME NEW r \in Runs, NEW k \in Roles, ExecFinish(r, k) PROVE UNCHANGED token
  BY <1>2 DEF ExecFinish, database
<1>3. ASSUME NEW q \in Requests, NEW r \in Runs, CancelResearch(q, r) \/ DeleteResearch(q, r)
      PROVE  UNCHANGED token
  BY <1>3 DEF CancelResearch, DeleteResearch
<1>4. ASSUME NEW q \in Requests, ReqNext(q) PROVE UNCHANGED token \/ ReqRevoke(q)
  BY <1>4 DEF ReqNext, ReqCancelTask, ReqReload, ReqMarkDeleted, database
<1>5. ASSUME NEW p \in Procs, FinNext(p) PROVE UNCHANGED token \/ FinLoad(p)
  BY <1>5 DEF FinNext, FinCancelTask, FinUpdate, FinMarkDeleted, FinTasks, database
<1>6. ASSUME WorkerNext PROVE UNCHANGED token \/ WorkerRevoke
  BY <1>6 DEF WorkerNext, TickStart, ReapStart, ConvergeStart, ClaimStart, TickEnd,
              FailQueueTimeout, ReapExpiredLease, ConvergeCancel, SkipClaim, Claim, database
<1>7. ASSUME NEW o \in Orchs, OrchNext(o) \/ Heartbeat(o)
      PROVE  UNCHANGED token \/ OrchRevoke(o) \/ \E k \in Roles : RoleToken(o, k)
  BY <1>7 DEF OrchNext, OrchLoad, OrchFreeze, OrchResearch, OrchSynthesize, OrchFail,
              OrchPublish, OrchPublishRefused, Heartbeat, RoleRenew, RoleSubmit, RoleWait,
              RoleWrite, database
<1>8. ASSUME Crash PROVE UNCHANGED token
  BY <1>8 DEF Crash, database
<1> QED BY <1>1, <1>2, <1>3, <1>4, <1>5, <1>6, <1>7, <1>8 DEF Next

\* Nobody but failQueueTimeouts takes the tokens of an open run.
THEOREM TokensOfClosedRuns == Spec => RevokesClosedRuns
<1> DEFINE A == \A r \in Runs : token[r] = "live" /\ token'[r] = "revoked" =>
                    \/ row[r].status \in Terminal \cup {"canceling"}
                    \/ worker.pc = "timeoutRevoke" /\ worker.cur = r
<1>1. ASSUME IInv, [Next]_vars PROVE A
  <2> SUFFICES ASSUME NEW r \in Runs, token[r] = "live", token'[r] = "revoked"
               PROVE  Closed(r) \/ (worker.pc = "timeoutRevoke" /\ worker.cur = r)
    BY DEF Closed
  <2>1. TokenType /\ Closing
    BY <1>1, TypedParts DEF IInv
  <2>2. ~UNCHANGED token
    OBVIOUS
  <2>3. ASSUME NEW x, RevokeTokens(x) PROVE x = r
    BY <2>1, <2>3 DEF RevokeTokens, TokenType
  <2>4. ASSUME NEW q \in Requests, ReqRevoke(q) PROVE Closed(r)
    BY <2>1, <2>3, <2>4 DEF ReqRevoke, Closing, ReqCloses
  <2>5. ASSUME NEW p \in Procs, FinLoad(p) PROVE Closed(r)
    BY <2>1, <2>3, <2>5 DEF FinLoad, Closing, FinCloses
  <2>6. ASSUME WorkerRevoke PROVE Closed(r) \/ (worker.pc = "timeoutRevoke" /\ worker.cur = r)
    BY <2>1, <2>3, <2>6 DEF WorkerRevoke, Closing, WorkerCloses
  <2>7. ASSUME NEW o \in Orchs, OrchRevoke(o) PROVE Closed(r)
    BY <2>1, <2>3, <2>7 DEF OrchRevoke, Closing, OrchCloses
  <2>8. ASSUME NEW o \in Orchs, NEW k \in Roles, RoleToken(o, k) PROVE FALSE
    BY <2>1, <2>8 DEF RoleToken, TokenType
  <2>9. Next
    BY <1>1, <2>2 DEF vars
  <2> QED BY <2>2, <2>4, <2>5, <2>6, <2>7, <2>8, <2>9, TokenWriters
<1>2. IInv /\ [Next]_vars => [A]_vars
  BY <1>1
<1> QED BY <1>2, Invariant, PTL DEF Spec, RevokesClosedRuns

----------------------------------------------------------------------------
\* The actions that change what the executor holds: a cancellation sent by finalizeCancel
\* or by a handler, a submission of a role, and the executor itself.
LEMMA ExecWriters ==
    ASSUME Next
    PROVE  \/ UNCHANGED exec
           \/ \E p \in Procs, k \in Roles : FinCancelTask(p, k)
           \/ \E q \in Requests, k \in Roles : ReqCancelTask(q, k)
           \/ \E o \in Orchs, k \in Roles : RoleSubmit(o, k)
           \/ \E r \in Runs, k \in Roles : ExecFinish(r, k)
<1>1. ASSUME NEW r \in Runs,
             CreateResearch(r) \/ QueueTimeoutPasses(r) \/ DeadlinePasses(r) \/ LeaseExpires(r)
      PROVE  UNCHANGED exec
  BY <1>1 DEF CreateResearch, QueueTimeoutPasses, DeadlinePasses, LeaseExpires
<1>2. ASSUME NEW q \in Requests, NEW r \in Runs, CancelResearch(q, r) \/ DeleteResearch(q, r)
      PROVE  UNCHANGED exec
  BY <1>2 DEF CancelResearch, DeleteResearch
<1>3. ASSUME NEW q \in Requests, ReqNext(q)
      PROVE  UNCHANGED exec \/ \E k \in Roles : ReqCancelTask(q, k)
  BY <1>3 DEF ReqNext, ReqRevoke, ReqReload, ReqMarkDeleted
<1>4. ASSUME NEW p \in Procs, FinNext(p)
      PROVE  UNCHANGED exec \/ \E k \in Roles : FinCancelTask(p, k)
  BY <1>4 DEF FinNext, FinLoad, FinUpdate, FinMarkDeleted, FinTasks
<1>5. ASSUME WorkerNext PROVE UNCHANGED exec
  BY <1>5 DEF WorkerNext, TickStart, WorkerRevoke, ReapStart, ConvergeStart, ClaimStart, TickEnd,
              FailQueueTimeout, ReapExpiredLease, ConvergeCancel, SkipClaim, Claim
<1>6. ASSUME NEW o \in Orchs, OrchNext(o) \/ Heartbeat(o)
      PROVE  UNCHANGED exec \/ \E k \in Roles : RoleSubmit(o, k)
  BY <1>6 DEF OrchNext, OrchLoad, OrchFreeze, OrchResearch, OrchSynthesize, OrchFail, OrchRevoke,
              OrchPublish, OrchPublishRefused, Heartbeat, RoleRenew, RoleToken, RoleWait, RoleWrite
<1>7. ASSUME Crash PROVE UNCHANGED exec
  BY <1>7 DEF Crash
<1> QED BY <1>1, <1>2, <1>3, <1>4, <1>5, <1>6, <1>7 DEF Next

\* However often a task is submitted or canceled, it moves as the board allows.
LEMMA TaskAdvances ==
    ASSUME ExecType, NEW r, NEW k, NEW x \in Runs, NEW j \in Roles
    PROVE  /\ Board!Advances(exec[x][j], CanceledIn(r, k)[x][j])
           /\ Board!Advances(exec[x][j], SubmittedIn(r, k)[x][j])
           /\ \A s \in {"ok", "failed"} : exec[r][k] = "active" =>
                 Board!Advances(exec[x][j], [exec EXCEPT ![r][k] = s][x][j])
  BY DEF ExecType, CanceledIn, SubmittedIn, Board!Advances, Board!Ended

LEMMA ExecAdvances ==
    ASSUME IInv, [Next]_vars, NEW x \in Runs, NEW j \in Roles
    PROVE  Board!Advances(exec[x][j], exec'[x][j])
<1>1. ExecType
  BY TypedParts DEF IInv
<1>2. CASE UNCHANGED exec
  BY <1>2 DEF Board!Advances
<1>3. ASSUME NEW r, NEW k, exec' \in {exec, CanceledIn(r, k), SubmittedIn(r, k)}
      PROVE  Board!Advances(exec[x][j], exec'[x][j])
  BY <1>1, <1>2, <1>3, TaskAdvances
<1>4. ASSUME NEW p \in Procs, NEW k \in Roles, FinCancelTask(p, k)
      PROVE  Board!Advances(exec[x][j], exec'[x][j])
  BY <1>3, <1>4 DEF FinCancelTask
<1>5. ASSUME NEW q \in Requests, NEW k \in Roles, ReqCancelTask(q, k)
      PROVE  Board!Advances(exec[x][j], exec'[x][j])
  BY <1>3, <1>5 DEF ReqCancelTask
<1>6. ASSUME NEW o \in Orchs, NEW k \in Roles, RoleSubmit(o, k)
      PROVE  Board!Advances(exec[x][j], exec'[x][j])
  BY <1>3, <1>6 DEF RoleSubmit
<1>7. ASSUME NEW r \in Runs, NEW k \in Roles, ExecFinish(r, k)
      PROVE  Board!Advances(exec[x][j], exec'[x][j])
  BY <1>1, <1>7, TaskAdvances DEF ExecFinish
<1>8. CASE UNCHANGED vars
  BY <1>2, <1>8 DEF vars
<1> QED BY <1>2, <1>4, <1>5, <1>6, <1>7, <1>8, ExecWriters

\* What the server sees of its tasks is a board: a task that is submitted twice, canceled
\* late or answered late is accepted once and ends once (research_client.go, jobs.py).
THEOREM ServerSeesABoard == Spec => ExecutorContract
<1> DEFINE board == [t \in Runs \X Roles |-> exec[t[1]][t[2]]]
<1>1. Init => Board!Init
  BY DEF Init, Board!Init
<1>2. ASSUME IInv, IInv', [Next]_vars PROVE Board!Next
  <2>1. \A t \in Runs \X Roles : Board!Advances(board[t], board'[t])
    BY <1>2, ExecAdvances
  <2>2. ExecType'
    BY <1>2, TypedParts DEF IInv, Typed, TypeOK, ExecType
  <2>3. \A t \in Runs \X Roles : board'[t] \in Board!Status
    BY <2>2 DEF ExecType, ExecStatus, Board!Status, Board!Ended
  <2> QED
    BY <2>1, <2>3 DEF Board!Next
<1> QED
  BY <1>1, <1>2, Invariant, PTL DEF Spec, ExecutorContract, Board!Spec

=============================================================================
