-------------------------- MODULE PlatformProofs ---------------------------
(***************************************************************************)
(* The executor, the write barrier, the sessions, the start-up and the     *)
(* execution of futures runs, proved for all values of the constants.      *)
(***************************************************************************)
EXTENDS Executor, WriteBarrier, Sessions, Migrations, FuturesRuns, TLAPS,
        FiniteSetTheorems, WellFoundedInduction

----------------------------------------------------------------------------
(***************************************************************************)
(* Executor keeps the promise of TaskBoard, for any number of tasks, permits, *)
(* epochs and restarts.  A thread saves its result over whatever is in its row, *)
(* unless the row is canceled: what makes this harmless is that a thread at *)
(* work can only find "running" there.                                     *)
(***************************************************************************)

ExecutorInv == TypeOK /\ ThreadsMatchRows

LEMMA ExecutorInitInv == ExecutorInit => ExecutorInv
  BY EpochsAssumption DEF ExecutorInit, ExecutorInv, TypeOK, ThreadsMatchRows, TaskRow, AbsentRow, Running, TERMINAL

\* Every step keeps the types and what threads find in their rows.
LEMMA ExecutorStepInv == ExecutorInv /\ [ExecutorNext]_vars => ExecutorInv'
<1> SUFFICES ASSUME ExecutorInv, [ExecutorNext]_vars PROVE ExecutorInv'
  OBVIOUS
<1> USE DEF ExecutorInv, TypeOK, ThreadsMatchRows, TaskRow, Running, TERMINAL
<1>1. ASSUME NEW t \in Tasks, SubmitCheck(t) PROVE ExecutorInv'
  BY <1>1 DEF SubmitCheck
<1>2. ASSUME NEW t \in Tasks, SubmitInsert(t) PROVE ExecutorInv'
  <2>1. CASE Known(t)
    BY <1>2, <2>1 DEF SubmitInsert
  <2>2. CASE ~Known(t)
    <3>1. [status |-> "queued", private |-> TRUE, acked |-> FALSE] \in TaskRow
      OBVIOUS
    <3>2. /\ row' = [row EXCEPT ![t] = [status |-> "queued", private |-> TRUE, acked |-> FALSE]]
          /\ thread' = [thread EXCEPT ![t] = "waiting"]
      BY <1>2, <2>2 DEF SubmitInsert
    <3>3. /\ row' \in [Tasks -> TaskRow]
          /\ thread' \in [Tasks -> {"none", "waiting", "working"}]
      BY <3>1, <3>2
    <3>4. ThreadsMatchRows'
      <4>1. row'[t].status = "queued" /\ thread'[t] = "waiting"
        BY <3>2
      <4>2. ASSUME NEW u \in Tasks, u # t PROVE row'[u] = row[u] /\ thread'[u] = thread[u]
        BY <3>2, <4>2
      <4>3. QED
        BY <4>1, <4>2
    <3>5. QED
      BY <1>2, <3>3, <3>4 DEF SubmitInsert
  <2>3. QED
    BY <2>1, <2>2
<1>3. ASSUME NEW t \in Tasks, Cancel(t) PROVE ExecutorInv'
  BY <1>3 DEF Cancel, Active
<1>4. ASSUME NEW t \in Tasks, Ack(t) PROVE ExecutorInv'
  BY <1>4 DEF Ack
<1>5. ASSUME NEW t \in Tasks, Expire(t) PROVE ExecutorInv'
  BY <1>5 DEF Expire
<1>6. ASSUME NEW t \in Tasks, Purge(t) PROVE ExecutorInv'
  BY <1>6 DEF Purge, Known
<1>7. ASSUME NEW t \in Tasks, Start(t) PROVE ExecutorInv'
  BY <1>7 DEF Start
<1>8. ASSUME NEW t \in Tasks, Finish(t) PROVE ExecutorInv'
  <2>1. PICK status \in {"succeeded", "failed"} : row' = Saved(t, status)
    BY <1>8 DEF Finish
  <2>2. thread' = [thread EXCEPT ![t] = "none"]
    BY <1>8 DEF Finish
  <2>3. row' \in [Tasks -> TaskRow]
    BY <2>1 DEF Saved
  <2>4. ASSUME NEW u \in Tasks, u # t PROVE row'[u] = row[u] /\ thread'[u] = thread[u]
    BY <2>1, <2>2, <2>4 DEF Saved
  <2>5. thread' \in [Tasks -> {"none", "waiting", "working"}] /\ thread'[t] = "none"
    BY <2>2
  <2>6. ThreadsMatchRows'
    BY <2>4, <2>5
  <2>7. QED
    BY <1>8, <2>3, <2>5, <2>6 DEF Finish
<1>9. ASSUME NEW t \in Tasks, Raise(t) PROVE ExecutorInv'
  BY <1>9 DEF Raise
<1>10. ASSUME NEW e \in Epochs, QuiesceBegin(e) \/ QuiesceEnd(e) PROVE ExecutorInv'
  BY <1>10 DEF QuiesceBegin, QuiesceEnd
<1>11. CASE QuiesceStatus
  BY <1>11 DEF QuiesceStatus
<1>12. CASE Restart
  <2>1. /\ restarts' \in Nat /\ epoch' \in Epochs \cup {NoEpoch}
        /\ granted' \in Epochs \cup {NoEpoch} /\ expired' \subseteq Tasks
        /\ thread' = [t \in Tasks |-> "none"] /\ submit' = [t \in Tasks |-> "none"]
    BY <1>12, SlotsAssumption DEF Restart
  <2>2. \A t \in Tasks : Recovered(t) \in TaskRow
    BY DEF Recovered, Active
  <2>3. row' \in [Tasks -> TaskRow]
    BY <1>12, <2>2 DEF Restart
  <2>4. QED
    BY <2>1, <2>3
<1>13. CASE UNCHANGED vars
  BY <1>13 DEF vars
<1>14. QED
  BY <1>1, <1>2, <1>3, <1>4, <1>5, <1>6, <1>7, <1>8, <1>9, <1>10, <1>11, <1>12, <1>13
  DEF ExecutorNext, Work

\* Every reachable table is well typed and every thread finds in its row what it expects.
THEOREM ExecutorInvariant == ExecutorSpec => []ExecutorInv
  BY ExecutorInitInv, ExecutorStepInv, PTL DEF ExecutorSpec

\* The rows of the executor are well typed in every reachable state.
THEOREM TypeCorrect == ExecutorSpec => []TypeOK
  BY ExecutorInvariant, PTL DEF ExecutorInv

\* A waiting thread has a queued or canceled row, a working one a running or canceled one.
THEOREM ThreadsAndRows == ExecutorSpec => []ThreadsMatchRows
  BY ExecutorInvariant, PTL DEF ExecutorInv

----------------------------------------------------------------------------

\* What a step may make of the status of one row, in terms of the board.
Keeps(t) == Board!Advances(Seen(t), Seen(t)')

LEMMA SeenIsStatus == ASSUME TypeOK, NEW t \in Tasks PROVE Seen(t) \in Board!Status
  BY DEF TypeOK, TaskRow, Seen, Running, TERMINAL, Board!Status, Board!Ended

\* Every step of the executor moves each task as the board allows.
LEMMA StepKeeps == ASSUME ExecutorInv, [ExecutorNext]_vars, NEW u \in Tasks PROVE Keeps(u)
<1> USE DEF ExecutorInv, TypeOK, TaskRow, Running, TERMINAL, Keeps, Seen, Board!Advances, Board!Ended
<1>1. ASSUME row'[u].status = row[u].status PROVE Keeps(u)
  BY <1>1
<1>2. ASSUME NEW t \in Tasks, SubmitInsert(t) PROVE Keeps(u)
  <2>1. CASE Known(t)
    BY <1>1, <1>2, <2>1 DEF SubmitInsert
  <2>2. CASE ~Known(t)
    <3>1. row' = [row EXCEPT ![t] = [status |-> "queued", private |-> TRUE, acked |-> FALSE]]
      BY <1>2, <2>2 DEF SubmitInsert
    <3>2. CASE u = t
      <4>1. Seen(u) = "absent" /\ row'[u].status = "queued"
        BY <2>2, <3>1, <3>2 DEF Known
      <4>2. QED
        BY <4>1
    <3>3. CASE u # t
      BY <1>1, <3>1, <3>3
    <3>4. QED
      BY <3>2, <3>3
  <2>3. QED
    BY <2>1, <2>2
<1>3. ASSUME NEW t \in Tasks, Cancel(t) PROVE Keeps(u)
  BY <1>3 DEF Cancel, Active
<1>4. ASSUME NEW t \in Tasks, Ack(t) \/ Purge(t) PROVE Keeps(u)
  BY <1>4, <1>1 DEF Ack, Purge
<1>5. ASSUME NEW t \in Tasks, Start(t) PROVE Keeps(u)
  BY <1>5 DEF Start
<1>6. ASSUME NEW t \in Tasks, Finish(t) PROVE Keeps(u)
  BY <1>6 DEF Finish, Saved, ThreadsMatchRows
<1>7. CASE Restart
  <2>1. row'[u] = Recovered(u)
    BY <1>7 DEF Restart
  <2>2. QED
    BY <2>1 DEF Recovered, Active
<1>8. ASSUME UNCHANGED row PROVE Keeps(u)
  BY <1>8, <1>1
<1>9. QED
  BY <1>2, <1>3, <1>4, <1>5, <1>6, <1>7, <1>8
  DEF ExecutorNext, Work, vars, SubmitCheck, Expire, Raise, QuiesceBegin, QuiesceEnd, QuiesceStatus

\* The executor implements the board: whatever the order of submissions, cancellations,
\* late results and restarts, each task is accepted once and ends once.
THEOREM ExecutorIsBoard == ExecutorSpec => ImplementsBoard
<1>1. ExecutorInit => Board!Init
  <2>1. ASSUME ExecutorInit, NEW t \in Tasks PROVE Seen(t) = "absent"
    <3>1. row[t].status = "absent"
      BY <2>1 DEF ExecutorInit, AbsentRow
    <3>2. QED
      BY <3>1 DEF Seen, Running
  <2>2. QED
    BY <2>1 DEF Board!Init
<1>2. ASSUME ExecutorInv, ExecutorInv', [ExecutorNext]_vars
      PROVE  Board!Next
  <2>1. \A t \in Tasks : Keeps(t)
    BY <1>2, StepKeeps
  <2>2. \A t \in Tasks : Seen(t)' \in Board!Status
    BY <1>2 DEF ExecutorInv, TypeOK, TaskRow, Seen, Running, TERMINAL, Board!Status, Board!Ended
  <2>3. QED
    BY <2>1, <2>2 DEF Board!Next, Keeps
<1>3. QED
  BY <1>1, <1>2, ExecutorInvariant, PTL DEF ExecutorSpec, ImplementsBoard, Board!Spec

----------------------------------------------------------------------------
(***************************************************************************)
(* WriteBarrier: no writer runs inside a backup.  The lock, the two variables *)
(* beside it and the row in the database are three records of one fact; the *)
(* invariant says how far they agree, and that an acknowledged backup is the *)
(* row that started last, which is the one a restart looks for.            *)
(***************************************************************************)

Typed ==
    /\ epochRow \in [Backups -> {"none", "active", "succeeded", "failed"}]
    /\ started \in Seq(Backups)
    /\ active \in BOOLEAN /\ held \in BOOLEAN
    /\ begin \in [Backups -> {"idle", "locking", "inserting", "acknowledged", "refused"}]
    /\ write \in [Writers -> {"idle", "waiting", "running", "refusing", "done", "refused", "lost"}]
    /\ acked \subseteq Backups

\* The lock is held by the one backup that inserts its row, or by the barrier.
Locked ==
    /\ held => Readers = {}
    /\ active => held
    /\ \A e \in Backups : begin[e] = "inserting" => held /\ ~active
    /\ \A d, e \in Backups : begin[d] = "inserting" /\ begin[e] = "inserting" => d = e

Acknowledged == acked # {} =>
    /\ active /\ acked = {current} /\ epochRow[current] = "active"
    /\ started # <<>> /\ started[Len(started)] = current

BarrierInv == Typed /\ Locked /\ Acknowledged

LEMMA BarrierInitInv == BarrierInit => BarrierInv
<1> SUFFICES ASSUME BarrierInit PROVE BarrierInv
  OBVIOUS
<1>s. started \in Seq(Backups)
  BY DEF BarrierInit
<1>1. Typed
  BY <1>s DEF BarrierInit, Typed
<1>2. Readers = {} /\ Locked
  BY DEF BarrierInit, Locked, Readers
<1>3. Acknowledged
  BY DEF BarrierInit, Acknowledged
<1>. QED
  BY <1>1, <1>2, <1>3 DEF BarrierInv

LEMMA BeginInsertStep == ASSUME BarrierInv, NEW e \in Backups, BeginInsert(e) PROVE BarrierInv'
<1>1. begin[e] = "inserting" /\ held /\ ~active /\ acked = {} /\ UNCHANGED <<write, reopens>>
  BY DEF BeginInsert, BarrierInv, Locked, Acknowledged
<1>2. \A d \in Backups : d # e => begin[d] # "inserting"
  BY <1>1 DEF BarrierInv, Locked
<1>3. Readers' = Readers
  BY <1>1 DEF Readers
<1>4. Inserted(e) => /\ epochRow' \in [Backups -> {"none", "active", "succeeded", "failed"}]
                     /\ epochRow'[e] = "active" /\ started' \in Seq(Backups)
                     /\ started' # <<>> /\ started'[Len(started')] = e
  BY DEF Inserted, BarrierInv, Typed
<1>5. CASE /\ Inserted(e) /\ active' = TRUE /\ current' = e
           /\ begin' = [begin EXCEPT ![e] = "acknowledged"]
           /\ acked' = acked \cup {e} /\ UNCHANGED held
  <2>1. Typed'
    BY <1>1, <1>4, <1>5 DEF BarrierInv, Typed
  <2>2. \A d \in Backups : begin'[d] # "inserting"
    BY <1>2, <1>5 DEF BarrierInv, Typed
  <2>3. Locked'
    BY <1>1, <1>3, <1>5, <2>2 DEF BarrierInv, Locked
  <2>4. Acknowledged'
    BY <1>1, <1>4, <1>5 DEF Acknowledged
  <2>. QED
    BY <2>1, <2>3, <2>4 DEF BarrierInv
<1>6. CASE /\ Inserted(e) \/ UNCHANGED <<epochRow, started>>
           /\ held' = FALSE /\ begin' = [begin EXCEPT ![e] = "refused"]
           /\ UNCHANGED <<active, current, acked>>
  <2>1. Typed'
    BY <1>1, <1>4, <1>6 DEF BarrierInv, Typed
  <2>2. \A d \in Backups : begin'[d] # "inserting"
    BY <1>2, <1>6 DEF BarrierInv, Typed
  <2>3. Locked'
    BY <1>1, <1>6, <2>2 DEF Locked
  <2>4. Acknowledged'
    BY <1>1, <1>6 DEF Acknowledged
  <2>. QED
    BY <2>1, <2>3, <2>4 DEF BarrierInv
<1>. QED
  BY <1>5, <1>6 DEF BeginInsert

\* NewBackupBarrier finds the acknowledged backup, since no row started later.
LEMMA RestartStep == ASSUME BarrierInv, ServerRestarts PROVE BarrierInv'
<1>1. /\ \A e \in Backups : begin'[e] # "inserting"
      /\ \A w \in Writers : write'[w] \notin {"running", "refusing"}
      /\ UNCHANGED <<epochRow, started, acked>>
  BY DEF ServerRestarts, BarrierInv, Typed
<1>2. Readers' = {}
  BY <1>1 DEF Readers
<1>3. Typed'
  <2>1. begin' \in [Backups -> {"idle", "locking", "inserting", "acknowledged", "refused"}]
    BY DEF ServerRestarts, BarrierInv, Typed
  <2>2. write' \in [Writers -> {"idle", "waiting", "running", "refusing", "done", "refused", "lost"}]
    BY DEF ServerRestarts, BarrierInv, Typed
  <2>3. active' \in BOOLEAN /\ held' \in BOOLEAN
    BY DEF ServerRestarts
  <2>. QED
    BY <1>1, <2>1, <2>2, <2>3 DEF BarrierInv, Typed
<1>4. Locked'
  BY <1>1, <1>2 DEF ServerRestarts, Locked
<1>5. Acknowledged'
  <2> SUFFICES ASSUME acked # {}
               PROVE  active' /\ current' = current
    BY <1>1 DEF BarrierInv, Acknowledged
  <2>1. /\ epochRow[current] = "active" /\ started # <<>> /\ started[Len(started)] = current
        /\ started \in Seq(Backups)
    BY DEF BarrierInv, Acknowledged, Typed
  <2>2. Len(started) \in Reopened /\ \A i \in Reopened : i \in Nat /\ i <= Len(started)
    BY <2>1 DEF Reopened
  <2>3. PICK i \in Reopened : (\A k \in Reopened : k <= i) /\ current' = started[i]
    BY <2>2 DEF ServerRestarts
  <2>4. i = Len(started)
    BY <2>1, <2>2, <2>3
  <2>. QED
    BY <2>1, <2>2, <2>3, <2>4 DEF ServerRestarts
<1>. QED
  BY <1>3, <1>4, <1>5 DEF BarrierInv

LEMMA BarrierStepInv == BarrierInv /\ [BarrierNext]_wbVars => BarrierInv'
<1> SUFFICES ASSUME BarrierInv, [BarrierNext]_wbVars PROVE BarrierInv'
  OBVIOUS
<1> USE DEF BarrierInv, Typed, Locked, Acknowledged, Readers
<1>1. ASSUME NEW e \in Backups, BeginCall(e) PROVE BarrierInv'
  BY <1>1 DEF BeginCall
<1>2. ASSUME NEW e \in Backups, BeginLock(e) PROVE BarrierInv'
  <2>1. /\ ~held /\ Readers = {} /\ ~active /\ held' = TRUE
        /\ begin' = [begin EXCEPT ![e] = "inserting"]
        /\ UNCHANGED <<epochRow, started, active, current, write, acked, reopens>>
    BY <1>2 DEF BeginLock
  <2>2. acked = {} /\ \A d \in Backups : begin[d] # "inserting"
    BY <2>1
  <2>. QED
    BY <2>1, <2>2
<1>3. ASSUME NEW e \in Backups, BeginInsert(e) PROVE BarrierInv'
  BY <1>3, BeginInsertStep
<1>4. ASSUME NEW e \in Backups, NEW s \in {"succeeded", "failed"}, End(e, s) PROVE BarrierInv'
  BY <1>4 DEF End
<1>5. ASSUME NEW w \in Writers, WriteArrives(w) PROVE BarrierInv'
  BY <1>5 DEF WriteArrives
<1>6. ASSUME NEW w \in Writers, WriteEnters(w) PROVE BarrierInv'
  BY <1>6 DEF WriteEnters, RLockable, Admits
<1>7. ASSUME NEW w \in Writers, WriteReturns(w) PROVE BarrierInv'
  BY <1>7 DEF WriteReturns
<1>8. CASE ServerRestarts
  BY <1>8, RestartStep
<1>9. CASE UNCHANGED wbVars
  BY <1>9 DEF wbVars
<1>. QED
  BY <1>1, <1>2, <1>3, <1>4, <1>5, <1>6, <1>7, <1>8, <1>9 DEF BarrierNext

\* Begin, End and the middleware: between the acknowledgement of Begin and the end of its
\* epoch no mutating handler runs, whatever restarts in between (write_barrier.go).
THEOREM BackupIsQuiet == BarrierSpec => []NoWriteInBackup
<1>1. BarrierInv => NoWriteInBackup
  BY DEF BarrierInv, Locked, Acknowledged, Readers, NoWriteInBackup
<1>. QED
  BY <1>1, BarrierInitInv, BarrierStepInv, PTL DEF BarrierSpec

----------------------------------------------------------------------------
(***************************************************************************)
(* Sessions: a password that was reset leaves no session behind.           *)
(***************************************************************************)

\* Sessions have their fields, and a login that upgrades a hash has verified what
\* was typed with the only hash there was.
SessionInv ==
    /\ DOMAIN session = Logins
    /\ \A l \in Logins : DOMAIN session[l] = {"live", "digest", "csrf"}
    /\ DOMAIN login = Logins
    /\ \A l \in Logins : DOMAIN login[l] = {"pc", "typed", "seen", "bcrypt"}
    /\ \A l \in Logins : login[l].pc = "upgrade" =>
           login[l].seen[2] = NoHash /\ login[l].seen[1].of = login[l].typed
    /\ LiveSessionsAreCurrent
    /\ PasswordIsTheLastOneSet

\* Where every session is revoked none is live, whatever the row becomes.
LEMMA NoneLive ==
    ASSUME SessionInv, session' = Revoked
    PROVE  /\ DOMAIN session' = Logins
           /\ \A l \in Logins : DOMAIN session'[l] = {"live", "digest", "csrf"}
           /\ LiveSessionsAreCurrent'
<1>1. ASSUME NEW r, DOMAIN r = {"live", "digest", "csrf"}
      PROVE  ~[r EXCEPT !.live = FALSE].live /\ DOMAIN [r EXCEPT !.live = FALSE] = {"live", "digest", "csrf"}
  BY <1>1
<1>2. \A l \in Logins : session'[l] = [session[l] EXCEPT !.live = FALSE]
  BY DEF Revoked
<1>3. \A l \in Logins : ~session'[l].live /\ DOMAIN session'[l] = {"live", "digest", "csrf"}
  BY <1>1, <1>2 DEF SessionInv
<1>4. DOMAIN session' = Logins
  BY DEF Revoked
<1>. QED
  BY <1>3, <1>4 DEF LiveSessionsAreCurrent

\* The field of one record of a function changes.
LEMMA FieldSet ==
    ASSUME NEW S, NEW f, DOMAIN f = S, NEW D, \A x \in S : DOMAIN f[x] = D, NEW g, NEW x \in S, NEW r,
           g = [f EXCEPT ![x] = r], DOMAIN r = D
    PROVE  /\ DOMAIN g = S /\ \A y \in S : DOMAIN g[y] = D
           /\ g[x] = r /\ \A y \in S : y # x => g[y] = f[y]
  OBVIOUS

LEMMA LoginSteps ==
    ASSUME SessionInv, NEW l \in Logins,
           (\E p \in Passwords : LoginRead(l, p)) \/ LoginVerify(l)
    PROVE  SessionInv'
<1>1. PICK r : /\ login' = [login EXCEPT ![l] = r] /\ DOMAIN r = {"pc", "typed", "seen", "bcrypt"}
               /\ r.pc = "upgrade" => r.seen[2] = NoHash /\ r.seen[1].of = r.typed
               /\ UNCHANGED <<legacy, v2, disabled, secret, session>>
  <2>1. ASSUME NEW p \in Passwords, LoginRead(l, p)
        PROVE  \E r : /\ login' = [login EXCEPT ![l] = r] /\ DOMAIN r = {"pc", "typed", "seen", "bcrypt"}
                      /\ r.pc = "upgrade" => r.seen[2] = NoHash /\ r.seen[1].of = r.typed
                      /\ UNCHANGED <<legacy, v2, disabled, secret, session>>
    <3>1. PICK pc, seen, b : pc = (IF disabled THEN "denied" ELSE "read") /\ seen = Digest /\ b = legacy.bcrypt
      OBVIOUS
    <3>2. PICK r : r = [pc |-> pc, typed |-> p, seen |-> seen, bcrypt |-> b]
      OBVIOUS
    <3>3. DOMAIN r = {"pc", "typed", "seen", "bcrypt"} /\ r.pc # "upgrade"
      BY <3>1, <3>2
    <3>4. login' = [login EXCEPT ![l] = r] /\ UNCHANGED <<legacy, v2, disabled, secret, session>>
      BY <2>1, <3>1, <3>2 DEF LoginRead
    <3>. QED
      BY <3>3, <3>4
  <2>2. ASSUME LoginVerify(l)
        PROVE  \E r : /\ login' = [login EXCEPT ![l] = r] /\ DOMAIN r = {"pc", "typed", "seen", "bcrypt"}
                      /\ r.pc = "upgrade" => r.seen[2] = NoHash /\ r.seen[1].of = r.typed
                      /\ UNCHANGED <<legacy, v2, disabled, secret, session>>
    <3>1. PICK o, pc : o = login[l] /\ pc = IF ~Verifies(login[l].seen, login[l].typed) THEN "denied"
                                            ELSE IF Upgrades(l) THEN "upgrade" ELSE "create"
      OBVIOUS
    <3>2. PICK r : r = [o EXCEPT !.pc = pc]
      OBVIOUS
    <3>3. DOMAIN o = {"pc", "typed", "seen", "bcrypt"}
      BY <3>1 DEF SessionInv
    <3>4. DOMAIN r = {"pc", "typed", "seen", "bcrypt"} /\ r.pc = pc /\ r.seen = o.seen /\ r.typed = o.typed
      BY <3>2, <3>3
    <3>5. pc = "upgrade" => o.seen[2] = NoHash /\ o.seen[1].of = o.typed
      BY <3>1 DEF Verifies, Upgrades
    <3>6. login' = [login EXCEPT ![l] = r] /\ UNCHANGED <<legacy, v2, disabled, secret, session>>
      BY <2>2, <3>1, <3>2 DEF LoginVerify
    <3>. QED
      BY <3>4, <3>5, <3>6
  <2>. QED
    BY <2>1, <2>2
<1>2. /\ DOMAIN login' = Logins /\ \A k \in Logins : DOMAIN login'[k] = {"pc", "typed", "seen", "bcrypt"}
      /\ login'[l] = r /\ \A k \in Logins : k # l => login'[k] = login[k]
  BY <1>1, FieldSet DEF SessionInv
<1>3. \A k \in Logins : login'[k].pc = "upgrade" =>
          login'[k].seen[2] = NoHash /\ login'[k].seen[1].of = login'[k].typed
  BY <1>1, <1>2 DEF SessionInv
<1>. QED
  BY <1>1, <1>2, <1>3 DEF SessionInv, LiveSessionsAreCurrent, PasswordIsTheLastOneSet, Digest

\* What the triggers of the user row do.
LEMMA RevokedBySteps ==
    ASSUME SessionInv, NEW h, NEW second, NEW off, session' = RevokedBy(h, second, off),
           legacy'.hash = h, v2' = second, disabled' = off
    PROVE  /\ DOMAIN session' = Logins
           /\ \A l \in Logins : DOMAIN session'[l] = {"live", "digest", "csrf"}
           /\ LiveSessionsAreCurrent'
<1>1. CASE session' = Revoked
  BY <1>1, NoneLive
<1>2. CASE session' = session /\ h = legacy.hash /\ second = v2 /\ ~off
  BY <1>2 DEF SessionInv, LiveSessionsAreCurrent, Digest
<1>. QED
  BY <1>1, <1>2 DEF RevokedBy

LEMMA HostSteps ==
    ASSUME SessionInv, (\E p \in Passwords : HostReset(p)) \/ (\E off \in BOOLEAN : HostDisable(off))
    PROVE  SessionInv'
<1>1. ASSUME NEW p \in Passwords, HostReset(p) PROVE SessionInv'
  <2>1. PICK h : h = [of |-> p, n |-> hashes + 1]
    OBVIOUS
  <2>2. PICK second : second = Synced(h, v2)
    OBVIOUS
  <2>3. /\ legacy' = [hash |-> h, bcrypt |-> TRUE] /\ v2' = second /\ secret' = p
        /\ session' = RevokedBy(h, second, disabled) /\ disabled' = disabled /\ login' = login
    BY <1>1, <2>1, <2>2 DEF HostReset
  <2>4. legacy'.hash = h /\ h.of = p
    BY <2>1, <2>3
  <2>5. /\ DOMAIN session' = Logins
        /\ \A l \in Logins : DOMAIN session'[l] = {"live", "digest", "csrf"}
        /\ LiveSessionsAreCurrent'
    BY <2>3, <2>4, RevokedBySteps
  <2>6. PasswordIsTheLastOneSet'
    <3>1. CASE h # legacy.hash
      BY <2>2, <2>3, <2>4, <3>1 DEF PasswordIsTheLastOneSet, Synced
    <3>2. CASE h = legacy.hash
      BY <2>2, <2>3, <2>4, <3>2 DEF PasswordIsTheLastOneSet, Synced, SessionInv
    <3>. QED
      BY <3>1, <3>2
  <2>. QED
    BY <2>3, <2>5, <2>6 DEF SessionInv
<1>2. ASSUME NEW off \in BOOLEAN, HostDisable(off) PROVE SessionInv'
  <2>1. PICK h, second : h = legacy.hash /\ second = v2
    OBVIOUS
  <2>2. /\ session' = RevokedBy(h, second, off) /\ disabled' = off /\ legacy' = legacy
        /\ v2' = v2 /\ secret' = secret /\ login' = login
    BY <1>2, <2>1 DEF HostDisable
  <2>3. legacy'.hash = h /\ v2' = second
    BY <2>1, <2>2
  <2>4. /\ DOMAIN session' = Logins
        /\ \A l \in Logins : DOMAIN session'[l] = {"live", "digest", "csrf"}
        /\ LiveSessionsAreCurrent'
    BY <2>2, <2>3, RevokedBySteps
  <2>. QED
    BY <2>2, <2>4 DEF SessionInv, PasswordIsTheLastOneSet
<1>. QED
  BY <1>1, <1>2

\* An upgrade stores two hashes of what was verified with the hash that is there.
LEMMA UpgradeSteps == ASSUME SessionInv, NEW l \in Logins, LoginUpgrade(l) PROVE SessionInv'
<1>1. PICK o : o = login[l]
  OBVIOUS
<1>2. /\ o.pc = "upgrade" /\ DOMAIN o = {"pc", "typed", "seen", "bcrypt"}
      /\ o.seen[2] = NoHash /\ o.seen[1].of = o.typed
  BY <1>1 DEF SessionInv, LoginUpgrade
<1>3. CASE ~Unchanged(l)
  <2>1. PICK r : r = [o EXCEPT !.pc = "denied"]
    OBVIOUS
  <2>2. DOMAIN r = {"pc", "typed", "seen", "bcrypt"} /\ r.pc = "denied"
    BY <1>2, <2>1
  <2>3. login' = [login EXCEPT ![l] = r] /\ UNCHANGED <<legacy, v2, disabled, secret, session>>
    BY <1>1, <1>3, <2>1 DEF LoginUpgrade
  <2>4. /\ DOMAIN login' = Logins /\ \A k \in Logins : DOMAIN login'[k] = {"pc", "typed", "seen", "bcrypt"}
        /\ login'[l] = r /\ \A k \in Logins : k # l => login'[k] = login[k]
    BY <2>2, <2>3, FieldSet DEF SessionInv
  <2>5. \A k \in Logins : login'[k].pc = "upgrade" =>
            login'[k].seen[2] = NoHash /\ login'[k].seen[1].of = login'[k].typed
    BY <2>2, <2>4 DEF SessionInv
  <2>. QED
    BY <2>3, <2>4, <2>5 DEF SessionInv, LiveSessionsAreCurrent, PasswordIsTheLastOneSet, Digest
<1>4. CASE Unchanged(l)
  <2>1. legacy.hash = o.seen[1] /\ v2 = NoHash /\ o.typed = secret
    BY <1>1, <1>2, <1>4 DEF Unchanged, Digest, SessionInv, PasswordIsTheLastOneSet
  <2>2. PICK new : new = [of |-> o.typed, n |-> hashes + 1]
    OBVIOUS
  <2>3. PICK first, second : /\ first = (IF o.bcrypt THEN o.seen[1] ELSE new)
                             /\ second = (IF o.bcrypt THEN new ELSE o.seen[1])
    OBVIOUS
  <2>4. PICK seen : seen = <<first, second>>
    OBVIOUS
  <2>5. PICK r : r = [o EXCEPT !.pc = "create", !.seen = seen]
    OBVIOUS
  <2>6. DOMAIN r = {"pc", "typed", "seen", "bcrypt"} /\ r.pc = "create"
    BY <1>2, <2>5
  <2>7. /\ legacy' = [hash |-> first, bcrypt |-> TRUE] /\ v2' = Synced(first, second)
        /\ session' = Revoked /\ disabled' = disabled /\ secret' = secret
        /\ login' = [login EXCEPT ![l].pc = "create", ![l].seen = seen]
    BY <1>1, <1>4, <2>2, <2>3, <2>4 DEF LoginUpgrade
  <2>8. login' = [login EXCEPT ![l] = r]
    BY <1>1, <2>5, <2>7 DEF SessionInv
  <2>9. /\ DOMAIN login' = Logins /\ \A k \in Logins : DOMAIN login'[k] = {"pc", "typed", "seen", "bcrypt"}
        /\ login'[l] = r /\ \A k \in Logins : k # l => login'[k] = login[k]
    BY <2>6, <2>8, FieldSet DEF SessionInv
  <2>10. \A k \in Logins : login'[k].pc = "upgrade" =>
            login'[k].seen[2] = NoHash /\ login'[k].seen[1].of = login'[k].typed
    BY <2>6, <2>9 DEF SessionInv
  <2>11. first.of = secret /\ second.of = secret
    BY <1>2, <2>1, <2>2, <2>3
  <2>12. PasswordIsTheLastOneSet'
    BY <2>7, <2>11 DEF PasswordIsTheLastOneSet, Synced
  <2>. QED
    BY <2>7, <2>9, <2>10, <2>12, NoneLive DEF SessionInv
<1>. QED
  BY <1>3, <1>4

\* A session is made for the hashes that the row has in this transaction.
LEMMA CreateSteps == ASSUME SessionInv, NEW l \in Logins, CreateSession(l) PROVE SessionInv'
<1>1. PICK o, pc : o = login[l] /\ pc = IF Unchanged(l) THEN "in" ELSE "denied"
  OBVIOUS
<1>2. PICK r : r = [o EXCEPT !.pc = pc]
  OBVIOUS
<1>3. DOMAIN o = {"pc", "typed", "seen", "bcrypt"}
  BY <1>1 DEF SessionInv
<1>4. DOMAIN r = {"pc", "typed", "seen", "bcrypt"} /\ r.pc # "upgrade"
  BY <1>1, <1>2, <1>3
<1>5. login' = [login EXCEPT ![l] = r] /\ UNCHANGED <<legacy, v2, disabled, secret>>
  BY <1>1, <1>2 DEF CreateSession
<1>6. /\ DOMAIN login' = Logins /\ \A k \in Logins : DOMAIN login'[k] = {"pc", "typed", "seen", "bcrypt"}
      /\ login'[l] = r /\ \A k \in Logins : k # l => login'[k] = login[k]
  BY <1>4, <1>5, FieldSet DEF SessionInv
<1>7. \A k \in Logins : login'[k].pc = "upgrade" =>
          login'[k].seen[2] = NoHash /\ login'[k].seen[1].of = login'[k].typed
  BY <1>4, <1>6 DEF SessionInv
<1>8. PasswordIsTheLastOneSet'
  BY <1>5 DEF SessionInv, PasswordIsTheLastOneSet
<1>9. CASE Unchanged(l)
  <2>1. PICK e : e = [live |-> TRUE, digest |-> o.seen, csrf |-> 0]
    OBVIOUS
  <2>2. session' = [session EXCEPT ![l] = e]
    BY <1>1, <1>9, <2>1 DEF CreateSession
  <2>3. DOMAIN e = {"live", "digest", "csrf"} /\ e.digest = Digest /\ ~disabled
    BY <1>1, <1>9, <2>1 DEF Unchanged
  <2>4. /\ DOMAIN session' = Logins /\ \A k \in Logins : DOMAIN session'[k] = {"live", "digest", "csrf"}
        /\ session'[l] = e /\ \A k \in Logins : k # l => session'[k] = session[k]
    BY <2>2, <2>3, FieldSet DEF SessionInv
  <2>5. Digest' = Digest
    BY <1>5 DEF Digest
  <2>6. LiveSessionsAreCurrent'
    BY <1>5, <2>3, <2>4, <2>5 DEF SessionInv, LiveSessionsAreCurrent
  <2>. QED
    BY <1>6, <1>7, <1>8, <2>4, <2>6 DEF SessionInv
<1>10. CASE ~Unchanged(l)
  <2>1. session' = session
    BY <1>10 DEF CreateSession
  <2>. QED
    BY <1>5, <1>6, <1>7, <1>8, <2>1 DEF SessionInv, LiveSessionsAreCurrent, Digest
<1>. QED
  BY <1>9, <1>10

\* A session that ends, or gets another token, keeps what it was made for.
LEMMA OneSessionChanges ==
    ASSUME SessionInv, NEW l \in Logins, NEW r, session' = [session EXCEPT ![l] = r],
           DOMAIN r = {"live", "digest", "csrf"}, r.live => session[l].live, r.digest = session[l].digest,
           UNCHANGED <<legacy, v2, disabled, secret, login>>
    PROVE  SessionInv'
<1>1. /\ DOMAIN session' = Logins /\ \A k \in Logins : DOMAIN session'[k] = {"live", "digest", "csrf"}
      /\ session'[l] = r /\ \A k \in Logins : k # l => session'[k] = session[k]
  BY FieldSet DEF SessionInv
<1>. QED
  BY <1>1 DEF SessionInv, LiveSessionsAreCurrent, PasswordIsTheLastOneSet, Digest

LEMMA EndsOrToken ==
    ASSUME SessionInv, NEW l \in Logins, NEW csrf, NEW old, old = session[l],
           UNCHANGED <<legacy, v2, disabled, secret, login>>,
           \/ session' = [session EXCEPT ![l] = [old EXCEPT !.live = FALSE]]
           \/ session' = [session EXCEPT ![l] = [old EXCEPT !.csrf = csrf]]
    PROVE  SessionInv'
<1>1. DOMAIN old = {"live", "digest", "csrf"}
  BY DEF SessionInv
<1>2. CASE session' = [session EXCEPT ![l] = [old EXCEPT !.live = FALSE]]
  <2>1. PICK r : r = [old EXCEPT !.live = FALSE]
    OBVIOUS
  <2>2. DOMAIN r = {"live", "digest", "csrf"} /\ r.digest = session[l].digest /\ (r.live => session[l].live)
    BY <1>1, <2>1
  <2>. QED
    BY <1>2, <2>1, <2>2, OneSessionChanges
<1>3. CASE session' = [session EXCEPT ![l] = [old EXCEPT !.csrf = csrf]]
  <2>1. PICK r : r = [old EXCEPT !.csrf = csrf]
    OBVIOUS
  <2>2. DOMAIN r = {"live", "digest", "csrf"} /\ r.digest = session[l].digest /\ (r.live => session[l].live)
    BY <1>1, <2>1
  <2>. QED
    BY <1>3, <2>1, <2>2, OneSessionChanges
<1>. QED
  BY <1>2, <1>3

LEMMA SameSessions ==
    ASSUME SessionInv, DOMAIN session' = Logins, \A l \in Logins : session'[l] = session[l],
           UNCHANGED <<legacy, v2, disabled, secret, login>>
    PROVE  SessionInv'
  BY DEF SessionInv, LiveSessionsAreCurrent, PasswordIsTheLastOneSet, Digest

LEMMA SessionStep == ASSUME SessionInv, [SessionNext]_seVars PROVE SessionInv'
<1>1. ASSUME UNCHANGED <<legacy, v2, disabled, secret, login, session>> PROVE SessionInv'
  BY <1>1 DEF SessionInv, LiveSessionsAreCurrent, PasswordIsTheLastOneSet, Digest
<1>2. ASSUME NEW l \in Logins, SessionExpires(l) PROVE SessionInv'
  <2>1. PICK old : old = session[l]
    OBVIOUS
  <2>. QED
    BY <1>2, <2>1, EndsOrToken DEF SessionExpires, SessionInv
<1>3. ASSUME NEW l \in Logins, NEW t \in Tabs, AuthRead(t, l) PROVE SessionInv'
  BY <1>1, <1>3 DEF AuthRead
<1>4. ASSUME NEW t \in Tabs, AuthUser(t) PROVE SessionInv'
  <2>1. CASE session' = Revoked
    BY <1>4, <2>1, NoneLive DEF AuthUser, SessionInv, PasswordIsTheLastOneSet
  <2>. QED
    BY <1>1, <1>4, <2>1 DEF AuthUser
<1>5. ASSUME NEW t \in Tabs, NEW k, AuthTouch(t, k) PROVE SessionInv'
  BY <1>1, <1>5 DEF AuthTouch
<1>6. ASSUME NEW t \in Tabs, SessionCSRF(t) PROVE SessionInv'
  <2>1. PICK l, csrf, old : l = request[t].of /\ csrf = session[l].csrf + 1 /\ old = session[l]
    OBVIOUS
  <2>2. CASE l \in Logins
    <3>1. session' = [session EXCEPT ![l] = [old EXCEPT !.csrf = csrf]]
      BY <1>6, <2>1, <2>2 DEF SessionCSRF, SessionInv
    <3>. QED
      <4>1. UNCHANGED <<legacy, v2, disabled, secret, login>>
        BY <1>6 DEF SessionCSRF
      <4>. QED
        BY <2>1, <2>2, <3>1, <4>1, EndsOrToken
  <2>3. CASE l \notin Logins
    <3>1. DOMAIN session' = Logins /\ \A x \in Logins : session'[x] = session[x]
      BY <1>6, <2>1, <2>3 DEF SessionCSRF, SessionInv
    <3>2. UNCHANGED <<legacy, v2, disabled, secret, login>>
      BY <1>6 DEF SessionCSRF
    <3>. QED
      BY <3>1, <3>2, SameSessions
  <2>. QED
    BY <2>2, <2>3
<1>7. ASSUME NEW t \in Tabs, Logout(t) PROVE SessionInv'
  <2>1. PICK l, old : l = request[t].of /\ old = session[l]
    OBVIOUS
  <2>2. CASE l \in Logins
    <3>1. session' = [session EXCEPT ![l] = [old EXCEPT !.live = FALSE]]
      BY <1>7, <2>1, <2>2 DEF Logout, SessionInv
    <3>. QED
      <4>1. UNCHANGED <<legacy, v2, disabled, secret, login>>
        BY <1>7 DEF Logout
      <4>. QED
        BY <2>1, <2>2, <3>1, <4>1, EndsOrToken
  <2>3. CASE l \notin Logins
    <3>1. DOMAIN session' = Logins /\ \A x \in Logins : session'[x] = session[x]
      BY <1>7, <2>1, <2>3 DEF Logout, SessionInv
    <3>2. UNCHANGED <<legacy, v2, disabled, secret, login>>
      BY <1>7 DEF Logout
    <3>. QED
      BY <3>1, <3>2, SameSessions
  <2>. QED
    BY <2>2, <2>3
<1>. QED
  BY <1>1, <1>2, <1>3, <1>4, <1>5, <1>6, <1>7, HostSteps, LoginSteps, UpgradeSteps, CreateSteps DEF SessionNext, seVars

LEMMA SessionInitInv == ASSUME SessionInit PROVE SessionInv
<1>1. PICK p \in Passwords, b \in BOOLEAN : legacy = [hash |-> [of |-> p, n |-> 1], bcrypt |-> b] /\ secret = p
  BY DEF SessionInit
<1>2. PICK r, e : /\ r = [pc |-> "idle", typed |-> "", seen |-> <<NoHash, NoHash>>, bcrypt |-> FALSE]
                  /\ e = NoSession
  OBVIOUS
<1>3. login = [l \in Logins |-> r] /\ session = [l \in Logins |-> e]
  BY <1>2 DEF SessionInit
<1>4. r.pc = "idle" /\ DOMAIN r = {"pc", "typed", "seen", "bcrypt"}
  BY <1>2
<1>5. ~e.live /\ DOMAIN e = {"live", "digest", "csrf"}
  BY <1>2 DEF NoSession
<1>6. PasswordIsTheLastOneSet
  BY <1>1 DEF PasswordIsTheLastOneSet, SessionInit
<1>. QED
  BY <1>3, <1>4, <1>5, <1>6 DEF SessionInv, LiveSessionsAreCurrent

----------------------------------------------------------------------------
\* Login, the upgrade of a hash and the triggers of the user row, with an operator
\* who resets the password or disables the account at any time: a session that can
\* still be used was made for the hashes the enabled account has now, and these
\* are of the password that was set last.
THEOREM ResetEndsSessions == SessionSpec => []ResetIsFinal
<1>1. SessionInit => SessionInv
  BY SessionInitInv
<1>2. SessionInv /\ [SessionNext]_seVars => SessionInv'
  BY SessionStep
<1>3. SessionInv => ResetIsFinal
  BY DEF SessionInv, ResetIsFinal
<1>. QED
  BY <1>1, <1>2, <1>3, PTL DEF SessionSpec

----------------------------------------------------------------------------
(***************************************************************************)
(* Migrations: whoever serves has the schema it was built with.            *)
(***************************************************************************)

FileOf(led, i) == [version |-> Versions[i], sql |-> led[Versions[i]]]
Registered(led, i) == led[Versions[i]] # <<>>
Index == 1..Len(Versions)
Files(s) == Releases[ReleaseOf[s]].files
Text(s, i) == Embedded(s)[i].sql

\* What is registered are the first migrations, up to some one.
InOrder(led) == \A i, j \in Index : i < j /\ Registered(led, j) => Registered(led, i)

\* The transaction under way has registered all it embeds but what it has yet to
\* apply, which comes after everything registered, and has taken nothing back.
WorkOK(s, w, db, led) ==
    /\ DOMAIN w = {"by", "todo", "schema", "ledger"}
    /\ w.todo \subseteq 1..Files(s)
    /\ DOMAIN w.ledger = DOMAIN led
    /\ \A i \in Index : Registered(led, i) => w.ledger[Versions[i]] = led[Versions[i]]
    /\ \A i \in Index : i > Files(s) => w.ledger[Versions[i]] = led[Versions[i]]
    /\ \A i \in 1..Files(s) : i \in w.todo \/ w.ledger[Versions[i]] = Text(s, i)
    /\ \A j \in w.todo, i \in Index : Registered(w.ledger, i) => i < j
    /\ Applied(w.schema, w.ledger)

MigrationInv ==
    /\ DOMAIN server = Servers /\ DOMAIN ledger = {Versions[i] : i \in Index}
    /\ InOrder(ledger) /\ Applied(schema, ledger) /\ EachIsRegistered
    /\ work.by # "none" =>
           /\ work.by \in Servers /\ server[work.by] = "applying"
           /\ WorkOK(work.by, work, schema, ledger)

----------------------------------------------------------------------------
LEMMA EmbeddedIs ==
    ASSUME NEW s \in Servers
    PROVE  /\ Files(s) \in Nat /\ Files(s) <= Len(Versions) /\ Len(Versions) \in Nat
           /\ DOMAIN Embedded(s) = 1..Files(s) /\ Len(Embedded(s)) = Files(s)
           /\ \A i \in 1..Files(s) : /\ i \in Index /\ Embedded(s)[i].version = Versions[i]
                                     /\ Embedded(s)[i].sql = Text(s, i)
                                     /\ Text(s, i) # <<>>
                                     /\ Embedded(s)[i] = [version |-> Versions[i], sql |-> Text(s, i)]
<1>1. Files(s) \in Nat /\ Files(s) <= Len(Versions) /\ Len(Versions) \in Nat
  BY MigrationAssumption DEF Files
<1>2. PICK r : r = Releases[ReleaseOf[s]]
  OBVIOUS
<1>3. Embedded(s) = [i \in 1..Files(s) |-> [version |-> Versions[i],
                         sql |-> (IF r.edited THEN Edited ELSE File)[Versions[i]]]]
  BY <1>2 DEF Embedded, Files
<1>4. DOMAIN Embedded(s) = 1..Files(s) /\ Len(Embedded(s)) = Files(s)
  BY <1>1, <1>3
<1>5. \A i \in 1..Files(s) : /\ Embedded(s)[i].version = Versions[i]
                             /\ Embedded(s)[i].sql = (IF r.edited THEN Edited ELSE File)[Versions[i]]
                             /\ Embedded(s)[i] = [version |-> Versions[i], sql |-> Embedded(s)[i].sql]
  BY <1>3
<1>6. \A i \in 1..Files(s) : i \in Index
  BY <1>1 DEF Index
<1>7. \A i \in Index : File[Versions[i]] # <<>> /\ Edited[Versions[i]] # <<>>
  BY MigrationAssumption DEF Index
<1>. QED
  BY <1>1, <1>4, <1>5, <1>6, <1>7 DEF Text

LEMMA AppliedIs ==
    ASSUME NEW db, NEW led
    PROVE  Applied(db, led) <=>
             \A i \in Index : \A o \in Declared({FileOf(led, i)}) :
                 \/ ~Registered(led, i)
                 \/ o \in db
                 \/ \E j \in Index : Registered(led, j) /\ j > i /\ o \in Statements(FileOf(led, j), "drop")
<1> DEFINE done == {i \in 1..Len(Versions) : led[Versions[i]] # <<>>}
           gone(i) == UNION {Statements(FileOf(led, j), "drop") : j \in {k \in done : k > i}}
<1>1. Applied(db, led) <=> \A i \in done : Declared({FileOf(led, i)}) \ gone(i) \subseteq db
  BY DEF Applied, FileOf
<1>2. \A i : i \in done <=> i \in Index /\ Registered(led, i)
  BY DEF Index, Registered
<1>3. \A i, o : o \in gone(i) <=> \E j \in Index : Registered(led, j) /\ j > i /\ o \in Statements(FileOf(led, j), "drop")
  BY <1>2
<1>. HIDE DEF done, gone
<1>. QED
  BY <1>1, <1>2, <1>3

\* What executing a file leaves of what was there, and what it adds.
LEMMA ExecuteKeeps ==
    ASSUME NEW db, NEW m, NEW o
    PROVE  /\ o \in db /\ o \notin Statements(m, "drop") => o \in Execute(db, m)
           /\ o \in Declared({m}) => o \in Execute(db, m)
<1>1. o \notin Statements(m, "drop") =>
          ~\E i \in 1..Len(m.sql) : m.sql[i] = [kind |-> "drop", obj |-> o]
  <2>. SUFFICES ASSUME NEW i \in 1..Len(m.sql), m.sql[i] = [kind |-> "drop", obj |-> o]
                PROVE  o \in Statements(m, "drop")
    OBVIOUS
  <2>1. m.sql[i].kind = "drop" /\ m.sql[i].obj = o
    OBVIOUS
  <2>. QED
    BY <2>1 DEF Statements, Named
<1>2. o \in Declared({m}) => o \in Statements(m, "create") /\ o \notin Statements(m, "drop")
  BY DEF Declared
<1>3. (o \in db \/ o \in Statements(m, "create")) /\ o \notin Statements(m, "drop") => o \in Execute(db, m)
  BY <1>1 DEF Execute, After, Statements
<1>. QED
  BY <1>2, <1>3

\* Executing and registering the file that is next keeps what is applied.
LEMMA NextApplied ==
    ASSUME NEW db, NEW led, NEW n \in Index, NEW sql, NEW m, NEW new,
           Applied(db, led), DOMAIN led = {Versions[i] : i \in Index},
           m = [version |-> Versions[n], sql |-> sql], sql # <<>>,
           \A i \in Index : Registered(led, i) => i < n,
           new = [led EXCEPT ![Versions[n]] = sql]
    PROVE  Applied(Execute(db, m), new)
<1>1. /\ new[Versions[n]] = sql /\ \A i \in Index : i # n => new[Versions[i]] = led[Versions[i]]
  BY MigrationAssumption DEF Index
<1>2. /\ FileOf(new, n) = m /\ Registered(new, n)
      /\ \A i \in Index : i # n => FileOf(new, i) = FileOf(led, i) /\ (Registered(new, i) <=> Registered(led, i))
  BY <1>1 DEF FileOf, Registered
<1>3. n \in Nat /\ \A i \in Index : i \in Nat
  BY MigrationAssumption DEF Index
<1>. SUFFICES ASSUME NEW i \in Index, NEW o \in Declared({FileOf(new, i)}), Registered(new, i),
                     ~\E j \in Index : Registered(new, j) /\ j > i /\ o \in Statements(FileOf(new, j), "drop")
              PROVE  o \in Execute(db, m)
  BY AppliedIs
<1>4. CASE i = n
  BY <1>2, <1>4, ExecuteKeeps
<1>5. CASE i # n
  <2>1. Registered(led, i) /\ i < n /\ o \in Declared({FileOf(led, i)})
    BY <1>2, <1>5
  <2>2. ~\E j \in Index : Registered(led, j) /\ j > i /\ o \in Statements(FileOf(led, j), "drop")
    <3>. SUFFICES ASSUME NEW j \in Index, Registered(led, j), j > i, o \in Statements(FileOf(led, j), "drop")
                  PROVE  FALSE
      OBVIOUS
    <3>1. j < n
      OBVIOUS
    <3>2. j # n
      BY <1>3, <3>1
    <3>. QED
      BY <1>2, <3>2
  <2>3. o \in db
    BY <2>1, <2>2, AppliedIs
  <2>4. o \notin Statements(m, "drop")
    <3>1. n > i
      BY <1>3, <2>1
    <3>. QED
      BY <1>2, <3>1
  <2>. QED
    BY <2>3, <2>4, ExecuteKeeps
<1>. QED
  BY <1>4, <1>5

----------------------------------------------------------------------------
\* Among sets of subsets of a finite set there is always a smallest one, and so
\* a set of numbers up to some number has a least one.
LEMMA SmallestSubset ==
    ASSUME NEW S, IsFiniteSet(S), NEW T, T \subseteq SUBSET S, T # {}
    PROVE  \E X \in T : \A Y \in T : ~(Y \subseteq X /\ Y # X)
<1>1. T \subseteq FiniteSubsetsOf(S)
  BY FS_Subset DEF FiniteSubsetsOf
<1>2. PICK X \in T : \A Y \in T : <<Y, X>> \notin StrictSubsetOrdering(S)
  BY <1>1, FS_StrictSubsetOrderingWellFounded, WFMin
<1>. QED
  BY <1>2 DEF StrictSubsetOrdering

LEMMA LeastOf ==
    ASSUME NEW n \in Nat, NEW S, S \subseteq 1 .. n, S # {}
    PROVE  Min(S) \in S /\ \A j \in S : Min(S) <= j
<1> DEFINE D == 1 .. n
           UpTo(i) == {j \in S : j <= i}
           T == {UpTo(i) : i \in S}
<1>a. IsFiniteSet(D)
  BY FS_Interval
<1>1. T \subseteq SUBSET D /\ T # {}
  OBVIOUS
<1>2. PICK X \in T : \A Y \in T : ~(Y \subseteq X /\ Y # X)
  <2>. HIDE DEF T, D
  <2>. QED
    BY <1>a, <1>1, SmallestSubset
<1>3. PICK i \in S : X = UpTo(i)
  OBVIOUS
<1>4. ASSUME NEW j \in S, ~(i <= j) PROVE FALSE
  <2>1. i \in Int /\ j \in Int /\ \A k \in S : k \in Int
    OBVIOUS
  <2>2. j <= i /\ \A k \in S : k <= j => k <= i
    BY <1>4, <2>1
  <2>3. i \in X /\ i \notin UpTo(j)
    BY <1>3, <1>4, <2>1
  <2>4. UpTo(j) \subseteq X /\ UpTo(j) \in T
    BY <1>3, <2>2
  <2>. QED
    BY <1>2, <2>3, <2>4
<1>5. \E x \in S : \A j \in S : x <= j
  BY <1>4
<1>. QED
  BY <1>5 DEF Min

----------------------------------------------------------------------------
LEMMA NothingRegistered ==
    ASSUME NEW led, \A i \in Index : ~Registered(led, i), NEW db
    PROVE  InOrder(led) /\ Applied(db, led)
  BY AppliedIs DEF InOrder

LEMMA MigrationInitInv == ASSUME MigrationInit PROVE MigrationInv
<1>1. ledger = [v \in {Versions[i] : i \in Index} |-> <<>>]
  BY DEF MigrationInit, Index
<1>2. \A i \in Index : ~Registered(ledger, i)
  BY <1>1 DEF Registered
<1>3. server = [s \in Servers |-> "starting"] /\ work.by = "none"
  BY DEF MigrationInit, NoWork
<1>4. EachIsRegistered
  BY <1>3 DEF EachIsRegistered
<1>. QED
  BY <1>1, <1>2, <1>3, <1>4, NothingRegistered DEF MigrationInv

\* What a process plans to do when it has the lock.
LEMMA PlanKeepsInv == ASSUME MigrationInv, NEW s \in Servers, LockAndPlan(s) PROVE MigrationInv'
<1>1. PICK ms : ms = Embedded(s)
  OBVIOUS
<1>2. server[s] = "starting" /\ work.by = "none" /\ UNCHANGED <<schema, ledger>>
  BY DEF LockAndPlan
<1>3. CASE Refuses(ms)
  <2>1. server' = [server EXCEPT ![s] = "refused"] /\ work' = work
    BY <1>1, <1>3 DEF LockAndPlan
  <2>2. EachIsRegistered'
    BY <1>2, <2>1 DEF MigrationInv, EachIsRegistered, Embedded
  <2>. QED
    BY <1>2, <2>1, <2>2 DEF MigrationInv
<1>4. CASE ~Refuses(ms)
  <2> DEFINE todo == {i \in 1..Len(ms) : Class(ms[i]) = "pending"}
             base == Baseline(ms)
             led == [v \in DOMAIN ledger |-> IF \E m \in base : m.version = v
                                              THEN (CHOOSE m \in base : m.version = v).sql
                                              ELSE ledger[v]]
             w == [by |-> s, todo |-> todo, schema |-> schema, ledger |-> led]
  <2>1. server' = [server EXCEPT ![s] = "applying"] /\ work' = w
    BY <1>1, <1>4 DEF LockAndPlan
  <2>2. EachIsRegistered'
    BY <1>2, <2>1 DEF MigrationInv, EachIsRegistered, Embedded
  <2>3. /\ Len(ms) = Files(s)
        /\ \A i \in 1..Files(s) : /\ i \in Index /\ i \in Nat /\ ms[i].version = Versions[i]
                                   /\ ms[i].sql = Text(s, i) /\ Text(s, i) # <<>>
                                   /\ ms[i] = [version |-> Versions[i], sql |-> Text(s, i)]
    BY <1>1, EmbeddedIs
  <2>4. \A i \in 1..Files(s) :
            \/ Class(ms[i]) = "registered" /\ ledger[Versions[i]] = Text(s, i)
            \/ Class(ms[i]) = "baseline" /\ ~Registered(ledger, i) /\ Declared({ms[i]}) \subseteq schema
            \/ Class(ms[i]) = "pending" /\ ~Registered(ledger, i)
    <3>. SUFFICES ASSUME NEW i \in 1..Files(s)
                  PROVE  \/ Class(ms[i]) = "registered" /\ ledger[Versions[i]] = Text(s, i)
                         \/ Class(ms[i]) = "baseline" /\ ~Registered(ledger, i) /\ Declared({ms[i]}) \subseteq schema
                         \/ Class(ms[i]) = "pending" /\ ~Registered(ledger, i)
      OBVIOUS
    <3>1. Class(ms[i]) \notin {"edited", "partial"}
      BY <1>4, <2>3 DEF Refuses
    <3>2. PICK m : m = ms[i]
      OBVIOUS
    <3>3. Missing(schema, {m}) = {} => Declared({m}) \subseteq schema
      BY DEF Missing
    <3>4. m.version = Versions[i] /\ m.sql = Text(s, i)
      BY <2>3, <3>2
    <3>. QED
      BY <3>1, <3>2, <3>3, <3>4 DEF Class, Registered
  <2>5. ~\E i, j \in 1..Files(s) : i < j /\ Class(ms[i]) = "pending" /\ Class(ms[j]) = "baseline"
    BY <1>4, <2>3 DEF Refuses, OutOfOrder
  \* A version is registered as baseline if its own file is classed so.
  <2>6. \A i \in Index : led[Versions[i]] =
            IF i \in 1..Files(s) /\ Class(ms[i]) = "baseline" THEN Text(s, i) ELSE ledger[Versions[i]]
    <3>. SUFFICES ASSUME NEW i \in Index
                  PROVE  led[Versions[i]] = IF i \in 1..Files(s) /\ Class(ms[i]) = "baseline"
                                            THEN Text(s, i) ELSE ledger[Versions[i]]
      OBVIOUS
    <3>1. \A m \in base : \E j \in 1..Files(s) : m = ms[j] /\ Class(ms[j]) = "baseline"
      BY <2>3 DEF Baseline
    <3>2. \A m \in base : m.version = Versions[i] => i \in 1..Files(s) /\ m = ms[i] /\ Class(ms[i]) = "baseline"
      BY <2>3, <3>1, MigrationAssumption DEF Index
    <3>3. i \in 1..Files(s) /\ Class(ms[i]) = "baseline" => ms[i] \in base /\ ms[i].version = Versions[i]
      BY <2>3 DEF Baseline
    <3>4. Versions[i] \in DOMAIN ledger
      BY DEF MigrationInv
    <3>5. led[Versions[i]] = IF \E m \in base : m.version = Versions[i]
                             THEN (CHOOSE m \in base : m.version = Versions[i]).sql ELSE ledger[Versions[i]]
      BY <3>4
    <3>. HIDE DEF base, led
    <3>6. CASE i \in 1..Files(s) /\ Class(ms[i]) = "baseline"
      <4>1. PICK c : c = CHOOSE m \in base : m.version = Versions[i]
        OBVIOUS
      <4>2. c \in base /\ c.version = Versions[i]
        BY <3>3, <3>6, <4>1
      <4>3. c = ms[i] /\ led[Versions[i]] = c.sql
        BY <3>2, <3>3, <3>5, <3>6, <4>1, <4>2
      <4>. QED
        BY <2>3, <3>6, <4>3
    <3>7. CASE ~(i \in 1..Files(s) /\ Class(ms[i]) = "baseline")
      <4>1. ~\E m \in base : m.version = Versions[i]
        BY <3>2, <3>7
      <4>. QED
        BY <3>5, <3>7, <4>1
    <3>. QED
      BY <3>6, <3>7
  <2>7. todo \subseteq 1..Files(s) /\ DOMAIN led = DOMAIN ledger
    BY <2>3
  <2>8. \A i \in 1..Files(s) : i \in todo <=> Class(ms[i]) = "pending"
    BY <2>3
  <2>. HIDE DEF todo, led, base
  <2>9. \A i \in Index : Registered(ledger, i) => led[Versions[i]] = ledger[Versions[i]]
    BY <2>4, <2>6
  <2>10. \A i \in Index : i > Files(s) => led[Versions[i]] = ledger[Versions[i]]
    <3>1. \A i \in Index : i > Files(s) => i \notin 1..Files(s)
      BY EmbeddedIs DEF Index
    <3>. QED
      BY <2>6, <3>1
  <2>11. \A i \in 1..Files(s) : i \in todo \/ led[Versions[i]] = Text(s, i)
    <3>. SUFFICES ASSUME NEW i \in 1..Files(s) PROVE i \in todo \/ led[Versions[i]] = Text(s, i)
      OBVIOUS
    <3>1. i \in Index
      BY <2>3
    <3>2. CASE Class(ms[i]) = "registered"
      BY <2>4, <2>6, <3>1, <3>2
    <3>3. CASE Class(ms[i]) = "baseline"
      BY <2>6, <3>1, <3>3
    <3>. QED
      BY <2>4, <2>8, <3>2, <3>3
  <2>12. \A j \in todo, i \in Index : Registered(led, i) => i < j
    <3>. SUFFICES ASSUME NEW j \in todo, NEW i \in Index, Registered(led, i) PROVE i < j
      OBVIOUS
    <3>1. j \in 1..Files(s) /\ j \in Index /\ j \in Nat /\ i \in Nat /\ Class(ms[j]) = "pending"
          /\ ~Registered(ledger, j)
      <4>1. j \in 1..Files(s)
        BY <2>7
      <4>2. Class(ms[j]) = "pending"
        BY <2>8, <4>1
      <4>3. i \in Nat
        BY MigrationAssumption DEF Index
      <4>. QED
        BY <2>3, <2>4, <4>1, <4>2, <4>3
    <3>2. CASE Registered(ledger, i)
      <4>1. ~(j < i) /\ i # j
        BY <3>1, <3>2 DEF MigrationInv, InOrder
      <4>. QED
        BY <3>1, <4>1
    <3>3. CASE ~Registered(ledger, i)
      <4>1. i \in 1..Files(s) /\ Class(ms[i]) = "baseline"
        BY <2>6, <3>3 DEF Registered
      <4>2. ~(j < i) /\ i # j
        BY <2>5, <3>1, <4>1
      <4>. QED
        BY <3>1, <4>2
    <3>. QED
      BY <3>2, <3>3
  <2>13. Applied(schema, led)
    <3>. SUFFICES ASSUME NEW i \in Index, NEW o \in Declared({FileOf(led, i)}), Registered(led, i),
                         ~\E j \in Index : Registered(led, j) /\ j > i /\ o \in Statements(FileOf(led, j), "drop")
                  PROVE  o \in schema
      BY AppliedIs
    <3>1. CASE Registered(ledger, i)
      <4>1. \A j \in Index : Registered(ledger, j) => Registered(led, j) /\ FileOf(led, j) = FileOf(ledger, j)
        BY <2>9 DEF Registered, FileOf
      <4>2. o \in Declared({FileOf(ledger, i)})
        BY <3>1, <4>1
      <4>3. ~\E j \in Index : Registered(ledger, j) /\ j > i /\ o \in Statements(FileOf(ledger, j), "drop")
        BY <4>1
      <4>4. Applied(schema, ledger)
        BY DEF MigrationInv
      <4>. QED
        BY <3>1, <4>2, <4>3, <4>4, AppliedIs
    <3>2. CASE ~Registered(ledger, i)
      <4>1. i \in 1..Files(s) /\ Class(ms[i]) = "baseline" /\ led[Versions[i]] = Text(s, i)
        BY <2>6, <3>2 DEF Registered
      <4>2. FileOf(led, i) = ms[i] /\ Declared({ms[i]}) \subseteq schema
        BY <2>3, <2>4, <4>1 DEF FileOf
      <4>. QED
        BY <4>2
    <3>. QED
      BY <3>1, <3>2
  <2>14. /\ DOMAIN w = {"by", "todo", "schema", "ledger"} /\ w.by = s
         /\ w.todo = todo /\ w.schema = schema /\ w.ledger = led
    OBVIOUS
  <2>. HIDE DEF w
  <2>15. WorkOK(s, w, schema, ledger)
    BY <2>7, <2>9, <2>10, <2>11, <2>12, <2>13, <2>14 DEF WorkOK
  <2>. QED
    BY <1>2, <2>1, <2>2, <2>14, <2>15 DEF MigrationInv
<1>. QED
  BY <1>3, <1>4

LEMMA RecordSteps ==
    ASSUME NEW w, DOMAIN w = {"by", "todo", "schema", "ledger"}, NEW todo, NEW db, NEW led, NEW v,
           NEW next, next = [w EXCEPT !.todo = todo, !.schema = db, !.ledger[v] = led]
    PROVE  /\ DOMAIN next = {"by", "todo", "schema", "ledger"} /\ next.by = w.by /\ next.todo = todo
           /\ next.schema = db /\ next.ledger = [w.ledger EXCEPT ![v] = led]
  OBVIOUS

LEMMA ApplyKeepsInv == ASSUME MigrationInv, NEW s \in Servers, Apply(s) PROVE MigrationInv'
<1>1. PICK w, n, m : w = work /\ n = Min(w.todo) /\ m = Embedded(s)[n]
  OBVIOUS
<1>2. /\ w.by = s /\ w.todo # {} /\ s # "none" /\ UNCHANGED <<schema, ledger>>
      /\ WorkOK(s, w, schema, ledger) /\ server[s] = "applying"
  BY <1>1, MigrationAssumption DEF Apply, MigrationInv
<1>3. CASE Fails(w.schema, m)
  <2>1. server' = [server EXCEPT ![s] = "refused"] /\ work' = NoWork
    BY <1>1, <1>3 DEF Apply
  <2>2. EachIsRegistered'
    BY <1>2, <2>1 DEF MigrationInv, EachIsRegistered, Embedded
  <2>. QED
    BY <1>2, <2>1, <2>2 DEF MigrationInv, NoWork
<1>4. CASE ~Fails(w.schema, m)
  <2>1. n \in w.todo /\ \A j \in w.todo : n <= j
    <3>1. Files(s) \in Nat /\ w.todo \subseteq 1..Files(s)
      BY <1>2, EmbeddedIs DEF WorkOK
    <3>. QED
      BY <1>1, <1>2, <3>1, LeastOf
  <2>2. /\ n \in 1..Files(s) /\ n \in Index /\ m = [version |-> Versions[n], sql |-> Text(s, n)]
        /\ m.version = Versions[n] /\ m.sql = Text(s, n) /\ Text(s, n) # <<>>
    <3>1. n \in 1..Files(s)
      BY <1>2, <2>1 DEF WorkOK
    <3>. QED
      BY <1>1, <3>1, EmbeddedIs
  <2>3. PICK todo, db, text : todo = w.todo \ {n} /\ db = Execute(w.schema, m) /\ text = m.sql
    OBVIOUS
  <2>4. PICK next : next = [w EXCEPT !.todo = todo, !.schema = db, !.ledger[Versions[n]] = text]
    OBVIOUS
  <2>5. work' = next /\ server' = server
    BY <1>1, <1>4, <2>2, <2>3, <2>4 DEF Apply
  <2>6. DOMAIN w = {"by", "todo", "schema", "ledger"} /\ DOMAIN w.ledger = {Versions[i] : i \in Index}
    BY <1>2 DEF WorkOK, MigrationInv
  <2>7. /\ DOMAIN next = {"by", "todo", "schema", "ledger"} /\ next.by = s /\ next.todo = todo
        /\ next.schema = db /\ next.ledger = [w.ledger EXCEPT ![Versions[n]] = text]
    BY <1>2, <2>4, <2>6, RecordSteps
  <2>8. /\ DOMAIN next.ledger = DOMAIN ledger /\ next.ledger[Versions[n]] = Text(s, n)
        /\ \A i \in Index : i # n => next.ledger[Versions[i]] = w.ledger[Versions[i]]
    BY <2>2, <2>3, <2>6, <2>7, MigrationAssumption DEF Index, MigrationInv
  <2>9. ~Registered(w.ledger, n) /\ \A i \in Index : Registered(w.ledger, i) => i < n
    BY <1>2, <2>1, <2>2, MigrationAssumption DEF WorkOK, Index
  <2>10. Applied(next.schema, next.ledger)
    BY <1>2, <2>2, <2>3, <2>6, <2>7, <2>9, NextApplied DEF WorkOK
  <2>11. \A i \in Index : Registered(ledger, i) => next.ledger[Versions[i]] = ledger[Versions[i]]
    BY <1>2, <2>8, <2>9 DEF WorkOK, Registered
  <2>12. \A i \in Index : i > Files(s) => next.ledger[Versions[i]] = ledger[Versions[i]]
    <3>1. ~(n > Files(s))
      BY <2>2, EmbeddedIs
    <3>. QED
      BY <1>2, <2>8, <3>1 DEF WorkOK
  <2>13. \A i \in 1..Files(s) : i \in todo \/ next.ledger[Versions[i]] = Text(s, i)
    BY <1>2, <2>3, <2>8, EmbeddedIs DEF WorkOK
  <2>14. \A j \in todo, i \in Index : Registered(next.ledger, i) => i < j
    <3>. SUFFICES ASSUME NEW j \in todo, NEW i \in Index, Registered(next.ledger, i) PROVE i < j
      OBVIOUS
    <3>1. j \in w.todo /\ j # n /\ n <= j
      BY <2>1, <2>3
    <3>2. j \in Nat /\ n \in Nat
      BY <1>2, <2>2, <3>1, EmbeddedIs DEF WorkOK
    <3>3. CASE i = n
      BY <3>1, <3>2, <3>3
    <3>4. CASE i # n
      BY <1>2, <2>8, <3>1, <3>4 DEF WorkOK, Registered
    <3>. QED
      BY <3>3, <3>4
  <2>15. todo \subseteq 1..Files(s)
    BY <1>2, <2>3 DEF WorkOK
  <2>16. WorkOK(s, next, schema, ledger)
    BY <2>7, <2>8, <2>10, <2>11, <2>12, <2>13, <2>14, <2>15 DEF WorkOK
  <2>17. EachIsRegistered'
    BY <1>2, <2>5 DEF MigrationInv, EachIsRegistered, Embedded
  <2>. QED
    BY <1>2, <2>5, <2>7, <2>16, <2>17 DEF MigrationInv
<1>. QED
  BY <1>3, <1>4

\* A process that commits serves on what it registered and applied.
LEMMA CommitKeepsInv == ASSUME MigrationInv, NEW s \in Servers, Commit(s) PROVE MigrationInv'
<1>1. /\ work.by = s /\ work.todo = {} /\ schema' = work.schema /\ ledger' = work.ledger
      /\ server' = [server EXCEPT ![s] = "serving"] /\ work' = NoWork
  BY DEF Commit
<1>2. WorkOK(s, work, schema, ledger)
  BY <1>1, MigrationAssumption DEF MigrationInv
<1>3. \A i \in 1..Files(s) : ledger'[Versions[i]] = Text(s, i)
  BY <1>1, <1>2 DEF WorkOK
<1>4. InOrder(ledger')
  <2>. SUFFICES ASSUME NEW i \in Index, NEW j \in Index, i < j, Registered(ledger', j)
                PROVE  Registered(ledger', i)
    BY DEF InOrder
  <2>1. i \in Nat /\ j \in Nat /\ i >= 1 /\ Files(s) \in Nat
    BY EmbeddedIs, MigrationAssumption DEF Index
  <2>2. CASE i <= Files(s)
    <3>1. i \in 1..Files(s)
      BY <2>1, <2>2
    <3>. QED
      <4>1. Text(s, i) # <<>>
        BY <3>1, EmbeddedIs
      <4>. QED
        BY <1>3, <3>1, <4>1 DEF Registered
  <2>3. CASE ~(i <= Files(s))
    <3>1. i > Files(s) /\ j > Files(s)
      BY <2>1, <2>3
    <3>2. ledger'[Versions[i]] = ledger[Versions[i]] /\ ledger'[Versions[j]] = ledger[Versions[j]]
      BY <1>1, <1>2, <3>1 DEF WorkOK
    <3>. QED
      BY <3>2 DEF Registered, MigrationInv, InOrder
  <2>. QED
    BY <2>2, <2>3
<1>5. EachIsRegistered'
  <2>. SUFFICES ASSUME NEW t \in Servers, server'[t] = "serving", NEW i \in 1..Len(Embedded(t))
                PROVE  ledger'[Embedded(t)[i].version] = Embedded(t)[i].sql
    BY DEF EachIsRegistered, Embedded
  <2>1. i \in 1..Files(t) /\ i \in Index /\ Embedded(t)[i].version = Versions[i] /\ Embedded(t)[i].sql = Text(t, i)
        /\ Text(t, i) # <<>>
    BY EmbeddedIs
  <2>2. CASE t = s
    BY <1>3, <2>1, <2>2
  <2>3. CASE t # s
    <3>1. server[t] = "serving"
      BY <1>1, <2>3 DEF MigrationInv
    <3>2. ledger[Versions[i]] = Text(t, i)
      BY <2>1, <3>1 DEF MigrationInv, EachIsRegistered
    <3>. QED
      BY <1>1, <1>2, <2>1, <3>2 DEF WorkOK, Registered
  <2>. QED
    BY <2>2, <2>3
<1>6. DOMAIN ledger' = {Versions[i] : i \in Index} /\ Applied(schema', ledger')
  BY <1>1, <1>2 DEF WorkOK, MigrationInv
<1>. QED
  BY <1>1, <1>4, <1>5, <1>6 DEF MigrationInv, NoWork

\* A process that dies takes its transaction with it, and no other's.
LEMMA DeathKeepsInv == ASSUME MigrationInv, NEW s \in Servers, Crash(s) PROVE MigrationInv'
<1>1. server' = [server EXCEPT ![s] = "starting"] /\ UNCHANGED <<schema, ledger>>
  BY DEF Crash
<1>2. EachIsRegistered'
  BY <1>1 DEF MigrationInv, EachIsRegistered, Embedded
<1>3. CASE work.by = s
  BY <1>1, <1>2, <1>3 DEF Crash, MigrationInv, NoWork
<1>4. CASE work.by # s
  <2>1. work' = work
    BY <1>4 DEF Crash
  <2>. QED
    BY <1>1, <1>2, <1>4, <2>1 DEF MigrationInv
<1>. QED
  BY <1>3, <1>4

LEMMA MigrationStep == ASSUME MigrationInv, [MigrationNext]_miVars PROVE MigrationInv'
<1>1. CASE UNCHANGED miVars
  BY <1>1 DEF MigrationInv, EachIsRegistered, Embedded, miVars
<1>. QED
  BY <1>1, PlanKeepsInv, ApplyKeepsInv, CommitKeepsInv, DeathKeepsInv DEF MigrationNext

----------------------------------------------------------------------------
\* MigrateMigrations, for any files, releases and processes that start, die and
\* start again: a process serves only when each migration it embeds is registered
\* with the contents it was built with, and all that a registered migration
\* declares is there, but for what a later one dropped.
THEOREM ServesWhatItEmbeds == MigrationSpec => []ServesItsOwnSchema
<1>1. MigrationInit => MigrationInv
  BY MigrationInitInv
<1>2. MigrationInv /\ [MigrationNext]_miVars => MigrationInv'
  BY MigrationStep
<1>3. MigrationInv => ServesItsOwnSchema
  BY DEF MigrationInv, ServesItsOwnSchema
<1>. QED
  BY <1>1, <1>2, <1>3, PTL DEF MigrationSpec

----------------------------------------------------------------------------
(***************************************************************************)
(* FuturesRuns: one execution of a run, one ending, and a cancellation is  *)
(* the last word, for any runs, users and executions.  Nothing in the code *)
(* says that two executions never meet at a run: it follows from there     *)
(* being no way back into the queue.  A user, the maintenance and a worker *)
(* that lost its lease all write to a row; what they may do to it is       *)
(* RowMoves, and the executions only rely on that.                         *)
(***************************************************************************)
FRow == [status : {"none"} \cup FActive \cup FDone, lease : {"none", "live", "expired"}, due : BOOLEAN,
         cancel : BOOLEAN, snapshot : BOOLEAN, report : BOOLEAN, deleted : BOOLEAN]
Busy == {"claimed", "posted", "complete", "acknowledge", "fail"}
BusyRow == [pc : Busy, run : FRuns, renewing : BOOLEAN]
ExecRow == {Free} \cup BusyRow

FRunTyped ==
    /\ frun \in [FRuns -> FRow]
    /\ exec \in [Executions -> ExecRow]

\* Who has left the queue does not come back: a claim finds nobody else at its run.
Claimed ==
    /\ \A x \in Executions : exec[x] # Free => frun[exec[x].run].status \notin {"none", "queued"}
    /\ \A x, y \in Executions : exec[x] # Free /\ exec[y] # Free /\ exec[x].run = exec[y].run => x = y

\* What is about to be completed was frozen before.
Frozen ==
    /\ \A x \in Executions : exec[x].pc \in {"posted", "complete"} => frun[exec[x].run].snapshot
    /\ \A r \in FRuns : frun[r].report => frun[r].snapshot

\* A canceled run is on its way to `canceled` or there; nobody is told of a run before it ends.
Ending ==
    \A r \in FRuns :
        /\ frun[r].cancel => frun[r].status \in {"canceling", "canceled"}
        /\ <<r, "run_succeeded">> \in told => frun[r].status = "succeeded"
        /\ <<r, "run_failed">> \in told => frun[r].status = "failed"

FRunInv == FRunTyped /\ Claimed /\ Frozen /\ Ending

\* How a row may change for those who work on its run.
RowMoves(o, n) ==
    /\ n \in FRow
    /\ o.status \notin {"none", "queued"} => n.status \notin {"none", "queued"}
    /\ o.status # "none" /\ o.snapshot => n.snapshot
    /\ n.report => n.snapshot
    /\ n.cancel => n.status \in {"canceling", "canceled"}
    /\ o.cancel => n.status \in {o.status, "canceled"}
    /\ o.status \in FDone => n.status = o.status

\* No run, no execution, nobody told.
LEMMA FRunInitInv == FRunInit => FRunInv
<1> SUFFICES ASSUME FRunInit PROVE FRunInv
  OBVIOUS
<1>1. NoRun \in FRow /\ ~NoRun.report /\ ~NoRun.cancel
  BY DEF NoRun, FRow
<1>2. FRunTyped
  BY <1>1 DEF FRunInit, FRunTyped, ExecRow
<1>. QED
  BY <1>1, <1>2 DEF FRunInit, FRunInv, Claimed, Frozen, Ending, Free

\* A row that does not change has moved.
LEMMA RowStays == ASSUME FRunInv, NEW r \in FRuns PROVE RowMoves(frun[r], frun[r])
BY DEF FRunInv, FRunTyped, Frozen, Ending, RowMoves

\* A step on one row, as the record it leaves.
LEMMA OneRowMoves ==
    ASSUME FRunInv, NEW r \in FRuns, NEW n, RowMoves(frun[r], n), frun' = [frun EXCEPT ![r] = n]
    PROVE  /\ frun' \in [FRuns -> FRow] /\ frun'[r] = n
           /\ \A q \in FRuns : q # r => frun'[q] = frun[q]
           /\ \A q \in FRuns : RowMoves(frun[q], frun'[q])
<1>1. frun \in [FRuns -> FRow] /\ n \in FRow
  BY DEF FRunInv, FRunTyped, RowMoves
<1>2. frun' \in [FRuns -> FRow] /\ frun'[r] = n /\ \A q \in FRuns : q # r => frun'[q] = frun[q]
  BY <1>1
<1>. QED
  BY <1>2, RowStays

\* What the rows owe to how they move, whoever works on them.
LEMMA RowsKeep ==
    ASSUME FRunInv, \A q \in FRuns : RowMoves(frun[q], frun'[q]), frun' \in [FRuns -> FRow]
    PROVE  /\ \A q \in FRuns : frun'[q].report => frun'[q].snapshot
           /\ \A q \in FRuns : frun'[q].cancel => frun'[q].status \in {"canceling", "canceled"}
           /\ \A q \in FRuns : <<q, "run_succeeded">> \in told => frun'[q].status = "succeeded"
           /\ \A q \in FRuns : <<q, "run_failed">> \in told => frun'[q].status = "failed"
BY DEF FRunInv, RowMoves, Ending, FDone

\* The rows move and every execution stays where it is, goes on with its run, or ends.
LEMMA ExecutionsKeep ==
    ASSUME FRunInv, \A q \in FRuns : RowMoves(frun[q], frun'[q]), frun' \in [FRuns -> FRow],
           exec' \in [Executions -> ExecRow],
           \A x \in Executions :
              \/ exec'[x] = exec[x] \/ exec'[x] = Free
              \/ /\ exec[x] # Free /\ exec'[x] # Free /\ exec'[x].run = exec[x].run
                 /\ exec'[x] \in BusyRow
                 /\ exec'[x].pc \in {"posted", "complete"} => frun'[exec'[x].run].snapshot,
           \A q \in FRuns : <<q, "run_succeeded">> \in told' => frun'[q].status = "succeeded",
           \A q \in FRuns : <<q, "run_failed">> \in told' => frun'[q].status = "failed"
    PROVE  FRunInv'
<1>1. FRunTyped'
  BY DEF FRunInv, FRunTyped
<1>2. \A x \in Executions : exec[x] # Free => exec[x].run \in FRuns
  BY DEF FRunInv, FRunTyped, ExecRow, BusyRow
<1>3. \A x \in Executions : exec'[x] # Free => exec[x] # Free /\ exec'[x].run = exec[x].run
  OBVIOUS
<1>4. Claimed'
  <2>1. ASSUME NEW x \in Executions, exec'[x] # Free PROVE frun'[exec'[x].run].status \notin {"none", "queued"}
    <3>1. exec[x].run \in FRuns /\ exec'[x].run = exec[x].run /\ frun[exec[x].run].status \notin {"none", "queued"}
      BY <1>2, <1>3, <2>1 DEF FRunInv, Claimed
    <3>2. RowMoves(frun[exec[x].run], frun'[exec[x].run])
      BY <3>1
    <3>. QED
      BY <3>1, <3>2 DEF RowMoves
  <2>. QED
    BY <1>3, <2>1 DEF FRunInv, Claimed
<1>5. Frozen'
  <2>1. ASSUME NEW x \in Executions, exec'[x].pc \in {"posted", "complete"} PROVE frun'[exec'[x].run].snapshot
    <3>1. exec'[x] # Free
      BY <2>1 DEF Free
    <3>2. CASE exec'[x] = exec[x]
      <4>1. exec[x].run \in FRuns /\ frun[exec[x].run].snapshot /\ frun[exec[x].run].status # "none"
        BY <1>2, <2>1, <3>1, <3>2 DEF FRunInv, Frozen, Claimed
      <4>2. RowMoves(frun[exec[x].run], frun'[exec[x].run])
        BY <4>1
      <4>. QED
        BY <3>2, <4>1, <4>2 DEF RowMoves
    <3>. QED
      BY <2>1, <3>1, <3>2
  <2>. QED
    BY <2>1, RowsKeep DEF Frozen
<1>6. Ending'
  BY RowsKeep DEF Ending
<1>. QED
  BY <1>1, <1>4, <1>5, <1>6 DEF FRunInv

\* One execution goes on.
LEMMA OneGoesOn ==
    ASSUME FRunInv, NEW x \in Executions, NEW e \in ExecRow,
           exec' = [exec EXCEPT ![x] = e]
    PROVE  exec' \in [Executions -> ExecRow] /\ exec'[x] = e /\ \A y \in Executions : y # x => exec'[y] = exec[y]
BY DEF FRunInv, FRunTyped

\* Rows that move without the executions.
LEMMA OnlyRowsMove ==
    ASSUME FRunInv, \A q \in FRuns : RowMoves(frun[q], frun'[q]), frun' \in [FRuns -> FRow],
           UNCHANGED <<exec, told>>
    PROVE  FRunInv'
<1>1. exec' \in [Executions -> ExecRow]
  BY DEF FRunInv, FRunTyped
<1>2. /\ \A q \in FRuns : <<q, "run_succeeded">> \in told' => frun'[q].status = "succeeded"
      /\ \A q \in FRuns : <<q, "run_failed">> \in told' => frun'[q].status = "failed"
  BY RowsKeep
<1>. QED
  BY <1>1, <1>2, ExecutionsKeep

\* One row moves, the executions stay.
LEMMA OneRowAlone ==
    ASSUME FRunInv, NEW r \in FRuns, NEW n, RowMoves(frun[r], n), frun' = [frun EXCEPT ![r] = n],
           UNCHANGED <<exec, told>>
    PROVE  FRunInv'
BY OneRowMoves, OnlyRowsMove

\* CreateRun, CancelRun, DeleteRun and the clock.
LEMMA UserStep ==
    ASSUME FRunInv, NEW r \in FRuns,
           CreateRun(r) \/ CancelRun(r) \/ DeleteRun(r) \/ LeaseExpires(r) \/ DeadlinePasses(r)
    PROVE  FRunInv' /\ \A q \in FRuns : RowMoves(frun[q], frun'[q])
<1> DEFINE o == frun[r]
<1>1. frun \in [FRuns -> FRow] /\ o \in FRow /\ RowMoves(o, o)
  BY RowStays DEF FRunInv, FRunTyped
<1>2. CASE CreateRun(r)
  <2> DEFINE n == [NoRun EXCEPT !.status = "queued"]
  <2>1. o.status = "none" /\ frun' = [frun EXCEPT ![r] = n] /\ UNCHANGED <<exec, told>>
    BY <1>2 DEF CreateRun
  <2>2. ~o.cancel
    BY <2>1 DEF FRunInv, Ending
  <2>3. RowMoves(o, n)
    BY <2>1, <2>2 DEF RowMoves, FRow, NoRun, FActive, FDone
  <2>. QED
    BY <2>1, <2>3, OneRowAlone, OneRowMoves
<1>3. CASE CancelRun(r)
  <2>1. CASE o.status = "queued"
    <3> DEFINE n == [o EXCEPT !.status = "canceled", !.cancel = TRUE, !.lease = "none"]
    <3>1. frun' = [frun EXCEPT ![r] = n] /\ UNCHANGED <<exec, told>>
      BY <1>1, <1>3, <2>1 DEF CancelRun
    <3>2. RowMoves(o, n)
      BY <1>1, <2>1 DEF RowMoves, FRow, FActive, FDone
    <3>. QED
      BY <3>1, <3>2, OneRowAlone, OneRowMoves
  <2>2. CASE o.status # "queued"
    <3> DEFINE n == [o EXCEPT !.status = "canceling", !.cancel = TRUE]
    <3>1. frun' = [frun EXCEPT ![r] = n] /\ UNCHANGED <<exec, told>> /\ o.status = "running"
      BY <1>1, <1>3, <2>2 DEF CancelRun
    <3>2. RowMoves(o, n)
      BY <1>1, <3>1 DEF RowMoves, FRow, FActive, FDone
    <3>. QED
      BY <3>1, <3>2, OneRowAlone, OneRowMoves
  <2>. QED
    BY <2>1, <2>2
<1>4. CASE DeleteRun(r)
  <2> DEFINE n == [o EXCEPT !.deleted = TRUE]
  <2>1. frun' = [frun EXCEPT ![r] = n] /\ UNCHANGED <<exec, told>>
    BY <1>1, <1>4 DEF DeleteRun
  <2>2. RowMoves(o, n)
    BY <1>1 DEF RowMoves, FRow
  <2>. QED
    BY <2>1, <2>2, OneRowAlone, OneRowMoves
<1>5. CASE LeaseExpires(r)
  <2> DEFINE n == [o EXCEPT !.lease = "expired"]
  <2>1. frun' = [frun EXCEPT ![r] = n] /\ UNCHANGED <<exec, told>>
    BY <1>1, <1>5 DEF LeaseExpires
  <2>2. RowMoves(o, n)
    BY <1>1 DEF RowMoves, FRow
  <2>. QED
    BY <2>1, <2>2, OneRowAlone, OneRowMoves
<1>6. CASE DeadlinePasses(r)
  <2> DEFINE n == [o EXCEPT !.due = TRUE]
  <2>1. frun' = [frun EXCEPT ![r] = n] /\ UNCHANGED <<exec, told>>
    BY <1>1, <1>6 DEF DeadlinePasses
  <2>2. RowMoves(o, n)
    BY <1>1 DEF RowMoves, FRow
  <2>. QED
    BY <2>1, <2>2, OneRowAlone, OneRowMoves
<1>. QED
  BY <1>2, <1>3, <1>4, <1>5, <1>6

\* ClaimQueuedRun takes a run from the queue, where no execution is.
LEMMA ClaimStep ==
    ASSUME FRunInv, NEW x \in Executions, NEW r \in FRuns, ClaimQueuedRun(x, r)
    PROVE  FRunInv' /\ \A q \in FRuns : RowMoves(frun[q], frun'[q])
<1> DEFINE o == frun[r]
           n == [o EXCEPT !.status = "running", !.lease = "live", !.due = FALSE]
           e == [pc |-> "claimed", run |-> r, renewing |-> FALSE]
<1>1. /\ exec[x].pc = "free" /\ o.status = "queued" /\ UNCHANGED told
      /\ exec' = [exec EXCEPT ![x] = e]
  BY DEF ClaimQueuedRun, Queued
<1>2. frun \in [FRuns -> FRow] /\ o \in FRow /\ RowMoves(o, o)
  BY RowStays DEF FRunInv, FRunTyped
<1>3. frun' = [frun EXCEPT ![r] = n]
  BY <1>2 DEF ClaimQueuedRun
<1>4. ~o.cancel
  BY <1>1 DEF FRunInv, Ending
<1>5. RowMoves(o, n) /\ n.status = "running"
  BY <1>1, <1>2, <1>4 DEF RowMoves, FRow, FActive, FDone
<1>6. /\ frun' \in [FRuns -> FRow] /\ frun'[r] = n
      /\ \A q \in FRuns : RowMoves(frun[q], frun'[q])
  BY <1>3, <1>5, OneRowMoves
<1>7. e.run = r /\ e.pc = "claimed" /\ e # Free /\ e \in BusyRow /\ e \in ExecRow
  BY DEF Busy, BusyRow, ExecRow, Free
<1>8. exec' \in [Executions -> ExecRow] /\ exec'[x] = e /\ \A y \in Executions : y # x => exec'[y] = exec[y]
  BY <1>1, <1>7, OneGoesOn
<1>9. \A y \in Executions : exec[y] # Free => exec[y].run \in FRuns /\ exec[y].run # r
  BY <1>1 DEF FRunInv, FRunTyped, ExecRow, BusyRow, Claimed
<1>10. FRunTyped'
  BY <1>6, <1>7, <1>8 DEF FRunInv, FRunTyped
<1>11. Claimed'
  <2>1. ASSUME NEW y \in Executions, exec'[y] # Free PROVE frun'[exec'[y].run].status \notin {"none", "queued"}
    <3>1. CASE y = x
      BY <1>5, <1>6, <1>7, <1>8, <3>1
    <3>2. CASE y # x
      <4>1. exec[y] # Free /\ exec'[y] = exec[y] /\ exec[y].run \in FRuns
        BY <1>8, <1>9, <2>1, <3>2
      <4>2. frun[exec[y].run].status \notin {"none", "queued"} /\ RowMoves(frun[exec[y].run], frun'[exec[y].run])
        BY <1>6, <4>1 DEF FRunInv, Claimed
      <4>. QED
        BY <4>1, <4>2 DEF RowMoves
    <3>. QED
      BY <3>1, <3>2
  <2>2. ASSUME NEW y \in Executions, NEW z \in Executions, exec'[y] # Free, exec'[z] # Free, exec'[y].run = exec'[z].run
        PROVE  y = z
    BY <1>7, <1>8, <1>9, <2>2 DEF FRunInv, Claimed
  <2>. QED
    BY <2>1, <2>2 DEF Claimed
<1>12. Frozen'
  <2>1. ASSUME NEW y \in Executions, exec'[y].pc \in {"posted", "complete"} PROVE frun'[exec'[y].run].snapshot
    <3>1. y # x /\ exec'[y] = exec[y]
      BY <1>7, <1>8, <2>1
    <3>2. exec[y] # Free
      BY <2>1, <3>1 DEF Free
    <3>3. /\ frun[exec[y].run].snapshot /\ frun[exec[y].run].status # "none"
          /\ RowMoves(frun[exec[y].run], frun'[exec[y].run])
      BY <1>6, <1>9, <2>1, <3>1, <3>2 DEF FRunInv, Frozen, Claimed
    <3>. QED
      BY <3>1, <3>3 DEF RowMoves
  <2>. QED
    BY <1>6, <2>1, RowsKeep DEF Frozen
<1>13. Ending'
  BY <1>1, <1>6, RowsKeep DEF Ending
<1>. QED
  BY <1>6, <1>10, <1>11, <1>12, <1>13 DEF FRunInv

\* An execution takes a step and its row moves or stays.
LEMMA ExecutionStep ==
    ASSUME FRunInv, NEW x \in Executions, exec[x] # Free, NEW e, NEW n,
           exec' = [exec EXCEPT ![x] = e], frun' = [frun EXCEPT ![exec[x].run] = n],
           RowMoves(frun[exec[x].run], n),
           \/ e = Free
           \/ /\ e \in BusyRow /\ e.run = exec[x].run
              /\ e.pc \in {"posted", "complete"} => n.snapshot,
           \/ told' = told
           \/ told' = told \cup {<<exec[x].run, "run_succeeded">>} /\ n.status = "succeeded"
           \/ told' = told \cup {<<exec[x].run, "run_failed">>} /\ n.status = "failed"
    PROVE  FRunInv' /\ \A q \in FRuns : RowMoves(frun[q], frun'[q])
<1>1. exec[x].run \in FRuns /\ e \in ExecRow
  BY DEF FRunInv, FRunTyped, ExecRow, BusyRow
<1>2. /\ frun' \in [FRuns -> FRow] /\ frun'[exec[x].run] = n
      /\ \A q \in FRuns : q # exec[x].run => frun'[q] = frun[q]
      /\ \A q \in FRuns : RowMoves(frun[q], frun'[q])
  BY <1>1, OneRowMoves
<1>3. exec' \in [Executions -> ExecRow] /\ exec'[x] = e /\ \A y \in Executions : y # x => exec'[y] = exec[y]
  BY <1>1, OneGoesOn
<1>4. /\ \A q \in FRuns : <<q, "run_succeeded">> \in told' => frun'[q].status = "succeeded"
      /\ \A q \in FRuns : <<q, "run_failed">> \in told' => frun'[q].status = "failed"
  BY <1>2, RowsKeep
<1>5. \A y \in Executions :
         \/ exec'[y] = exec[y] \/ exec'[y] = Free
         \/ /\ exec[y] # Free /\ exec'[y] # Free /\ exec'[y].run = exec[y].run
            /\ exec'[y] \in BusyRow
            /\ exec'[y].pc \in {"posted", "complete"} => frun'[exec'[y].run].snapshot
  BY <1>2, <1>3
<1>. QED
  BY <1>2, <1>3, <1>4, <1>5, ExecutionsKeep

\* ExecuteRun, from the claim to the ending it reports or gives up.
LEMMA WorkStep ==
    ASSUME FRunInv, NEW x \in Executions,
           \/ FreezeAndPost(x) \/ RefuseToStart(x) \/ RenewRunLease(x) \/ WorkerAnswers(x)
           \/ CompleteRun(x) \/ AcknowledgeCanceledRun(x) \/ FailRun(x)
    PROVE  FRunInv' /\ \A q \in FRuns : RowMoves(frun[q], frun'[q])
<1> DEFINE r == exec[x].run
           o == frun[r]
<1>0. exec[x].pc # "free"
  BY DEF FreezeAndPost, RefuseToStart, RenewRunLease, WorkerAnswers, CompleteRun, AcknowledgeCanceledRun, FailRun
<1>1. exec[x] # Free /\ exec[x] \in BusyRow /\ r \in FRuns /\ DOMAIN exec = Executions
  BY <1>0 DEF FRunInv, FRunTyped, ExecRow, BusyRow, Free
<1>2. frun \in [FRuns -> FRow] /\ o \in FRow /\ RowMoves(o, o) /\ frun = [frun EXCEPT ![r] = o]
  BY <1>1, RowStays DEF FRunInv, FRunTyped
<1>3. exec[x].pc \in {"posted", "complete"} => o.snapshot
  BY DEF FRunInv, Frozen
<1>4. o.cancel => o.status \in {"canceling", "canceled"}
  BY <1>1 DEF FRunInv, Ending
<1>5. CASE FreezeAndPost(x)
  <2>1. CASE Live(r)
    <3> DEFINE n == [o EXCEPT !.snapshot = TRUE]
               e == [exec[x] EXCEPT !.pc = "posted", !.renewing = TRUE]
    <3>1. frun' = [frun EXCEPT ![r] = n] /\ exec' = [exec EXCEPT ![x] = e] /\ told' = told
      BY <1>1, <1>2, <1>5, <2>1 DEF FreezeAndPost
    <3>2. RowMoves(o, n) /\ n.snapshot
      BY <1>2 DEF RowMoves, FRow
    <3>3. e \in BusyRow /\ e.run = r
      BY <1>1 DEF Busy, BusyRow
    <3>. HIDE DEF n, e
    <3>. QED
      BY <1>1, <3>1, <3>2, <3>3, ExecutionStep
  <2>2. CASE ~Live(r)
    <3> DEFINE e == [exec[x] EXCEPT !.pc = "acknowledge"]
    <3>1. frun' = [frun EXCEPT ![r] = o] /\ exec' = [exec EXCEPT ![x] = e] /\ told' = told
      BY <1>1, <1>2, <1>5, <2>2 DEF FreezeAndPost
    <3>2. e \in BusyRow /\ e.run = r /\ e.pc = "acknowledge"
      BY <1>1 DEF Busy, BusyRow
    <3>. HIDE DEF e
    <3>. QED
      BY <1>1, <1>2, <3>1, <3>2, ExecutionStep
  <2>. QED
    BY <2>1, <2>2
<1>6. CASE RefuseToStart(x)
  <2> DEFINE e == [exec[x] EXCEPT !.pc = "acknowledge"]
  <2>1. frun' = [frun EXCEPT ![r] = o] /\ exec' = [exec EXCEPT ![x] = e] /\ told' = told
    BY <1>1, <1>2, <1>6 DEF RefuseToStart
  <2>2. e \in BusyRow /\ e.run = r /\ e.pc = "acknowledge"
    BY <1>1 DEF Busy, BusyRow
  <2>. HIDE DEF e
  <2>. QED
    BY <1>1, <1>2, <2>1, <2>2, ExecutionStep
<1>7. CASE RenewRunLease(x)
  <2>1. CASE Renewable(r)
    <3> DEFINE n == [o EXCEPT !.lease = "live"]
    <3>1. frun' = [frun EXCEPT ![r] = n] /\ exec' = [exec EXCEPT ![x] = exec[x]] /\ told' = told
      BY <1>1, <1>2, <1>7, <2>1 DEF RenewRunLease, FRunInv, FRunTyped
    <3>2. RowMoves(o, n) /\ n.snapshot = o.snapshot
      BY <1>2 DEF RowMoves, FRow
    <3>. HIDE DEF n
    <3>. QED
      BY <1>1, <1>3, <3>1, <3>2, ExecutionStep
  <2>2. CASE ~Renewable(r)
    <3> DEFINE e == [exec[x] EXCEPT !.renewing = FALSE]
    <3>1. frun' = [frun EXCEPT ![r] = o] /\ exec' = [exec EXCEPT ![x] = e] /\ told' = told
      BY <1>1, <1>2, <1>7, <2>2 DEF RenewRunLease
    <3>2. e \in BusyRow /\ e.run = r /\ e.pc = exec[x].pc
      BY <1>1 DEF Busy, BusyRow
    <3>. HIDE DEF e
    <3>. QED
      BY <1>1, <1>2, <1>3, <3>1, <3>2, ExecutionStep
  <2>. QED
    BY <2>1, <2>2
<1>8. CASE WorkerAnswers(x)
  <2>1. PICK pc \in {"complete", "acknowledge"} : exec' = [exec EXCEPT ![x].pc = pc, ![x].renewing = FALSE]
    BY <1>8 DEF WorkerAnswers
  <2> DEFINE e == [exec[x] EXCEPT !.pc = pc, !.renewing = FALSE]
  <2>2. frun' = [frun EXCEPT ![r] = o] /\ exec' = [exec EXCEPT ![x] = e] /\ told' = told /\ exec[x].pc = "posted"
    BY <1>1, <1>2, <1>8, <2>1 DEF WorkerAnswers
  <2>3. e \in BusyRow /\ e.run = r
    BY <1>1 DEF Busy, BusyRow
  <2>. HIDE DEF e
  <2>. QED
    BY <1>1, <1>2, <1>3, <2>2, <2>3, ExecutionStep
<1>9. CASE CompleteRun(x)
  <2>1. CASE Completable(r)
    <3> DEFINE n == [o EXCEPT !.status = "succeeded", !.report = TRUE]
    <3>1. /\ frun' = [frun EXCEPT ![r] = n] /\ exec' = [exec EXCEPT ![x] = Free]
          /\ told' = told \cup {<<r, "run_succeeded">>} /\ exec[x].pc = "complete"
      BY <1>1, <1>2, <1>9, <2>1 DEF CompleteRun
    <3>2. RowMoves(o, n) /\ n.status = "succeeded"
      BY <1>2, <1>3, <2>1, <3>1 DEF RowMoves, FRow, FDone, Completable
    <3>. HIDE DEF n
    <3>. QED
      BY <1>1, <3>1, <3>2, ExecutionStep
  <2>2. CASE ~Completable(r)
    <3> DEFINE e == [exec[x] EXCEPT !.pc = "acknowledge"]
    <3>1. frun' = [frun EXCEPT ![r] = o] /\ exec' = [exec EXCEPT ![x] = e] /\ told' = told
      BY <1>1, <1>2, <1>9, <2>2 DEF CompleteRun
    <3>2. e \in BusyRow /\ e.run = r /\ e.pc = "acknowledge"
      BY <1>1 DEF Busy, BusyRow
    <3>. HIDE DEF e
    <3>. QED
      BY <1>1, <1>2, <3>1, <3>2, ExecutionStep
  <2>. QED
    BY <2>1, <2>2
<1>10. CASE AcknowledgeCanceledRun(x)
  <2>1. CASE Live(r) /\ o.status = "canceling"
    <3> DEFINE n == [o EXCEPT !.status = "canceled", !.lease = "none"]
    <3>1. frun' = [frun EXCEPT ![r] = n] /\ exec' = [exec EXCEPT ![x] = Free] /\ told' = told
      BY <1>1, <1>2, <1>10, <2>1 DEF AcknowledgeCanceledRun
    <3>2. RowMoves(o, n)
      BY <1>2, <2>1 DEF RowMoves, FRow, FDone
    <3>. HIDE DEF n
    <3>. QED
      BY <1>1, <3>1, <3>2, ExecutionStep
  <2>2. CASE ~(Live(r) /\ o.status = "canceling")
    <3> DEFINE e == [exec[x] EXCEPT !.pc = "fail"]
    <3>1. frun' = [frun EXCEPT ![r] = o] /\ exec' = [exec EXCEPT ![x] = e] /\ told' = told
      BY <1>1, <1>2, <1>10, <2>2 DEF AcknowledgeCanceledRun
    <3>2. e \in BusyRow /\ e.run = r /\ e.pc = "fail"
      BY <1>1 DEF Busy, BusyRow
    <3>. HIDE DEF e
    <3>. QED
      BY <1>1, <1>2, <3>1, <3>2, ExecutionStep
  <2>. QED
    BY <2>1, <2>2
<1>11. CASE FailRun(x)
  <2>1. CASE Failable(r)
    <3> DEFINE n == [o EXCEPT !.status = "failed", !.lease = "none"]
    <3>1. /\ frun' = [frun EXCEPT ![r] = n] /\ exec' = [exec EXCEPT ![x] = Free]
          /\ told' = told \cup {<<r, "run_failed">>}
      BY <1>1, <1>2, <1>11, <2>1 DEF FailRun
    <3>2. RowMoves(o, n) /\ n.status = "failed"
      BY <1>2, <2>1 DEF RowMoves, FRow, FDone, Failable
    <3>. HIDE DEF n
    <3>. QED
      BY <1>1, <3>1, <3>2, ExecutionStep
  <2>2. CASE ~Failable(r)
    <3>1. frun' = [frun EXCEPT ![r] = o] /\ exec' = [exec EXCEPT ![x] = Free] /\ told' = told
      BY <1>1, <1>2, <1>11, <2>2 DEF FailRun
    <3>. QED
      BY <1>1, <1>2, <3>1, ExecutionStep
  <2>. QED
    BY <2>1, <2>2
<1>. QED
  BY <1>5, <1>6, <1>7, <1>8, <1>9, <1>10, <1>11

\* The maintenance ends rows of many runs at once, under whoever executes them.
LEMMA ExpiryStep ==
    ASSUME FRunInv, ExpireStaleRuns
    PROVE  FRunInv' /\ \A q \in FRuns : RowMoves(frun[q], frun'[q])
<1>1. frun \in [FRuns -> FRow] /\ UNCHANGED <<exec, told>>
  BY DEF FRunInv, FRunTyped, ExpireStaleRuns
<1>2. ASSUME NEW q \in FRuns PROVE RowMoves(frun[q], frun'[q])
  <2>1. CASE ~Stale(q)
    BY <1>1, <2>1, RowStays DEF ExpireStaleRuns
  <2>2. CASE Stale(q)
    <3>1. frun'[q] = [frun[q] EXCEPT !.lease = "none",
                        !.status = IF frun[q].status = "canceling" THEN "canceled" ELSE "failed"]
      BY <1>1, <2>2 DEF ExpireStaleRuns
    <3>2. frun[q].status \in FActive /\ frun[q] \in FRow /\ RowMoves(frun[q], frun[q])
      BY <1>1, <2>2, RowStays DEF Stale, FActive
    <3>. QED
      BY <3>1, <3>2 DEF RowMoves, FRow, FActive, FDone
  <2>. QED
    BY <2>1, <2>2
<1>3. frun' \in [FRuns -> FRow]
  BY <1>1, <1>2 DEF ExpireStaleRuns, RowMoves
<1>. QED
  BY <1>1, <1>2, <1>3, OnlyRowsMove

\* Every step keeps the invariant, and no row moves otherwise than RowMoves says.
LEMMA FRunStep ==
    ASSUME FRunInv, [FRunNext]_frVars
    PROVE  FRunInv' /\ \A q \in FRuns : RowMoves(frun[q], frun'[q])
<1>1. CASE UNCHANGED frVars
  BY <1>1, RowStays DEF frVars, FRunInv, FRunTyped, Claimed, Frozen, Ending
<1>2. CASE ServerStops
  <2>1. \A q \in FRuns : RowMoves(frun[q], frun'[q])
    BY <1>2, RowStays DEF ServerStops
  <2>2. frun' \in [FRuns -> FRow] /\ exec' \in [Executions -> ExecRow] /\ told' = told /\ \A x \in Executions : exec'[x] = Free
    BY <1>2 DEF ServerStops, FRunInv, FRunTyped, ExecRow
  <2>3. /\ \A q \in FRuns : <<q, "run_succeeded">> \in told' => frun'[q].status = "succeeded"
        /\ \A q \in FRuns : <<q, "run_failed">> \in told' => frun'[q].status = "failed"
    BY <2>1, <2>2, RowsKeep
  <2>. QED
    BY <2>1, <2>2, <2>3, ExecutionsKeep
<1>. QED
  BY <1>1, <1>2, UserStep, ClaimStep, WorkStep, ExpiryStep DEF FRunNext

\* The invariant of the runs and their executions.
LEMMA FRunInvariance == FRunSpec => []FRunInv
<1>1. FRunInv /\ [FRunNext]_frVars => FRunInv'
  BY FRunStep
<1>. QED
  BY <1>1, FRunInitInv, PTL DEF FRunSpec

\* StartRunScheduler, ExecuteRun, for any runs, users, executions and limits: no two
\* goroutines execute one run, whatever leases run out and servers stop; a report rests
\* on a frozen manifest; and a user is told one ending of a run, the one it came to.
THEOREM RunsOnce == FRunSpec => []ExecutesOnce
<1>1. FRunInv => ExecutesOnce
  BY DEF FRunInv, FRunTyped, Claimed, Frozen, Ending, ExecutesOnce, Free
<1>. QED
  BY <1>1, FRunInvariance, PTL

\* CancelRun, against late completions, late failures, the maintenance and deletions: a
\* canceled run ends canceled, and a finished run keeps its status.
THEOREM CancelIsFinal == FRunSpec => CanceledStaysCanceled
<1>1. FRunInv /\ [FRunNext]_frVars
        => [\A r \in FRuns :
              /\ frun[r].cancel => frun'[r].status \in {frun[r].status, "canceled"}
              /\ frun[r].status \in FDone => frun'[r].status = frun[r].status]_frVars
  BY FRunStep DEF RowMoves
<1>. QED
  BY <1>1, FRunInvariance, PTL DEF FRunSpec, CanceledStaysCanceled
============================================================================
