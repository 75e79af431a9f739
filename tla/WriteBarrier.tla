---------------------------- MODULE WriteBarrier ----------------------------
(***************************************************************************)
(* The write barrier of a backup (app/server/httpx/write_barrier.go): an   *)
(* RWMutex that Begin takes and End releases, the two variables active and *)
(* epoch beside it, and the row of finance_backup_epochs from which a      *)
(* restarted server closes the barrier again.  The middleware runs every   *)
(* mutating request under the read lock.  As in Go's RWMutex, a Lock that  *)
(* waits keeps new RLocks out.                                             *)
(***************************************************************************)
EXTENDS Naturals, Sequences

CONSTANTS
    Backups,    \* backups; the script uses an epoch for one Begin
    Writers,    \* mutating requests
    MaxReopens  \* restarts of the server (a bound)

VARIABLES
    epochRow,   \* finance_backup_epochs.status by epoch, "none" before the insert
    started,    \* the epochs inserted, by started_at
    active,     \* BackupBarrier.active
    current,    \* BackupBarrier.epoch, "" for none
    held,       \* the write lock is held
    begin,      \* the Begin call of each epoch
    write,      \* each mutating request
    acked,      \* epochs whose Begin was acknowledged and whose End was not
    reopens     \* restarts so far

wbVars == <<epochRow, started, active, current, held, begin, write, acked, reopens>>

None == ""

BarrierInit ==
    /\ epochRow = [e \in Backups |-> "none"] /\ started = <<>>
    /\ active = FALSE /\ current = None /\ held = FALSE
    /\ begin = [e \in Backups |-> "idle"]
    /\ write = [w \in Writers |-> "idle"]
    /\ acked = {} /\ reopens = 0

Readers == {w \in Writers : write[w] \in {"running", "refusing"}}

----------------------------------------------------------------------------
(* Begin: Lock, insert the row, answer with the lock held.  The branch     *)
(* "already active" is under the lock, which a backup holds throughout.    *)
BeginCall(e) ==
    /\ begin[e] = "idle"
    /\ begin' = [begin EXCEPT ![e] = "locking"]
    /\ UNCHANGED <<epochRow, started, active, current, held, write, acked, reopens>>

BeginLock(e) ==
    /\ begin[e] = "locking"
    /\ ~held /\ Readers = {}
    /\ IF active THEN held' = FALSE /\ begin' = [begin EXCEPT ![e] = "refused"]
                 ELSE held' = TRUE  /\ begin' = [begin EXCEPT ![e] = "inserting"]
    /\ UNCHANGED <<epochRow, started, active, current, write, acked, reopens>>

Inserted(e) == epochRow' = [epochRow EXCEPT ![e] = "active"] /\ started' = Append(started, e)

BeginInsert(e) ==
    /\ begin[e] = "inserting"
    /\ \/ /\ Inserted(e)
          /\ active' = TRUE /\ current' = e
          /\ begin' = [begin EXCEPT ![e] = "acknowledged"]
          /\ acked' = acked \cup {e}
          /\ UNCHANGED held
       \/ \* the insert fails, or commits and its answer is lost
          /\ Inserted(e) \/ UNCHANGED <<epochRow, started>>
          /\ held' = FALSE
          /\ begin' = [begin EXCEPT ![e] = "refused"]
          /\ UNCHANGED <<active, current, acked>>
    /\ UNCHANGED <<write, reopens>>

(* End looks at active and epoch without the lock; the UPDATE that finds   *)
(* the row still active releases the barrier.                              *)
EndsRow(e) == epochRow[e] = "active"

End(e, status) ==
    /\ active /\ current = e
    /\ EndsRow(e)
    /\ epochRow' = [epochRow EXCEPT ![e] = status]
    /\ active' = FALSE /\ current' = None /\ held' = FALSE
    /\ acked' = acked \ {e}
    /\ UNCHANGED <<started, begin, write, reopens>>

----------------------------------------------------------------------------
(* Middleware: a mutating request takes the read lock, then looks at       *)
(* active, and keeps the lock until its handler has returned.              *)
RLockable == ~held /\ \A e \in Backups : begin[e] # "locking"

Admits == ~active

WriteArrives(w) ==
    /\ write[w] = "idle"
    /\ write' = [write EXCEPT ![w] = "waiting"]
    /\ UNCHANGED <<epochRow, started, active, current, held, begin, acked, reopens>>

WriteEnters(w) ==
    /\ write[w] = "waiting"
    /\ RLockable
    /\ write' = [write EXCEPT ![w] = IF Admits THEN "running" ELSE "refusing"]
    /\ UNCHANGED <<epochRow, started, active, current, held, begin, acked, reopens>>

WriteReturns(w) ==
    /\ write[w] \in {"running", "refusing"}
    /\ write' = [write EXCEPT ![w] = IF write[w] = "running" THEN "done" ELSE "refused"]
    /\ UNCHANGED <<epochRow, started, active, current, held, begin, acked, reopens>>

(* Mutant: a restart does not look for the backup under way. *)
ReopenedNever == {}

(* A restart loses every call; NewBackupBarrier closes the barrier again   *)
(* for the active row that started last.  The callers whose answer is lost *)
(* give up.                                                                *)
Reopened == {i \in DOMAIN started : epochRow[started[i]] = "active"}

ServerRestarts ==
    /\ reopens < MaxReopens
    /\ reopens' = reopens + 1
    /\ IF Reopened # {}
         THEN /\ active' = TRUE /\ held' = TRUE
              /\ \E i \in Reopened : /\ \A k \in Reopened : k <= i
                                    /\ current' = started[i]
         ELSE active' = FALSE /\ current' = None /\ held' = FALSE
    /\ begin' = [e \in Backups |-> IF begin[e] \in {"locking", "inserting"} THEN "refused" ELSE begin[e]]
    /\ write' = [w \in Writers |-> IF write[w] \in {"waiting", "running", "refusing"} THEN "lost"
                                   ELSE write[w]]
    /\ UNCHANGED <<epochRow, started, acked>>

BarrierNext ==
    \/ \E e \in Backups : BeginCall(e) \/ BeginLock(e) \/ BeginInsert(e)
    \/ \E e \in Backups, s \in {"succeeded", "failed"} : End(e, s)
    \/ \E w \in Writers : WriteArrives(w) \/ WriteEnters(w) \/ WriteReturns(w)
    \/ ServerRestarts

BarrierSpec == BarrierInit /\ [][BarrierNext]_wbVars

----------------------------------------------------------------------------
(* Between the acknowledgement of Begin and the end of its epoch no        *)
(* mutating handler runs, a restart in between included: this is what the  *)
(* consistency of the dump rests on.                                       *)
NoWriteInBackup == acked # {} => \A w \in Writers : write[w] # "running"

(* As the test of the middleware has it: a mutating request that arrives   *)
(* during a backup is answered with 503 instead of being kept waiting.     *)
RefusedDuringBackup == \A w \in Writers : []<>(write[w] # "waiting")
============================================================================
