------------------------- MODULE ResearchAdmission -------------------------
(***************************************************************************)
(* From a claim draft to a queued run: ParseClaim, PatchClaim and          *)
(* CreateResearch of app/server/service/finance/research_service.go.       *)
(*                                                                         *)
(* CreateResearch is one transaction at READ COMMITTED, so each of its     *)
(* statements sees what had committed by then: the model has one action    *)
(* per statement that reads or locks, and the two row locks it takes, the  *)
(* draft's and the scheduler's, are variables.  Its inserts become visible *)
(* together, when it commits.  A run is named by the call that made it.    *)
(***************************************************************************)
EXTENDS Naturals, FiniteSets

CONSTANTS
    AdUsers,          \* users
    Drafts,           \* claim drafts that may be parsed
    DraftOwner,       \* the user of each draft
    Keys,             \* values of the header Idempotency-Key
    Calls,            \* calls of CreateResearch, each served once (a bound)
    MaxRevision,      \* revisions of a draft (a bound)
    AdActiveMax,      \* GlobalActiveMax
    DailyResearchMax, \* runs of a user per day
    NoCall            \* nobody holds the lock, no run

VARIABLES
    draft,       \* finance_claim_drafts
    created,     \* finance_research_runs, by the call that inserted them
    docRun,      \* run_id of the document that all drafts of a user refer to
    call,        \* local state of each call
    draftLock,   \* the call whose transaction holds the draft's row
    schedLock    \* the call whose transaction holds the row of finance_scheduler

adVars == <<draft, created, docRun, call, draftLock, schedLock>>

AbsentDraft == [revision |-> 0, scoped |-> FALSE, confirmed |-> NoCall]
AbsentRun   == [stored |-> FALSE, active |-> FALSE, deleted |-> FALSE, today |-> FALSE,
                user |-> CHOOSE u \in AdUsers : TRUE, key |-> CHOOSE k \in Keys : TRUE,
                draft |-> CHOOSE d \in Drafts : TRUE, revision |-> 0]
NewCall     == [pc |-> "new", user |-> AbsentRun.user, key |-> AbsentRun.key,
                draft |-> AbsentRun.draft, revision |-> 0, reply |-> NoCall]

AdmissionInit ==
    /\ draft     = [d \in Drafts |-> AbsentDraft]
    /\ created   = [c \in Calls |-> AbsentRun]
    /\ docRun    = [u \in AdUsers |-> NoCall]
    /\ call      = [c \in Calls |-> NewCall]
    /\ draftLock = [d \in Drafts |-> NoCall]
    /\ schedLock = NoCall

Stored == {r \in Calls : created[r].stored}

(* The runs that count against the limit of a user and against the global one. *)
ActiveOf(u)  == {r \in Stored : created[r].user = u /\ created[r].active /\ ~created[r].deleted}
ActiveRuns   == {r \in Stored : created[r].active /\ ~created[r].deleted}
TodayOf(u)   == {r \in Stored : created[r].user = u /\ created[r].today}

(* The unique index finance_research_runs_one_active and the unique pair   *)
(* (owner_id, idempotency_key).                                            *)
Violates(c) ==
    \E r \in Stored :
        /\ created[r].user = call[c].user
        /\ created[r].active \/ created[r].key = call[c].key

----------------------------------------------------------------------------
(* Drafts *)

ParseClaim(d) ==
    /\ draft[d].revision = 0
    /\ \E scoped \in BOOLEAN :
          draft' = [draft EXCEPT ![d] = [revision |-> 1, scoped |-> scoped, confirmed |-> NoCall]]
    /\ UNCHANGED <<created, docRun, call, draftLock, schedLock>>

Editable(d, revision) ==
    /\ draftLock[d] = NoCall
    /\ draft[d].confirmed = NoCall
    /\ draft[d].revision = revision

PatchClaim(d) ==
    /\ draft[d].revision \in 1..(MaxRevision - 1)
    /\ \E revision \in 1..MaxRevision : Editable(d, revision)
    /\ \E scoped \in {draft[d].scoped, TRUE} :
          draft' = [draft EXCEPT ![d].revision = @ + 1, ![d].scoped = scoped]
    /\ UNCHANGED <<created, docRun, call, draftLock, schedLock>>

----------------------------------------------------------------------------
(* CreateResearch *)

Started(c) ==
    /\ call[c].pc = "new"
    /\ \E u \in AdUsers, k \in Keys, d \in Drafts, rev \in 1..MaxRevision :
          call' = [call EXCEPT ![c] = [pc |-> "lookup", user |-> u, key |-> k, draft |-> d,
                                       revision |-> rev, reply |-> NoCall]]
    /\ UNCHANGED <<draft, created, docRun, draftLock, schedLock>>

(* Mutant: a rollback leaves the row of the scheduler locked. *)
ReleasedDraft(c) ==
    /\ draftLock' = [d \in Drafts |-> IF draftLock[d] = c THEN NoCall ELSE draftLock[d]]
    /\ schedLock' = schedLock

(* Commit and rollback both release the locks of the transaction. *)
Released(c) ==
    /\ draftLock' = [d \in Drafts |-> IF draftLock[d] = c THEN NoCall ELSE draftLock[d]]
    /\ schedLock' = IF schedLock = c THEN NoCall ELSE schedLock

Goes(c, pc) == call' = [call EXCEPT ![c].pc = pc]

Refused(c) ==
    /\ Goes(c, "refused")
    /\ Released(c)
    /\ UNCHANGED <<draft, created, docRun>>

SameRequest(r, c) == created[r].draft = call[c].draft /\ created[r].revision = call[c].revision

Keyed(c) == {r \in Stored : created[r].user = call[c].user /\ created[r].key = call[c].key}

Lookup(c) ==
    /\ call[c].pc = "lookup"
    /\ \/ \E r \in Keyed(c) :
             /\ SameRequest(r, c)
             /\ call' = [call EXCEPT ![c].pc = "answered", ![c].reply = r]
             /\ UNCHANGED <<draft, created, docRun, draftLock, schedLock>>
       \/ \E r \in Keyed(c) : ~SameRequest(r, c) /\ Refused(c)
       \/ /\ Keyed(c) = {}
          /\ Goes(c, "draft")
          /\ UNCHANGED <<draft, created, docRun, draftLock, schedLock>>

Confirmable(c, d) ==
    /\ DraftOwner[d] = call[c].user
    /\ draft[d].revision = call[c].revision
    /\ draft[d].confirmed = NoCall
    /\ draft[d].scoped

LockDraft(c) ==
    /\ call[c].pc = "draft"
    /\ LET d == call[c].draft IN
          /\ draftLock[d] = NoCall
          /\ \/ /\ Confirmable(c, d)
                /\ draftLock' = [draftLock EXCEPT ![d] = c]
                /\ Goes(c, "active")
                /\ UNCHANGED <<draft, created, docRun, schedLock>>
             \/ ~Confirmable(c, d) /\ Refused(c)

CountActive(c) ==
    /\ call[c].pc = "active"
    /\ \/ ActiveOf(call[c].user) # {} /\ Refused(c)
       \/ /\ ActiveOf(call[c].user) = {}
          /\ Goes(c, "scheduler")
          /\ UNCHANGED <<draft, created, docRun, draftLock, schedLock>>

RoomFor(u) ==
    /\ Cardinality(ActiveRuns) < AdActiveMax
    /\ Cardinality(TodayOf(u)) < DailyResearchMax

(* Mutant: the row of the scheduler is not locked. *)
NoSchedulerLock == TRUE

MayLockScheduler == schedLock = NoCall

(* The scheduler's row, then the global and the daily count under it. *)
LockScheduler(c) ==
    /\ call[c].pc = "scheduler"
    /\ MayLockScheduler
    /\ \/ /\ RoomFor(call[c].user)
          /\ schedLock' = c
          /\ Goes(c, "insert")
          /\ UNCHANGED <<draft, created, docRun, draftLock>>
       \/ ~RoomFor(call[c].user) /\ Refused(c)

(* After a unique violation the transaction is aborted, so that the second *)
(* lookup of the key fails and the answer is ACTIVE_RUN_EXISTS.            *)
Insert(c) ==
    /\ call[c].pc = "insert"
    /\ \/ Violates(c) /\ Refused(c)
       \/ /\ ~Violates(c)
          /\ created' = [created EXCEPT ![c] =
                [stored |-> TRUE, active |-> TRUE, deleted |-> FALSE, today |-> TRUE,
                 user |-> call[c].user, key |-> call[c].key,
                 draft |-> call[c].draft, revision |-> draft[call[c].draft].revision]]
          /\ draft'  = [draft EXCEPT ![call[c].draft].confirmed = c]
          /\ docRun' = [docRun EXCEPT ![call[c].user] = c]
          /\ call'   = [call EXCEPT ![c].pc = "answered", ![c].reply = c]
          /\ Released(c)

(* The client goes away or the server stops: the transaction rolls back. *)
Abort(c) == call[c].pc \notin {"new", "answered", "refused"} /\ Refused(c)

----------------------------------------------------------------------------
(* What the rest of the system does to a run: it ends (Publish, the        *)
(* worker, finalizeCancel), and DeleteResearch hides one that has ended.   *)
RunEnds(r) ==
    /\ created[r].active
    /\ created' = [created EXCEPT ![r].active = FALSE]
    /\ UNCHANGED <<draft, docRun, call, draftLock, schedLock>>

RunDeleted(r) ==
    /\ created[r].stored /\ ~created[r].active /\ ~created[r].deleted
    /\ created' = [created EXCEPT ![r].deleted = TRUE]
    /\ UNCHANGED <<draft, docRun, call, draftLock, schedLock>>

DayEnds ==
    /\ \E r \in Calls : created[r].today
    /\ created' = [r \in Calls |-> [created[r] EXCEPT !.today = FALSE]]
    /\ UNCHANGED <<draft, docRun, call, draftLock, schedLock>>

CreateResearch(c) ==
    Lookup(c) \/ LockDraft(c) \/ CountActive(c) \/ LockScheduler(c) \/ Insert(c)

AdmissionNext ==
    \/ \E d \in Drafts : ParseClaim(d) \/ PatchClaim(d)
    \/ \E c \in Calls : Started(c) \/ CreateResearch(c) \/ Abort(c)
    \/ \E r \in Calls : RunEnds(r) \/ RunDeleted(r)
    \/ DayEnds

AdmissionSpec == AdmissionInit /\ [][AdmissionNext]_adVars

----------------------------------------------------------------------------
(* What the user confirmed is what runs: a draft is confirmed by one run   *)
(* at most, the run holds the revision that its caller had seen, and no    *)
(* later PatchClaim changes the draft under it.                            *)
RunsWhatWasConfirmed ==
    \A r \in Stored :
        LET d == created[r].draft IN
            /\ draft[d].confirmed = r
            /\ created[r].revision = call[r].revision
            /\ draft[d].revision = created[r].revision
            /\ DraftOwner[d] = created[r].user

(* A successful answer names a run of this user, key and request, however  *)
(* often and from however many requests at once the key is sent.           *)
AnswerIsTheRun ==
    \A c \in Calls : call[c].pc = "answered" =>
        LET r == created[call[c].reply] IN
            /\ r.stored /\ r.user = call[c].user /\ r.key = call[c].key
            /\ r.draft = call[c].draft /\ r.revision = call[c].revision

(* GlobalActiveMax and DailyResearchMax hold under any interleaving of     *)
(* calls, and a deleted run does not give its place of the day back.       *)
WithinLimits ==
    /\ Cardinality(ActiveRuns) <= AdActiveMax
    /\ \A u \in AdUsers : Cardinality(TodayOf(u)) <= DailyResearchMax

(* The run that may still read the document of its draft is the one the    *)
(* document is bound to (DOCUMENT_ATTACHMENT_MISSING otherwise).           *)
ActiveRunHasItsDocument ==
    \A u \in AdUsers : \A r \in ActiveOf(u) : docRun[u] = r

(* No order of the two locks leaves calls waiting for each other: each     *)
(* call is answered or refused.                                            *)
EveryCallAnswered ==
    \A c \in Calls : call[c].pc = "lookup" ~> call[c].pc \in {"answered", "refused"}
============================================================================
